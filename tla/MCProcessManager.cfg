SPECIFICATION Spec
CONSTANTS
    Callers = {"a"}
    MaxRestarts = 1
    MaxSpawn = 3
    FaultSets = {{}, {"nosignal"}, {"eperm"}, {"spawn", "slow"}}
INVARIANTS
    Tracked
    OneInstance
    
    RestartsBounded
    
PROPERTIES
    DeathNoticed
CHECK_DEADLOCK FALSE
