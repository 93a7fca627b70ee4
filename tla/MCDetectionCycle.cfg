SPECIFICATION Spec
CONSTANTS
    MaxClock = 3
    MaxOrdinal = 2
    RowsPerCycle = 2
    MaxMishaps = 1
    FaultSets = {{"commit"}, {"commit", "persist", "badrow"}, {"persist", "stepback"}, {"commit", "persist", "cursor", "crash"}}
INVARIANTS
    NoRowSkipped
    EvaluatedOnce
    FreshRowsStored
    
PROPERTIES
    RowsReached
CHECK_DEADLOCK FALSE
