SPECIFICATION SafetySpec
CONSTANTS
    MaxClock = 4
    MaxOrdinal = 2
    RowsPerCycle = 2
    MaxMishaps = 2
    FaultSets = {{"stepback", "crash"}}
INVARIANTS
    EveryRowEvaluated
CHECK_DEADLOCK FALSE
