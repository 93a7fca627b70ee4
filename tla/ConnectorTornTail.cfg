SPECIFICATION Spec
CONSTANTS
    RotateAt = 3
    MaxEvent = 3
    MaxBuffer = 2
    SignalCapacity = 1
    MaxCrash = 2
    FaultSets <- MCTornOnly
INVARIANT TornCostsOneEntry
CHECK_DEADLOCK FALSE
