SPECIFICATION Spec
CONSTANTS
    RotateAt = 2
    MaxEvent = 4
    MaxBuffer = 4
    SignalCapacity = 2
    MaxCrash = 2
    FaultSets <- MCFaultSets
INVARIANTS
    TypeOK
    AtLeastOnce
    SignalsFollowBuffer
    ActiveFileKept
PROPERTIES
    Implements
CHECK_DEADLOCK FALSE
