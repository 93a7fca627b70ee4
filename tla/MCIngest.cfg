SPECIFICATION Spec
CONSTANTS
    procmond = procmond
    Collectors = {procmond}
    MaxSeq = 4
    EpochSize = 3
    Capacity = 2
    BatchRecords = 2
    MaxGaps = 1
    MaxCrash = 1
    FaultSets <- MCFaultSets
INVARIANTS
    StoredOnce
    MarkIsHighestRow
    HolesReported
PROPERTIES
    FlushHonest
    FlushAnswered
CHECK_DEADLOCK FALSE
