SPECIFICATION SafetySpec
CONSTANTS
    p1 = p1
    NoValue = NoValue
    Pids = {p1}
    Images <- MCImages
    Tracking <- MCTracking
    Capacity = 1
    SignalCapacity = 1
    MaxFailures = 2
    CliInterval = 4
    Intervals = {6}
    MaxInterval = 7
    MaxCycles = 3
    MaxRequests = 1
PROPERTIES
    StopsPublished
CHECK_DEADLOCK FALSE
