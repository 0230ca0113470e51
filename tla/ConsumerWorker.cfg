SPECIFICATION FairSpec
CONSTANTS
    Partitions = {p1, p2}
    p1 = p1
    p2 = p2
    Nil = Nil
    WriteOnSuccess = TRUE
    MaxOffset = 2
    MaxFailures = 1
    MaxCrashes = 1
    MaxStops = 1
    MaxRebalances = 1
    Warning = 2
    Critical = 3
INVARIANTS
    NothingSilentlySkipped
    MonitorTellsBacklog
PROPERTIES
    FirstOutcomesInOrder
    EventuallyAccounted
CHECK_DEADLOCK FALSE
