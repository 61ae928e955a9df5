SPECIFICATION FairSpec
CONSTANTS
    Workers = {w1, w2}
    MaxQueue = 1
    Sources <- BarSources
    Priority <- BarPriority
    Scripts <- BarScripts
    Forwards <- BarForwards
    Emits <- BarEmits
    JobEmits = {"updates"}
    FirstJobs = {1, 3, 5}
    Delays <- DelaysAround
    MaxEvents = 3
    MaxJobs = 1
    MayStop = TRUE
CHECK_DEADLOCK FALSE
INVARIANTS
    EverythingDispatched
PROPERTIES
    PoolImplemented
    ClockWaits
    EventsInOrder
    RunEnds
