SPECIFICATION FairSpec
CONSTANTS
    Workers = {w1, w2}
    Room = 1
    Sources <- MCSources
    Priority <- MCPriority
    MaxTime = 8
    StartTime = 4
    BarDuration = 3
    FlushDelay = 1
    EntryPrice = 100
    StopLoss = 10
    TakeProfit = 20
    TrailingStop = 15
    BreakEven = 10
    Partial = 10
    TimeLimit = 4
    Starts <- MCStarts
    Prices = {80, 95, 110}
    Lags = {0, 2}
    MaxMessages = 2
    Delays = {1}
    MaxJobs = 1
    MayStop = TRUE
CHECK_DEADLOCK FALSE
INVARIANTS
    BarsComplete
    InsideBarriers
PROPERTIES
    HandledInOrder
    CatchesUp
