CONSTANTS
    BTC = BTC
    ETH = ETH
    Pairs = {BTC, ETH}
    InitialCash = 10
    DayLength = 2
    SnapshotInterval = 1
    MaxTime = 2
    Limits <- MCLimits
    Modes = {"monitor", "live"}
    InitialMode = "live"
    Signals <- MCSignals
    Prices <- MCPrices
    MaxFills = 3
    MaxWaiting = 1
SPECIFICATION Spec
INVARIANTS
    BooksAgree
    EquityAccounted
    MetricsAgree
PROPERTIES
    KillSwitchHalts
