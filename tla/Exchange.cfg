SPECIFICATION FairSpec
CONSTANTS
    Symbols <- MCSymbols
    InitialBalances <- MCBalances
    BaseScale = 2
    VolumeLimitPct = 30
    Quote = "USD"
    Lendable = {"BTC", "USD"}
    InterestSymbol = "USD"
    InterestPct = 10
    InterestPeriod = 1
    MinInterest = 1
    MarginRequirementPct = 25
    Configured = {"BTC", "USD"}
    ImmediateProcessing = TRUE
    FeePct = 25
    MinFee = 3
    Requests <- MCRequests
    LoanAmounts = {1}
    Bars <- MCBars
    Slips = {0, 1}
    MaxOrders = 2
    MaxLoans = 1
    MaxBars = 2
INVARIANTS
    HoldsMatchOrders
    OnlyOpenOrdersHold
    LiquidityBounded
    FeesChargedOnce
    UpdatesPublished
    BorrowedMatchesLoans
    BalancesReconcile
    LoansSuffice
PROPERTIES
    LimitsRespected
    KeepsLifecycle
    MethodsReturn
    RefusalLeavesNoTrace
    RepaysAllItCan
