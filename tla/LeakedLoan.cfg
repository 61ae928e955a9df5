SPECIFICATION Spec
CONSTANTS
    Symbols <- MCSymbols
    InitialBalances <- MCBalances
    BaseScale = 2
    VolumeLimitPct = 30
    Quote = "USD"
    Lendable = {"BTC", "USD"}
    InterestSymbol = "USD"
    InterestPct = 10
    InterestPeriod = 1
    MinInterest = 1
    MarginRequirementPct = 20
    Configured = {}
    ImmediateProcessing = FALSE
    FeePct = 10
    MinFee = 0
    Requests <- MCRequests
    LoanAmounts = {}
    Bars <- MCBars
    Slips = {0}
    MaxOrders = 2
    MaxLoans = 0
    MaxBars = 3
PROPERTIES
    RefusalLeavesNoTrace
