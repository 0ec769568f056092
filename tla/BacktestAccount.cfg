\* One ticker, every order a strategy can place, prices that double and halve.
CONSTANTS
    x = x
    y = y
    Tickers = {x}
    Capital = 40
    Leverage = 2
    SlipNum = 1
    SlipDen = 4
    Fee = 1
    WDen = 2
    CDen = 2
    Prices = {4, 8}
    Gaps = {1, 2}
    PollInterval = 2
    DayLength = 2
    EndTime = 4
    MaxBars = 3
    MaxOrders = 2
    Allocation <- EqualAllocation
    TargetWeights <- ShortOnly
    Confidences = {1, 2}
    Articles <- News
    Threshold = 0
    Window = 3
    Embargo = 2
    UtcOffset = 1
SPECIFICATION Spec
CHECK_DEADLOCK FALSE
INVARIANTS
    CashNonNegative
    EquityExplained
    ReportConsistent
    GateSeesEveryArticle
PROPERTIES
    GateHolds
