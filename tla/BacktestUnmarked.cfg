\* Two tickers share the account, and a fee above what a cheap share sells for.

CONSTANTS
    x = x
    y = y
    Tickers = {x, y}
    Capital = 40
    Leverage = 2
    SlipNum = 1
    SlipDen = 4
    Fee = 4
    WDen = 2
    CDen = 2
    Prices = {4, 8}
    Gaps = {1}
    PollInterval = 0
    DayLength = 2
    EndTime = 4
    MaxBars = 2
    MaxOrders = 2
    Allocation <- EqualAllocation
    TargetWeights <- Levered
    Confidences = {2}
    Articles <- Quiet
    Threshold = 0
    Window = 3
    Embargo = 2
    UtcOffset = 1
SPECIFICATION Spec
CHECK_DEADLOCK FALSE
INVARIANT ReportAddsUp
