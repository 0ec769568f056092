\* Every bounded input of the pure parts, one state each.
CONSTANTS
    Missing = Missing
    Absent = Absent
    Malformed = Malformed
    x = x
    y = y
    z = z
    late = late
    AllowedRoots = {"pandas"}
    BannedNames = {"eval"}
    BannedRoots = {"os"}
    BannedAttributes = {"dunder"}
    KnownIndicators = {"SMA"}
    Reserved = {"logger"}
    Offset = 9
    Base = "BasePortfolio"
    MaxLines = 40
    DayTicks = 2
    Scale = 4
    Shares = 6
    Slip = 1
    Win <- Windows
    Vix = y
    HighVol = 2
    RiskOff = {z}
    Symbols = {x, y, z}
    Registry <- Strategies
    Coverage <- PricedDays
    Day0 = 0
    NameLimit = 3
    MaxWindow = 20
    MaxBars = 200
    MaxTickers = 2
    Unit = 10
    ValidationDays = 45
    RunModes = {"event"}
    NewsConfigured = TRUE
    Adapted = {}
    Share = 4
    Files <- UploadedFiles
    Drafts <- SubmittedDrafts
    Streams <- BarStreams
    Feeds <- BarFeeds
    Matrices <- CloseMatrices
    Requests <- SubmittedRequests
    Downloads <- DayDownloads
    Stores <- RowStores
    Warmups <- WarmupRequests
    Frames <- PriceFrames
    Ledgers <- FillLedgers
    Curves <- SampledCurves
SPECIFICATION Spec
CHECK_DEADLOCK FALSE
INVARIANTS
    
    IndicatorsAreExact
    FeedIsFaithful
    NoLookAhead
    RunAsSubmitted
    IntradayIsWhole
    ReportIsExact
