SPECIFICATION PositionsSpec
CONSTANTS
    Scopes = {"book", "watch", "replay", "evaluation", "registry", "quotes"}
    None = None
    MoneyUnit = 1
    QtyUnit = 2
    StartingCash = 20
    Prices <- PbPrices
    Qtys <- PbQtys
    Fees <- PbFees
    MaxFills = 4
    Symbols = {btc}
    AssetOf <- EwAsset
    LookPrices <- EwPrices
    StopPcts = {None, 1000}
    TargetPcts = {None, 2500}
    TrailPcts = {None, 1200}
    MaxQty = 2
    BtCash = 1000
    BarPrices = {80, 100, 125}
    AllocPct = 90
    CostBps = 100
    Disciplines <- BtDisciplines
    MaxBars = 5
    WarmUp = 2
    Unknown = Unknown
    Absent = Absent
    Specs <- CoSpecs
    Compute <- CoCompute
    Closes = {1, 2}
    Lookback = 4
    MaxNow = 5
    Callers = {c1, c2}
    Catalog <- ReCatalog
    Bodies <- ReBodies
    Tradables = {"x", "y"}
    NoRow = NoRow
    MaxRows = 3
    MaxRequests = 3
    Widths = {2, 6}
    EquitySessions <- QuSessions
    PollBuffer = 1
    GapReach = 4
    MaxHold = 1
    QuoteTtl = 3
    NoQuote = NoQuote
    MaxTime = 8
    MaxTrades = 2
    MaxLapses = 1
INVARIANTS BookInv HighWaterIsExtreme ReplayInv  SeedIsIdempotent SignalsAreAnswered 
PROPERTIES ExitsExactlyWhenCrossed ReplayStopsOut
