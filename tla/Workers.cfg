SPECIFICATION WorkersSpec
CONSTANTS
    Scopes = {"ingest", "llm", "graph", "hours"}
    None = None
    Crypto = {btc}
    MaxSilence = 2
    HealthStale = 3
    DeadmanStale = 3
    MaxProbeFailures = 1
    MaxBackfills = 1
    Handles = {a1, a2}
    Settings <- LlSettings
    Unset = Unset
    Costs = {1}
    AgentBudget = 2
    GlobalBudget = 1
    Concurrency = 1
    MaxCalls = 3
    MaxUpsets = 1
    NoSpec = NoSpec
    Incumbent0 <- EgIncumbent
    Measure <- EgMeasure
    Sampled = {"a", "b"}
    Proposals <- EgProposals
    MinTrades = 3
    MaxDD = 4000
    ReturnMargin = 200
    EvoBudget = 2
    MaxCycles = 2
    MaxSetbacks = 1
    Askers = {c1, c2}
    TradingDays = {0, 2}
    DayLen = 5
    OpenAt = 2
    CloseAt = 3
    EtLag = 1
    Buffer = 1
    Ttl = 2
    NoTime = NoTime
    LastMoment = 14
    MaxWait = 1
    MaxOutages = 1
INVARIANTS FeedInv SpendingInv GraphInv AnswersAreTrue
PROPERTIES StallsAreGenuine SilentFeedReplaced ArmedDeadmanEscalates AttemptsEnd
