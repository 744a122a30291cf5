SPECIFICATION AgentsSpec
CONSTANTS
    Scopes = {"decision"}
    None = None
    Agents = {molly}
    House = {h1}
    MaxRuns = 2
    MaxDays = 1
    MaxCreated = 3
    MaxCrashes = 1
    MaxZombies = 1
    MaxReseeds = 1
    Absent = Absent
    Crypto = {"btc"}
    MaxPositions = 1
    MaxPct = 20
    PerTickPct = 15
    Books <- TdBooks
    Evaluations <- TdEvaluations
    Answers <- TdAnswers
    Never = Never
    MinHours = 24
    MinEpisodes = 10
    CryptoHour = 0
    Closes <- EtCloses
    MaxTriggerDays = 8
    MaxSpoiled = 1
    HotLen = 4
    DayLen = 2
    PollWidth = 2
    FillWidth = 5
    Fillers = {gapfill}
    Limits = {3, 6}
    MaxTime = 5
    MaxFaults = 1
    FlushLag = 1
    CallLag = 1
    Ranked <- StRanked
    Sweepers = {s1, s2}
    Starting = 4
    MarkPrices = {1, 2}
    Unmarked = Unmarked
    MaxChanges = 2
    MaxMishaps = 1
INVARIANT NoPositionOverCap
