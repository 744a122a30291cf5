SPECIFICATION FairSpec
CONSTANTS
    None = None
    MoneyUnit = 1
    QtyUnit = 1
    Accounts = {1, 2}
    Symbols = {btc}
    AssetOf <- MCAssetOf
    Clients = {c1}
    Monitors = {m1, m2}
    ClientIds = {k1}
    Ticks = {t1}
    Requests <- FairRequests
    Quotes <- FairQuotes
    StartingCash = 12000
    MaxPid = 2
    MaxCrashes = 1
PROPERTIES RequestsComplete ProtectedPositionsClose
