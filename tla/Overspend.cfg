SPECIFICATION Spec
CONSTANTS
    None = None
    MoneyUnit = 1
    QtyUnit = 1
    Accounts = {1}
    Symbols = {btc, spy}
    AssetOf <- MCAssetOf
    Clients = {c1}
    Monitors = {m1}
    ClientIds = {k1, k2, k3, k4}
    Ticks = {t1}
    Requests <- GrowRequests
    Quotes <- TradeQuotes
    StartingCash = 15400
    MaxPid = 3
    MaxCrashes = 0
SYMMETRY Symmetry
PROPERTIES OpensAreFunded
