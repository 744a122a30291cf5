SPECIFICATION Spec
CONSTANTS
    None = None
    MoneyUnit = 1
    QtyUnit = 1
    Accounts = {1}
    Symbols = {btc}
    AssetOf <- MCAssetOf
    Clients = {c1, c2}
    Monitors = {m1}
    ClientIds = {k1, k2, k3}
    Ticks = {t1}
    Requests <- TradeRequests
    Quotes <- TradeQuotes
    StartingCash = 12000
    MaxPid = 3
    MaxCrashes = 1
SYMMETRY Symmetry
INVARIANTS TypeOK LedgerBalanced BuyingPowerExact FilledExactlyOnce
PROPERTIES EndedOrdersStay ReduceOnlyReduces ImplementsLedger
