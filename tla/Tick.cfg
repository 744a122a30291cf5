SPECIFICATION BoundedSpec
CONSTANTS
    None = None
    Symbols = {btc}
    Stops = {"none", "positive"}
    MaxTicks = 2
    MaxActions = 2
    MaxQty = 2
    MaxLost = 1
    MaxCrashes = 2
    MaxZombies = 1
    MaxReadFails = 1
    MaxExits = 1
CHECK_DEADLOCK FALSE
INVARIANTS TickInv AuditAccounts DiaryFollowsPositions
