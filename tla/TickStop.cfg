SPECIFICATION Spec
CONSTANTS
    None = None
    Symbols = {btc}
    Stops = {"negative"}
    MaxTicks = 1
    MaxActions = 1
    MaxQty = 1
    MaxLost = 0
    MaxCrashes = 0
    MaxZombies = 0
    MaxReadFails = 0
    MaxExits = 0
CHECK_DEADLOCK FALSE
INVARIANTS AlwaysProtected
