SPECIFICATION Spec
CONSTANTS
    None = None
    Symbols = {btc}
    Stops = {"positive"}
    MaxTicks = 2
    MaxActions = 1
    MaxQty = 1
    MaxLost = 0
    MaxCrashes = 0
    MaxZombies = 0
    MaxReadFails = 0
    MaxExits = 1
CHECK_DEADLOCK FALSE
INVARIANTS EpisodeIsOneLife
