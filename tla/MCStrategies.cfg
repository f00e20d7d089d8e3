SPECIFICATION Spec
CONSTANTS
    Parts = {"xau", "xauV2", "atr1", "adx", "ema13", "chan", "chan3h", "pyramid",
             "gated", "meanrev", "meanrevLs", "alpha19", "alpha21", "cross",
             "paired", "top10"}
    Tf = {"15m"}
    MaxCandles = 4
    MaxRestarts = 1
    MaxFaults = 1
    AllowDuplicate = FALSE
    HashedIds = TRUE
    None = None
    XAU = XAU
    PAXG = PAXG
    F1 = F1
    x = x
    y = y
    z = z
INVARIANTS
    TypeOK
    Converged
    SideFollowsTrend
    LimitsHeld
    NoOrphanAfterRebalance
PROPERTIES
    NoReentry
    TrailOnlyTightens
CHECK_DEADLOCK FALSE
