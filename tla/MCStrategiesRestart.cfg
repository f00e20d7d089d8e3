SPECIFICATION Spec
CONSTANTS
    Parts = {"xau"}
    Tf = {"15m"}
    MaxCandles = 4
    MaxRestarts = 1
    MaxFaults = 1
    AllowDuplicate = FALSE
    HashedIds = TRUE
    None = None
    XAU = XAU
    PAXG = PAXG
    F1 = F1
    x = x
    y = y
    z = z
PROPERTIES
    RestartKeepsTrailing
CHECK_DEADLOCK FALSE
