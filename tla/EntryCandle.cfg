SPECIFICATION Spec
CONSTANTS
    Parts = {"short"}
    MaxRuntimeFaults = 3
    None = None
    BTC = BTC
    x = x
    y = y
PROPERTY
    EntryCandleNeverExits
CHECK_DEADLOCK FALSE
