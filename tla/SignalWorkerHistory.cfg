SPECIFICATION Spec
CONSTANTS
    Alpha = {"a1"}
    Symbol = {"s1"}
    SignalId = {"o1", "o2", "c1", "c2", "c3", "c4", "c5",
                "m1", "m2", "m3", "m4", "m5", "m6", "m7"}
    PositionId = {"p1", "p2"}
    WorkerId = {}
    ColumnKey = {}
    None = None
    NaN = NaN
    Unknown = Unknown
    Signals <- HistorySignals
    RegisteredAlphas = {"a1"}
    DUPLICATE_POSITION_POLICY = "allow"
    SIGNAL_RETENTION_DAYS = 7
    REDIS_READ_COUNT = 1
    MaxStream = 3
    MaxCrashes = 1
INVARIANTS
    QtyConserved
PROPERTIES
    StopNeverLoosened
CHECK_DEADLOCK FALSE
