SPECIFICATION Spec
CONSTANTS
    Alpha = {"a1"}
    Symbol = {"s1"}
    SignalId = {"o1", "c1", "r1", "r2", "x1"}
    PositionId = {"p1"}
    WorkerId = {}
    ColumnKey = {"k1", "k2"}
    None = None
    NaN = NaN
    Unknown = Unknown
    Signals <- StreamSignals
    RegisteredAlphas = {"a1"}
    DUPLICATE_POSITION_POLICY = "reject"
    SIGNAL_RETENTION_DAYS = 0
    REDIS_READ_COUNT = 2
    MaxStream = 2
    MaxCrashes = 0
INVARIANTS
    StreamReconciles
CHECK_DEADLOCK FALSE
