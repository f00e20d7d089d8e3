SPECIFICATION Spec
CONSTANTS
    Alpha = {"a1"}
    Symbol = {"s1"}
    SignalId = {"o1", "o2", "o3", "c1", "c2", "c3", "c4"}
    PositionId = {"p1", "p2", "w1"}
    WorkerId = {"w1"}
    ColumnKey = {}
    None = None
    NaN = NaN
    Unknown = Unknown
    Signals <- BookSignals
    RegisteredAlphas = {}
    DUPLICATE_POSITION_POLICY = "reject"
    SIGNAL_RETENTION_DAYS = 0
    REDIS_READ_COUNT = 1
    MaxStream = 4
    MaxCrashes = 0
INVARIANTS
    OpenIsClosable
    OnePositionPerSymbol
PROPERTIES
    ErrorsLeaveBookAlone
    ImplementsLedger
CHECK_DEADLOCK FALSE
