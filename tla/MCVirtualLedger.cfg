SPECIFICATION MCSpec
CONSTANTS
    Symbol = {"x", "y"}
    None = None
    READ_COUNT = 2
    Faults = {"restart", "exec", "book", "connection", "database"}
    MaxCandle = 3
    MaxFaults = 2
INVARIANTS
    TablesConsistent
    AckedIsApplied
    StateIsStream
    BooksConverge
PROPERTIES
    PublishedIsApplied
CHECK_DEADLOCK FALSE
