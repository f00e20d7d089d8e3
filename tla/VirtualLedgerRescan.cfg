SPECIFICATION Spec
CONSTANTS
    Symbol = {"x"}
    None = None
    READ_COUNT = 2
    Faults = {"restart", "rescan"}
    MaxCandle = 2
    MaxFaults = 1
INVARIANTS
    Converged
CHECK_DEADLOCK FALSE
