SPECIFICATION FairSpec
CONSTANTS
    Parts = {"solo", "roomy", "pair", "dispatcher", "loop", "alerts", "tasks"}
    Runner = {r1, r2}
    Alpha = {a1, a2}
    None = None
    TfSet <- OneTfSet
    MaxAlphas = 2
    MaxUpdates = 1
    MaxFaults = 1
    Strategy = {s1, s2}
    Sectional = {s1}
    NoEvent = NoEvent
    QueueSize = 2
    Permits = 1
    MaxEvents = 3
    Id = {i1, i2, i3}
    MaxSeen = 2
    MaxSignals = 4
    r1 = r1
    r2 = r2
    a1 = a1
    a2 = a2
    a3 = a3
    x1 = x1
    x2 = x2
INVARIANTS
    ResourcesBounded
    OneLateSignal
    NoEarlyRepeat
    NewestTriggerKept
PROPERTIES
    LeasesReturn
    CriticalIsHandled
    HeldIsRegistered
    SnapshotSettles
CHECK_DEADLOCK FALSE
