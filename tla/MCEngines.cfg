SPECIFICATION FairSpec
CONSTANTS
    Parts = {"runtime", "nr", "alpha2", "turbo", "basket", "night", "sleeve", "bangoc",
             "zone", "short"}
    MaxRuntimeFaults = 3
    None = None
    BTC = BTC
    x = x
    y = y
INVARIANTS
    TypeOK
    EntriesOnlyWhenKnown
    BooksAgree
    NoOrderBesidePosition
    HourIsDecided
PROPERTIES
    DataFlagClears
    BooksMeet
    HeldIsWatched
    StopsOnlyTighten
CHECK_DEADLOCK FALSE
