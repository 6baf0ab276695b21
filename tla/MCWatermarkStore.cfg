SPECIFICATION FairSpec
CONSTANTS
    Paths = {p1, p2}
    Entries <- TwoEntries
    NoEntry = NoEntry
    Absent = Absent
    Corrupt = Corrupt
    FlushInterval = 1
    FlushEvery = 3
    ResetOnCorrupt = TRUE
    MaxUpdates = 4
INVARIANTS
    BoundedLoss
PROPERTIES
    CorruptIsArchived
    AbstractSpec
    EventuallyPersisted
