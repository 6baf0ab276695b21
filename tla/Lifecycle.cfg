SPECIFICATION FairSpec
CHECK_DEADLOCK FALSE
CONSTANTS
    ATCEnabled = TRUE
    Batching = TRUE
    MaxSignals = 2
INVARIANTS
    TornDownLast
    FlushedAtExit
    NotLeftRegistered
    ExitStatus
PROPERTIES
    ProcessEnds
