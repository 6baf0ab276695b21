SPECIFICATION FairSpec
CHECK_DEADLOCK FALSE
CONSTANTS
    N = 3
    Multiline = FALSE
    Starts = {}
    IdleFlush = FALSE
    Dropped = {}
    Unmarshalable = {}
    Size <- UnitSize
    BatchEnabled = TRUE
    MaxBytes = 2
    FlushTimer = TRUE
    OnFlushFailure = "hibernate"
    MaxAttempts = 1
    WakeEnabled = TRUE
    MaxConsecutive = 2
    SinkHonoursCtx = FALSE
    CanStop = "never"
    Scraped = FALSE
    SinkFaults = 2
    DLQFaults = 0
    StoreFaults = 0
PROPERTIES
    HibernateEnds
