SPECIFICATION FairSpec
CHECK_DEADLOCK FALSE
CONSTANTS
    N = 5
    Multiline = TRUE
    Starts = {1,3,4}
    IdleFlush = TRUE
    Dropped = {}
    Unmarshalable = {}
    Size <- UnitSize
    BatchEnabled = TRUE
    MaxBytes = 2
    FlushTimer = TRUE
    OnFlushFailure = "hibernate"
    MaxAttempts = 0
    WakeEnabled = FALSE
    MaxConsecutive = 2
    SinkHonoursCtx = FALSE
    CanStop = "close"
    Scraped = FALSE
    SinkFaults = 2
    DLQFaults = 0
    StoreFaults = 0
INVARIANTS
    WatermarkCovers
    InOrder
PROPERTIES
    EventuallySettled
