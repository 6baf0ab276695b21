SPECIFICATION FairSpec
CHECK_DEADLOCK FALSE
CONSTANTS
    N = 4
    Multiline = FALSE
    Starts = {}
    IdleFlush = FALSE
    Dropped = {4}
    Unmarshalable = {}
    Size <- BigThird
    BatchEnabled = TRUE
    MaxBytes = 2
    FlushTimer = TRUE
    OnFlushFailure = "hibernate"
    MaxAttempts = 2
    WakeEnabled = TRUE
    MaxConsecutive = 2
    SinkHonoursCtx = TRUE
    CanStop = "cancel"
    Scraped = TRUE
    SinkFaults = 3
    DLQFaults = 0
    StoreFaults = 0
INVARIANTS
    FlushExclusive
    BufferBounded
PROPERTIES
    CancelStops
    ScrapeAnswered
