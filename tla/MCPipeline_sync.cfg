SPECIFICATION Spec
CHECK_DEADLOCK FALSE
CONSTANTS
    N = 4
    Multiline = FALSE
    Starts = {}
    IdleFlush = FALSE
    Dropped = {2}
    Unmarshalable = {4}
    Size <- UnitSize
    BatchEnabled = FALSE
    MaxBytes = 0
    FlushTimer = FALSE
    OnFlushFailure = "hibernate"
    MaxAttempts = 2
    WakeEnabled = FALSE
    MaxConsecutive = 2
    SinkHonoursCtx = FALSE
    CanStop = "cancel"
    Scraped = FALSE
    SinkFaults = 3
    DLQFaults = 0
    StoreFaults = 1
INVARIANTS
    WatermarkCovers
