SPECIFICATION FairSpec
CHECK_DEADLOCK FALSE
CONSTANTS
    N = 5
    Multiline = FALSE
    Starts = {}
    IdleFlush = FALSE
    Dropped = {}
    Unmarshalable = {5}
    Size <- UnitSize
    BatchEnabled = TRUE
    MaxBytes = 2
    FlushTimer = TRUE
    OnFlushFailure = "dead_letter"
    MaxAttempts = 1
    WakeEnabled = FALSE
    MaxConsecutive = 2
    SinkHonoursCtx = FALSE
    CanStop = "cancel"
    Scraped = FALSE
    SinkFaults = 3
    DLQFaults = 1
    StoreFaults = 1
INVARIANTS
    NothingVanishes
    GracefulStop
PROPERTIES
    WatermarkMonotonic
