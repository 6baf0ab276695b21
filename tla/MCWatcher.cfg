SPECIFICATION FairSpec
CHECK_DEADLOCK FALSE
CONSTANTS
    MaxInode = 2
    MaxLines = 1
    BufferSize = 2
    OnFull = {"block", "drop"}
    Stops <- Torn
    CanCancel = TRUE
    MaxFaults = 2
INVARIANTS
    ResumeCovers
    ReadAccounted
    ChannelComplete
PROPERTIES
    EventuallyCommitted
    CancelReturns
