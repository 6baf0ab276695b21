SPECIFICATION Spec
CONSTANTS
    MaxBatches = 3
    BatchLen = 2
    MaxFaults = 2
    MaxCrashes = 1
INVARIANTS
    CommittedWhole
    AckedKept
    RefusedIsGone
    ListingTrue
    ListingFailsForCause
