SPECIFICATION FairSpec
CHECK_DEADLOCK FALSE
CONSTANTS
    Fields <- MCFields
    Values <- MCValues
    Empty = "empty"
    Path = "host"
    Now = "now"
    Processing = "info"
    Hostname = "host"
    Failure = "plain"
    Static <- MCStatic
    IndexField <- MCIndexField
    Fold <- MCFold
    IsTime <- MCIsTime
    Utc <- MCUtc
    Runes <- MCRunes
    Raw <- MCRaw
    JsonBytes <- MCJsonBytes
    CutBytes <- MCCutBytes
    Lines <- MCLines
    Setups <- MCSetups
INVARIANTS
    PayloadFits
    CutIsLongest
    CutInOrder
    FilterIsDual
PROPERTIES
    ProcessReturns
