SPECIFICATION Spec
CHECK_DEADLOCK FALSE
CONSTANTS
    None = None
    Wd <- WorkingDirectory
    Globs <- Metacharacters
    Names <- FileNames
    MaxChan <- ChanLimit
    Unparsable <- BadPaths
    Conflicting <- Clashes
    Setups <- TwoSections
INVARIANTS
    NoSelfTail
    PanicsForCause
    RefusedLateForCause
    ModelsApply
    ATCReachable
