SPECIFICATION Spec
CONSTANTS
    Procs = {p1}
    Names = {K}
    r1 = r1
    r2 = r2
    Roots <- TwoRoots
    None = None
    Unknown = Unknown
    InputChunks = 2
    PipeSize = 1
    MaxOutput = 1
INVARIANTS
    ScrubbedOnEveryExit
CHECK_DEADLOCK FALSE
