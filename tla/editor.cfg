SPECIFICATION FairSpec
CONSTANTS
    Procs = {p1, p2}
    Names = {K}
    r1 = r1
    r2 = r2
    Roots <- OneRoot
    None = None
    Unknown = Unknown
    InputChunks = 3
    PipeSize = 1
    MaxOutput = 2
INVARIANTS
    TypeOK
    TargetsComplete
    ScansSucceed
    CreatedReplacedNothing
    KeysStayOpenable
    PlaintextScrubbed
    TiersAgree
PROPERTIES
    ReplacedUnderLock
    CommandsEnd
CHECK_DEADLOCK FALSE
