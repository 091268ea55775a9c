SPECIFICATION Spec
CONSTANTS
    Tasks = {a1, a2}
    Sessions = {s1, s2, s3}
    Instances = {s1, s2}
    Root = s1
    MaxFaults = 0
    None = None
    MaxTokens = 2
    MaxInstances = 1
SYMMETRY TaskSymmetry
CHECK_DEADLOCK FALSE
INVARIANTS
    RetiredIsGone
    RequestsOnLiveAnchor
    OnlyAnchorsFile
