SPECIFICATION Spec
CONSTANTS
    Tasks = {a1, a2}
    Sessions = {s1, s3}
    Instances = {s1}
    Root = s1
    MaxFaults = 1
    None = None
    MaxTokens = 2
    MaxInstances = 2
SYMMETRY TaskSymmetry
CHECK_DEADLOCK FALSE
INVARIANTS
    RetryHeals
PROPERTIES
    AnchorRegistrationKept
