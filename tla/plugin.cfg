SPECIFICATION FairSpec
CONSTANTS
    Tasks = {a1, a2}
    Sessions = {s1}
    None = None
    MaxTokens = 2
    MaxInstances = 3
CHECK_DEADLOCK FALSE
INVARIANTS
    TokenFileIsCurrent
    RetryHeals
PROPERTIES
    RegistrationKept
    HooksReturn
