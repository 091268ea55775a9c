SPECIFICATION Spec
CONSTANTS
    Tokens = {}
    Sessions = {}
    Ttys = {y1}
    Keys = {k1, cap}
    CapKeys = {cap}
    None = None
    MaxGrant = 2
    MaxRequests = 2
    Cooldown = 2
    Ttl = 1
    MaxPending = 1
    MaxReceipts = 1
    ReceiptTtl = 1
    Conns = {c1, c2}
    Ops = {"REQUEST", "AUTHORIZE"}
    StderrCodes = {"INTERNAL"}
    TouchCache = 1
    MaxLocks = 1
    MaxVersion = 1
    MaxRegs = 1
SYMMETRY ConnSymmetry
INVARIANTS
    NothingPredatesLock
    OneAttestationPerCeremony
    ReceiptsBounded
    WaitsOnOwnRequest
    PendingBounded
