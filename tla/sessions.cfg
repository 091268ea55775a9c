SPECIFICATION Spec
CONSTANTS
    Tokens = {t1, t2}
    Sessions = {s1}
    Ttys = {}
    Keys = {k1}
    CapKeys = {}
    None = None
    MaxGrant = 2
    MaxRequests = 2
    Cooldown = 2
    Ttl = 1
    MaxPending = 1
    MaxReceipts = 1
    ReceiptTtl = 1
    Conns = {c1, c2}
    Ops = {"GET"}
    StderrCodes = {"INTERNAL"}
    TouchCache = 1
    MaxLocks = 0
    MaxVersion = 1
    MaxRegs = 1
SYMMETRY ConnSymmetry
INVARIANTS
    TypeOK
    SessionGrantsRegistered
    SingleFlight
    NoOrphanDecrypt
    TouchIsForItsRequest
    WaitsOnOwnRequest
PROPERTIES
    GrantNeedsApproval
    EndIsFinal
    ImplementsDesk
