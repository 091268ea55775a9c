SPECIFICATION FairSpec
CONSTANTS
    Tokens = {}
    Sessions = {}
    Ttys = {y1}
    Keys = {k1}
    CapKeys = {}
    None = None
    MaxGrant = 1
    MaxRequests = 2
    Cooldown = 2
    Ttl = 1
    MaxPending = 1
    MaxReceipts = 1
    ReceiptTtl = 1
    Conns = {c1, c2}
    Ops = {"GET"}
    StderrCodes = {"INTERNAL"}
    TouchCache = 1
    MaxLocks = 0
    MaxVersion = 1
    MaxRegs = 1
PROPERTIES
    EveryHandlerAnswers
    WorkerComesBack
    OldGrantsRevoked
