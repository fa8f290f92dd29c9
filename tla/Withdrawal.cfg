\* Liveness: one rotation or deletion, crashes, failing saves and kicks.
CONSTANTS
    u1 = u1
    Users <- OneUser
    UserOf <- AboutOneUser
    SelfOps = {}
    AdminOps = {a1}
    DeleteOps = {d1}
    Threads = {t1}
    Workers = {w1}
    Services = {}
    Sessions = {s1}
    Nobody = Nobody
    TaskMaxEntries = 2
    TaskTTL = 2
    ClaimLease = 1
    SecondKickDelay = 1
    RetryDelay = 1
    ReceiptMaxEntries = 1
    ReceiptTTL = 1
    LockTimeout = 0
    AuthWindow = 0
    Outcomes = {"ok", "failed"}
    MaxGen = 2
    MaxRev = 1
SPECIFICATION OneOperation
INVARIANTS
    RevokedConnectionIsOwedAKick
PROPERTIES
    RevokedConnectionsEnd
    
CHECK_DEADLOCK FALSE
