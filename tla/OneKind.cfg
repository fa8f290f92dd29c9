\* Two rotations and the static service they owe, or a deletion and a re-creation; saves in doubt.
CONSTANTS
    u1 = u1
    Users <- OneUser
    UserOf <- AboutOneUser
    SelfOps = {}
    AdminOps = {a1, a2}
    DeleteOps = {d1}
    Threads = {t1}
    Workers = {w1}
    Services = {xray}
    Sessions = {s1}
    Nobody = Nobody
    TaskMaxEntries = 2
    TaskTTL = 2
    ClaimLease = 1
    SecondKickDelay = 1
    RetryDelay = 1
    ReceiptMaxEntries = 1
    ReceiptTTL = 1
    LockTimeout = 0
    AuthWindow = 1
    Outcomes = {"ok", "uncertain", "failed"}
    MaxGen = 3
    MaxRev = 2
SPECIFICATION Spec
CONSTRAINT OneKind
INVARIANTS
    HistoryOutlivesAccount
    RotationsOweAStop
PROPERTIES
    OnlyRequestedDeletions
CHECK_DEADLOCK FALSE
