\* A rotation form posted and replayed by two threads, and an administrator's rotation.
CONSTANTS
    u1 = u1
    Users <- OneUser
    UserOf <- AboutOneUser
    SelfOps = {r1}
    AdminOps = {a1}
    DeleteOps = {}
    Threads = {t1, t2}
    Workers = {w1}
    Services = {}
    Sessions = {s1}
    Nobody = Nobody
    TaskMaxEntries = 2
    TaskTTL = 2
    ClaimLease = 1
    SecondKickDelay = 1
    RetryDelay = 1
    ReceiptMaxEntries = 1
    ReceiptTTL = 1
    LockTimeout = 0
    AuthWindow = 0
    Outcomes = {"ok", "failed"}
    MaxGen = 3
    MaxRev = 1
SYMMETRY ThreadSymmetry
SPECIFICATION Spec
PROPERTIES
    GenerationsNeverGoBack
    CommittedReceiptIsKept
CHECK_DEADLOCK FALSE
