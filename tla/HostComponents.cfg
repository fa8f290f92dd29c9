\* Four components of the host, one at a time.
CONSTANTS
    Threads = {t1}
    MaxOps = 2
    MaxRelease = 2
    MaxMishaps = 1
    Paths = {p1, p2}
    NoPath = NoPath
    MaxGlitches = 2
    Conns = {k1, k2, k3}
    MaxWorkers = 1
    MaxPending = 1
    MaxRejects = 1
    Deadline = 2
    Runs = {r1, r2}
    MaxMonth = 2
    MaxResets = 1
    MaxLapses = 1
    ClaimTTL = 1
SPECIFICATION HostSpec
INVARIANTS
    CandidateCanBeUndone
    Reversible
    BootsOnWholeSet
    ClearingIsFinal
PROPERTIES
    UpdatesEnd
    RecoveryEnds
    EveryConnectionEnds
    CrossingIsTold
CHECK_DEADLOCK FALSE
