\* Liveness: one caller and every failure but those of a marker, or the meter of TUIC.
CONSTANTS
    Handlers = {h1}
    Units = {n1}
    Nobody = Nobody
    Kinds = {"rotation", "tick"}
    FaultKinds = {"plan", "save", "restart", "stop", "schedule", "death"}
    SlowTimer = TRUE
    MaxFaults = 4
    MaxPlan = 3
    MaxCred = 2
    MaxMoved = 1
    MaxTrouble = 1
    Grace = 1
SPECIFICATION ProxySpec
INVARIANTS
    StaleServiceIsMarked
    StoppedServiceIsMarked
    ChargesAreMoved
PROPERTIES
    EventuallyServesPlan
    OverdueAccessEnds
CHECK_DEADLOCK FALSE
