\* Two callers, nothing fails.
CONSTANTS
    Handlers = {h1, h2}
    Units = {n1}
    Nobody = Nobody
    Kinds = {"edit"}
    FaultKinds = {}
    SlowTimer = FALSE
    MaxFaults = 0
    MaxPlan = 3
SPECIFICATION Spec
INVARIANTS
    StaleServiceIsMarked
