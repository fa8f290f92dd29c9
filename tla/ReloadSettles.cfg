\* Two callers that hand over to each other, overlapping reload units, every failure.
CONSTANTS
    Handlers = {h1, h2}
    Units = {n1, n2}
    Nobody = Nobody
    Kinds = {"rotation", "tick"}
    FaultKinds = {"plan", "save", "marker", "restart", "stop", "schedule", "death"}
    SlowTimer = TRUE
    MaxFaults = 2
    MaxPlan = 3
SPECIFICATION FairSpec
PROPERTIES
    IntentIsSettled
    AckFollowsReload
