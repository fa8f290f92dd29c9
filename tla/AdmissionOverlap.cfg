\* Two requests at a time, nothing fails and nobody leaves.
CONSTANTS
    Devices = {d1, d2, d3}
    Limits = {2}
    Threads = 2
    TTL = 3
    MaxLag = 1
    FaultKinds = {}
    MaxFaults = 0
    MaxDepartures = 0
    MaxEdits = 0
SPECIFICATION Spec
PROPERTIES
    AdmissionsRespectLimit
