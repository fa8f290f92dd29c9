\* Requests that do not overlap, reports that come in time.
CONSTANTS
    Devices = {d1, d2, d3}
    Limits = {1, 2}
    Threads = 1
    TTL = 3
    MaxLag = 1
    FaultKinds = {"api", "save", "deadline"}
    MaxFaults = 2
    MaxDepartures = 2
    MaxEdits = 1
SPECIFICATION FairSpec
PROPERTIES
    AdmissionsRespectLimit
    SlotsFillUp
