\* Two sources, both corrections, a settlement day, failures of saves, a power loss.
CONSTANTS
    MaxCycle = 1
    MaxTuic = 2
    MaxCore = 1
    MaxGen = 2
    MaxFaults = 2
    Corrections = {"refresh", "reset"}
    Outcomes = {"ok", "uncertain", "failed"}
    None = None
SPECIFICATION Spec
INVARIANTS
    JournalNeverConflicts
    ResetKeepsCredits
    LedgersKeepBytes
PROPERTIES
    CreditIsAtomic
CHECK_DEADLOCK FALSE
