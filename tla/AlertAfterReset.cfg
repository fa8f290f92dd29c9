\* One run of the limiter and one reset that comes between its steps.
CONSTANTS
    Runs = {r1}
    MaxMonth = 1
    MaxResets = 1
    MaxLapses = 0
    ClaimTTL = 1
SPECIFICATION AlertSpec
INVARIANTS
    ResetRearms
CHECK_DEADLOCK FALSE
