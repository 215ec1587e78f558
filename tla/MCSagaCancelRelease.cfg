SPECIFICATION Spec
CHECK_DEADLOCK FALSE
CONSTANTS
    MaxAttempts = 3
    Cancellers = {c1}
    Faults = {}
    MaxFaults = 0
INVARIANT
    CancelReleasesInventory
