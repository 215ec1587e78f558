SPECIFICATION Spec
CHECK_DEADLOCK FALSE
CONSTANTS
    MaxAttempts = 2
    Cancellers = {}
    Faults = {"timeout", "crash", "error", "decline"}
    MaxFaults = 2
INVARIANTS
    CompensatedOrExhausted
    RefundsOnlyTheHeldPayment
    CompletedKeepsItsEffects
