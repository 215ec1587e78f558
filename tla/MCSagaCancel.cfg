SPECIFICATION FairSpec
CHECK_DEADLOCK FALSE
CONSTANTS
    MaxAttempts = 2
    Cancellers = {c1}
    Faults = {"crash", "decline"}
    MaxFaults = 1
INVARIANTS
    TypeOK
    StatusIsEarned
    ShipsOnlyPaidAndConfirmed
PROPERTIES
    WorkflowCloses
    FollowsOrderLifecycle
