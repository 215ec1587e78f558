SPECIFICATION Spec
CHECK_DEADLOCK FALSE
CONSTANTS
    NumEvents = 1
    Processes = {"api", "worker"}
    MaxOverlap = 1
    BatchSize = 2
    Groups = {"order", "notification"}
    Members <- MCMembers
    MaxRetries = 1
    Faults = {"crash", "rebalance", "expiry", "broker", "database"}
    MaxThrows = 2
    MaxFaults = 1
INVARIANTS
    NothingLost
    HandledAgainOnlyAfterLoss
    DeadLetteredOnlyWhenExhausted
