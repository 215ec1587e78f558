SPECIFICATION FairSpec
CHECK_DEADLOCK FALSE
CONSTANTS
    NumEvents = 2
    Processes = {"api"}
    MaxOverlap = 1
    BatchSize = 2
    Groups = {"order"}
    Members <- MCMembers
    MaxRetries = 1
    MaxThrows = 2
    Faults = {"crash", "expiry", "broker", "database"}
    MaxFaults = 2
PROPERTY
    EventuallySettled
