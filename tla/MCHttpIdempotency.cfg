SPECIFICATION FairSpec
CHECK_DEADLOCK FALSE
CONSTANTS
    Requests = {r1, r2, r3, r4}
    NoRequest = NoRequest
    MaxFaults = 2
    MaxExpiries = 1
INVARIANTS
    OneOrderUnlessForgotten
    ReplaysAnOrderInProgress
PROPERTY
    KeyIsReleased
