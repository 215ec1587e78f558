SPECIFICATION Spec
CHECK_DEADLOCK FALSE
CONSTANTS
    Calls = {"order", "half", "part", "tiny", "badcard"}
    Refunds = {r1, r2, r3}
    MaxFaults = 2
    Items <- MCItems
    Amount <- MCAmount
    CardValid <- MCCardValid
    RoundedUp <- MCRoundedUp
SYMMETRY RefundSymmetry
INVARIANTS
    EventsTellTheRow
    RefundedOnceUnlessOverlapping
    MoneyIsRecorded
PROPERTY
    FollowsLifecycle
