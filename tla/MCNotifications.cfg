SPECIFICATION FairSpec
CHECK_DEADLOCK FALSE
CONSTANTS
    Sources <- MCSources
    Scopes <- MCScopes
    MaxRetries = 1
    MaxFaults = 3
INVARIANTS
    OneMailUnlessCut
    RecordsAreTrue
    NothingForgotten
    ToldInOrder
PROPERTY
    EventuallyTold
