SPECIFICATION Spec
CHECK_DEADLOCK FALSE
CONSTANTS
    Skus = {"short", "ample"}
    Calls = {"reserve", "retry", "release", "other"}
    MaxFaults = 1
    Total <- MCTotal
    Kind <- MCKind
    Items <- MCItems
INVARIANTS
    WithinStock
    ExactWhenSerial
    RefusedReserveWritesNothing
    StockViewsAgree
