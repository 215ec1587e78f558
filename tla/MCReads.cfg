SPECIFICATION Spec
CONSTANTS
    o1 = o1
    o2 = o2
    o3 = o3
    Orders = {o1, o2, o3}
    PageSize = 1
    FeedLimit = 2
    TrendDays = 2
    Start = 4
    End = 6
    Scenarios <- MCScenarios
CHECK_DEADLOCK FALSE
INVARIANTS
    OrdersShowTheirItems
    DetailShowsItsGrounds
    PagesMissNothing
    TrendAgreesWithSummary
    HealthIsTrue
