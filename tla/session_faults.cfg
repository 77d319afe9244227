CONSTANTS
    Clicks = {c1}
    MaxSessions = 2
    MaxOrders = 2
    NumAssets = 1
    MaxTrades = 1
    MaxPending = 1
    MaxGales = 0
    DbMayFail = TRUE
    BuyMayBeLate = TRUE
    MayCrash = TRUE
CHECK_DEADLOCK FALSE
SPECIFICATION FairSpec
INVARIANTS OneTable
PROPERTIES LedgerSteps StopEndsEngine PanicEndsEngine LimitEndsEngine
