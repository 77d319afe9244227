CONSTANTS
    Clicks = {c1}
    MaxSessions = 1
    MaxOrders = 1
    NumAssets = 1
    MaxTrades = 1
    MaxPending = 1
    MaxGales = 0
    DbMayFail = FALSE
    BuyMayBeLate = FALSE
    MayCrash = FALSE
CHECK_DEADLOCK FALSE
SPECIFICATION Spec
INVARIANT PendingFinalised
