CONSTANTS
    Clicks = {c1}
    MaxSessions = 2
    MaxOrders = 3
    NumAssets = 2
    MaxTrades = 1
    MaxPending = 1
    MaxGales = 1
    DbMayFail = FALSE
    BuyMayBeLate = TRUE
    MayCrash = FALSE
CHECK_DEADLOCK FALSE
SPECIFICATION Spec
INVARIANTS TypeOK SingleEngine PendingExact TradesBudget LedgerComplete
           LateEntryBound PanicEntryBound
