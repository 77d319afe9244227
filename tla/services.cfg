CONSTANTS
    \* WebhookLedger
    Events = {"e1", "e2", "e3"}
    NoId = "none"
    Payments = {"p1", "p2"}
    Amounts = {1, 2}
    MaxDeliveries = 3
    \* AuthProvider
    Emails = {"a"}
    ACCESS_TTL = 1
    REFRESH_TTL = 2
    MaxClock = 6
    MaxPairs = 3
    \* SqlAudit
    Patterns = {"q1", "q2"}
    MaxCalls = 4
    \* DataAggregator
    Ticks = {1, 2, 3}
    Symbols = {"s1", "s2"}
    Windows = {1, 2}
    MaxStarts = 2
    MaxStops = 1
    \* FraudDetector
    Users = {"u"}
    TxAmounts = {1, 3, 6}
    Times = {0, 1, 2}
    VELOCITY_WINDOW = 1
    VELOCITY_LIMIT = 2
    MaxScreened = 4
    \* Backtester
    Closes = {1, 2, 4}
    Bars <- MCBars
    InitialCapital = 512
    SizeInverse = 2
    Fast = 2
    Slow = 3
    RsiPeriod = 2
    Warmup = 3
    \* JobsApi
    Pages = {"p", "q"}
    MaxJobs = 2
    MaxRequests = 2
    \* RiskSizing
    Assets = {"a", "b"}
    Balances = {4, 300}
    RISK_PERMILLE = 40
    STOP_WIN = 30
    STOP_LOSS = 12
    MAX_GALES = 1
    MAX_PENDING = 2
    MIN_RECORD = 2
    KEEP = 2
    LIMIT = 2
    SMOOTHED = 2
    MaxOrders = 3
    \* Expiration
    ServerTimes <- MCServerTimes
    Skews <- MCSkews
    Durations = {1, 2, 3, 4, 5, 15, 30}
    QUARTERS = 3
    \* CandleFeed
    MAXDICT = 2
    HISTORY = 2
    MaxTime = 4
    MaxEngines = 2
    \* BrokerConnection
    Streams = {"s"}
    ATTEMPTS = 2
    MaxThreads = 3
    MaxFaults = 2
    \* ArbitrageScanner
    Exchanges = {1, 2, 3}
    Mids = {100, 103, 104, 108}
    BasePrice = 100
    Bps <- MCBps
    BASIS = 100
    MIN_EDGE = 1
    MaxScans = 2
SPECIFICATION Spec
CHECK_DEADLOCK FALSE
INVARIANTS LedgerFollowsLog TokensFollowLogins AuditAgrees TicksSettleOnce FraudVerdicts BacktestBooks
           RemovesWhatWasPressed MoneyAtRisk ExpiryAsTold CandlesHold ConnectionHolds ScansAgree
