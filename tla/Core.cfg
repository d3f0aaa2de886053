CONSTANTS
    c1 = c1
    c2 = c2
    c3 = c3
    NoCall = NoCall
    Calls = {c1, c2}
    Keys = {c1, c2}
    KeyOf <- OwnKeys
    Asks = {2, 4}
    Workers = {w1, w2}
    Operators = {o1}
    SlowWorkers = FALSE
    Polling = FALSE
    LastDay = 1
    FirstBalances = {16}
    Moves <- GainOrLoss
    MaxTrades = 0
    MaxCrashes = 1
    DailyCap = 2
    LifetimeCap = 3
    Capped = TRUE
    StartBalance = 10
    Buffer = 2
    MinRoom = 1
    MinGross = 2
    Increment = 2
    MaxCash = 2
    Drawdown = 4
    Stops = TRUE
    StopAt = 10
    DailyLossLimit = 2
SPECIFICATION Spec
INVARIANTS SafetyInv CashOnlyAfterDeduction BooksAreTruthful LiveRequestsHoldCapacity
PROPERTIES LegalEdges
CHECK_DEADLOCK FALSE
