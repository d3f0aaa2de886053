CONSTANTS
    c1 = c1
    c2 = c2
    c3 = c3
    NoCall = NoCall
    Calls = {c1}
    Keys = {c1}
    KeyOf <- OwnKeys
    Asks = {2, 4}
    Workers = {w1}
    Operators = {o1}
    SlowWorkers = FALSE
    Polling = TRUE
    LastDay = 2
    FirstBalances = {15, 16}
    Moves <- GainOrLoss
    MaxTrades = 1
    MaxCrashes = 0
    DailyCap = 2
    LifetimeCap = 2
    Capped = TRUE
    StartBalance = 10
    Buffer = 2
    MinRoom = 1
    MinGross = 2
    Increment = 2
    MaxCash = 2
    Drawdown = 4
    Stops = TRUE
    StopAt = 10
    DailyLossLimit = 2
SPECIFICATION Spec
INVARIANT BufferKept
CHECK_DEADLOCK FALSE
