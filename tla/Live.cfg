CONSTANTS
    c1 = c1
    c2 = c2
    c3 = c3
    NoCall = NoCall
    Calls = {c1}
    Keys = {c1}
    KeyOf <- OwnKeys
    Asks = {2}
    Workers = {w1, w2}
    Operators = {o1}
    SlowWorkers = FALSE
    Polling = FALSE
    LastDay = 1
    FirstBalances = {16}
    Moves <- GainOrLoss
    MaxTrades = 0
    MaxCrashes = 2
    DailyCap = 2
    LifetimeCap = 3
    Capped = TRUE
    StartBalance = 10
    Buffer = 2
    MinRoom = 1
    MinGross = 2
    Increment = 2
    MaxCash = 2
    Drawdown = 4
    Stops = TRUE
    StopAt = 10
    DailyLossLimit = 2
SPECIFICATION FairSpec
PROPERTIES JobsFinish NothingIsLostAlive
CHECK_DEADLOCK FALSE
