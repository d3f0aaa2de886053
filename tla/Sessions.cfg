CONSTANTS
    c1 = c1
    c2 = c2
    c3 = c3
    NoCall = NoCall
    Calls = {c1, c2, c3}
    Keys = {c1, c2, c3}
    KeyOf <- SharedKeys
    Asks = {4}
    Workers = {w1}
    Operators = {o1}
    SlowWorkers = FALSE
    Polling = FALSE
    LastDay = 2
    FirstBalances = {20}
    Moves <- GainOrLoss
    MaxTrades = 0
    MaxCrashes = 0
    DailyCap = 2
    LifetimeCap = 3
    Capped = TRUE
    StartBalance = 10
    Buffer = 2
    MinRoom = 1
    MinGross = 2
    Increment = 2
    MaxCash = 2
    Drawdown = 4
    Stops = TRUE
    StopAt = 10
    DailyLossLimit = 2
SPECIFICATION Spec
INVARIANTS CashWithinCaps OneRequestPerKey
PROPERTIES ImplementsReservation
CHECK_DEADLOCK FALSE
