CONSTANTS
    p1 = p1
    p2 = p2
    o1 = o1
    o2 = o2
    Start = 10
    Pollers = {p1}
    Orders = {o1}
    Rolling = FALSE
    Moves <- Lose
    LastTick = 1
    MaxTrades = 3
    MaxDeaths = 0
    Drawdown = 4
    Stops = TRUE
    StopAt = 10
    DailyLossLimit = 2
SPECIFICATION RiskSpec
INVARIANTS BreachIsEnforced
CHECK_DEADLOCK FALSE
