CONSTANTS
    p1 = p1
    p2 = p2
    o1 = o1
    o2 = o2
    Start = 10
    Pollers = {p1}
    Orders = {o1}
    Rolling = TRUE
    Moves <- WinOrLose
    LastTick = 2
    MaxTrades = 2
    MaxDeaths = 1
    Drawdown = 5
    Stops = TRUE
    StopAt = 10
    DailyLossLimit = 2
SPECIFICATION RiskFairSpec
INVARIANTS BreachIsRecorded UnconfirmedIsAlarmed ResetsArePaidOnce ProfitIsEarned
PROPERTIES   NewsIsApplied
CHECK_DEADLOCK FALSE
