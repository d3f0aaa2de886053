CONSTANTS
    Calls = {c1, c2, c3, c4}
    Sessions = {d1, d2}
    DailyCap = 3
    LifetimeCap = 4
    Capped = TRUE
    StartBalance = 10
    Buffer = 2
    MinRoom = 1
    MinGross = 2
    Increment = 2
    MaxCash = 2

    Symbols = {"mes", "es", "nq", "gc", "cl"}
    GroupOf <- Grouping
    MicrosOf <- Micros
    Approved = {"mes", "es", "nq"}
    Slots = {1, 2, 3}
    OcoGroups = {"x"}
    Quantities <- Signed
    MicrosPerMini = 2
    CeilingMinis = 2
    CeilingMicros = 4
    MaxOrders = 3

    StandardOffset <- Offset
    SummerStart = 79
    SummerEnd = 222
    BoundaryHours = {0, 3, 17}
    ReopenHour = 18
    FirstHour = 48
    LastHour = 264

    Sales = {s1, s2}
    Rewards = {r1}
    Refills = {x1}
    SaleTerms <- Terms
    Grosses = {2, 3, 4}
    Deltas <- Adjustments
    MaxCorrections = 1

    PlanKeys = {"SIM_25K", "SIM_50K", "SIM_300K"}
    Percents = {25, 33, 50}
    Production = TRUE
    Drafts <- PromotionDrafts
    RatioCeiling = 25
    LastDay = 2

    PlanItems = {"p", "q"}
    AddOnItems = {"x"}
    Deploys = {"old", "new", "late"}
    CatalogOf <- Catalogs
    AccountsSold = {"a"}
    MaxPaid = 2

    Requests = {1, 2, 3}
    Births <- BirthDates
    Restricted = {}
    AsOf <- Registered
    MaxFailed = 2
    LockTime = 1
    SessionTime = 2
    LastMoment = 3

    Blotter <- Closed
    Owners <- OwnerOf
    Addresses <- AddressBook
    ReportZone <- Offset
    ToleranceSeconds = 5
    PriceTolerance = 0
    MinimumAccounts = 2
    MaxRows = 5

    Drawdown = 4
    Stops = TRUE
    StopAt = 11
    DailyLossLimit = 3
    PolicyOf <- Policies
    PricePaid <- Prices
    ResetFee = 2
    CashUnit = 1
    Moves <- Swings
    MaxChanges = 5

    Assumptions <- Entries
    Whole = 10
    Margin = 2

    Clerks = {k1, k2}
    LimitSets <- Limits
    TokenLife = 3
    TokenMargin = 1
    TokenRenewal = 2
    LastTick = 3
    Settings <- Environments
    PlanTerms <- PlansOnSale
    TrailingStop = "CONFIRMED"
    MaxDeploys = 2
SPECIFICATION RulesSpec
INVARIANTS CapsRespected  SessionsAreSound BooksAgree
           PricesAreSound CatalogIsOneContract  
 
CHECK_DEADLOCK FALSE
