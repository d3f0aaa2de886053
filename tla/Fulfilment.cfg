CONSTANTS
    p1 = p1
    s1 = s1
    w1 = w1
    w2 = w2
    t1 = t1
    alice = alice
    Pages = {p1}
    Orders = {p1}
    Accounts = {p1}
    Submits = {s1}
    PageOf <- OneSubmit
    UserOf <- OneCustomer
    CouponPages = {}
    MaxRedemptions = 1
    MaxPerCustomer = 1
    MaxDeploys = 0
    MaxDrops = 0
    MaxRetries = 2
    Workers = {w1, w2}
    MaxAttempts = 2
    MaxRequeues = 1
    MaxFailures = 1
    MaxCrashes = 1
    Tabs = {t1}
    RepliesLost = FALSE
    MaxReissues = 1
SPECIFICATION ShopFairSpec
INVARIANTS   NeverActiveUnverified NothingUnpaid SignInsWork 
PROPERTIES  PaidIsDecidedAlive JobsEnd
CHECK_DEADLOCK FALSE
