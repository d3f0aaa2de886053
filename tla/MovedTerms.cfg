CONSTANTS
    p1 = p1
    p2 = p2
    s1 = s1
    s2 = s2
    s3 = s3
    alice = alice
    Pages = {p1, p2}
    Submits = {s1, s2, s3}
    PageOf <- TwoPages
    UserOf <- OneCustomer
    CouponPages = {p1, p2}
    MaxRedemptions = 1
    MaxPerCustomer = 1
    MaxDeploys = 1
    MaxDrops = 1
SPECIFICATION CheckoutFairSpec

INVARIANT TermsAsSigned
CHECK_DEADLOCK FALSE
