-------------------------------- MODULE Pricing --------------------------------
(***************************************************************************)
(* What an account costs and what it comes with: src/domain/catalog,        *)
(* src/domain/pricing and src/domain/money.  A basket is quoted, bought and *)
(* provisioned, its lines are refunded one at a time in any order, and the  *)
(* account it opened is reset.                                              *)
(*                                                                         *)
(* The tables are those of the code, in dollars.  A dollar is also the      *)
(* minor unit, the code's is a cent: every percentage has to be rounded.    *)
(***************************************************************************)
EXTENDS Integers, Sequences, FiniteSets, Sums

CONSTANTS
    PlanKeys,       \* the plans on sale
    Percents,       \* percentages a coupon may take off
    Production      \* whether what is not confirmed may not be sold

VARIABLES
    confirmed,  \* terms the owner has confirmed, of those that gate a sale
    quote,      \* the quote of the basket
    bought,     \* whether it was paid
    refunded,   \* its refunded lines
    limits      \* limits of the account it opened

priceVars == <<confirmed, quote, bought, refunded, limits>>

-----------------------------------------------------------------------------
(* The catalogue.                                                          *)

Terms5(start, list, minis, drawdown, daily, buffer, dailyCash) ==
    [startingBalance |-> start, listPrice |-> list, minis |-> minis,
     micros |-> 10 * minis, drawdown |-> drawdown, dailyLoss |-> daily,
     buffer |-> buffer, dailyCash |-> dailyCash, lifetimeCash |-> 6 * dailyCash]

Plans ==
    [SIM_25K  |-> Terms5(25000, 349, 2, 900, 340, 1000, 1000),
     SIM_50K  |-> Terms5(50000, 599, 4, 1800, 595, 2000, 1500),
     SIM_100K |-> Terms5(100000, 999, 6, 2700, 850, 3000, 2500),
     SIM_150K |-> Terms5(150000, 1499, 10, 4050, 1275, 4500, 3000),
     SIM_300K |-> Terms5(300000, 2499, 15, 6750, 2125, 7500, 4000)]

AddOns ==
    [DAILY_LOSS_UPLIFT |-> [listPrice |-> 50, uplift |-> 50, minis |-> 0],
     EXTRA_CONTRACTS   |-> [listPrice |-> 30, uplift |-> 0, minis |-> 2]]
AddOnKeys == DOMAIN AddOns

TaxPercent == 6
ResetDiscount == 10
NoCoupon == [percentOff |-> 0, scope |-> "NONE"]
DefaultCoupon == [percentOff |-> 25, scope |-> "ALL_ELIGIBLE"]
Coupons == [percentOff : Percents, scope : {"ALL_ELIGIBLE", "ACCOUNT_PLANS", "ADDONS"}]

ASSUME PricingAssumption ==
    PlanKeys \subseteq DOMAIN Plans /\ Percents \subseteq 0 .. 100

-----------------------------------------------------------------------------
(* Money.                                                                  *)

\* divideRounded half-up, of an amount that is not negative.
DivideRounded(n, d) == (2 * n + d) \div (2 * d)
MulRatio(amount, n, d) == DivideRounded(amount * n, d)

\* Faulty variant: each share is rounded on its own.
AllocateByWeightRounded(total, weights) ==
    [i \in DOMAIN weights |->
        DivideRounded(total * weights[i], SumOver(weights, DOMAIN weights))]

\* allocateByWeight: floor shares; what is left goes to the largest
\* remainders, the lowest index first.
AllocateByWeight(total, weights) ==
    LET I == DOMAIN weights
        all == SumOver(weights, I)
        share == [i \in I |-> (total * weights[i]) \div all]
        rest == [i \in I |-> (total * weights[i]) % all]
        ahead(i) == {j \in I : rest[j] > rest[i] \/ (rest[j] = rest[i] /\ j < i)} IN
    [i \in I |-> share[i]
        + (IF Cardinality(ahead(i)) < total - SumOver(share, I) THEN 1 ELSE 0)]

-----------------------------------------------------------------------------
(* Quotes.                                                                 *)

\* buildQuote refuses a duplicate add-on; their order is the customer's.
Selections ==
    {<<>>} \union {<<a>> : a \in AddOnKeys}
    \union {p \in AddOnKeys \X AddOnKeys : p[1] # p[2]}

\* Line 1 is the account, the others are add-ons.
Eligible(n, coupon) ==
    CASE coupon.scope = "NONE" -> {}
      [] coupon.scope = "ACCOUNT_PLANS" -> {1}
      [] coupon.scope = "ADDONS" -> 2 .. n
      [] OTHER -> 1 .. n

\* planLaunchBlockers, policiesBlockProductionSale, the tax status.
Blocked == ~ ({"plan", "policies", "tax"} \subseteq confirmed)

BuildQuote(planKey, extras, coupon) ==
    LET price == <<Plans[planKey].listPrice>>
                     \o [i \in DOMAIN extras |-> AddOns[extras[i]].listPrice]
        lines == DOMAIN price
        chosen == Eligible(Len(price), coupon)
        discount == MulRatio(SumOver(price, chosen), coupon.percentOff, 100)
        off == [i \in lines |-> IF i \in chosen
                    THEN AllocateByWeight(discount, [j \in chosen |-> price[j]])[i]
                    ELSE 0]
        taxable == SumOver(price, lines) - discount
        tax == MulRatio(taxable, TaxPercent, 100) IN
    [plan |-> planKey, extras |-> extras, coupon |-> coupon,
     price |-> price, off |-> off, taxable |-> taxable, tax |-> tax,
     total |-> taxable + tax]

LineTotal(q, i) == q.price[i] - q.off[i]
RefundAllocation(q, i) == LineTotal(q, i)

-----------------------------------------------------------------------------
(* Resets and limits.                                                      *)

CouponPrice(listPrice, percentOff) == listPrice - MulRatio(listPrice, percentOff, 100)
ResetPrice(planKey) ==
    CouponPrice(Plans[planKey].listPrice, DefaultCoupon.percentOff) - ResetDiscount

RiskDeltas(extras) ==
    LET lines == DOMAIN extras IN
    [uplift |-> SumOver([i \in lines |-> AddOns[extras[i]].uplift], lines),
     minis |-> SumOver([i \in lines |-> AddOns[extras[i]].minis], lines)]

\* effectiveRules, applyRiskDeltas; computeResetState keeps what was bought.
EffectiveLimits(planKey, deltas) ==
    LET p == Plans[planKey] IN
    [dailyLoss |-> p.dailyLoss + MulRatio(p.dailyLoss, deltas.uplift, 100),
     minis |-> p.minis + deltas.minis,
     micros |-> p.micros + deltas.minis * 10,
     threshold |-> p.startingBalance - p.drawdown]

-----------------------------------------------------------------------------

NoQuote == [plan |-> "none", extras |-> <<>>, coupon |-> NoCoupon, price |-> <<>>,
            off |-> <<>>, taxable |-> 0, tax |-> 0, total |-> 0]
NoLimits == [dailyLoss |-> 0, minis |-> 0, micros |-> 0, threshold |-> 0]

\* The policies are drafts at this commit.
PricingInit ==
    /\ confirmed = {"plan", "tax"}
    /\ quote = NoQuote /\ bought = FALSE /\ refunded = {} /\ limits = NoLimits

ConfirmPolicies ==
    /\ confirmed' = confirmed \union {"policies"}
    /\ UNCHANGED <<quote, bought, refunded, limits>>

Ask ==
    /\ ~ bought
    /\ \E p \in PlanKeys, extras \in Selections, c \in Coupons \union {NoCoupon} :
          quote' = BuildQuote(p, extras, c)
    /\ UNCHANGED <<confirmed, bought, refunded, limits>>

Buy ==
    /\ quote # NoQuote /\ ~ bought
    /\ ~ (Production /\ Blocked)
    /\ bought' = TRUE
    /\ limits' = EffectiveLimits(quote.plan, RiskDeltas(quote.extras))
    /\ UNCHANGED <<confirmed, quote, refunded>>

RefundLine ==
    /\ bought
    /\ \E i \in DOMAIN quote.price \ refunded : refunded' = refunded \union {i}
    /\ UNCHANGED <<confirmed, quote, bought, limits>>

PricingNext == ConfirmPolicies \/ Ask \/ Buy \/ RefundLine

-----------------------------------------------------------------------------
(* Properties.                                                             *)

\* n hundredths, rounded half-up to r.
IsRounded(r, n) == 2 * (n - 100 * r) < 100 /\ 2 * (100 * r - n) <= 100

\* One discount is spread over the eligible lines without a cent appearing or
\* vanishing, none gives back more than it cost, a dearer line never gets less
\* than a cheaper one, and tax is that of the discounted total.  Whatever the
\* order in which lines are refunded, they give back what was paid but the tax.
\* A reset undercuts a new account under the standing coupon, and the account
\* trades with ten micros to a mini and a daily loss below its drawdown.
QuoteAddsUp ==
    LET q == quote
        lines == DOMAIN q.price
        chosen == Eligible(Len(q.price), q.coupon)
        back == SumOver([i \in lines |-> RefundAllocation(q, i)], refunded) IN
    quote # NoQuote =>
        /\ IsRounded(SumOver(q.off, lines),
                     q.coupon.percentOff * SumOver(q.price, chosen))
        /\ \A i \in lines : q.off[i] \in 0 .. q.price[i]
        /\ \A i \in lines \ chosen : q.off[i] = 0
        /\ \A i, j \in chosen : q.price[i] > q.price[j] => q.off[i] >= q.off[j]
        /\ IsRounded(q.tax, TaxPercent * (SumOver(q.price, lines) - SumOver(q.off, lines)))
        /\ back <= q.total - q.tax
        /\ refunded = lines => back = q.total - q.tax
        /\ q.coupon = DefaultCoupon => ResetPrice(q.plan) \in 1 .. LineTotal(q, 1) - 1
        /\ bought => /\ limits.micros = 10 * limits.minis
                     /\ limits.dailyLoss < Plans[q.plan].startingBalance - limits.threshold

=============================================================================
