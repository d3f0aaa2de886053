------------------------------- MODULE Promotions -------------------------------
(***************************************************************************)
(* Promotions and the exposure ratio: src/domain/promotions/promotion.ts.   *)
(* The owner drafts promotions, saves those the evaluation approves (or     *)
(* overrides it), and an account sells under the best one in force.  Only   *)
(* tests call this code: the checkout knows coupons, see Pricing.           *)
(***************************************************************************)
EXTENDS Pricing

CONSTANTS
    Drafts,         \* promotions the owner may draft
    RatioCeiling,   \* lifetime cap over price, at most
    LastDay

ResetKinds == {"PERCENT_OFF_RESET", "FREE_RESET"}
GatedKinds == {"TIER_UPGRADE", "BUNDLE"}

\* An account without a discount is within the ceiling.
ASSUME PromotionsAssumption ==
    /\ \A d \in Drafts : /\ d.tiers \subseteq PlanKeys
                         /\ d.bps \in 0 .. 10000
                         /\ {d.code, d.fixed, d.starts, d.ends} \subseteq Nat
    /\ RatioCeiling \in Nat
    /\ \A p \in PlanKeys : Plans[p].lifetimeCash <= RatioCeiling * Plans[p].listPrice

VARIABLES
    today,
    live,       \* the promotions saved
    overridden, \* those saved against the evaluation
    sold        \* the last account sold: its plan, price and promotion

promotionVars == <<today, live, overridden, sold>>

NotSoldYet == [plan |-> "none", price |-> 0, code |-> 0]

PromotionsInit ==
    /\ today = 0
    /\ live = {} /\ overridden = {}
    /\ sold = NotSoldYet

-----------------------------------------------------------------------------

ApplyPercentOffBps(price, bps) == price - MulRatio(price, bps, 10000)

DiscountedPrice(d, list) ==
    CASE d.kind \in {"PERCENT_OFF_ACCOUNT", "REFERRAL"} -> ApplyPercentOffBps(list, d.bps)
      [] d.kind = "FIXED_OFF_ACCOUNT" -> IF d.fixed < list THEN list - d.fixed ELSE 0
      [] d.kind = "TIER_UPGRADE" -> d.fixed
      [] OTHER -> list

TiersOf(d) == IF d.tiers = {} THEN PlanKeys ELSE d.tiers

\* A price of zero has no ratio, so that test is made separately.
ExceedsCeiling(plan, price) ==
    price > 0 /\ Plans[plan].lifetimeCash > RatioCeiling * price

\* evaluatePromotion: approvable without an override.
Approvable(d) ==
    /\ \A p \in TiersOf(d) :
          LET price == DiscountedPrice(d, Plans[p].listPrice) IN
          /\ ~ ExceedsCeiling(p, price)
          /\ price > 0 \/ d.kind = "FREE_RESET"
    /\ d.kind \notin GatedKinds
    /\ d.starts < d.ends

InForce(plan) ==
    {d \in live : /\ d.starts <= today /\ today < d.ends
                  /\ plan \in TiersOf(d)
                  /\ d.kind \notin ResetKinds}

\* Faulty variant: the discounts add up, and the first code is recorded.
ChooseBestPromotionStacked(plan) ==
    LET list == Plans[plan].listPrice
        some == InForce(plan) IN
    [plan |-> plan, code |-> IF some = {} THEN 0 ELSE Min({d.code : d \in some}),
     price |-> list - MapThenSumSet(LAMBDA d : list - DiscountedPrice(d, list), some)]

\* chooseBestPromotion: one promotion, the cheapest, the first code on a tie.
ChooseBestPromotion(plan) ==
    LET list == Plans[plan].listPrice
        some == InForce(plan)
        price == [d \in some |-> DiscountedPrice(d, list)]
        best == {d \in some : \A e \in some : price[d] <= price[e]} IN
    IF some = {} THEN [plan |-> plan, code |-> 0, price |-> list]
    ELSE LET d == CHOOSE b \in best : \A e \in best : b.code <= e.code IN
         [plan |-> plan, code |-> d.code, price |-> price[d]]

-----------------------------------------------------------------------------

SavePromotion ==
    /\ \E d \in Drafts \ live :
          /\ live' = live \union {d}
          /\ overridden' = IF Approvable(d) THEN overridden ELSE overridden \union {d.code}
    /\ UNCHANGED <<today, sold>>

SellAccount ==
    /\ \E p \in PlanKeys : sold' = ChooseBestPromotion(p)
    /\ UNCHANGED <<today, live, overridden>>

DayPasses ==
    /\ today < LastDay
    /\ today' = today + 1
    /\ UNCHANGED <<live, overridden, sold>>

PromotionsNext == SavePromotion \/ SellAccount \/ DayPasses

-----------------------------------------------------------------------------
(* Properties.                                                             *)

\* "Discounts never stack": whatever promotions were saved in whatever order,
\* and whenever one buys, an account sells above its list price or below the
\* price that keeps its lifetime cap within the ceiling only if the owner
\* overrode the evaluation of the very promotion it was sold under.
RatioStaysBelowCeiling ==
    sold # NotSoldYet /\ sold.code \notin overridden =>
        /\ sold.price \in 1 .. Plans[sold.plan].listPrice
        /\ ~ ExceedsCeiling(sold.plan, sold.price)

\* An account costs what was quoted, in all its parts, and never so little that
\* the firm's worst case outgrows it.
PricesAreSound == QuoteAddsUp /\ RatioStaysBelowCeiling

=============================================================================
