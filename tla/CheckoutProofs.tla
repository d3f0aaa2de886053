---------------------------- MODULE CheckoutProofs ----------------------------
(***************************************************************************)
(* What buying an account promises for any number of pages, submissions,   *)
(* customers, deploys and deaths of the web process.                       *)
(*                                                                         *)
(* The rows are tied together by CheckoutInv: a quote keeps its price once *)
(* it has one, an order was signed at the price of its quote, a charge has *)
(* an order, and each submission stands where the rows allow it to stand.  *)
(***************************************************************************)
EXTENDS Checkout, FiniteSetTheorems, TLAPS

SubmitPCs == {"idle", "sign", "order", "commit", "charge", "record", "paid",
              "done"}
SubmitRow == [pc : SubmitPCs, price : Nat, rules : Nat]
QuoteRow == [price : Nat, rules : Nat, coupon : BOOLEAN, used : BOOLEAN,
             old : BOOLEAN]
OrderRow == [st : {"none", "PENDING_PAYMENT", "PAID", "FULFILLED"},
             price : Nat, rules : Nat]

\* The part of the type invariant that is about the calls, and the rest.
CallsTyped == submit \in [Submits -> SubmitRow]
RowsTyped ==
    /\ code \in [price : Nat, rules : Nat]
    /\ published \in Nat
    /\ quote \in [Pages -> QuoteRow]
    /\ signed \subseteq Pages
    /\ order \in [Pages -> OrderRow]
    /\ redeemed \subseteq Pages
    /\ charge \in [Pages -> {"none", "SUCCEEDED", "FAILED", "UNKNOWN"}]
    /\ payment \in [Pages -> {"none", "SUCCEEDED", "FAILED", "UNKNOWN"}]
    /\ posted \in [Pages -> 0 .. 1]
    /\ deploys \in 0 .. MaxDeploys
    /\ drops \in 0 .. MaxDrops

LEMMA TypeParts == CheckoutTypeOK <=> RowsTyped /\ CallsTyped
BY DEF CheckoutTypeOK, RowsTyped, CallsTyped, SubmitPCs, SubmitRow, QuoteRow,
       OrderRow

LEMMA TypePartsNext == CheckoutTypeOK' <=> RowsTyped' /\ CallsTyped'
BY DEF CheckoutTypeOK, RowsTyped, CallsTyped, SubmitPCs, SubmitRow, QuoteRow,
       OrderRow

\* A call that moves on keeps its shape.
LEMMA CallMoves ==
    ASSUME CallsTyped, NEW s \in Submits, NEW pc \in SubmitPCs, SubmitTo(s, pc)
    PROVE  CallsTyped'
BY DEF CallsTyped, SubmitTo, SubmitRow

LEMMA CheckoutTypeStep ==
    ASSUME CheckoutTypeOK, [CheckoutNext]_checkoutVars
    PROVE  CheckoutTypeOK'
<1> SUFFICES RowsTyped' /\ CallsTyped'
  BY TypePartsNext
<1>0. /\ RowsTyped /\ CallsTyped
      /\ PageOf \in [Submits -> Pages]
  BY TypeParts, CheckoutAssumption
<1>1. CASE Deploy
  <2>1. RowsTyped'
    BY <1>0, <1>1, CheckoutAssumption DEF RowsTyped, Deploy
  <2>2. CallsTyped'
    BY <1>0, <1>1 DEF Deploy, CallsTyped
  <2> QED
    BY <2>1, <2>2
<1>2. CASE Publish
  <2>1. RowsTyped'
    BY <1>0, <1>2 DEF RowsTyped, Publish
  <2>2. CallsTyped'
    BY <1>0, <1>2 DEF Publish, CallsTyped
  <2> QED
    BY <2>1, <2>2
<1>3. ASSUME NEW p \in Pages, CreateQuote(p)
      PROVE  RowsTyped' /\ CallsTyped'
  <2>1. RowsTyped'
    BY <1>0, <1>3 DEF RowsTyped, CreateQuote, QuoteRow
  <2>2. CallsTyped'
    BY <1>0, <1>3 DEF CreateQuote, CallsTyped
  <2> QED
    BY <2>1, <2>2
<1>4. ASSUME NEW p \in Pages, QuoteExpires(p)
      PROVE  RowsTyped' /\ CallsTyped'
  <2>1. RowsTyped'
    BY <1>0, <1>4 DEF RowsTyped, QuoteExpires, QuoteRow
  <2>2. CallsTyped'
    BY <1>0, <1>4 DEF QuoteExpires, CallsTyped
  <2> QED
    BY <2>1, <2>2
<1>5. ASSUME NEW s \in Submits, SubmitStart(s)
      PROVE  RowsTyped' /\ CallsTyped'
  <2>1. RowsTyped'
    BY <1>0, <1>5 DEF RowsTyped, SubmitStart
  <2>2. CallsTyped'
    BY <1>0, <1>5 DEF SubmitStart, CallsTyped, RowsTyped, SubmitRow, SubmitPCs
  <2> QED
    BY <2>1, <2>2
<1>6. ASSUME NEW s \in Submits, SubmitDies(s)
      PROVE  RowsTyped' /\ CallsTyped'
  <2>1. RowsTyped'
    BY <1>0, <1>6, CheckoutAssumption DEF RowsTyped, SubmitDies
  <2>2. CallsTyped'
    BY <1>0, <1>6, CallMoves DEF SubmitDies, SubmitPCs, SubmitDone
  <2> QED
    BY <2>1, <2>2
<1>7. ASSUME NEW s \in Submits, Sign(s)
      PROVE  RowsTyped' /\ CallsTyped'
  <2>1. RowsTyped'
    BY <1>0, <1>7, CheckoutAssumption DEF RowsTyped, Sign
  <2>2. CallsTyped'
    BY <1>0, <1>7, CallMoves DEF Sign, SubmitPCs
  <2> QED
    BY <2>1, <2>2
<1>8. ASSUME NEW s \in Submits, OrderCheck(s)
      PROVE  RowsTyped' /\ CallsTyped'
  <2>1. RowsTyped'
    BY <1>0, <1>8 DEF RowsTyped, OrderCheck
  <2>2. CallsTyped'
    BY <1>0, <1>8, CallMoves
       DEF OrderCheck, SubmitDone, RowsTyped, CallsTyped, SubmitRow, SubmitPCs
  <2> QED
    BY <2>1, <2>2
<1>9. ASSUME NEW s \in Submits, OrderExists(s)
      PROVE  RowsTyped' /\ CallsTyped'
  <2>1. RowsTyped'
    BY <1>0, <1>9, CheckoutAssumption DEF RowsTyped, OrderExists
  <2>2. CallsTyped'
    BY <1>0, <1>9, CallMoves DEF OrderExists, SubmitPCs
  <2> QED
    BY <2>1, <2>2
<1>10. ASSUME NEW s \in Submits, OrderRefused(s)
      PROVE  RowsTyped' /\ CallsTyped'
  <2>1. RowsTyped'
    BY <1>0, <1>10, CheckoutAssumption DEF RowsTyped, OrderRefused
  <2>2. CallsTyped'
    BY <1>0, <1>10, CallMoves DEF OrderRefused, SubmitPCs, SubmitDone
  <2> QED
    BY <2>1, <2>2
<1>11. ASSUME NEW s \in Submits, Charge(s)
      PROVE  RowsTyped' /\ CallsTyped'
  <2>1. RowsTyped'
    BY <1>0, <1>11, CheckoutAssumption DEF RowsTyped, Charge
  <2>2. CallsTyped'
    BY <1>0, <1>11, CallMoves DEF Charge, SubmitPCs
  <2> QED
    BY <2>1, <2>2
<1>12. ASSUME NEW s \in Submits, RecordPayment(s)
      PROVE  RowsTyped' /\ CallsTyped'
  <2>1. RowsTyped'
    BY <1>0, <1>12, CheckoutAssumption DEF RowsTyped, RecordPayment
  <2>2. CallsTyped'
    BY <1>0, <1>12, CallMoves DEF RecordPayment, SubmitPCs, SubmitDone
  <2> QED
    BY <2>1, <2>2
<1>13. ASSUME NEW s \in Submits, PaymentKnown(s)
      PROVE  RowsTyped' /\ CallsTyped'
  <2>1. RowsTyped'
    BY <1>0, <1>13, CheckoutAssumption DEF RowsTyped, PaymentKnown
  <2>2. CallsTyped'
    BY <1>0, <1>13, CallMoves DEF PaymentKnown, SubmitPCs, SubmitDone
  <2> QED
    BY <2>1, <2>2
<1>14. ASSUME NEW s \in Submits, OrderCommit(s)
      PROVE  RowsTyped' /\ CallsTyped'
  <2>1. RowsTyped'
    <3>1. order' \in [Pages -> OrderRow]
      BY <1>0, <1>14 DEF RowsTyped, CallsTyped, OrderCommit, PlaceOrder,
         OrderRow, SubmitRow
    <3>2. quote' \in [Pages -> QuoteRow]
      <4>1. /\ PageOf[s] \in Pages
            /\ quote \in [Pages -> QuoteRow]
            /\ quote' = [quote EXCEPT ![PageOf[s]].used = TRUE]
        BY <1>0, <1>14 DEF RowsTyped, OrderCommit, PlaceOrder
      <4> QED
        BY <4>1 DEF QuoteRow
    <3>3. redeemed' \subseteq Pages
      BY <1>0, <1>14 DEF RowsTyped, OrderCommit, PlaceOrder
    <3> QED
      BY <1>0, <1>14, <3>1, <3>2, <3>3 DEF RowsTyped, OrderCommit, PlaceOrder
  <2>2. CallsTyped'
    BY <1>0, <1>14, CallMoves DEF OrderCommit, PlaceOrder, SubmitPCs
  <2> QED
    BY <2>1, <2>2
<1>15. ASSUME NEW s \in Submits, MarkOrderPaid(s)
      PROVE  RowsTyped' /\ CallsTyped'
  <2>1. RowsTyped'
    BY <1>0, <1>15, CheckoutAssumption DEF RowsTyped, MarkOrderPaid, OrderRow
  <2>2. CallsTyped'
    BY <1>0, <1>15, CallMoves DEF MarkOrderPaid, SubmitPCs, SubmitDone
  <2> QED
    BY <2>1, <2>2
<1>16. CASE UNCHANGED checkoutVars
  <2>1. RowsTyped'
    BY <1>0, <1>16 DEF RowsTyped, checkoutVars
  <2>2. CallsTyped'
    BY <1>0, <1>16 DEF CallsTyped, checkoutVars
  <2> QED
    BY <2>1, <2>2
<1> QED
  BY <1>1, <1>2, <1>3, <1>4, <1>5, <1>6, <1>7, <1>8,
     <1>9, <1>10, <1>11, <1>12, <1>13, <1>14, <1>15, <1>16
     DEF CheckoutNext, CheckoutEnvironment, CallStep, CheckoutStep

LEMMA CheckoutTypeAtFirst == CheckoutInit => CheckoutTypeOK
BY CheckoutAssumption
   DEF CheckoutInit, CheckoutTypeOK, NoQuote, NoOrder, IdleSubmit

\* Every row and every call keeps its shape (createQuote to markOrderPaid).
THEOREM CheckoutTyped == CheckoutSpec => []CheckoutTypeOK
<1>1. CheckoutTypeOK /\ [CheckoutNext]_checkoutVars => CheckoutTypeOK'
  BY CheckoutTypeStep
<1> QED
  BY <1>1, CheckoutTypeAtFirst, PTL DEF CheckoutSpec

-----------------------------------------------------------------------------
(* The coupon.                                                             *)

RedeemedIsFinite == IsFiniteSet(redeemed)

LEMMA CouponLimitsAreNaturals ==
    MaxRedemptions \in Nat /\ MaxPerCustomer \in Nat
BY CheckoutAssumption

\* One more redemption of a coupon that is available exceeds neither limit.
LEMMA RedeemOnce ==
    ASSUME RedeemedIsFinite, CouponWithinLimits, NEW p \in Pages,
           CouponAvailable(p), redeemed' = redeemed \union {p}
    PROVE  RedeemedIsFinite' /\ CouponWithinLimits'
<1>1. /\ RedeemedIsFinite'
      /\ Redemptions' <= Redemptions + 1
      /\ Redemptions \in Nat /\ Redemptions' \in Nat
  BY FS_AddElement, FS_CardinalityType DEF RedeemedIsFinite, Redemptions
<1>2. Redemptions' <= MaxRedemptions
  BY <1>1, CouponLimitsAreNaturals DEF CouponAvailable
<1>3. ASSUME NEW q \in Pages PROVE RedemptionsOf(UserOf[q])' <= MaxPerCustomer
  <2> DEFINE mine == {r \in redeemed : UserOf[r] = UserOf[q]}
             mineNext == {r \in redeemed' : UserOf[r] = UserOf[q]}
  <2>1. IsFiniteSet(mine) /\ Cardinality(mine) \in Nat
    BY FS_Subset, FS_CardinalityType DEF RedeemedIsFinite
  <2>2. Cardinality(mine) <= MaxPerCustomer
    BY DEF CouponWithinLimits, RedemptionsOf
  <2>3. CASE UserOf[p] = UserOf[q]
    <3>1. mineNext = mine \union {p}
      BY <2>3
    <3>2. Cardinality(mine) < MaxPerCustomer
      <4>1. RedemptionsOf(UserOf[p]) = RedemptionsOf(UserOf[q])
        BY <2>3
      <4>2. Cardinality(mine) = RedemptionsOf(UserOf[q])
        BY DEF RedemptionsOf
      <4> QED
        BY <4>1, <4>2 DEF CouponAvailable
    <3>3. Cardinality(mineNext) <= Cardinality(mine) + 1
          /\ Cardinality(mineNext) \in Nat
      <4> HIDE DEF mine, mineNext
      <4>1. /\ IsFiniteSet(mine \union {p})
            /\ Cardinality(mine \union {p}) =
                  IF p \in mine THEN Cardinality(mine) ELSE Cardinality(mine) + 1
        BY <2>1, FS_AddElement
      <4>2. Cardinality(mine \union {p}) \in Nat
        BY <4>1, FS_CardinalityType
      <4> QED
        BY <3>1, <2>1, <4>1, <4>2
    <3> QED
      BY <3>2, <3>3, <2>1, CouponLimitsAreNaturals DEF RedemptionsOf
  <2>4. CASE UserOf[p] # UserOf[q]
    <3>1. mineNext = mine
      BY <2>4
    <3> QED
      BY <3>1, <2>2 DEF RedemptionsOf
  <2> QED
    BY <2>3, <2>4
<1> QED
  BY <1>1, <1>2, <1>3 DEF CouponWithinLimits

\* Neither limit of a coupon is ever exceeded, however many submissions race:
\* createOrder counts inside the transaction that adds the redemption.
THEOREM CouponIsLimited == CheckoutSpec => []CouponWithinLimits
<1> DEFINE Inv == RedeemedIsFinite /\ CouponWithinLimits
<1>1. CheckoutInit => Inv
  <2> SUFFICES ASSUME CheckoutInit PROVE Inv
    OBVIOUS
  <2>1. redeemed = {} /\ \A u : {p \in redeemed : UserOf[p] = u} = {}
    BY DEF CheckoutInit
  <2>2. IsFiniteSet({}) /\ Cardinality({}) = 0
    BY FS_EmptySet
  <2> QED
    BY <2>1, <2>2, CouponLimitsAreNaturals
       DEF RedeemedIsFinite, CouponWithinLimits, Redemptions, RedemptionsOf
<1>2. Inv /\ [CheckoutNext]_checkoutVars => Inv'
  <2> SUFFICES ASSUME Inv, [CheckoutNext]_checkoutVars PROVE Inv'
    OBVIOUS
  <2>1. ASSUME UNCHANGED redeemed PROVE Inv'
    BY <2>1 DEF RedeemedIsFinite, CouponWithinLimits, Redemptions,
                RedemptionsOf
  <2>2. ASSUME NEW s \in Submits, OrderCommit(s) PROVE Inv'
    <3>1. PageOf[s] \in Pages
      BY CheckoutAssumption
    <3>2. CASE quote[PageOf[s]].coupon
      BY <2>2, <3>1, <3>2, RedeemOnce DEF OrderCommit, PlaceOrder, CouponRefused
    <3>3. CASE ~quote[PageOf[s]].coupon
      BY <2>1, <2>2, <3>3 DEF OrderCommit, PlaceOrder
    <3> QED
      BY <3>2, <3>3
  <2>3. CASE CheckoutEnvironment
    BY <2>1, <2>3 DEF CheckoutEnvironment, Deploy, Publish, CreateQuote,
       QuoteExpires, SubmitStart, SubmitDies
  <2>4. ASSUME NEW s \in Submits, CheckoutStep(s) \/ MarkOrderPaid(s)
        PROVE  Inv'
    BY <2>1, <2>4 DEF CheckoutStep, Sign, OrderCheck, OrderExists,
       OrderRefused, Charge, RecordPayment, PaymentKnown, MarkOrderPaid
  <2>5. CASE UNCHANGED checkoutVars
    BY <2>1, <2>5 DEF checkoutVars
  <2> QED
    BY <2>2, <2>3, <2>4, <2>5 DEF CheckoutNext, CallStep
<1> QED
  BY <1>1, <1>2, PTL DEF CheckoutSpec

-----------------------------------------------------------------------------
(* Quotes, orders, charges and payments.                                   *)

\* An order was signed, at the price of its quote; a charge has an order.
PageAgrees(p) ==
    /\ order[p].st # "none" =>
          p \in signed /\ quote[p].price # 0 /\ order[p].price = quote[p].price
    /\ charge[p] # "none" => order[p].st # "none"
    /\ order[p].st \in {"PAID", "FULFILLED"} <=> payment[p] = "SUCCEEDED"
    /\ payment[p] = "SUCCEEDED" => charge[p] = "SUCCEEDED"
    /\ posted[p] = 1 <=> payment[p] = "SUCCEEDED"

\* What a submission has established on its way.
CallAgrees(s) ==
    LET p == PageOf[s] IN
    /\ ~SubmitAt(s, "idle") => quote[p].price # 0
    /\ SubmitAt(s, "commit") =>
          p \in signed /\ quote[p].price = submit[s].price
    /\ submit[s].pc \in {"charge", "record", "paid"} => order[p].st # "none"
    /\ SubmitAt(s, "paid") => charge[p] = "SUCCEEDED"
    /\ SubmitAt(s, "record") => charge[p] \in {"FAILED", "UNKNOWN"}

CheckoutInv ==
    /\ \A p \in Pages : PageAgrees(p)
    /\ \A s \in Submits : CallAgrees(s)

\* Rows only move forward under a call of another page or of the same one.
RowsAdvance(p) ==
    /\ quote'[p].price = quote[p].price \/ quote[p].price = 0
    /\ p \in signed => p \in signed'
    /\ order[p].st # "none" => order'[p].st # "none"
    /\ charge[p] # "none" => charge'[p] = charge[p]

\* A call that does not move keeps what it has established.
LEMMA CallKeeps ==
    ASSUME NEW s \in Submits, CallAgrees(s), RowsAdvance(PageOf[s]),
           submit'[s] = submit[s]
    PROVE  CallAgrees(s)'
BY DEF CallAgrees, RowsAdvance, SubmitAt

\* A step of one call leaves the other calls where they are.
LEMMA OthersStand ==
    ASSUME CallsTyped, NEW s \in Submits, NEW pc, SubmitTo(s, pc)
    PROVE  /\ submit'[s] = [submit[s] EXCEPT !.pc = pc]
           /\ submit'[s].pc = pc
           /\ submit'[s].price = submit[s].price
           /\ \A t \in Submits \ {s} : submit'[t] = submit[t]
BY DEF CallsTyped, SubmitTo, SubmitRow

LEMMA CheckoutInvInit == CheckoutInit => CheckoutInv
BY CheckoutAssumption
   DEF CheckoutInit, CheckoutInv, PageAgrees, CallAgrees, NoQuote, NoOrder,
       IdleSubmit, SubmitAt

\* A call that ends, or that reaches its order, has established enough.
LEMMA CallEnds ==
    ASSUME NEW s \in Submits, CallAgrees(s), ~SubmitAt(s, "idle"),
           RowsAdvance(PageOf[s]), submit'[s].pc \in {"order", "done"}
    PROVE  CallAgrees(s)'
BY DEF CallAgrees, RowsAdvance, SubmitAt

LEMMA CallHasOrder ==
    ASSUME NEW s \in Submits, CallAgrees(s), ~SubmitAt(s, "idle"),
           RowsAdvance(PageOf[s]), submit'[s].pc = "charge",
           order'[PageOf[s]].st # "none"
    PROVE  CallAgrees(s)'
BY DEF CallAgrees, RowsAdvance, SubmitAt

\* A step of one call keeps the invariant when it keeps its own part of it.
LEMMA CallStepKeeps ==
    ASSUME CheckoutInv, NEW s \in Submits,
           \A p \in Pages : RowsAdvance(p) /\ PageAgrees(p)',
           CallAgrees(s)',
           \A t \in Submits \ {s} : submit'[t] = submit[t]
    PROVE  CheckoutInv'
BY CallKeeps, CheckoutAssumption DEF CheckoutInv

\* A step of no call keeps it when it moves the rows forward.
LEMMA RowStepKeeps ==
    ASSUME CheckoutInv, UNCHANGED submit,
           \A p \in Pages : RowsAdvance(p) /\ PageAgrees(p)'
    PROVE  CheckoutInv'
BY CallKeeps, CheckoutAssumption DEF CheckoutInv

LEMMA CheckoutInvStep ==
    ASSUME RowsTyped, CallsTyped, CheckoutInv, [CheckoutNext]_checkoutVars
    PROVE  CheckoutInv'
<1>0. /\ \A s \in Submits : PageOf[s] \in Pages
      /\ \A p \in Pages : PageAgrees(p)
      /\ \A s \in Submits : CallAgrees(s)
  BY CheckoutAssumption DEF CheckoutInv
<1>1. CASE Deploy \/ Publish \/ UNCHANGED checkoutVars
  <2>1. UNCHANGED <<quote, signed, order, charge, payment, posted, submit>>
    BY <1>1 DEF Deploy, Publish, checkoutVars
  <2> QED
    BY <2>1, <1>0, RowStepKeeps DEF RowsAdvance, PageAgrees
<1>2. ASSUME NEW p \in Pages, CreateQuote(p) PROVE CheckoutInv'
  <2>1. \A q \in Pages : RowsAdvance(q) /\ PageAgrees(q)'
    BY <1>2, <1>0 DEF CreateQuote, RowsAdvance, PageAgrees, RowsTyped
  <2> QED
    BY <1>2, <2>1, RowStepKeeps DEF CreateQuote
<1>3. ASSUME NEW p \in Pages, QuoteExpires(p) PROVE CheckoutInv'
  <2>1. \A q \in Pages : RowsAdvance(q) /\ PageAgrees(q)'
    BY <1>3, <1>0 DEF QuoteExpires, RowsAdvance, PageAgrees, RowsTyped, QuoteRow
  <2> QED
    BY <1>3, <2>1, RowStepKeeps DEF QuoteExpires
<1>4. ASSUME NEW s \in Submits, SubmitStart(s) PROVE CheckoutInv'
  <2>1. \A t \in Submits \ {s} : submit'[t] = submit[t]
    BY <1>4 DEF SubmitStart
  <2>2. \A p \in Pages : RowsAdvance(p)
    BY <1>4, <1>0 DEF SubmitStart, RowsAdvance, RowsTyped
  <2>3. \A p \in Pages : PageAgrees(p)'
    BY <1>4, <1>0 DEF SubmitStart, PageAgrees, CallAgrees, SubmitAt, RowsTyped
  <2>4. CallAgrees(s)'
    <3>1. /\ quote'[PageOf[s]].price # 0
          /\ submit'[s].pc \in {"sign", "done"}
      BY <1>4 DEF SubmitStart, CallsTyped
    <3> QED
      BY <3>1 DEF CallAgrees, SubmitAt
  <2> QED
    BY <2>1, <2>2, <2>3, <2>4, CallStepKeeps
<1>5. ASSUME NEW s \in Submits, SubmitDies(s) PROVE CheckoutInv'
  <2>1. \A t \in Submits \ {s} : submit'[t] = submit[t]
    BY <1>5, OthersStand DEF SubmitDies, SubmitDone
  <2>2. \A p \in Pages : RowsAdvance(p)
    BY <1>5, <1>0 DEF SubmitDies, RowsAdvance, RowsTyped
  <2>3. \A p \in Pages : PageAgrees(p)'
    BY <1>5, <1>0 DEF SubmitDies, PageAgrees, CallAgrees, SubmitAt, RowsTyped
  <2>4. CallAgrees(s)'
    <3>1. /\ ~SubmitAt(s, "idle") /\ submit'[s].pc = "done"
          /\ PageOf[s] \in Pages
      BY <1>5, <1>0, OthersStand DEF SubmitDies, SubmitAt, SubmitDone
    <3> QED
      BY <3>1, <2>2, <1>0, CallEnds
  <2> QED
    BY <2>1, <2>2, <2>3, <2>4, CallStepKeeps
<1>6. ASSUME NEW s \in Submits, Sign(s) PROVE CheckoutInv'
  <2>1. \A t \in Submits \ {s} : submit'[t] = submit[t]
    BY <1>6, OthersStand DEF Sign, SubmitPCs
  <2>2. \A p \in Pages : RowsAdvance(p)
    BY <1>6, <1>0 DEF Sign, RowsAdvance, RowsTyped
  <2>3. \A p \in Pages : PageAgrees(p)'
    BY <1>6, <1>0 DEF Sign, PageAgrees, CallAgrees, SubmitAt, RowsTyped
  <2>4. CallAgrees(s)'
    <3>1. /\ ~SubmitAt(s, "idle") /\ submit'[s].pc = "order"
          /\ PageOf[s] \in Pages
      BY <1>6, <1>0, OthersStand DEF Sign, SubmitAt
    <3> QED
      BY <3>1, <2>2, <1>0, CallEnds
  <2> QED
    BY <2>1, <2>2, <2>3, <2>4, CallStepKeeps
<1>7. ASSUME NEW s \in Submits, OrderCheck(s) PROVE CheckoutInv'
  <2>1. \A t \in Submits \ {s} : submit'[t] = submit[t]
    <3>1. CASE \E pc : SubmitTo(s, pc)
      BY <3>1, OthersStand
    <3>2. CASE submit' = [submit EXCEPT ![s].pc = "commit",
                                       ![s].rules = published]
      BY <3>2 DEF CallsTyped
    <3> QED
      BY <1>7, <3>1, <3>2 DEF OrderCheck, SubmitDone
  <2>2. \A p \in Pages : RowsAdvance(p)
    BY <1>7, <1>0 DEF OrderCheck, RowsAdvance, RowsTyped
  <2>3. \A p \in Pages : PageAgrees(p)'
    BY <1>7, <1>0 DEF OrderCheck, PageAgrees, CallAgrees, SubmitAt, RowsTyped
  <2>4. CallAgrees(s)'
    <3>1. /\ SubmitAt(s, "order") /\ PageOf[s] \in Pages
          /\ UNCHANGED <<quote, signed, order, charge>>
      BY <1>7, <1>0 DEF OrderCheck
    <3>2. CASE order[PageOf[s]].st # "none" /\ SubmitTo(s, "charge")
      BY <3>1, <3>2, <2>2, <1>0, OthersStand, CallHasOrder DEF SubmitAt
    <3>3. CASE /\ QuoteValid(PageOf[s], submit[s].price)
               /\ PageOf[s] \in signed
               /\ submit' = [submit EXCEPT ![s].pc = "commit",
                                          ![s].rules = published]
      <4>1. submit'[s].pc = "commit" /\ submit'[s].price = submit[s].price
        BY <3>3 DEF CallsTyped, SubmitRow
      <4> QED
        BY <3>1, <3>3, <4>1, <1>0 DEF CallAgrees, SubmitAt, QuoteValid
    <3>4. CASE SubmitDone(s)
      BY <3>1, <3>4, <2>2, <1>0, OthersStand, CallEnds DEF SubmitAt, SubmitDone
    <3> QED
      BY <1>7, <3>2, <3>3, <3>4 DEF OrderCheck
  <2> QED
    BY <2>1, <2>2, <2>3, <2>4, CallStepKeeps
<1>8. ASSUME NEW s \in Submits, OrderExists(s) PROVE CheckoutInv'
  <2>1. \A t \in Submits \ {s} : submit'[t] = submit[t]
    BY <1>8, OthersStand DEF OrderExists, SubmitPCs
  <2>2. \A p \in Pages : RowsAdvance(p)
    BY <1>8, <1>0 DEF OrderExists, RowsAdvance, RowsTyped
  <2>3. \A p \in Pages : PageAgrees(p)'
    BY <1>8, <1>0 DEF OrderExists, PageAgrees, CallAgrees, SubmitAt, RowsTyped
  <2>4. CallAgrees(s)'
    <3>1. /\ ~SubmitAt(s, "idle") /\ submit'[s].pc = "charge"
          /\ PageOf[s] \in Pages
          /\ order'[PageOf[s]].st # "none"
      BY <1>8, <1>0, OthersStand DEF OrderExists, SubmitAt
    <3> QED
      BY <3>1, <2>2, <1>0, CallHasOrder
  <2> QED
    BY <2>1, <2>2, <2>3, <2>4, CallStepKeeps
<1>9. ASSUME NEW s \in Submits, OrderRefused(s) PROVE CheckoutInv'
  <2>1. \A t \in Submits \ {s} : submit'[t] = submit[t]
    BY <1>9, OthersStand DEF OrderRefused, SubmitDone
  <2>2. \A p \in Pages : RowsAdvance(p)
    BY <1>9, <1>0 DEF OrderRefused, RowsAdvance, RowsTyped
  <2>3. \A p \in Pages : PageAgrees(p)'
    BY <1>9, <1>0 DEF OrderRefused, PageAgrees, CallAgrees, SubmitAt, RowsTyped
  <2>4. CallAgrees(s)'
    <3>1. /\ ~SubmitAt(s, "idle") /\ submit'[s].pc = "done"
          /\ PageOf[s] \in Pages
      BY <1>9, <1>0, OthersStand DEF OrderRefused, SubmitAt, SubmitDone
    <3> QED
      BY <3>1, <2>2, <1>0, CallEnds
  <2> QED
    BY <2>1, <2>2, <2>3, <2>4, CallStepKeeps
<1>10. ASSUME NEW s \in Submits, Charge(s) PROVE CheckoutInv'
  <2>1. \A t \in Submits \ {s} : submit'[t] = submit[t]
    BY <1>10, OthersStand DEF Charge, SubmitPCs
  <2>2. \A p \in Pages : RowsAdvance(p)
    BY <1>10, <1>0 DEF Charge, RowsAdvance, RowsTyped
  <2>3. \A p \in Pages : PageAgrees(p)'
    BY <1>10, <1>0 DEF Charge, PageAgrees, CallAgrees, SubmitAt, RowsTyped
  <2>4. CallAgrees(s)'
    <3>1. /\ SubmitAt(s, "charge") /\ PageOf[s] \in Pages
          /\ order' = order /\ quote' = quote
          /\ charge'[PageOf[s]] \in {"SUCCEEDED", "FAILED", "UNKNOWN"}
      BY <1>10, <1>0 DEF Charge, RowsTyped
    <3>2. submit'[s].pc = IF charge'[PageOf[s]] = "SUCCEEDED" THEN "paid"
                          ELSE "record"
      BY <1>10, OthersStand DEF Charge, SubmitPCs
    <3> QED
      BY <3>1, <3>2, <1>0 DEF CallAgrees, SubmitAt
  <2> QED
    BY <2>1, <2>2, <2>3, <2>4, CallStepKeeps
<1>11. ASSUME NEW s \in Submits, RecordPayment(s) PROVE CheckoutInv'
  <2>1. \A t \in Submits \ {s} : submit'[t] = submit[t]
    BY <1>11, OthersStand DEF RecordPayment, SubmitDone
  <2>2. \A p \in Pages : RowsAdvance(p)
    BY <1>11, <1>0 DEF RecordPayment, RowsAdvance, RowsTyped
  <2>3. \A p \in Pages : PageAgrees(p)'
    BY <1>11, <1>0 DEF RecordPayment, PageAgrees, CallAgrees, SubmitAt, RowsTyped
  <2>4. CallAgrees(s)'
    <3>1. /\ ~SubmitAt(s, "idle") /\ submit'[s].pc = "done"
          /\ PageOf[s] \in Pages
      BY <1>11, <1>0, OthersStand DEF RecordPayment, SubmitAt, SubmitDone
    <3> QED
      BY <3>1, <2>2, <1>0, CallEnds
  <2> QED
    BY <2>1, <2>2, <2>3, <2>4, CallStepKeeps
<1>12. ASSUME NEW s \in Submits, PaymentKnown(s) PROVE CheckoutInv'
  <2>1. \A t \in Submits \ {s} : submit'[t] = submit[t]
    BY <1>12, OthersStand DEF PaymentKnown, SubmitDone
  <2>2. \A p \in Pages : RowsAdvance(p)
    BY <1>12, <1>0 DEF PaymentKnown, RowsAdvance, RowsTyped
  <2>3. \A p \in Pages : PageAgrees(p)'
    BY <1>12, <1>0 DEF PaymentKnown, PageAgrees, CallAgrees, SubmitAt, RowsTyped
  <2>4. CallAgrees(s)'
    <3>1. /\ ~SubmitAt(s, "idle") /\ submit'[s].pc = "done"
          /\ PageOf[s] \in Pages
      BY <1>12, <1>0, OthersStand DEF PaymentKnown, SubmitAt, SubmitDone
    <3> QED
      BY <3>1, <2>2, <1>0, CallEnds
  <2> QED
    BY <2>1, <2>2, <2>3, <2>4, CallStepKeeps
<1>13. ASSUME NEW s \in Submits, OrderCommit(s) PROVE CheckoutInv'
  <2>1. \A t \in Submits \ {s} : submit'[t] = submit[t]
    BY <1>13, OthersStand DEF OrderCommit, PlaceOrder
  <2>2. \A p \in Pages : RowsAdvance(p)
    BY <1>13, <1>0 DEF OrderCommit, RowsAdvance, RowsTyped, PlaceOrder, QuoteRow, OrderRow
  <2>3. \A p \in Pages : PageAgrees(p)'
    BY <1>13, <1>0 DEF OrderCommit, PageAgrees, CallAgrees, SubmitAt, RowsTyped, PlaceOrder, QuoteRow, OrderRow
  <2>4. CallAgrees(s)'
    <3>1. /\ ~SubmitAt(s, "idle") /\ submit'[s].pc = "charge"
          /\ PageOf[s] \in Pages
          /\ order'[PageOf[s]].st # "none"
      BY <1>13, <1>0, OthersStand DEF OrderCommit, SubmitAt, PlaceOrder, RowsTyped
    <3> QED
      BY <3>1, <2>2, <1>0, CallHasOrder
  <2> QED
    BY <2>1, <2>2, <2>3, <2>4, CallStepKeeps
<1>14. ASSUME NEW s \in Submits, MarkOrderPaid(s) PROVE CheckoutInv'
  <2>1. \A t \in Submits \ {s} : submit'[t] = submit[t]
    BY <1>14, OthersStand DEF MarkOrderPaid, SubmitDone
  <2>2. \A p \in Pages : RowsAdvance(p)
    BY <1>14, <1>0 DEF MarkOrderPaid, RowsAdvance, RowsTyped, OrderRow
  <2>3. \A p \in Pages : PageAgrees(p)'
    BY <1>14, <1>0 DEF MarkOrderPaid, PageAgrees, CallAgrees, SubmitAt, RowsTyped, OrderRow
  <2>4. CallAgrees(s)'
    <3>1. /\ ~SubmitAt(s, "idle") /\ submit'[s].pc = "done"
          /\ PageOf[s] \in Pages
      BY <1>14, <1>0, OthersStand DEF MarkOrderPaid, SubmitAt, SubmitDone
    <3> QED
      BY <3>1, <2>2, <1>0, CallEnds
  <2> QED
    BY <2>1, <2>2, <2>3, <2>4, CallStepKeeps
<1> QED
  BY <1>1, <1>2, <1>3, <1>4, <1>5, <1>6, <1>7, <1>8,
     <1>9, <1>10, <1>11, <1>12, <1>13, <1>14
     DEF CheckoutNext, CheckoutEnvironment, CallStep, CheckoutStep

LEMMA CheckoutInvHolds == CheckoutSpec => []CheckoutInv
<1>1. CheckoutTypeOK /\ CheckoutInv /\ [CheckoutNext]_checkoutVars
        => CheckoutInv'
  BY TypeParts, CheckoutInvStep
<1> QED
  BY <1>1, CheckoutInvInit, CheckoutTyped, PTL DEF CheckoutSpec

\* Nobody is charged before signing or at another price than the one signed,
\* whatever is deployed in between (revalidateQuote, createOrder).
THEOREM ChargesAreSigned == CheckoutSpec => []ChargedAsSigned
<1>1. CheckoutInv => ChargedAsSigned
  BY DEF CheckoutInv, PageAgrees, ChargedAsSigned
<1> QED
  BY <1>1, CheckoutInvHolds, PTL

\* Payments, orders and books agree: paid means charged, once (markOrderPaid).
THEOREM PaymentsAreCharged == CheckoutSpec => []PaidMeansCharged
<1>1. CheckoutInv => PaidMeansCharged
  BY DEF CheckoutInv, PageAgrees, PaidMeansCharged
<1> QED
  BY <1>1, CheckoutInvHolds, PTL

=============================================================================
