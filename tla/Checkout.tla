------------------------------- MODULE Checkout -------------------------------
(***************************************************************************)
(* Buying an account: src/server/services/checkout-service.ts and          *)
(* completeCheckout of src/app/checkout/actions.ts.                        *)
(*                                                                         *)
(*   pages     renders of the checkout page.  Each has made its own quote  *)
(*             and its own idempotency key, so a page names a quote, an    *)
(*             order and a charge;                                         *)
(*   submits   calls of completeCheckout: a page may be submitted twice.   *)
(*                                                                         *)
(* The commercial terms are two numbers: the version of the prices and the *)
(* version of the rules.  A deploy changes the code's catalog; publishing  *)
(* it is a separate script (scripts/publish-catalog.mjs).                  *)
(***************************************************************************)
EXTENDS Integers, FiniteSets

CONSTANTS
    Pages, Submits,
    PageOf,             \* the page each submit belongs to
    UserOf,             \* the customer of each page
    CouponPages,        \* pages on which the coupon was typed
    MaxRedemptions, MaxPerCustomer, \* the coupon's limits
    MaxDeploys,         \* bound on catalog changes
    MaxDrops            \* bound on web processes that die

ASSUME CheckoutAssumption ==
    /\ PageOf \in [Submits -> Pages]
    /\ DOMAIN UserOf = Pages
    /\ CouponPages \subseteq Pages
    /\ {MaxRedemptions, MaxPerCustomer, MaxDeploys, MaxDrops} \subseteq Nat

VARIABLES
    code,       \* the deployed catalog: versions of price and rules
    published,  \* rules of the PUBLISHED PlanVersion
    quote,      \* Quote rows
    signed,     \* pages whose agreements have been accepted
    order,      \* Order rows, with the terms frozen into them
    redeemed,   \* pages whose order has a CouponRedemption row
    charge,     \* charges at the payment provider
    payment,    \* Payment rows
    posted,     \* number of times the purchase of a page was posted
    submit,     \* progress of each call
    deploys, drops

checkoutVars == <<code, published, quote, signed, order, redeemed, charge,
                  payment, posted, submit, deploys, drops>>

NoQuote == [price |-> 0, rules |-> 0, coupon |-> FALSE, used |-> FALSE,
            old |-> FALSE]
NoOrder == [st |-> "none", price |-> 0, rules |-> 0]
IdleSubmit == [pc |-> "idle", price |-> 0, rules |-> 0]

CheckoutInit ==
    /\ code = [price |-> 1, rules |-> 1]
    /\ published = 1
    /\ quote = [p \in Pages |-> NoQuote]
    /\ signed = {}
    /\ order = [p \in Pages |-> NoOrder]
    /\ redeemed = {}
    /\ charge = [p \in Pages |-> "none"]
    /\ payment = [p \in Pages |-> "none"]
    /\ posted = [p \in Pages |-> 0]
    /\ submit = [s \in Submits |-> IdleSubmit]
    /\ deploys = 0
    /\ drops = 0

SubmitAt(s, pc) == submit[s].pc = pc
SubmitTo(s, pc) == submit' = [submit EXCEPT ![s].pc = pc]
SubmitDone(s) == SubmitTo(s, "done")

-----------------------------------------------------------------------------
(* The catalog and the page.                                               *)

Deploy ==
    /\ deploys < MaxDeploys
    /\ deploys' = deploys + 1
    /\ \E field \in {"price", "rules"} : code' = [code EXCEPT ![field] = @ + 1]
    /\ UNCHANGED <<published, quote, signed, order, redeemed, charge, payment,
                   posted, submit, drops>>

\* publishCatalogRevisions.
Publish ==
    /\ published # code.rules
    /\ published' = code.rules
    /\ UNCHANGED <<code, quote, signed, order, redeemed, charge, payment,
                   posted, submit, deploys, drops>>

Redemptions == Cardinality(redeemed)
RedemptionsOf(user) == Cardinality({p \in redeemed : UserOf[p] = user})

CouponAvailable(p) ==
    Redemptions < MaxRedemptions /\ RedemptionsOf(UserOf[p]) < MaxPerCustomer

\* createQuote, when the page is rendered: the coupon is dropped when its
\* limits are reached, and the rules shown are those of the code.
CreateQuote(p) ==
    /\ quote[p].price = 0
    /\ quote' = [quote EXCEPT ![p] =
          [price |-> code.price, rules |-> code.rules,
           coupon |-> p \in CouponPages /\ CouponAvailable(p),
           used |-> FALSE, old |-> FALSE]]
    /\ UNCHANGED <<code, published, signed, order, redeemed, charge, payment,
                   posted, submit, deploys, drops>>

\* After thirty minutes; of no consequence to a quote that was used.
QuoteExpires(p) ==
    /\ quote[p].price # 0 /\ ~quote[p].used /\ ~quote[p].old
    /\ quote' = [quote EXCEPT ![p].old = TRUE]
    /\ UNCHANGED <<code, published, signed, order, redeemed, charge, payment,
                   posted, submit, deploys, drops>>

-----------------------------------------------------------------------------
(* completeCheckout.                                                       *)

\* Faulty variant: the quote is not priced again.
QuoteValidUnpriced(p, price) == ~quote[p].used /\ ~quote[p].old

\* revalidateQuote: the hash covers the price and the coupon, not the rules.
QuoteValid(p, price) ==
    ~quote[p].used /\ ~quote[p].old /\ quote[p].price = price

\* A call runs on the code it was started with, and first revalidates.
SubmitStart(s) ==
    /\ SubmitAt(s, "idle")
    /\ quote[PageOf[s]].price # 0
    /\ submit' = [submit EXCEPT ![s] = [price |-> code.price, rules |-> 0,
          pc |-> IF QuoteValid(PageOf[s], code.price) THEN "sign" ELSE "done"]]
    /\ UNCHANGED <<code, published, quote, signed, order, redeemed, charge,
                   payment, posted, deploys, drops>>

\* recordAcceptance for every required document, then signatureStatus.
Sign(s) ==
    /\ SubmitAt(s, "sign")
    /\ signed' = signed \union {PageOf[s]}
    /\ SubmitTo(s, "order")
    /\ UNCHANGED <<code, published, quote, order, redeemed, charge, payment,
                   posted, deploys, drops>>

\* createOrder up to its transaction: the key, the quote, the signatures and
\* the published plan version.
OrderCheck(s) ==
    LET p == PageOf[s] IN
    /\ SubmitAt(s, "order")
    /\ \/ /\ order[p].st # "none"
          /\ SubmitTo(s, "charge")
       \/ /\ order[p].st = "none"
          /\ QuoteValid(p, submit[s].price) /\ p \in signed
          /\ submit' = [submit EXCEPT ![s].pc = "commit",
                                      ![s].rules = published]
       \/ /\ order[p].st = "none"
          /\ ~QuoteValid(p, submit[s].price) \/ p \notin signed
          /\ SubmitDone(s)
    /\ UNCHANGED <<code, published, quote, signed, order, redeemed, charge,
                   payment, posted, deploys, drops>>

\* The transaction finds the same key, a used quote or an exhausted coupon.
OrderExists(s) ==
    /\ SubmitAt(s, "commit")
    /\ order[PageOf[s]].st # "none"
    /\ SubmitTo(s, "charge")
    /\ UNCHANGED <<code, published, quote, signed, order, redeemed, charge,
                   payment, posted, deploys, drops>>

CouponRefused(p) == quote[p].coupon /\ ~CouponAvailable(p)

OrderRefused(s) ==
    LET p == PageOf[s] IN
    /\ SubmitAt(s, "commit")
    /\ order[p].st = "none"
    /\ quote[p].used \/ CouponRefused(p)
    /\ SubmitDone(s)
    /\ UNCHANGED <<code, published, quote, signed, order, redeemed, charge,
                   payment, posted, deploys, drops>>

PlaceOrder(s) ==
    LET p == PageOf[s] IN
    /\ order' = [order EXCEPT ![p] = [st |-> "PENDING_PAYMENT",
                    price |-> submit[s].price, rules |-> submit[s].rules]]
    /\ redeemed' = IF quote[p].coupon THEN redeemed \union {p} ELSE redeemed
    /\ quote' = [quote EXCEPT ![p].used = TRUE]
    /\ SubmitTo(s, "charge")
    /\ UNCHANGED <<code, published, signed, charge, payment, posted, deploys,
                   drops>>

\* Faulty variant: the coupon's limits are checked before the transaction only.
OrderCommitStaleCoupon(s) ==
    /\ SubmitAt(s, "commit")
    /\ order[PageOf[s]].st = "none"
    /\ ~quote[PageOf[s]].used
    /\ PlaceOrder(s)

OrderCommit(s) ==
    /\ SubmitAt(s, "commit")
    /\ order[PageOf[s]].st = "none"
    /\ ~quote[PageOf[s]].used /\ ~CouponRefused(PageOf[s])
    /\ PlaceOrder(s)

\* Faulty variant: a success is recorded but not applied to the order.
ChargeRecorded(s) ==
    LET p == PageOf[s] IN
    /\ SubmitAt(s, "charge")
    /\ IF charge[p] # "none" THEN UNCHANGED charge
       ELSE \E outcome \in {"SUCCEEDED", "FAILED", "UNKNOWN"} :
               charge' = [charge EXCEPT ![p] = outcome]
    /\ SubmitTo(s, "record")
    /\ UNCHANGED <<code, published, quote, signed, order, redeemed, payment,
                   posted, deploys, drops>>

\* createCharge answers a known key with its first result, or does not answer.
Charge(s) ==
    LET p == PageOf[s] IN
    /\ SubmitAt(s, "charge")
    /\ IF charge[p] # "none" THEN UNCHANGED charge
       ELSE \E outcome \in {"SUCCEEDED", "FAILED", "UNKNOWN"} :
               charge' = [charge EXCEPT ![p] = outcome]
    /\ SubmitTo(s, IF charge'[p] = "SUCCEEDED" THEN "paid" ELSE "record")
    /\ UNCHANGED <<code, published, quote, signed, order, redeemed, payment,
                   posted, deploys, drops>>

\* A declined or open charge is recorded as what it is.
RecordPayment(s) ==
    LET p == PageOf[s] IN
    /\ SubmitAt(s, "record")
    /\ payment' = [payment EXCEPT ![p] = charge[p]]
    /\ SubmitDone(s)
    /\ UNCHANGED <<code, published, quote, signed, order, redeemed, charge,
                   posted, deploys, drops>>

\* markOrderPaid, for a payment that was applied already.
PaymentKnown(s) ==
    /\ SubmitAt(s, "paid")
    /\ payment[PageOf[s]] = "SUCCEEDED"
    /\ SubmitDone(s)
    /\ UNCHANGED <<code, published, quote, signed, order, redeemed, charge,
                   payment, posted, deploys, drops>>

\* Faulty variant: each call that sees the success applies and posts it.
MarkOrderPaidAgain(s) ==
    LET p == PageOf[s] IN
    /\ SubmitAt(s, "paid")
    /\ payment' = [payment EXCEPT ![p] = "SUCCEEDED"]
    /\ order' = [order EXCEPT ![p].st =
                    IF @ = "PENDING_PAYMENT" THEN "PAID" ELSE @]
    /\ posted' = [posted EXCEPT ![p] = @ + 1]
    /\ SubmitDone(s)
    /\ UNCHANGED <<code, published, quote, signed, redeemed, charge, deploys,
                   drops>>

\* markOrderPaid, its transaction: payment, order and postings (and, in
\* Fulfilment, the provisioning job).  A purchase is posted once per key.
MarkOrderPaid(s) ==
    LET p == PageOf[s] IN
    /\ SubmitAt(s, "paid")
    /\ payment[p] # "SUCCEEDED"
    /\ payment' = [payment EXCEPT ![p] = "SUCCEEDED"]
    /\ order' = [order EXCEPT ![p].st =
                    IF @ = "PENDING_PAYMENT" THEN "PAID" ELSE @]
    /\ posted' = [posted EXCEPT ![p] = 1]
    /\ SubmitDone(s)
    /\ UNCHANGED <<code, published, quote, signed, redeemed, charge, deploys,
                   drops>>

SubmitDies(s) ==
    /\ submit[s].pc \notin {"idle", "done"}
    /\ drops < MaxDrops
    /\ drops' = drops + 1
    /\ SubmitDone(s)
    /\ UNCHANGED <<code, published, quote, signed, order, redeemed, charge,
                   payment, posted, deploys>>

\* The steps that touch nothing but the tables of this module.
CheckoutStep(s) ==
    \/ Sign(s) \/ OrderCheck(s) \/ OrderExists(s)
    \/ OrderRefused(s) \/ Charge(s) \/ RecordPayment(s) \/ PaymentKnown(s)

CheckoutEnvironment ==
    \/ Deploy \/ Publish
    \/ \E p \in Pages : CreateQuote(p) \/ QuoteExpires(p)
    \/ \E s \in Submits : SubmitStart(s) \/ SubmitDies(s)

CallStep(s) == CheckoutStep(s) \/ OrderCommit(s) \/ MarkOrderPaid(s)

CheckoutNext == CheckoutEnvironment \/ \E s \in Submits : CallStep(s)

CheckoutSpec == CheckoutInit /\ [][CheckoutNext]_checkoutVars

\* A request that was started runs on; nobody has to submit or to deploy.
CheckoutFairSpec ==
    CheckoutSpec /\ \A s \in Submits : WF_checkoutVars(CallStep(s))

-----------------------------------------------------------------------------
(* Properties.                                                             *)

\* Every row and call has its declared shape (Prisma schema).
CheckoutTypeOK ==
    /\ code \in [price : Nat, rules : Nat]
    /\ published \in Nat
    /\ quote \in [Pages -> [price : Nat, rules : Nat, coupon : BOOLEAN,
                            used : BOOLEAN, old : BOOLEAN]]
    /\ signed \subseteq Pages
    /\ order \in [Pages -> [st : {"none", "PENDING_PAYMENT", "PAID", "FULFILLED"},
                            price : Nat, rules : Nat]]
    /\ redeemed \subseteq Pages
    /\ charge \in [Pages -> {"none", "SUCCEEDED", "FAILED", "UNKNOWN"}]
    /\ payment \in [Pages -> {"none", "SUCCEEDED", "FAILED", "UNKNOWN"}]
    /\ posted \in [Pages -> 0 .. 1]
    /\ submit \in [Submits -> [pc : {"idle", "sign", "order",
                        "commit", "charge", "record", "paid", "done"},
                     price : Nat, rules : Nat]]
    /\ deploys \in 0 .. MaxDeploys
    /\ drops \in 0 .. MaxDrops

\* "Coupon limits are checked inside the order transaction, so concurrent
\* submissions cannot both pass": neither limit is ever exceeded.
CouponWithinLimits ==
    /\ Redemptions <= MaxRedemptions
    /\ \A p \in Pages : RedemptionsOf(UserOf[p]) <= MaxPerCustomer

\* A customer is charged the price that was signed, whatever is deployed
\* between the rendering of the page and the charge (revalidateQuote).
ChargedAsSigned ==
    \A p \in Pages : charge[p] # "none" =>
        /\ p \in signed
        /\ order[p].price = quote[p].price

\* Payment, order and books agree: what is paid is charged and posted, and
\* nothing else is (markOrderPaid).
PaidMeansCharged ==
    \A p \in Pages :
        /\ order[p].st \in {"PAID", "FULFILLED"} <=> payment[p] = "SUCCEEDED"
        /\ payment[p] = "SUCCEEDED" => charge[p] = "SUCCEEDED"
        /\ posted[p] = 1 <=> payment[p] = "SUCCEEDED"

\* A charge that succeeded becomes a paid order, unless the web process dies
\* between the two (completeCheckout).
SuccessIsApplied ==
    \A p \in Pages :
        charge[p] = "SUCCEEDED" ~>
            order[p].st \in {"PAID", "FULFILLED"} \/ drops > 0

\* The rules frozen into an order are the ones the customer was shown.
TermsAsSigned ==
    \A p \in Pages : order[p].st # "none" => order[p].rules = quote[p].rules

=============================================================================
