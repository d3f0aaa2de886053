------------------------------ MODULE Fulfilment ------------------------------
(***************************************************************************)
(* From the checkout page to a sign-in that works: Checkout, Provisioning  *)
(* and Credentials composed.  Three transactions of the code write tables  *)
(* of two of them: createOrder adds the provisioning job, markOrderPaid    *)
(* starts it, runProvisioning fulfils the order and issues the credential. *)
(***************************************************************************)
EXTENDS Checkout, Provisioning, Credentials

ASSUME FulfilmentAssumption == Orders = Pages /\ Accounts = Pages

shopVars == <<checkoutVars, provVars, credVars>>

ShopInit == CheckoutInit /\ ProvInit /\ CredInit

\* Faulty variant: the job starts with the order, not with its payment.
OrderPlacedStarted(s) ==
    /\ OrderCommit(s)
    /\ StartProvisioning(PageOf[s])
    /\ UNCHANGED credVars

OrderPlaced(s) ==
    /\ OrderCommit(s)
    /\ AddProvisioningJob(PageOf[s])
    /\ UNCHANGED credVars

\* Faulty variant: the provisioning job is enqueued after the transaction,
\* which a dying process forgets.
OrderPaidUnqueued(s) ==
    /\ MarkOrderPaid(s)
    /\ UNCHANGED <<provVars, credVars>>

OrderPaid(s) ==
    /\ MarkOrderPaid(s)
    /\ StartProvisioning(PageOf[s])
    /\ UNCHANGED credVars

OrderFulfilled(w) ==
    /\ Fulfil(w)
    /\ order' = [order EXCEPT ![OrderOf(w)].st = "FULFILLED"]
    /\ UNCHANGED <<code, published, quote, signed, redeemed, charge, payment,
                   posted, submit, deploys, drops, credVars>>

CredentialIssued(w) ==
    /\ Issue(w)
    /\ IssueCredential(OrderOf(w))
    /\ UNCHANGED checkoutVars

SubmitStep(s) ==
    \/ CheckoutStep(s) /\ UNCHANGED <<provVars, credVars>>
    \/ OrderPlaced(s) \/ OrderPaid(s)

WorkerStep(w) ==
    \/ ProvisioningStep(w) /\ UNCHANGED <<checkoutVars, credVars>>
    \/ OrderFulfilled(w) \/ CredentialIssued(w)

ClaimJob(w) == Claim(w) /\ UNCHANGED <<checkoutVars, credVars>>
RecoverClaim == Recover /\ UNCHANGED <<checkoutVars, credVars>>

ShopNext ==
    \/ CheckoutEnvironment /\ UNCHANGED <<provVars, credVars>>
    \/ \E s \in Submits : SubmitStep(s)
    \/ \E w \in Workers : ClaimJob(w) \/ WorkerStep(w)
    \/ RecoverClaim
    \/ (\E w \in Workers : WorkerDies(w)) /\ UNCHANGED <<checkoutVars, credVars>>
    \/ Requeue /\ UNCHANGED <<checkoutVars, credVars>>
    \/ \E t \in Tabs, a \in Accounts :
          CredentialStep(t, a) /\ UNCHANGED <<checkoutVars, provVars>>

ShopSpec == ShopInit /\ [][ShopNext]_shopVars

(***************************************************************************)
(* A request that was started runs on, and so does a claimed job.  Workers *)
(* poll every second and recover claims at each poll (worker.ts).  Nothing *)
(* makes a customer, an operator or the provider do anything.              *)
(***************************************************************************)
ShopFairness ==
    /\ \A s \in Submits : WF_shopVars(SubmitStep(s))
    /\ \A w \in Workers : WF_shopVars(ClaimJob(w)) /\ WF_shopVars(WorkerStep(w))
    /\ WF_shopVars(RecoverClaim)

ShopFairSpec == ShopSpec /\ ShopFairness

-----------------------------------------------------------------------------
(* Properties.                                                             *)

\* Every table of the three components has its declared shape, and the retries
\* of an order end: two counters bound them, one in the job row and one in the
\* key of its successor, and the recovery of a claim resets neither.
ShopInv == CheckoutTypeOK /\ ProvTypeOK /\ CredTypeOK /\ RetriesAreBounded

\* Nothing is delivered that was not paid for: an account exists, here or at
\* the provider, only for an order whose charge succeeded.
NothingUnpaid ==
    \A p \in Pages :
        ext[p] > 0 \/ acct[p] # "none" =>
            charge[p] = "SUCCEEDED" /\ order[p].st \in {"PAID", "FULFILLED"}

\* "A trader never holds a sign-in for an account that does not exist yet",
\* and an order is fulfilled only by an account that can be traded.
SignInsWork ==
    \A p \in Pages :
        /\ order[p].st = "FULFILLED" => acct[p] = "ACTIVE"
        /\ cred[p].pw # 0 => order[p].st = "FULFILLED"

Delivered(p) == order[p].st = "FULFILLED" /\ acct[p] = "ACTIVE" /\ cred[p].pw # 0

\* An order that a person has been shown in /admin: held for review, or its
\* job marked DEAD.
Escalated(p) ==
    \/ NeedsOperator(pjob[p].st)
    \/ \E k \in JobKeys : k[1] = p /\ jobs[k].st = "DEAD"

\* "A failure after successful payment retries a bounded number of times, then
\* escalates": every paid order is delivered or brought before a person.
PaidIsDecided ==
    \A p \in Pages : order[p].st = "PAID" ~> Delivered(p) \/ Escalated(p)

\* The same as long as no worker dies.
PaidIsDecidedAlive ==
    \A p \in Pages :
        order[p].st = "PAID" ~> Delivered(p) \/ Escalated(p) \/ crashes > 0

\* At-least-once: whatever dies, every job that was enqueued is completed or
\* dead in the end, so the queue is empty again and again.
Drained == \A k \in JobKeys : jobs[k].st \notin {"PENDING", "CLAIMED"}
JobsEnd == []<>Drained

=============================================================================
