--------------------------- MODULE FulfilmentProofs ---------------------------
(***************************************************************************)
(* From a charge to a sign-in, for any number of customers, workers,       *)
(* retries, deaths and refusals of the provider.                           *)
(*                                                                         *)
(* A worker reads a row, awaits, and writes it later; WorkerAgrees says    *)
(* for each stage what it relies on.  All of that lasts: what was bought   *)
(* stays bought, an account at the provider stays the only one, confirmed  *)
(* limits and an opened account stay (ShopAdvances).                       *)
(* QueueAgrees says who holds which claim and which retries are left; from *)
(* it follow the bounds, and the edges while one job runs at a time.       *)
(***************************************************************************)
EXTENDS Fulfilment, CheckoutProofs

WorkerRow == [pc : Stages, job : JobKeys \union {NoKey},
              st : ProvisioningState \union {"none"}, att : Nat,
              to : ProvisioningState, then : Stages, err : Stages,
              again : BOOLEAN]

WorkersTyped == worker \in [Workers -> WorkerRow]
JobsTyped ==
    jobs \in [JobKeys -> [st : {"none", "PENDING", "CLAIMED", "SUCCEEDED", "DEAD"},
                          att : Nat]]
AccountsTyped ==
    /\ pjob \in [Pages -> [st : ProvisioningState \union {"none"}, att : Nat]]
    /\ acct \in [Pages -> {"none", "PENDING", "ACTIVE"}]
    /\ ext \in [Pages -> Nat]
    /\ limits \subseteq Pages
ShopTyped == WorkersTyped /\ JobsTyped /\ AccountsTyped

\* What a step of one worker leaves alone.
OthersWait(w) == \A v \in Workers \ {w} : worker'[v] = worker[v]

LEMMA WorkerGoes ==
    ASSUME WorkersTyped, NEW w \in Workers, NEW pc \in Stages, GoTo(w, pc)
    PROVE  /\ WorkersTyped' /\ OthersWait(w)
           /\ worker'[w].pc = pc
           /\ worker'[w].job = worker[w].job /\ worker'[w].to = worker[w].to
           /\ worker'[w].then = worker[w].then /\ worker'[w].err = worker[w].err
BY DEF WorkersTyped, OthersWait, GoTo, WorkerRow

LEMMA WorkerTransits ==
    ASSUME WorkersTyped, NEW w \in Workers, NEW to \in ProvisioningState,
           NEW then \in Stages, NEW err \in Stages, Transition(w, to, then, err)
    PROVE  /\ WorkersTyped' /\ OthersWait(w)
           /\ worker'[w].pc = "check"
           /\ worker'[w].job = worker[w].job /\ worker'[w].to = to
           /\ worker'[w].then = then /\ worker'[w].err = err
<1>1. worker[w] \in WorkerRow /\ "check" \in Stages
  BY DEF WorkersTyped, Stages
<1>2. worker' = [worker EXCEPT ![w] =
        [worker[w] EXCEPT !.pc = "check", !.to = to, !.then = then, !.err = err]]
  BY DEF Transition, WorkersTyped
<1>3. ASSUME NEW r \in WorkerRow
      PROVE  /\ [r EXCEPT !.pc = "check", !.to = to] \in WorkerRow
             /\ [r EXCEPT !.then = then, !.err = err] \in WorkerRow
  BY <1>1 DEF WorkerRow
<1>4. [worker[w] EXCEPT !.pc = "check", !.to = to, !.then = then, !.err = err]
        \in WorkerRow
  BY <1>1, <1>3
<1> QED
  BY <1>1, <1>2, <1>4 DEF WorkersTyped, OthersWait, WorkerRow

LEMMA WorkerReleased ==
    ASSUME WorkersTyped, NEW w \in Workers, Release(w)
    PROVE  WorkersTyped' /\ OthersWait(w) /\ worker'[w].pc = "idle"
<1>1. IdleWorker \in WorkerRow
  BY DEF IdleWorker, WorkerRow, Stages, NoKey, ProvisioningState
<1> QED
  BY <1>1 DEF WorkersTyped, OthersWait, Release, IdleWorker

-----------------------------------------------------------------------------
(* The invariant.                                                          *)

Bought(p) == charge[p] = "SUCCEEDED" /\ order[p].st \in {"PAID", "FULFILLED"}

\* A job exists for what was bought, and so does everything made by a job.
JobsBought == \A k \in JobKeys : jobs[k].st # "none" => Bought(k[1])

RowAgrees(p) ==
    /\ ext[p] > 0 \/ acct[p] # "none" => Bought(p)
    /\ pjob[p].st \notin {"none", "payment_pending"} => Bought(p)
    /\ ext[p] <= 1 /\ (acct[p] # "none" => ext[p] = 1)
    /\ acct[p] = "ACTIVE" \/ pjob[p].st \in {"risk_verified", "active"}
          => p \in limits
    /\ p \in limits => acct[p] # "none"
    /\ order[p].st = "FULFILLED" => acct[p] = "ACTIVE"
    /\ cred[p].pw # 0 => order[p].st = "FULFILLED"

Edge == {"check", "write"}

\* What a worker has established on its way through runProvisioning.
WorkerAgrees(w) ==
    LET o == OrderOf(w) IN
    /\ ~Stage(w, "idle") => worker[w].job \in JobKeys /\ Bought(o)
    /\ Stage(w, "row") => ext[o] = 1
    /\ Stage(w, "risk") \/ Stage(w, "configure") => acct[o] # "none"
    /\ worker[w].pc \in Edge =>
          /\ worker[w].then \in {"create", "risk", "activate", "open", "done",
                                 "retry"}
          /\ worker[w].err \in {"fail", "caught", "review"}
          /\ worker[w].to # "payment_pending"
          /\ worker[w].to \in {"risk_verified", "active"} => o \in limits
          /\ worker[w].then = "open" => o \in limits
          /\ worker[w].then = "risk" => acct[o] # "none"
    /\ Stage(w, "open") => o \in limits
    /\ Stage(w, "fulfil") => acct[o] = "ACTIVE"
    /\ Stage(w, "issue") => order[o].st = "FULFILLED"

\* What lasts, whoever takes the step.
ShopAdvances ==
    /\ \A p \in Pages :
          /\ Bought(p) => Bought(p)'
          /\ ext[p] = 1 => ext'[p] = 1
          /\ acct[p] # "none" => acct'[p] # "none"
          /\ acct[p] = "ACTIVE" => acct'[p] = "ACTIVE"
          /\ order[p].st = "FULFILLED" => order'[p].st = "FULFILLED"
    /\ limits \subseteq limits'

LEMMA KeyNamesOrder == \A k \in JobKeys : k[1] \in Pages
BY FulfilmentAssumption DEF JobKeys

\* A worker that does not move keeps what it has established.
LEMMA WorkerKeeps ==
    ASSUME NEW w \in Workers, WorkerAgrees(w), worker'[w] = worker[w],
           ShopAdvances
    PROVE  WorkerAgrees(w)'
<1>1. CASE Stage(w, "idle")
  BY <1>1 DEF WorkerAgrees, Stage, Edge
<1>2. CASE ~Stage(w, "idle")
  <2>1. OrderOf(w) \in Pages /\ OrderOf(w)' = OrderOf(w)
    BY <1>2, KeyNamesOrder DEF WorkerAgrees, OrderOf
  <2> QED
    BY <2>1 DEF WorkerAgrees, ShopAdvances, Stage, OrderOf
<1> QED
  BY <1>1, <1>2

\* The jobs and the keys of a step that enqueues nothing new.
LEMMA JobsKeep ==
    ASSUME JobsBought, ShopAdvances,
           \A k \in JobKeys : jobs'[k].st # "none" =>
              jobs[k].st # "none" \/ Bought(k[1])
    PROVE  JobsBought'
BY KeyNamesOrder DEF JobsBought, ShopAdvances

\* Checking out neither takes back a purchase nor fulfils one.
LEMMA CheckoutKeepsBought ==
    ASSUME CheckoutTypeOK, [CheckoutNext]_checkoutVars
    PROVE  \A p \in Pages :
              /\ Bought(p) => Bought(p)'
              /\ order'[p].st = "FULFILLED" <=> order[p].st = "FULFILLED"
<1>0. RowsTyped /\ CallsTyped /\ \A s \in Submits : PageOf[s] \in Pages
  BY TypeParts, CheckoutAssumption
<1>1. ASSUME NEW s \in Submits, OrderCommit(s)
      PROVE  \A p \in Pages :
              /\ Bought(p) => Bought(p)'
              /\ order'[p].st = "FULFILLED" <=> order[p].st = "FULFILLED"
  BY <1>0, <1>1 DEF OrderCommit, PlaceOrder, Bought, RowsTyped
<1>2. ASSUME NEW s \in Submits, MarkOrderPaid(s)
      PROVE  \A p \in Pages :
              /\ Bought(p) => Bought(p)'
              /\ order'[p].st = "FULFILLED" <=> order[p].st = "FULFILLED"
  BY <1>0, <1>2 DEF MarkOrderPaid, Bought, RowsTyped, OrderRow
<1>3. ASSUME NEW s \in Submits, Charge(s)
      PROVE  order' = order /\ \A p \in Pages : Bought(p) => Bought(p)'
  BY <1>0, <1>3 DEF Charge, Bought, RowsTyped
<1>4. ASSUME \/ CheckoutEnvironment \/ UNCHANGED checkoutVars
             \/ \E s \in Submits :
                   \/ Sign(s) \/ OrderCheck(s) \/ OrderExists(s)
                   \/ OrderRefused(s) \/ RecordPayment(s) \/ PaymentKnown(s)
      PROVE  order' = order /\ charge' = charge
  BY <1>4 DEF CheckoutEnvironment, Deploy, Publish, CreateQuote, QuoteExpires,
     SubmitStart, SubmitDies, Sign, OrderCheck, OrderExists, OrderRefused,
     RecordPayment, PaymentKnown, checkoutVars
<1> QED
  BY <1>1, <1>2, <1>3, <1>4 DEF CheckoutNext, CallStep, CheckoutStep, Bought

-----------------------------------------------------------------------------
(* Steps of a worker.                                                      *)

ShopKnown ==
    /\ ShopTyped /\ JobsBought
    /\ \A p \in Pages : RowAgrees(p)
    /\ \A w \in Workers : WorkerAgrees(w)

\* The order and the credential stand still, and so do the accounts.
OrdersStand == UNCHANGED <<order, charge, cred>>
AccountsStand == UNCHANGED <<pjob, acct, ext, limits>>

\* What a step of worker w has to show.
GoesOn(w) ==
    /\ ShopTyped' /\ JobsBought'
    /\ \A p \in Pages : RowAgrees(p)'
    /\ OthersWait(w) /\ WorkerAgrees(w)'
    /\ ShopAdvances

LEMMA GoingOnSuffices ==
    ASSUME ShopKnown, NEW w \in Workers, GoesOn(w)
    PROVE  ShopKnown'
<1>1. ASSUME NEW v \in Workers, v # w
      PROVE  WorkerAgrees(v)'
  BY <1>1, WorkerKeeps DEF ShopKnown, GoesOn, OthersWait
<1> QED
  BY <1>1 DEF ShopKnown, GoesOn

LEMMA RowsStand ==
    ASSUME ShopKnown, OrdersStand, AccountsStand
    PROVE  /\ AccountsTyped' /\ ShopAdvances
           /\ \A p \in Pages : RowAgrees(p)'
BY DEF ShopKnown, ShopTyped, AccountsTyped, OrdersStand, AccountsStand,
       RowAgrees, Bought, ShopAdvances

LEMMA JobsStand ==
    ASSUME ShopKnown, OrdersStand, UNCHANGED jobs
    PROVE  JobsTyped' /\ JobsBought'
BY DEF ShopKnown, ShopTyped, JobsTyped, JobsBought, OrdersStand, Bought

JobStates == {"none", "PENDING", "CLAIMED", "SUCCEEDED", "DEAD"}
JobRow == [st : JobStates, att : Nat]

LEMMA JobMoves ==
    ASSUME ShopKnown, OrdersStand, NEW k \in JobKeys, Bought(k[1]),
           NEW row \in JobRow, jobs' = [jobs EXCEPT ![k] = row]
    PROVE  JobsTyped' /\ JobsBought'
BY DEF ShopKnown, ShopTyped, JobsTyped, JobsBought, OrdersStand, Bought,
       JobRow, JobStates

LEMMA JobEnqueued ==
    ASSUME ShopKnown, OrdersStand, NEW k, Bought(k[1]), jobs' = Enqueued(k)
    PROVE  JobsTyped' /\ JobsBought'
BY DEF ShopKnown, ShopTyped, JobsTyped, JobsBought, OrdersStand, Bought,
       Enqueued

\* A worker that is not idle works on a job of an order that was bought.
LEMMA WorkerHasOrder ==
    ASSUME ShopKnown, NEW w \in Workers, ~Stage(w, "idle")
    PROVE  /\ worker[w].job \in JobKeys /\ OrderOf(w) \in Pages
           /\ Bought(OrderOf(w)) /\ OrderOf(w) = worker[w].job[1]
BY KeyNamesOrder DEF ShopKnown, WorkerAgrees, OrderOf

Plain == {"read", "find", "create", "caught", "retry", "review", "activate",
          "sync", "done", "fail"}

\* To a stage that relies on the purchase, or on the account as well.
LEMMA GoesToStage ==
    ASSUME ShopKnown, OrdersStand, AccountsStand, UNCHANGED jobs,
           NEW w \in Workers, ~Stage(w, "idle"),
           NEW pc \in Plain \union {"risk", "configure"},
           pc \in Plain \/ acct[OrderOf(w)] # "none", GoTo(w, pc)
    PROVE  GoesOn(w)
<1>1. pc \in Stages
  BY DEF Plain, Stages
<1>2. /\ WorkersTyped' /\ OthersWait(w) /\ worker'[w].pc = pc
      /\ worker'[w].job = worker[w].job
  BY <1>1, WorkerGoes DEF ShopKnown, ShopTyped
<1>3. worker[w].job \in JobKeys /\ Bought(OrderOf(w)) /\ OrderOf(w) \in Pages
  BY WorkerHasOrder
<1>4. AccountsTyped' /\ ShopAdvances /\ \A p \in Pages : RowAgrees(p)'
  BY RowsStand
<1>5. WorkerAgrees(w)'
  <2>1. OrderOf(w)' = OrderOf(w) /\ acct' = acct
    BY <1>2 DEF OrderOf, AccountsStand
  <2>2. Bought(OrderOf(w))'
    BY <1>3, <2>1 DEF OrdersStand, Bought
  <2> QED
    BY <1>2, <1>3, <2>1, <2>2 DEF WorkerAgrees, Plain, Stage, Edge
<1> QED
  BY <1>2, <1>4, <1>5, JobsStand DEF GoesOn, ShopTyped

\* To a check of the edge, with what the destination relies on.
LEMMA GoesToCheck ==
    ASSUME ShopKnown, OrdersStand, AccountsStand, UNCHANGED jobs,
           NEW w \in Workers, ~Stage(w, "idle"),
           NEW to \in ProvisioningState \ {"payment_pending"},
           NEW then \in {"create", "risk", "activate", "open", "done", "retry"},
           NEW err \in {"fail", "caught", "review"},
           to \in {"risk_verified", "active"} \/ then = "open"
              => OrderOf(w) \in limits,
           then = "risk" => acct[OrderOf(w)] # "none",
           Transition(w, to, then, err)
    PROVE  GoesOn(w)
<1>1. then \in Stages /\ err \in Stages
  BY DEF Stages
<1>2. /\ WorkersTyped' /\ OthersWait(w) /\ worker'[w].pc = "check"
      /\ worker'[w].job = worker[w].job /\ worker'[w].to = to
      /\ worker'[w].then = then /\ worker'[w].err = err
  BY <1>1, WorkerTransits DEF ShopKnown, ShopTyped
<1>3. worker[w].job \in JobKeys /\ Bought(OrderOf(w)) /\ OrderOf(w) \in Pages
  BY WorkerHasOrder
<1>4. AccountsTyped' /\ ShopAdvances /\ \A p \in Pages : RowAgrees(p)'
  BY RowsStand
<1>5. WorkerAgrees(w)'
  <2>1. OrderOf(w)' = OrderOf(w)
    BY <1>2 DEF OrderOf
  <2>2. ~Stage(w, "idle") => worker'[w].job \in JobKeys /\ Bought(OrderOf(w))'
    BY <1>2, <1>3, <2>1 DEF OrdersStand, Bought
  <2>3. limits' = limits /\ acct' = acct
    BY DEF AccountsStand
  <2> QED
    BY <1>2, <1>3, <1>4, <2>1, <2>2, <2>3
       DEF WorkerAgrees, Stage, Edge, ShopAdvances
<1> QED
  BY <1>2, <1>4, <1>5, JobsStand DEF GoesOn, ShopTyped

-----------------------------------------------------------------------------
(* The steps, by what they write: nothing, a job, an account.              *)


LEMMA FailureLeads ==
    ASSUME NEW n, NEW again
    PROVE  NextStateAfterFailure(n, again)
              \in {"provisioning_failed_retryable", "manual_review"}
BY DEF NextStateAfterFailure

LEMMA ReadingGoesOn ==
    ASSUME ShopKnown, OrdersStand, NEW w \in Workers, ReadJob(w)
    PROVE  GoesOn(w)
<1>0. WorkersTyped /\ worker[w] \in WorkerRow /\ AccountsTyped
  BY DEF ShopKnown, ShopTyped, WorkersTyped
<1>1. worker[w].job \in JobKeys /\ Bought(OrderOf(w)) /\ OrderOf(w) \in Pages
  BY WorkerHasOrder DEF ReadJob, Stage
<1>2. PICK st \in ProvisioningState \union {"none"}, att \in Nat :
         worker' = [worker EXCEPT ![w].pc = "find", ![w].st = st, ![w].att = att]
  BY <1>0, <1>1 DEF ReadJob, AccountsTyped
<1>3. /\ worker' = [worker EXCEPT ![w] =
            [worker[w] EXCEPT !.pc = "find", !.st = st, !.att = att]]
      /\ [worker[w] EXCEPT !.pc = "find", !.st = st, !.att = att] \in WorkerRow
  <2>1. "find" \in Stages
    BY DEF Stages
  <2> QED
    BY <1>0, <1>2, <2>1 DEF WorkerRow, WorkersTyped
<1>4. WorkersTyped' /\ OthersWait(w)
  BY <1>0, <1>3 DEF WorkersTyped, OthersWait
<1>5. worker'[w].pc = "find" /\ worker'[w].job = worker[w].job
  BY <1>0, <1>3 DEF WorkersTyped, WorkerRow
<1>6. AccountsTyped' /\ ShopAdvances /\ \A p \in Pages : RowAgrees(p)'
  BY RowsStand DEF ReadJob, AccountsStand
<1>7. WorkerAgrees(w)'
  BY <1>1, <1>5, <1>6 DEF WorkerAgrees, Stage, OrderOf, Edge, ShopAdvances
<1> QED
  BY <1>4, <1>6, <1>7, JobsStand DEF GoesOn, ShopTyped, ReadJob

LEMMA FindingGoesOn ==
    ASSUME ShopKnown, OrdersStand, NEW w \in Workers, FindAccount(w)
    PROVE  GoesOn(w)
<1>0. /\ ~Stage(w, "idle") /\ AccountsStand /\ UNCHANGED jobs
      /\ worker[w].pc = "find"
  BY DEF FindAccount, Stage, AccountsStand
<1>1. CASE acct[OrderOf(w)] # "none" /\ GoTo(w, "risk")
  BY <1>0, <1>1, GoesToStage
<1>2. CASE Transition(w, "provisioning", "create", "fail")
  BY <1>0, <1>2, GoesToCheck DEF ProvisioningState
<1>3. CASE GoTo(w, "create")
  BY <1>0, <1>3, GoesToStage DEF Plain
<1> QED
  BY <1>1, <1>2, <1>3 DEF FindAccount

LEMMA CheckingGoesOn ==
    ASSUME ShopKnown, OrdersStand, NEW w \in Workers, CheckEdge(w)
    PROVE  GoesOn(w)
<1>0. /\ ~Stage(w, "idle") /\ AccountsStand /\ UNCHANGED jobs
      /\ worker[w].pc \in Edge
  BY DEF CheckEdge, Stage, AccountsStand, Edge
<1>1. WorkerAgrees(w) /\ worker[w].err \in {"fail", "caught", "review"}
  BY <1>0 DEF ShopKnown, WorkerAgrees
<1>2. CASE GoTo(w, worker[w].err)
  BY <1>0, <1>1, <1>2, GoesToStage DEF Plain
<1>3. CASE GoTo(w, "write")
  <2>1. /\ WorkersTyped' /\ OthersWait(w) /\ worker'[w].pc = "write"
        /\ worker'[w].job = worker[w].job /\ worker'[w].to = worker[w].to
        /\ worker'[w].then = worker[w].then /\ worker'[w].err = worker[w].err
    BY <1>3, WorkerGoes DEF ShopKnown, ShopTyped, Stages
  <2>2. worker[w].job \in JobKeys /\ Bought(OrderOf(w)) /\ OrderOf(w) \in Pages
    BY <1>0, WorkerHasOrder
  <2>3. AccountsTyped' /\ ShopAdvances /\ \A p \in Pages : RowAgrees(p)'
    BY <1>0, RowsStand
  <2>4. OrderOf(w)' = OrderOf(w)
    BY <2>1 DEF OrderOf
  <2>5. /\ Bought(OrderOf(w))' /\ acct' = acct /\ limits' = limits
    BY <1>0, <2>2, <2>4 DEF OrdersStand, AccountsStand, Bought
  <2>6. WorkerAgrees(w)'
    BY <1>0, <1>1, <2>1, <2>2, <2>4, <2>5 DEF WorkerAgrees, Stage, Edge
  <2> QED
    BY <1>0, <2>1, <2>3, <2>6, JobsStand DEF GoesOn, ShopTyped
<1> QED
  BY <1>2, <1>3 DEF CheckEdge

LEMMA CaughtGoesOn ==
    ASSUME ShopKnown, OrdersStand, NEW w \in Workers, Caught(w)
    PROVE  GoesOn(w)
<1> DEFINE to == NextStateAfterFailure(worker[w].att + 1, worker[w].again)
           then == IF to = "manual_review" THEN "done" ELSE "retry"
<1>0. ~Stage(w, "idle") /\ AccountsStand /\ UNCHANGED jobs
  BY DEF Caught, Stage, AccountsStand
<1>1. to \in {"provisioning_failed_retryable", "manual_review"}
  BY FailureLeads
<1>2. Transition(w, to, then, "fail")
  BY DEF Caught
<1>3. then \in {"done", "retry"}
  OBVIOUS
<1> HIDE DEF to, then
<1>4. to \in ProvisioningState \ {"payment_pending", "risk_verified", "active"}
  BY <1>1 DEF ProvisioningState
<1> QED
  BY <1>0, <1>2, <1>3, <1>4, GoesToCheck

LEMMA RiskReadGoesOn ==
    ASSUME ShopKnown, OrdersStand, NEW w \in Workers, ReadForRisk(w)
    PROVE  GoesOn(w)
<1>0. /\ ~Stage(w, "idle") /\ AccountsStand /\ UNCHANGED jobs
      /\ worker[w].pc = "risk"
  BY DEF ReadForRisk, Stage, AccountsStand
<1>1. acct[OrderOf(w)] # "none"
  BY <1>0 DEF ShopKnown, WorkerAgrees, Stage
<1>2. CASE GoTo(w, "configure")
  BY <1>0, <1>1, <1>2, GoesToStage
<1>3. CASE GoTo(w, "activate")
  BY <1>0, <1>3, GoesToStage DEF Plain
<1> QED
  BY <1>2, <1>3 DEF ReadForRisk

LEMMA ReviewGoesOn ==
    ASSUME ShopKnown, OrdersStand, NEW w \in Workers, HoldForReview(w)
    PROVE  GoesOn(w)
<1>0. ~Stage(w, "idle") /\ AccountsStand /\ UNCHANGED jobs
  BY DEF HoldForReview, Stage, AccountsStand
<1> QED
  BY <1>0, GoesToCheck DEF HoldForReview, ProvisioningState

LEMMA ActivationGoesOn ==
    ASSUME ShopKnown, OrdersStand, NEW w \in Workers, ReadForActivation(w)
    PROVE  GoesOn(w)
<1>0. ~Stage(w, "idle") /\ AccountsStand /\ UNCHANGED jobs
  BY DEF ReadForActivation, Stage, AccountsStand
<1>1. CASE /\ pjob[OrderOf(w)].st = "risk_verified"
           /\ Transition(w, "active", "open", "fail")
  <2>1. OrderOf(w) \in limits
    BY <1>0, <1>1, WorkerHasOrder DEF ShopKnown, RowAgrees
  <2> QED
    BY <1>0, <1>1, <2>1, GoesToCheck DEF ProvisioningState
<1>2. CASE GoTo(w, "done")
  BY <1>0, <1>2, GoesToStage DEF Plain
<1> QED
  BY <1>1, <1>2 DEF ReadForActivation

LEMMA EnqueueingGoesOn ==
    ASSUME ShopKnown, OrdersStand, NEW w \in Workers,
           EnqueueRetry(w) \/ EnqueueSync(w)
    PROVE  GoesOn(w)
<1>0. ~Stage(w, "idle") /\ AccountsStand /\ GoTo(w, "done")
  BY DEF EnqueueRetry, EnqueueSync, Stage, AccountsStand
<1>1. worker[w].job \in JobKeys /\ Bought(OrderOf(w)) /\ OrderOf(w) \in Pages
  BY <1>0, WorkerHasOrder
<1>2. JobsTyped' /\ JobsBought'
  <2>1. CASE EnqueueRetry(w)
    <3> DEFINE k == <<OrderOf(w), "retry", worker[w].att + 1>>
    <3>1. k[1] = OrderOf(w) /\ jobs' = Enqueued(k)
      BY <2>1 DEF EnqueueRetry
    <3> HIDE DEF k
    <3> QED
      BY <1>1, <3>1, JobEnqueued
  <2>2. CASE EnqueueSync(w)
    <3> DEFINE k == <<OrderOf(w), "sync", 0>>
    <3>1. k[1] = OrderOf(w) /\ jobs' = Enqueued(k)
      BY <2>2 DEF EnqueueSync
    <3> HIDE DEF k
    <3> QED
      BY <1>1, <3>1, JobEnqueued
  <2> QED
    BY <2>1, <2>2
<1>3. /\ WorkersTyped' /\ OthersWait(w) /\ worker'[w].pc = "done"
      /\ worker'[w].job = worker[w].job
  BY <1>0, WorkerGoes DEF ShopKnown, ShopTyped, Stages
<1>4. AccountsTyped' /\ ShopAdvances /\ \A p \in Pages : RowAgrees(p)'
  BY <1>0, RowsStand
<1>5. WorkerAgrees(w)'
  <2>1. OrderOf(w)' = OrderOf(w)
    BY <1>3 DEF OrderOf
  <2>2. Bought(OrderOf(w))'
    BY <1>1, <2>1 DEF OrdersStand, Bought
  <2> QED
    BY <1>1, <1>3, <2>1, <2>2 DEF WorkerAgrees, Stage, Edge
<1> QED
  BY <1>2, <1>3, <1>4, <1>5 DEF GoesOn, ShopTyped

\* A worker that lets its job go, completed, failed or because it died.
LEMMA ReleaseGoesOn ==
    ASSUME ShopKnown, OrdersStand, AccountsStand, NEW w \in Workers,
           JobsTyped', JobsBought', Release(w)
    PROVE  GoesOn(w)
<1>1. WorkersTyped' /\ OthersWait(w) /\ worker'[w].pc = "idle"
  BY WorkerReleased DEF ShopKnown, ShopTyped
<1>2. AccountsTyped' /\ ShopAdvances /\ \A p \in Pages : RowAgrees(p)'
  BY RowsStand
<1>3. WorkerAgrees(w)'
  BY <1>1 DEF WorkerAgrees, Stage, Edge
<1> QED
  BY <1>1, <1>2, <1>3 DEF GoesOn, ShopTyped

LEMMA EndingGoesOn ==
    ASSUME ShopKnown, OrdersStand, NEW w \in Workers,
           CompleteJob(w) \/ FailJob(w) \/ WorkerDies(w)
    PROVE  GoesOn(w)
<1>0. ~Stage(w, "idle") /\ AccountsStand /\ Release(w)
  BY DEF CompleteJob, FailJob, WorkerDies, Stage, AccountsStand
<1>1. worker[w].job \in JobKeys /\ Bought(worker[w].job[1])
  BY <1>0, WorkerHasOrder
<1>2. jobs[worker[w].job] \in JobRow
  BY <1>1 DEF ShopKnown, ShopTyped, JobsTyped, JobRow, JobStates
<1>3. JobsTyped' /\ JobsBought'
  <2>1. CASE CompleteJob(w)
    <3>1. PICK row \in JobRow : jobs' = [jobs EXCEPT ![worker[w].job] = row]
      <4>1. [jobs[worker[w].job] EXCEPT !.st = "SUCCEEDED"] \in JobRow
        BY <1>2 DEF JobRow, JobStates
      <4>2. jobs' = [jobs EXCEPT ![worker[w].job] =
               [jobs[worker[w].job] EXCEPT !.st = "SUCCEEDED"]]
        BY <1>1, <2>1 DEF CompleteJob, ShopKnown, ShopTyped, JobsTyped
      <4> QED
        BY <4>1, <4>2
    <3> QED
      BY <1>1, <3>1, JobMoves
  <2>2. CASE FailJob(w)
    <3>1. PICK row \in JobRow : jobs' = [jobs EXCEPT ![worker[w].job] = row]
      <4>1. jobs[worker[w].job].att + 1 \in Nat
        BY <1>2 DEF JobRow
      <4>2. \A st \in {"DEAD", "PENDING"}, att \in Nat :
               [st |-> st, att |-> att] \in JobRow
        BY DEF JobRow, JobStates
      <4> QED
        BY <2>2, <4>1, <4>2 DEF FailJob
    <3> QED
      BY <1>1, <3>1, JobMoves
  <2>3. CASE WorkerDies(w)
    BY <2>3, JobsStand DEF WorkerDies
  <2> QED
    BY <2>1, <2>2, <2>3
<1> QED
  BY <1>0, <1>3, ReleaseGoesOn

LEMMA ClaimGoesOn ==
    ASSUME ShopKnown, OrdersStand, NEW w \in Workers, Claim(w)
    PROVE  GoesOn(w)
<1>0. AccountsStand
  BY DEF Claim, AccountsStand
<1>1. PICK k \in JobKeys, pc \in {"done", "read"} :
         /\ jobs[k].st = "PENDING"
         /\ jobs' = [jobs EXCEPT ![k].st = "CLAIMED"]
         /\ worker' = [worker EXCEPT ![w].job = k, ![w].pc = pc]
  BY DEF Claim
<1>2. Bought(k[1]) /\ k[1] \in Pages /\ jobs[k] \in JobRow
  BY <1>1, KeyNamesOrder
     DEF ShopKnown, JobsBought, ShopTyped, JobsTyped, JobRow, JobStates
<1>3. JobsTyped' /\ JobsBought'
  <2>1. [jobs[k] EXCEPT !.st = "CLAIMED"] \in JobRow
    BY <1>2 DEF JobRow, JobStates
  <2>2. jobs' = [jobs EXCEPT ![k] = [jobs[k] EXCEPT !.st = "CLAIMED"]]
    BY <1>1 DEF ShopKnown, ShopTyped, JobsTyped
  <2> QED
    BY <1>2, <2>1, <2>2, JobMoves
<1>4. /\ WorkersTyped' /\ OthersWait(w)
      /\ worker'[w].pc = pc /\ worker'[w].job = k
  <2>1. worker[w] \in WorkerRow /\ pc \in Stages
    BY DEF ShopKnown, ShopTyped, WorkersTyped, Stages
  <2>2. [worker[w] EXCEPT !.job = k, !.pc = pc] \in WorkerRow
    BY <2>1 DEF WorkerRow
  <2>3. worker' = [worker EXCEPT ![w] = [worker[w] EXCEPT !.job = k, !.pc = pc]]
    BY <1>1 DEF ShopKnown, ShopTyped, WorkersTyped
  <2> QED
    BY <2>1, <2>2, <2>3
       DEF ShopKnown, ShopTyped, WorkersTyped, OthersWait, WorkerRow
<1>5. AccountsTyped' /\ ShopAdvances /\ \A p \in Pages : RowAgrees(p)'
  BY <1>0, RowsStand
<1>6. WorkerAgrees(w)'
  <2>1. OrderOf(w)' = k[1]
    BY <1>4 DEF OrderOf
  <2>2. Bought(OrderOf(w))'
    BY <1>2, <2>1 DEF OrdersStand, Bought
  <2> QED
    BY <1>1, <1>2, <1>4, <2>1, <2>2 DEF WorkerAgrees, Stage, Edge
<1> QED
  BY <1>3, <1>4, <1>5, <1>6 DEF GoesOn, ShopTyped

\* The recovery of a claim and the re-queueing by a person move no worker.
LEMMA QueueGoesOn ==
    ASSUME ShopKnown, OrdersStand, Recover \/ Requeue
    PROVE  ShopKnown'
<1>0. AccountsStand /\ UNCHANGED worker
  BY DEF Recover, Requeue, AccountsStand
<1>1. AccountsTyped' /\ ShopAdvances /\ \A p \in Pages : RowAgrees(p)'
  BY <1>0, RowsStand
<1>2. JobsTyped' /\ JobsBought'
  <2>1. CASE Recover
    <3>1. PICK k \in JobKeys : /\ jobs[k].st = "CLAIMED"
                               /\ jobs' = [jobs EXCEPT ![k].st = "PENDING"]
      BY <2>1 DEF Recover
    <3>2. Bought(k[1]) /\ jobs[k] \in JobRow
      BY <3>1 DEF ShopKnown, JobsBought, ShopTyped, JobsTyped, JobRow, JobStates
    <3>3. [jobs[k] EXCEPT !.st = "PENDING"] \in JobRow
      BY <3>2 DEF JobRow, JobStates
    <3>4. jobs' = [jobs EXCEPT ![k] = [jobs[k] EXCEPT !.st = "PENDING"]]
      BY <3>1 DEF ShopKnown, ShopTyped, JobsTyped
    <3> QED
      BY <3>2, <3>3, <3>4, JobMoves
  <2>2. CASE Requeue
    <3>1. PICK o \in Pages : /\ pjob[o].st = "manual_review"
                             /\ jobs' = Enqueued(<<o, "requeue", requeues + 1>>)
      BY <2>2, FulfilmentAssumption DEF Requeue
    <3>2. Bought(o)
      BY <3>1 DEF ShopKnown, RowAgrees
    <3> DEFINE k == <<o, "requeue", requeues + 1>>
    <3>3. k[1] = o /\ jobs' = Enqueued(k)
      BY <3>1
    <3> HIDE DEF k
    <3> QED
      BY <3>2, <3>3, JobEnqueued
  <2> QED
    BY <2>1, <2>2
<1>3. WorkersTyped' /\ \A w \in Workers : WorkerAgrees(w)'
  BY <1>0, <1>1, WorkerKeeps DEF ShopKnown, ShopTyped, WorkersTyped
<1> QED
  BY <1>1, <1>2, <1>3 DEF ShopKnown, ShopTyped

LEMMA WritingGoesOn ==
    ASSUME ShopKnown, OrdersStand, NEW w \in Workers, WriteEdge(w)
    PROVE  GoesOn(w)
<1> DEFINE o == OrderOf(w)
<1>0. /\ ~Stage(w, "idle") /\ worker[w].pc \in Edge /\ UNCHANGED jobs
      /\ UNCHANGED <<acct, ext, limits>>
  BY DEF WriteEdge, Stage, Edge
<1>1. worker[w].job \in JobKeys /\ Bought(o) /\ o \in Pages
  BY <1>0, WorkerHasOrder
<1>2. /\ worker[w].then \in {"create", "risk", "activate", "open", "done",
                             "retry"}
      /\ worker[w].to \in ProvisioningState \ {"payment_pending"}
      /\ worker[w].to \in {"risk_verified", "active"} => o \in limits
      /\ worker[w].then = "open" => o \in limits
      /\ worker[w].then = "risk" => acct[o] # "none"
  BY <1>0 DEF ShopKnown, WorkerAgrees, ShopTyped, WorkersTyped, WorkerRow
<1>3. /\ WorkersTyped' /\ OthersWait(w)
      /\ worker'[w].pc = worker[w].then /\ worker'[w].job = worker[w].job
  BY <1>2, WorkerGoes DEF ShopKnown, ShopTyped, WriteEdge, Stages
<1>4. PICK att \in Nat :
         pjob' = [pjob EXCEPT ![o] = [st |-> worker[w].to, att |-> att]]
  <2>1. pjob[o].att \in Nat /\ pjob[o].att + 1 \in Nat
    BY <1>1 DEF ShopKnown, ShopTyped, AccountsTyped
  <2> QED
    BY <1>1, <2>1 DEF WriteEdge, ShopKnown, ShopTyped, AccountsTyped
<1> HIDE DEF o
<1>5. AccountsTyped' /\ ShopAdvances
  BY <1>0, <1>1, <1>2, <1>4
     DEF ShopKnown, ShopTyped, AccountsTyped, ShopAdvances, OrdersStand, Bought
<1>6. ASSUME NEW p \in Pages
      PROVE  RowAgrees(p)'
  <2>1. RowAgrees(p) /\ (Bought(p) <=> Bought(p)')
    BY DEF ShopKnown, OrdersStand, Bought
  <2>2. CASE p = o
    <3>1. pjob'[p].st = worker[w].to
      BY <1>1, <1>4, <2>2 DEF ShopKnown, ShopTyped, AccountsTyped
    <3> QED
      BY <1>0, <1>1, <1>2, <2>1, <2>2, <3>1 DEF RowAgrees, OrdersStand
  <2>3. CASE p # o
    <3>1. pjob'[p] = pjob[p]
      BY <1>4, <2>3 DEF ShopKnown, ShopTyped, AccountsTyped
    <3> QED
      BY <1>0, <2>1, <3>1 DEF RowAgrees, OrdersStand
  <2> QED
    BY <2>2, <2>3
<1>7. WorkerAgrees(w)'
  <2>1. OrderOf(w)' = o
    BY <1>3 DEF OrderOf, o
  <2>2. Bought(OrderOf(w))'
    BY <1>1, <2>1 DEF OrdersStand, Bought
  <2> QED
    BY <1>0, <1>1, <1>2, <1>3, <2>1, <2>2 DEF WorkerAgrees, Stage, Edge
<1> QED
  BY <1>0, <1>3, <1>5, <1>6, <1>7, JobsStand DEF GoesOn, ShopTyped

\* An account of order o is written while worker w stands where it needs
\* nothing but the purchase or what is written.
LEMMA AccountWritten ==
    ASSUME ShopKnown, OrdersStand, UNCHANGED <<pjob, jobs>>,
           NEW w \in Workers, ~Stage(w, "idle"),
           WorkersTyped', OthersWait(w), WorkerAgrees(w)', AccountsTyped',
           \A p \in Pages \ {OrderOf(w)} :
              acct'[p] = acct[p] /\ ext'[p] = ext[p],
           limits \subseteq limits', limits' \subseteq limits \union {OrderOf(w)},
           acct'[OrderOf(w)] # "none" => ext'[OrderOf(w)] = 1,
           ext'[OrderOf(w)] \in {ext[OrderOf(w)], 1},
           acct[OrderOf(w)] # "none" => acct'[OrderOf(w)] # "none",
           acct[OrderOf(w)] = "ACTIVE" => acct'[OrderOf(w)] = "ACTIVE",
           acct'[OrderOf(w)] = "ACTIVE" => OrderOf(w) \in limits',
           OrderOf(w) \in limits' => acct'[OrderOf(w)] # "none"
    PROVE  GoesOn(w)
<1> DEFINE o == OrderOf(w)
<1>1. worker[w].job \in JobKeys /\ Bought(o) /\ o \in Pages
  BY WorkerHasOrder
<1>2. RowAgrees(o)
  BY <1>1 DEF ShopKnown
<1> HIDE DEF o
<1>3. \A p \in Pages : Bought(p) <=> Bought(p)'
  BY DEF OrdersStand, Bought
<1>4. ShopAdvances
  <2>1. ASSUME NEW p \in Pages
        PROVE  /\ ext[p] = 1 => ext'[p] = 1
               /\ acct[p] # "none" => acct'[p] # "none"
               /\ acct[p] = "ACTIVE" => acct'[p] = "ACTIVE"
    BY DEF o
  <2> QED
    BY <1>3, <2>1 DEF ShopAdvances, OrdersStand
<1>5. ASSUME NEW p \in Pages
      PROVE  RowAgrees(p)'
  <2>1. RowAgrees(p) /\ order' = order /\ cred' = cred /\ pjob' = pjob
    BY DEF ShopKnown, OrdersStand
  <2>2. CASE p = o
    <3>1. ext'[p] <= 1
      BY <1>2, <2>2 DEF RowAgrees, o
    <3> QED
      BY <1>1, <1>3, <2>1, <2>2, <3>1 DEF RowAgrees, o
  <2>3. CASE p # o
    <3>1. acct'[p] = acct[p] /\ ext'[p] = ext[p] /\ (p \in limits' <=> p \in limits)
      BY <2>3 DEF o
    <3> QED
      BY <1>3, <2>1, <3>1 DEF RowAgrees
  <2> QED
    BY <2>2, <2>3
<1> QED
  BY <1>4, <1>5, JobsStand DEF GoesOn, ShopTyped

LEMMA CatchMoves ==
    ASSUME WorkersTyped, NEW w \in Workers, NEW again \in BOOLEAN,
           worker' = [worker EXCEPT ![w].pc = "caught", ![w].again = again]
    PROVE  /\ WorkersTyped' /\ OthersWait(w)
           /\ worker'[w].pc = "caught" /\ worker'[w].job = worker[w].job
<1>1. worker[w] \in WorkerRow /\ "caught" \in Stages
  BY DEF WorkersTyped, Stages
<1>2. worker' = [worker EXCEPT ![w] =
        [worker[w] EXCEPT !.pc = "caught", !.again = again]]
  BY DEF WorkersTyped
<1>3. [worker[w] EXCEPT !.pc = "caught", !.again = again] \in WorkerRow
  BY <1>1 DEF WorkerRow
<1> QED
  BY <1>1, <1>2, <1>3 DEF WorkersTyped, OthersWait, WorkerRow

LEMMA CreatingGoesOn ==
    ASSUME ShopKnown, OrdersStand, NEW w \in Workers, CreateExternal(w)
    PROVE  GoesOn(w)
<1> DEFINE o == OrderOf(w)
<1>0. ~Stage(w, "idle") /\ UNCHANGED <<pjob, jobs, acct, limits>>
  BY DEF CreateExternal, Stage
<1>1. worker[w].job \in JobKeys /\ Bought(o) /\ o \in Pages
  BY <1>0, WorkerHasOrder
<1>2. WorkersTyped /\ AccountsTyped /\ RowAgrees(o)
  BY <1>1 DEF ShopKnown, ShopTyped
<1>3. ASSUME ext' = [ext EXCEPT ![o] = 1] \/ ext' = ext,
             WorkersTyped', OthersWait(w), WorkerAgrees(w)'
      PROVE  GoesOn(w)
  <2>1. AccountsTyped'
    BY <1>0, <1>1, <1>2, <1>3 DEF AccountsTyped
  <2>2. /\ \A p \in Pages \ {o} : acct'[p] = acct[p] /\ ext'[p] = ext[p]
        /\ ext'[o] \in {ext[o], 1} /\ acct'[o] = acct[o]
        /\ acct'[o] # "none" => ext'[o] = 1
        /\ acct'[o] = "ACTIVE" => o \in limits'
        /\ o \in limits' => acct'[o] # "none"
    BY <1>0, <1>1, <1>2, <1>3 DEF AccountsTyped, RowAgrees
  <2> QED
    BY <1>0, <1>3, <2>1, <2>2, AccountWritten
<1>4. CASE ext' = [ext EXCEPT ![o] = 1] /\ GoTo(w, "row")
  <2>1. /\ WorkersTyped' /\ OthersWait(w) /\ worker'[w].pc = "row"
        /\ worker'[w].job = worker[w].job
    BY <1>2, <1>4, WorkerGoes DEF Stages
  <2>2. OrderOf(w)' = o /\ ext'[o] = 1
    BY <1>1, <1>2, <1>4, <2>1 DEF OrderOf, AccountsTyped
  <2>3. Bought(OrderOf(w))'
    BY <1>1, <2>2 DEF OrdersStand, Bought
  <2>4. WorkerAgrees(w)'
    BY <1>1, <2>1, <2>2, <2>3 DEF WorkerAgrees, Stage, Edge
  <2> QED
    BY <1>3, <1>4, <2>1, <2>4
<1>5. ASSUME NEW done \in BOOLEAN, NEW again \in BOOLEAN,
             ext' = IF done /\ again THEN [ext EXCEPT ![o] = 1] ELSE ext,
             worker' = [worker EXCEPT ![w].pc = "caught", ![w].again = again]
      PROVE  GoesOn(w)
  <2>1. /\ WorkersTyped' /\ OthersWait(w) /\ worker'[w].pc = "caught"
        /\ worker'[w].job = worker[w].job
    BY <1>2, <1>5, CatchMoves
  <2>2. OrderOf(w)' = o
    BY <2>1 DEF OrderOf
  <2>3. Bought(OrderOf(w))'
    BY <1>1, <2>2 DEF OrdersStand, Bought
  <2>4. WorkerAgrees(w)'
    BY <1>1, <2>1, <2>2, <2>3 DEF WorkerAgrees, Stage, Edge
  <2> QED
    BY <1>3, <1>5, <2>1, <2>4
<1> QED
  BY <1>4, <1>5 DEF CreateExternal

LEMMA RowCreatedGoesOn ==
    ASSUME ShopKnown, OrdersStand, NEW w \in Workers, CreateRow(w)
    PROVE  GoesOn(w)
<1> DEFINE o == OrderOf(w)
<1>0. /\ ~Stage(w, "idle") /\ UNCHANGED <<pjob, jobs, ext, limits>>
      /\ Stage(w, "row")
  BY DEF CreateRow, Stage
<1>1. worker[w].job \in JobKeys /\ Bought(o) /\ o \in Pages
  BY <1>0, WorkerHasOrder
<1>2. WorkersTyped /\ AccountsTyped /\ RowAgrees(o) /\ ext[o] = 1
  BY <1>0, <1>1 DEF ShopKnown, ShopTyped, WorkerAgrees
<1>3. CASE /\ acct[o] = "none" /\ acct' = [acct EXCEPT ![o] = "PENDING"]
           /\ Transition(w, "provisioned_unverified", "risk", "caught")
  <2>0. "provisioned_unverified" \in ProvisioningState /\ {"risk", "caught"} \subseteq Stages
    BY DEF Stages, ProvisioningState
  <2>1. /\ WorkersTyped' /\ OthersWait(w) /\ worker'[w].pc = "check"
        /\ worker'[w].job = worker[w].job
        /\ worker'[w].to = "provisioned_unverified"
        /\ worker'[w].then = "risk" /\ worker'[w].err = "caught"
    BY <1>2, <1>3, <2>0, WorkerTransits
  <2>2. OrderOf(w)' = o /\ acct'[o] = "PENDING"
    BY <1>1, <1>2, <1>3, <2>1 DEF OrderOf, AccountsTyped
  <2>3. Bought(OrderOf(w))'
    BY <1>1, <2>2 DEF OrdersStand, Bought
  <2>4. WorkerAgrees(w)'
    BY <1>1, <2>1, <2>2, <2>3 DEF WorkerAgrees, Stage, Edge
  <2>5. /\ AccountsTyped'
        /\ \A p \in Pages \ {o} : acct'[p] = acct[p] /\ ext'[p] = ext[p]
    BY <1>0, <1>1, <1>2, <1>3 DEF AccountsTyped
  <2>6. /\ acct[o] # "ACTIVE" /\ ext'[o] = 1 /\ o \notin limits
    BY <1>0, <1>2, <1>3 DEF RowAgrees
  <2> QED
    BY <1>0, <2>1, <2>2, <2>4, <2>5, <2>6, AccountWritten
<1>4. CASE /\ acct[o] # "none" /\ UNCHANGED acct
           /\ worker' = [worker EXCEPT ![w].pc = "caught", ![w].again = TRUE]
  <2>1. /\ WorkersTyped' /\ OthersWait(w) /\ worker'[w].pc = "caught"
        /\ worker'[w].job = worker[w].job
    BY <1>2, <1>4, CatchMoves
  <2>2. OrderOf(w)' = o
    BY <2>1 DEF OrderOf
  <2>3. Bought(OrderOf(w))'
    BY <1>1, <2>2 DEF OrdersStand, Bought
  <2>4. WorkerAgrees(w)'
    BY <1>1, <2>1, <2>2, <2>3 DEF WorkerAgrees, Stage, Edge
  <2>5. AccountsTyped' /\ ShopAdvances /\ \A p \in Pages : RowAgrees(p)'
    BY <1>0, <1>4, RowsStand DEF AccountsStand
  <2> QED
    BY <1>0, <2>1, <2>4, <2>5, JobsStand DEF GoesOn, ShopTyped
<1> QED
  BY <1>3, <1>4 DEF CreateRow

LEMMA ConfiguringGoesOn ==
    ASSUME ShopKnown, OrdersStand, NEW w \in Workers, ConfigureRisk(w)
    PROVE  GoesOn(w)
<1> DEFINE o == OrderOf(w)
<1>0. /\ ~Stage(w, "idle") /\ UNCHANGED <<pjob, jobs, acct, ext>>
      /\ Stage(w, "configure")
  BY DEF ConfigureRisk, Stage
<1>1. worker[w].job \in JobKeys /\ Bought(o) /\ o \in Pages
  BY <1>0, WorkerHasOrder
<1>2. WorkersTyped /\ AccountsTyped /\ RowAgrees(o) /\ acct[o] # "none"
  BY <1>0, <1>1 DEF ShopKnown, ShopTyped, WorkerAgrees
<1>3. CASE /\ limits' = limits \union {o}
           /\ Transition(w, "risk_verified", "activate", "review")
  <2>0. "risk_verified" \in ProvisioningState /\ {"activate", "review"} \subseteq Stages
    BY DEF Stages, ProvisioningState
  <2>1. /\ WorkersTyped' /\ OthersWait(w) /\ worker'[w].pc = "check"
        /\ worker'[w].job = worker[w].job /\ worker'[w].to = "risk_verified"
        /\ worker'[w].then = "activate" /\ worker'[w].err = "review"
    BY <1>2, <1>3, <2>0, WorkerTransits
  <2>2. OrderOf(w)' = o /\ o \in limits'
    BY <1>3, <2>1 DEF OrderOf
  <2>3. Bought(OrderOf(w))'
    BY <1>1, <2>2 DEF OrdersStand, Bought
  <2>4. WorkerAgrees(w)'
    BY <1>1, <2>1, <2>2, <2>3 DEF WorkerAgrees, Stage, Edge
  <2>5. AccountsTyped'
    BY <1>0, <1>1, <1>2, <1>3 DEF AccountsTyped
  <2>6. acct'[o] # "none" => ext'[o] = 1
    BY <1>0, <1>2 DEF RowAgrees
  <2> QED
    BY <1>0, <1>2, <1>3, <2>1, <2>2, <2>4, <2>5, <2>6, AccountWritten
<1>4. CASE UNCHANGED limits /\ Transition(w, "manual_review", "done", "review")
  BY <1>0, <1>4, GoesToCheck DEF AccountsStand, ProvisioningState
<1>5. CASE UNCHANGED limits /\ GoTo(w, "review")
  BY <1>0, <1>5, GoesToStage DEF AccountsStand, Plain
<1> QED
  BY <1>3, <1>4, <1>5 DEF ConfigureRisk

LEMMA OpeningGoesOn ==
    ASSUME ShopKnown, OrdersStand, NEW w \in Workers, OpenAccount(w)
    PROVE  GoesOn(w)
<1> DEFINE o == OrderOf(w)
<1>0. /\ ~Stage(w, "idle") /\ UNCHANGED <<pjob, jobs, ext, limits>>
      /\ Stage(w, "open") /\ acct' = [acct EXCEPT ![o] = "ACTIVE"]
      /\ GoTo(w, "fulfil")
  BY DEF OpenAccount, Stage
<1>1. worker[w].job \in JobKeys /\ Bought(o) /\ o \in Pages
  BY <1>0, WorkerHasOrder
<1>2. WorkersTyped /\ AccountsTyped /\ RowAgrees(o) /\ o \in limits
  BY <1>0, <1>1 DEF ShopKnown, ShopTyped, WorkerAgrees
<1>3. /\ WorkersTyped' /\ OthersWait(w) /\ worker'[w].pc = "fulfil"
      /\ worker'[w].job = worker[w].job
  BY <1>0, <1>2, WorkerGoes DEF Stages
<1>4. OrderOf(w)' = o /\ acct'[o] = "ACTIVE" /\ ext'[o] = 1
  BY <1>0, <1>1, <1>2, <1>3 DEF OrderOf, AccountsTyped, RowAgrees
<1>5. Bought(OrderOf(w))'
  BY <1>1, <1>4 DEF OrdersStand, Bought
<1>6. WorkerAgrees(w)'
  BY <1>1, <1>3, <1>4, <1>5 DEF WorkerAgrees, Stage, Edge
<1>7. /\ AccountsTyped'
      /\ \A p \in Pages \ {o} : acct'[p] = acct[p] /\ ext'[p] = ext[p]
  BY <1>0, <1>1, <1>2 DEF AccountsTyped
<1> QED
  BY <1>0, <1>2, <1>3, <1>4, <1>6, <1>7, AccountWritten

LEMMA ProvisioningKeeps ==
    ASSUME ShopKnown, OrdersStand,
           \/ \E w \in Workers : Claim(w) \/ ProvisioningStep(w) \/ WorkerDies(w)
           \/ Recover \/ Requeue
    PROVE  ShopKnown'
<1>1. ASSUME NEW w \in Workers, Claim(w) \/ ProvisioningStep(w) \/ WorkerDies(w)
      PROVE  ShopKnown'
  <2>1. CASE Claim(w)
    BY <2>1, ClaimGoesOn, GoingOnSuffices
  <2>2. CASE CompleteJob(w) \/ FailJob(w) \/ WorkerDies(w)
    BY <2>2, EndingGoesOn, GoingOnSuffices
  <2>3. CASE ReadJob(w) \/ FindAccount(w) \/ CheckEdge(w) \/ WriteEdge(w)
    BY <2>3, ReadingGoesOn, FindingGoesOn, CheckingGoesOn, WritingGoesOn,
       GoingOnSuffices
  <2>4. CASE CreateExternal(w) \/ CreateRow(w) \/ Caught(w)
    BY <2>4, CreatingGoesOn, RowCreatedGoesOn, CaughtGoesOn, GoingOnSuffices
  <2>5. CASE EnqueueRetry(w) \/ EnqueueSync(w)
    BY <2>5, EnqueueingGoesOn, GoingOnSuffices
  <2>6. CASE ReadForRisk(w) \/ ConfigureRisk(w) \/ HoldForReview(w)
    BY <2>6, RiskReadGoesOn, ConfiguringGoesOn, ReviewGoesOn, GoingOnSuffices
  <2>7. CASE ReadForActivation(w) \/ OpenAccount(w)
    BY <2>7, ActivationGoesOn, OpeningGoesOn, GoingOnSuffices
  <2> QED
    BY <1>1, <2>1, <2>2, <2>3, <2>4, <2>5, <2>6, <2>7 DEF ProvisioningStep
<1> QED
  BY <1>1, QueueGoesOn

-----------------------------------------------------------------------------
(* Steps of an order and of a credential.                                  *)

CredsTyped == cred \in [Pages -> [pw : Nat, acked : BOOLEAN]]

ShopAgrees == CheckoutTypeOK /\ CheckoutInv /\ CredsTyped /\ ShopKnown

\* The order goes on, its provisioning job with it.
LEMMA OrderMoves ==
    ASSUME ShopKnown, UNCHANGED <<acct, ext, limits, worker, cred>>,
           \A p \in Pages :
              /\ Bought(p) => Bought(p)'
              /\ order'[p].st = "FULFILLED" <=> order[p].st = "FULFILLED",
           AccountsTyped', JobsTyped', JobsBought',
           \A p \in Pages :
              \/ pjob'[p].st = pjob[p].st
              \/ pjob'[p].st = "payment_pending"
              \/ pjob'[p].st = "paid" /\ Bought(p)'
    PROVE  ShopKnown'
<1>1. ShopAdvances
  BY DEF ShopAdvances
<1>2. ASSUME NEW p \in Pages
      PROVE  RowAgrees(p)'
  BY DEF ShopKnown, RowAgrees
<1>3. WorkersTyped' /\ \A w \in Workers : WorkerAgrees(w)'
  BY <1>1, WorkerKeeps DEF ShopKnown, ShopTyped, WorkersTyped
<1> QED
  BY <1>2, <1>3 DEF ShopKnown, ShopTyped

LEMMA CheckoutStepKeeps ==
    ASSUME ShopAgrees, [CheckoutNext]_checkoutVars,
           UNCHANGED <<provVars, credVars>>
    PROVE  ShopKnown'
<1>1. \A p \in Pages :
         /\ Bought(p) => Bought(p)'
         /\ order'[p].st = "FULFILLED" <=> order[p].st = "FULFILLED"
  BY CheckoutKeepsBought DEF ShopAgrees
<1>2. AccountsTyped' /\ JobsTyped' /\ JobsBought'
  BY <1>1, KeyNamesOrder DEF ShopAgrees, ShopKnown, ShopTyped, AccountsTyped,
     JobsTyped, JobsBought, provVars
<1> QED
  BY <1>1, <1>2, OrderMoves DEF ShopAgrees, provVars, credVars

LEMMA OrderPlacedKeeps ==
    ASSUME ShopAgrees, NEW s \in Submits, OrderPlaced(s)
    PROVE  ShopKnown'
<1> DEFINE o == PageOf[s]
<1>0. /\ o \in Pages /\ AddProvisioningJob(o) /\ UNCHANGED credVars
      /\ [CheckoutNext]_checkoutVars
  BY CheckoutAssumption DEF OrderPlaced, CheckoutNext, CallStep
<1> HIDE DEF o
<1>1. \A p \in Pages :
         /\ Bought(p) => Bought(p)'
         /\ order'[p].st = "FULFILLED" <=> order[p].st = "FULFILLED"
  BY <1>0, CheckoutKeepsBought DEF ShopAgrees
<1>2. /\ pjob \in [Pages -> [st : ProvisioningState \union {"none"}, att : Nat]]
      /\ pjob' = [pjob EXCEPT ![o].st = "payment_pending"]
      /\ UNCHANGED <<acct, ext, limits, jobs, worker>>
  BY <1>0 DEF AddProvisioningJob, ShopAgrees, ShopKnown, ShopTyped,
     AccountsTyped
<1>3. /\ pjob' \in [Pages -> [st : ProvisioningState \union {"none"}, att : Nat]]
      /\ \A p \in Pages :
            pjob'[p].st = pjob[p].st \/ pjob'[p].st = "payment_pending"
  BY <1>0, <1>2 DEF ProvisioningState
<1>4. AccountsTyped' /\ JobsTyped' /\ JobsBought'
  BY <1>1, <1>2, <1>3, KeyNamesOrder
     DEF ShopAgrees, ShopKnown, ShopTyped, AccountsTyped, JobsTyped, JobsBought
<1> QED
  BY <1>0, <1>1, <1>2, <1>3, <1>4, OrderMoves DEF ShopAgrees, credVars

LEMMA OrderPaidKeeps ==
    ASSUME ShopAgrees, NEW s \in Submits, OrderPaid(s)
    PROVE  ShopKnown'
<1> DEFINE o == PageOf[s]
           k == <<o, "provision", 0>>
<1>0. /\ o \in Pages /\ StartProvisioning(o) /\ UNCHANGED credVars
      /\ [CheckoutNext]_checkoutVars /\ k[1] = o
  BY CheckoutAssumption DEF OrderPaid, CheckoutNext, CallStep
<1>1. \A p \in Pages :
         /\ Bought(p) => Bought(p)'
         /\ order'[p].st = "FULFILLED" <=> order[p].st = "FULFILLED"
  BY <1>0, CheckoutKeepsBought DEF ShopAgrees
<1>2. Bought(o)'
  <2>1. charge[o] = "SUCCEEDED" /\ order[o].st # "none"
    BY DEF OrderPaid, MarkOrderPaid, SubmitAt, ShopAgrees, CheckoutInv, CallAgrees
  <2>2. order \in [Pages -> OrderRow]
    BY TypeParts DEF ShopAgrees, RowsTyped
  <2>3. order'[o].st = IF order[o].st = "PENDING_PAYMENT" THEN "PAID"
                       ELSE order[o].st
    BY <1>0, <2>2 DEF OrderPaid, MarkOrderPaid, OrderRow
  <2>4. charge'[o] = charge[o]
    BY DEF OrderPaid, MarkOrderPaid
  <2>5. order[o].st \in {"PENDING_PAYMENT", "PAID", "FULFILLED"}
    BY <1>0, <2>1, <2>2 DEF OrderRow
  <2> QED
    BY <2>1, <2>3, <2>4, <2>5 DEF Bought
<1>3. /\ pjob \in [Pages -> [st : ProvisioningState \union {"none"}, att : Nat]]
      /\ pjob' = [pjob EXCEPT ![o].st = IF @ = "payment_pending" THEN "paid" ELSE @]
      /\ UNCHANGED <<acct, ext, limits, worker>>
      /\ jobs' = Enqueued(k)
  BY <1>0 DEF StartProvisioning, ShopAgrees, ShopKnown, ShopTyped,
     AccountsTyped
<1> HIDE DEF o, k
<1>4. /\ pjob' \in [Pages -> [st : ProvisioningState \union {"none"}, att : Nat]]
      /\ \A p \in Pages : \/ pjob'[p].st = pjob[p].st
                          \/ pjob'[p].st = "paid" /\ Bought(p)'
  BY <1>0, <1>2, <1>3 DEF ProvisioningState
<1>5. AccountsTyped'
  BY <1>3, <1>4 DEF ShopAgrees, ShopKnown, ShopTyped, AccountsTyped
<1>6. JobsTyped' /\ JobsBought'
  <2>1. JobsTyped'
    BY <1>3 DEF ShopAgrees, ShopKnown, ShopTyped, JobsTyped, Enqueued
  <2>2. ASSUME NEW j \in JobKeys, jobs'[j].st # "none"
        PROVE  Bought(j[1])'
    <3>1. j[1] \in Pages
      BY KeyNamesOrder
    <3>2. CASE j = k
      BY <1>0, <1>2, <3>2
    <3>3. CASE j # k
      BY <1>1, <1>3, <2>2, <3>1, <3>3
         DEF ShopAgrees, ShopKnown, ShopTyped, JobsTyped, JobsBought, Enqueued
    <3> QED
      BY <3>2, <3>3
  <2> QED
    BY <2>1, <2>2 DEF JobsBought
<1> QED
  BY <1>0, <1>1, <1>3, <1>4, <1>5, <1>6, OrderMoves DEF ShopAgrees, credVars

LEMMA FulfilmentKeepsShop ==
    ASSUME ShopAgrees, NEW w \in Workers, OrderFulfilled(w)
    PROVE  ShopKnown'
<1> DEFINE o == OrderOf(w)
<1>0. /\ Stage(w, "fulfil") /\ ~Stage(w, "idle") /\ GoTo(w, "issue")
      /\ UNCHANGED <<pjob, acct, ext, limits, jobs, charge, cred>>
      /\ order' = [order EXCEPT ![o].st = "FULFILLED"]
  BY DEF OrderFulfilled, Fulfil, Stage, credVars
<1>1. worker[w].job \in JobKeys /\ Bought(o) /\ o \in Pages
  BY <1>0, WorkerHasOrder DEF ShopAgrees
<1>2. acct[o] = "ACTIVE" /\ ShopKnown /\ order \in [Pages -> OrderRow]
  BY <1>0, TypeParts DEF ShopAgrees, ShopKnown, WorkerAgrees, RowsTyped
<1>3. /\ order'[o].st = "FULFILLED"
      /\ \A p \in Pages : p # o => order'[p] = order[p]
  BY <1>0, <1>1, <1>2 DEF OrderRow
<1>4. /\ WorkersTyped' /\ OthersWait(w) /\ worker'[w].pc = "issue"
      /\ worker'[w].job = worker[w].job
  BY <1>0, <1>2, WorkerGoes DEF Stages, ShopKnown, ShopTyped
<1>5. OrderOf(w)' = o
  BY <1>4 DEF OrderOf
<1> HIDE DEF o
<1>6. \A p \in Pages : Bought(p) => Bought(p)'
  BY <1>0, <1>1, <1>3 DEF Bought
<1>7. ShopAdvances
  BY <1>0, <1>3, <1>6 DEF ShopAdvances
<1>8. ASSUME NEW p \in Pages
      PROVE  RowAgrees(p)'
  BY <1>0, <1>2, <1>3, <1>6 DEF ShopKnown, RowAgrees
<1>9. WorkerAgrees(w)'
  BY <1>1, <1>3, <1>4, <1>5, <1>6 DEF WorkerAgrees, Stage, Edge
<1>10. AccountsTyped' /\ JobsTyped' /\ JobsBought'
  BY <1>0, <1>2, <1>6, KeyNamesOrder
     DEF ShopKnown, ShopTyped, AccountsTyped, JobsTyped, JobsBought
<1> QED
  BY <1>2, <1>4, <1>7, <1>8, <1>9, <1>10, GoingOnSuffices DEF GoesOn, ShopTyped

LEMMA IssueKeepsShop ==
    ASSUME ShopAgrees, NEW w \in Workers, CredentialIssued(w)
    PROVE  ShopKnown' /\ CredsTyped'
<1> DEFINE o == OrderOf(w)
<1>0. /\ Stage(w, "issue") /\ ~Stage(w, "idle") /\ GoTo(w, "sync")
      /\ UNCHANGED <<pjob, acct, ext, limits, jobs, charge, order>>
      /\ IssueCredential(o)
  BY DEF CredentialIssued, Issue, Stage, checkoutVars
<1>1. worker[w].job \in JobKeys /\ Bought(o) /\ o \in Pages
  BY <1>0, WorkerHasOrder DEF ShopAgrees
<1>2. order[o].st = "FULFILLED" /\ ShopKnown /\ CredsTyped
  BY <1>0 DEF ShopAgrees, ShopKnown, WorkerAgrees
<1>3. CredsTyped' /\ \A p \in Pages : p # o => cred'[p] = cred[p]
  BY <1>0, <1>1, <1>2 DEF IssueCredential, CredsTyped
<1>4. /\ WorkersTyped' /\ OthersWait(w) /\ worker'[w].pc = "sync"
      /\ worker'[w].job = worker[w].job
  BY <1>0, <1>2, WorkerGoes DEF Stages, ShopKnown, ShopTyped
<1>5. OrderOf(w)' = o
  BY <1>4 DEF OrderOf
<1> HIDE DEF o
<1>6. \A p \in Pages : Bought(p) <=> Bought(p)'
  BY <1>0 DEF Bought
<1>7. ShopAdvances
  BY <1>0, <1>6 DEF ShopAdvances
<1>8. ASSUME NEW p \in Pages
      PROVE  RowAgrees(p)'
  BY <1>0, <1>2, <1>3, <1>6 DEF ShopKnown, RowAgrees
<1>9. WorkerAgrees(w)'
  BY <1>1, <1>4, <1>5, <1>6 DEF WorkerAgrees, Stage, Edge
<1>10. AccountsTyped' /\ JobsTyped' /\ JobsBought'
  BY <1>0, <1>2, <1>6, KeyNamesOrder
     DEF ShopKnown, ShopTyped, AccountsTyped, JobsTyped, JobsBought
<1> QED
  BY <1>2, <1>3, <1>4, <1>7, <1>8, <1>9, <1>10, GoingOnSuffices
     DEF GoesOn, ShopTyped

LEMMA CredentialStepKeepsShop ==
    ASSUME ShopAgrees, NEW t \in Tabs, NEW a \in Pages, CredentialStep(t, a),
           UNCHANGED <<checkoutVars, provVars>>
    PROVE  ShopKnown' /\ CredsTyped'
<1>0. CredsTyped /\ ShopKnown
      /\ UNCHANGED <<order, charge, pjob, acct, ext, limits, jobs, worker>>
  BY DEF ShopAgrees, checkoutVars, provVars
<1>1. CredsTyped' /\ \A p \in Pages : cred'[p].pw # 0 => cred[p].pw # 0
  <2>1. CASE ViewCredential(t, a)
    BY <1>0, <2>1 DEF ViewCredential, CredsTyped
  <2>2. CASE Acknowledge(t, a)
    BY <1>0, <2>2 DEF Acknowledge, CredsTyped
  <2>3. CASE Reissue(t, a)
    <3>1. cred[a].pw + 1 \in Nat /\ cred[a].pw # 0
      BY <1>0, <2>3, CredentialAssumption DEF Reissue, CredsTyped
    <3>2. [pw |-> cred[a].pw + 1, acked |-> FALSE] \in [pw : Nat, acked : BOOLEAN]
      BY <3>1
    <3>3. cred' = [cred EXCEPT ![a] = [pw |-> cred[a].pw + 1, acked |-> FALSE]]
      BY <1>0, <2>3 DEF Reissue, CredsTyped
    <3> QED
      BY <1>0, <3>1, <3>2, <3>3 DEF CredsTyped
  <2> QED
    BY <2>1, <2>2, <2>3 DEF CredentialStep
<1>2. /\ \A p \in Pages : Bought(p) <=> Bought(p)'
      /\ ShopAdvances
  BY <1>0 DEF Bought, ShopAdvances
<1>3. ASSUME NEW p \in Pages
      PROVE  RowAgrees(p)'
  BY <1>0, <1>1, <1>2 DEF ShopKnown, RowAgrees
<1>4. ShopTyped' /\ JobsBought'
  BY <1>0, <1>2, KeyNamesOrder DEF ShopKnown, ShopTyped, WorkersTyped,
     AccountsTyped, JobsTyped, JobsBought
<1>5. \A w \in Workers : WorkerAgrees(w)'
  BY <1>0, <1>2, WorkerKeeps DEF ShopKnown
<1> QED
  BY <1>1, <1>3, <1>4, <1>5 DEF ShopKnown

\* An order is fulfilled beside the calls of its page.
LEMMA FulfilmentKeepsCheckout ==
    ASSUME ShopAgrees, NEW w \in Workers, OrderFulfilled(w)
    PROVE  CheckoutTypeOK' /\ CheckoutInv'
<1> DEFINE o == OrderOf(w)
<1>0. /\ order' = [order EXCEPT ![o].st = "FULFILLED"]
      /\ UNCHANGED <<code, published, quote, signed, redeemed, charge, payment,
                     posted, submit, deploys, drops>>
  BY DEF OrderFulfilled
<1>1. o \in Pages /\ Bought(o)
  BY WorkerHasOrder DEF ShopAgrees, OrderFulfilled, Fulfil, Stage
<1>2. RowsTyped /\ CallsTyped /\ CheckoutInv
  BY TypeParts DEF ShopAgrees
<1> HIDE DEF o
<1>3. RowsTyped' /\ CallsTyped'
  BY <1>0, <1>1, <1>2 DEF RowsTyped, CallsTyped, OrderRow
<1>4. /\ order'[o].st = "FULFILLED" /\ order'[o].price = order[o].price
      /\ \A p \in Pages : p # o => order'[p] = order[p]
  BY <1>0, <1>1, <1>2 DEF RowsTyped, OrderRow
<1>5. ASSUME NEW p \in Pages
      PROVE  PageAgrees(p)'
  <2>1. PageAgrees(p)
    BY <1>2 DEF CheckoutInv
  <2> QED
    BY <1>0, <1>1, <1>4, <2>1 DEF PageAgrees, Bought
<1>6. ASSUME NEW s \in Submits
      PROVE  CallAgrees(s)'
  <2>1. CallAgrees(s) /\ PageOf[s] \in Pages
    BY <1>2, CheckoutAssumption DEF CheckoutInv
  <2>2. order[PageOf[s]].st # "none" => order'[PageOf[s]].st # "none"
    BY <1>4, <2>1
  <2> QED
    BY <1>0, <2>1, <2>2 DEF CallAgrees, SubmitAt
<1> QED
  BY <1>3, <1>5, <1>6, TypePartsNext DEF CheckoutInv

-----------------------------------------------------------------------------
(* The invariant holds, and with it the promises of the composition.       *)

LEMMA ShopAgreesAtFirst == ShopInit => ShopAgrees
<1> SUFFICES ASSUME ShopInit
             PROVE  ShopAgrees
  OBVIOUS
<1>1. CheckoutInit /\ ProvInit /\ CredInit /\ Orders = Pages /\ Accounts = Pages
  BY FulfilmentAssumption DEF ShopInit
<1>2. CheckoutTypeOK /\ CheckoutInv
  BY <1>1, CheckoutTypeAtFirst, CheckoutInvInit
<1>3. CredsTyped
  BY <1>1 DEF CredInit, CredsTyped
<1>4. WorkersTyped /\ \A w \in Workers : worker[w].pc = "idle"
  <2>1. IdleWorker \in WorkerRow /\ IdleWorker.pc = "idle"
    BY DEF IdleWorker, WorkerRow, Stages, NoKey, ProvisioningState
  <2> QED
    BY <1>1, <2>1 DEF ProvInit, WorkersTyped
<1>5. JobsTyped /\ JobsBought
  BY <1>1 DEF ProvInit, NoJob, JobsTyped, JobsBought
<1>6. AccountsTyped
  BY <1>1 DEF ProvInit, AccountsTyped
<1>7. ASSUME NEW p \in Pages
      PROVE  RowAgrees(p)
  <2>1. /\ pjob[p].st = "none" /\ acct[p] = "none" /\ ext[p] = 0
        /\ p \notin limits /\ cred[p].pw = 0
    BY <1>1 DEF ProvInit, CredInit
  <2>2. order[p].st = "none"
    BY <1>1 DEF CheckoutInit, NoOrder
  <2> QED
    BY <2>1, <2>2 DEF RowAgrees
<1>8. ASSUME NEW w \in Workers
      PROVE  WorkerAgrees(w)
  BY <1>4 DEF WorkerAgrees, Stage, Edge
<1> QED
  BY <1>2, <1>3, <1>4, <1>5, <1>6, <1>7, <1>8 DEF ShopAgrees, ShopKnown, ShopTyped

LEMMA ShopAgreesStep ==
    ASSUME ShopAgrees, [ShopNext]_shopVars
    PROVE  ShopAgrees'
<1>0. CheckoutTypeOK /\ CheckoutInv /\ RowsTyped /\ CallsTyped
      /\ CredsTyped /\ ShopKnown
  BY TypeParts DEF ShopAgrees
<1>1. ASSUME [CheckoutNext]_checkoutVars
      PROVE  CheckoutTypeOK' /\ CheckoutInv'
  BY <1>0, <1>1, CheckoutTypeStep, CheckoutInvStep
<1>2. CASE \/ CheckoutEnvironment /\ UNCHANGED <<provVars, credVars>>
           \/ UNCHANGED shopVars
           \/ \E s \in Submits : CheckoutStep(s) /\ UNCHANGED <<provVars, credVars>>
  <2>1. [CheckoutNext]_checkoutVars /\ UNCHANGED <<provVars, credVars>>
    BY <1>2 DEF CheckoutNext, CallStep, shopVars
  <2>2. CredsTyped'
    BY <1>0, <2>1 DEF CredsTyped, credVars
  <2> QED
    BY <1>1, <2>1, <2>2, CheckoutStepKeeps DEF ShopAgrees
<1>3. ASSUME NEW s \in Submits, OrderPlaced(s) \/ OrderPaid(s)
      PROVE  ShopAgrees'
  <2>1. [CheckoutNext]_checkoutVars /\ UNCHANGED credVars
    BY <1>3 DEF OrderPlaced, OrderPaid, CheckoutNext, CallStep
  <2>2. CredsTyped'
    BY <1>0, <2>1 DEF CredsTyped, credVars
  <2> QED
    BY <1>1, <1>3, <2>1, <2>2, OrderPlacedKeeps, OrderPaidKeeps DEF ShopAgrees
<1>4. CASE /\ UNCHANGED <<checkoutVars, credVars>>
           /\ \/ \E w \in Workers :
                    Claim(w) \/ ProvisioningStep(w) \/ WorkerDies(w)
              \/ Recover \/ Requeue
  <2>1. [CheckoutNext]_checkoutVars /\ OrdersStand
    BY <1>4 DEF checkoutVars, credVars, OrdersStand
  <2>2. CredsTyped'
    BY <1>0, <1>4 DEF CredsTyped, credVars
  <2> QED
    BY <1>0, <1>1, <1>4, <2>1, <2>2, ProvisioningKeeps DEF ShopAgrees
<1>5. ASSUME NEW w \in Workers, OrderFulfilled(w)
      PROVE  ShopAgrees'
  <2>1. CredsTyped'
    BY <1>0, <1>5 DEF OrderFulfilled, CredsTyped, credVars
  <2> QED
    BY <1>5, <2>1, FulfilmentKeepsShop, FulfilmentKeepsCheckout DEF ShopAgrees
<1>6. ASSUME NEW w \in Workers, CredentialIssued(w)
      PROVE  ShopAgrees'
  <2>1. [CheckoutNext]_checkoutVars
    BY <1>6 DEF CredentialIssued
  <2> QED
    BY <1>1, <1>6, <2>1, IssueKeepsShop DEF ShopAgrees
<1>7. ASSUME NEW t \in Tabs, NEW a \in Accounts, CredentialStep(t, a),
             UNCHANGED <<checkoutVars, provVars>>
      PROVE  ShopAgrees'
  <2>1. [CheckoutNext]_checkoutVars /\ a \in Pages
    BY <1>7, FulfilmentAssumption
  <2> QED
    BY <1>1, <1>7, <2>1, CredentialStepKeepsShop DEF ShopAgrees
<1> QED
  <2>1. CASE ShopNext
    BY <1>2, <1>3, <1>4, <1>5, <1>6, <1>7, <2>1
       DEF ShopNext, SubmitStep, WorkerStep, ClaimJob, RecoverClaim
  <2>2. CASE UNCHANGED shopVars
    BY <1>2, <2>2
  <2> QED
    BY <2>1, <2>2

LEMMA ShopAgreesAlways == ShopSpec => []ShopAgrees
<1>1. ShopAgrees /\ [ShopNext]_shopVars => ShopAgrees'
  BY ShopAgreesStep
<1> QED
  BY <1>1, ShopAgreesAtFirst, PTL DEF ShopSpec

\* However often a job is retried, recovered or re-queued, beside however many
\* others: one account per order (idempotency keys, TradingAccount.orderId).
THEOREM OneAccountEach == ShopSpec => []OneAccountPerOrder
<1>1. ShopAgrees => OneAccountPerOrder
  BY FulfilmentAssumption DEF ShopAgrees, ShopKnown, RowAgrees, OneAccountPerOrder
<1> QED
  BY <1>1, ShopAgreesAlways, PTL

\* No account is opened before the provider has confirmed its limits.
THEOREM VerifiedFirst == ShopSpec => []NeverActiveUnverified
<1>1. ShopAgrees => NeverActiveUnverified
  BY FulfilmentAssumption
     DEF ShopAgrees, ShopKnown, RowAgrees, NeverActiveUnverified
<1> QED
  BY <1>1, ShopAgreesAlways, PTL

\* No account exists, here or at the provider, that was not paid for.
THEOREM DeliveredIsPaid == ShopSpec => []NothingUnpaid
<1>1. ShopAgrees => NothingUnpaid
  BY DEF ShopAgrees, ShopKnown, RowAgrees, Bought, NothingUnpaid
<1> QED
  BY <1>1, ShopAgreesAlways, PTL

\* A sign-in exists only for a fulfilled order, a fulfilled order only with an
\* account that can be traded.
THEOREM CredentialsSignIn == ShopSpec => []SignInsWork
<1>1. ShopAgrees => SignInsWork
  BY DEF ShopAgrees, ShopKnown, RowAgrees, SignInsWork
<1> QED
  BY <1>1, ShopAgreesAlways, PTL

-----------------------------------------------------------------------------
(* The customer's copy of the password.                                    *)

\* A tab that shows a password shows the current one, which has been read.
TabsAreFresh ==
    /\ shown \in [Tabs -> [Pages -> Nat]]
    /\ known \in [Pages -> SUBSET Nat]
    /\ \A a \in Pages :
          /\ cred[a].acked => cred[a].pw \in known[a]
          /\ \A t \in Tabs : shown[t][a] # 0 =>
                shown[t][a] = cred[a].pw /\ cred[a].pw \in known[a]

LEMMA TabsStayFresh ==
    ASSUME \A t, u \in Tabs : t = u, RepliesLost = FALSE,
           CredsTyped, CredsTyped', TabsAreFresh, [ShopNext]_shopVars
    PROVE  TabsAreFresh'
<1>0. Accounts = Pages
  BY FulfilmentAssumption
<1>1. ASSUME NEW w \in Workers, CredentialIssued(w)
      PROVE  TabsAreFresh'
  <2> DEFINE o == OrderOf(w)
  <2>1. /\ UNCHANGED <<shown, known>>
        /\ cred' = [cred EXCEPT ![o] =
              IF @.pw = 0 THEN [pw |-> 1, acked |-> FALSE] ELSE @]
    BY <1>1 DEF CredentialIssued, IssueCredential
  <2> HIDE DEF o
  <2>2. ASSUME NEW a \in Pages
        PROVE  \/ cred'[a] = cred[a]
               \/ cred[a].pw = 0 /\ cred'[a].acked = FALSE
    BY <2>1 DEF CredsTyped
  <2>3. ASSUME NEW a \in Pages, NEW t \in Tabs
        PROVE  /\ cred'[a].acked => cred'[a].pw \in known'[a]
               /\ shown'[t][a] # 0 =>
                     shown'[t][a] = cred'[a].pw /\ cred'[a].pw \in known'[a]
    BY <2>1, <2>2 DEF TabsAreFresh
  <2>4. ASSUME NEW a \in Pages
        PROVE  cred'[a].acked => cred'[a].pw \in known'[a]
    BY <2>1, <2>2 DEF TabsAreFresh
  <2> QED
    BY <2>1, <2>3, <2>4 DEF TabsAreFresh
<1>2. ASSUME NEW t \in Tabs, NEW a \in Pages, NEW pw \in Nat, Show(t, a, pw),
             \A b \in Pages \ {a} : cred'[b] = cred[b],
             pw # 0 => cred'[a].pw = pw,
             cred'[a].acked => cred[a].acked /\ cred'[a].pw = cred[a].pw
      PROVE  TabsAreFresh'
  <2>1. /\ shown' = [shown EXCEPT ![t][a] = pw]
        /\ known' = [known EXCEPT ![a] = @ \union ({pw} \ {0})]
    BY <1>2 DEF Show
  <2>2. shown' \in [Tabs -> [Pages -> Nat]] /\ known' \in [Pages -> SUBSET Nat]
    BY <1>2, <2>1 DEF TabsAreFresh
  <2>3. /\ shown'[t][a] = pw
        /\ \A b \in Pages \ {a} : shown'[t][b] = shown[t][b]
    BY <1>2, <2>1 DEF TabsAreFresh
  <2>4. /\ known'[a] = known[a] \union ({pw} \ {0})
        /\ \A b \in Pages \ {a} : known'[b] = known[b]
    BY <1>2, <2>1 DEF TabsAreFresh
  <2>5. ASSUME NEW b \in Pages
        PROVE  /\ cred'[b].acked => cred'[b].pw \in known'[b]
               /\ shown'[t][b] # 0 =>
                     shown'[t][b] = cred'[b].pw /\ cred'[b].pw \in known'[b]
    <3>1. CASE b = a
      BY <1>2, <2>3, <2>4, <3>1 DEF TabsAreFresh
    <3>2. CASE b # a
      BY <1>2, <2>3, <2>4, <3>2 DEF TabsAreFresh
    <3> QED
      BY <3>1, <3>2
  <2>6. \A u \in Tabs : u = t
    OBVIOUS
  <2> QED
    BY <2>2, <2>5, <2>6 DEF TabsAreFresh
<1>3. ASSUME NEW t \in Tabs, NEW a \in Pages, ViewCredential(t, a)
      PROVE  TabsAreFresh'
  <2> DEFINE pw == IF cred[a].acked THEN 0 ELSE cred[a].pw
  <2>1. /\ pw \in Nat /\ Show(t, a, pw) /\ cred' = cred
        /\ pw # 0 => cred[a].pw = pw
    BY <1>3 DEF ViewCredential, CredsTyped
  <2> HIDE DEF pw
  <2> QED
    BY <1>2, <2>1
<1>4. ASSUME NEW t \in Tabs, NEW a \in Pages, Acknowledge(t, a)
      PROVE  TabsAreFresh'
  <2>1. /\ shown[t][a] # 0 /\ known' = known
        /\ cred' = [cred EXCEPT ![a].acked = TRUE]
        /\ shown' = [shown EXCEPT ![t][a] = 0]
    BY <1>4 DEF Acknowledge
  <2>2. /\ \A b \in Pages : cred'[b].pw = cred[b].pw
        /\ \A b \in Pages \ {a} : cred'[b] = cred[b]
    BY <2>1 DEF CredsTyped
  <2>3. cred[a].pw \in known[a]
    BY <2>1 DEF TabsAreFresh
  <2>4. /\ shown' \in [Tabs -> [Pages -> Nat]] /\ shown'[t][a] = 0
        /\ \A b \in Pages \ {a} : shown'[t][b] = shown[t][b]
    BY <2>1 DEF TabsAreFresh
  <2>5. ASSUME NEW b \in Pages
        PROVE  /\ cred'[b].acked => cred'[b].pw \in known'[b]
               /\ shown'[t][b] # 0 =>
                     shown'[t][b] = cred'[b].pw /\ cred'[b].pw \in known'[b]
    <3>1. CASE b = a
      BY <2>1, <2>2, <2>3, <2>4, <3>1
    <3>2. CASE b # a
      BY <2>1, <2>2, <2>4, <3>2 DEF TabsAreFresh
    <3> QED
      BY <3>1, <3>2
  <2>6. \A u \in Tabs : u = t
    OBVIOUS
  <2> QED
    BY <2>1, <2>4, <2>5, <2>6 DEF TabsAreFresh
<1>5. ASSUME NEW t \in Tabs, NEW a \in Pages, Reissue(t, a)
      PROVE  TabsAreFresh'
  <2>1. /\ cred' = [cred EXCEPT ![a] = [pw |-> @.pw + 1, acked |-> FALSE]]
        /\ Show(t, a, cred[a].pw + 1)
    BY <1>5 DEF Reissue
  <2>2. cred[a].pw \in Nat /\ cred[a].pw + 1 \in Nat
    BY DEF CredsTyped
  <2>3. /\ cred'[a].pw = cred[a].pw + 1 /\ cred'[a].acked = FALSE
        /\ \A b \in Pages \ {a} : cred'[b] = cred[b]
    BY <2>1 DEF CredsTyped
  <2> QED
    BY <1>2, <2>1, <2>2, <2>3
<1>6. CASE UNCHANGED credVars
  BY <1>6 DEF credVars, TabsAreFresh
<1> QED
  <2>1. CASE UNCHANGED shopVars
    BY <1>6, <2>1 DEF shopVars
  <2>2. CASE ShopNext
    BY <1>0, <1>1, <1>3, <1>4, <1>5, <1>6, <2>2
       DEF ShopNext, SubmitStep, WorkerStep, ClaimJob, RecoverClaim,
           OrderPlaced, OrderPaid, OrderFulfilled, CredentialStep
  <2> QED
    BY <2>1, <2>2

\* With one tab and no answer lost, an acknowledged password was seen
\* (acknowledgeCredential, reissueCredential).
THEOREM SeenBeforeDestroyed ==
    ASSUME \A t, u \in Tabs : t = u, RepliesLost = FALSE
    PROVE  ShopSpec => []AcknowledgedWasSeen
<1>1. ShopInit => TabsAreFresh
  BY FulfilmentAssumption DEF ShopInit, CredInit, TabsAreFresh
<1>2. CredsTyped /\ CredsTyped' /\ TabsAreFresh /\ [ShopNext]_shopVars
        => TabsAreFresh'
  BY TabsStayFresh
<1>3. ShopAgrees => CredsTyped
  BY DEF ShopAgrees
<1>4. TabsAreFresh => AcknowledgedWasSeen
  BY FulfilmentAssumption DEF TabsAreFresh, AcknowledgedWasSeen
<1> QED
  BY <1>1, <1>2, <1>3, <1>4, ShopAgreesAlways, PTL DEF ShopSpec

-----------------------------------------------------------------------------
(* The queue: who works on what, and why the retries of an order end.      *)

\* markOrderPaid has enqueued the order's first job.
Started(p) == jobs[<<p, "provision", 0>>].st # "none"

\* Two counters bound the work on an order: the attempts of a row, and the
\* number in the key of a retry.
JobCounted(k) ==
    /\ jobs[k].att <= MaxAttempts
    /\ jobs[k].att = MaxAttempts => jobs[k].st = "DEAD"
    /\ k[2] = "retry" /\ jobs[k].st # "none" => k[3] < MaxRetries
    /\ jobs[k].st # "none" => Started(k[1])

\* A worker holds a claim, and nobody else holds it.
HoldsClaim(w) ==
    ~Stage(w, "idle") =>
        /\ jobs[worker[w].job].st = "CLAIMED"
        /\ worker[w].job[2] = "sync" => Stage(w, "done")
        /\ \A v \in Workers : worker[v].job = worker[w].job =>
              Stage(v, "idle") \/ v = w

\* The retry a worker is about to enqueue is one of those that are left.
RetryLeft(w) ==
    /\ worker[w].st # "none"
    /\ Stage(w, "retry") \/ (worker[w].pc \in Edge /\ worker[w].then = "retry")
          => worker[w].att + 1 < MaxRetries
    /\ worker[w].pc \in Edge /\ worker[w].to = "manual_review"
          => worker[w].then = "done"

RowStarted(p) ==
    /\ pjob[p].st = "none" <=> order[p].st = "none"
    /\ Started(p) <=> pjob[p].st \notin {"none", "payment_pending"}

\* A job that may still write its order's row.
Live(k) ==
    /\ k[2] # "sync"
    /\ \/ jobs[k].st = "PENDING"
       \/ /\ jobs[k].st = "CLAIMED"
          /\ \A w \in Workers : worker[w].job = k => ~Stage(w, "done")

\* While nobody dies and one job at most is re-queued, one job runs at a time.
OneRuns ==
    crashes = 0 /\ requeues <= 1 =>
        /\ \A k, l \in JobKeys : Live(k) /\ Live(l) /\ k[1] = l[1] => k = l
        /\ \A k \in JobKeys :
              Live(k) /\ pjob[k[1]].st = "manual_review" => requeues = 1
        /\ \A w \in Workers : Stage(w, "write") =>
              CanProvision(pjob[OrderOf(w)].st, worker[w].to)

QueueCounters ==
    /\ requeues \in 0 .. MaxRequeues
    /\ failures \in 0 .. MaxFailures
    /\ crashes \in 0 .. MaxCrashes

QueueAgrees ==
    /\ \A k \in JobKeys : JobCounted(k)
    /\ \A w \in Workers : HoldsClaim(w) /\ RetryLeft(w)
    /\ \A p \in Pages : RowStarted(p)
    /\ OneRuns
    /\ QueueCounters

LEMMA BusyIsLive ==
    ASSUME ShopAgrees, QueueAgrees, NEW w \in Workers,
           ~Stage(w, "idle"), ~Stage(w, "done")
    PROVE  Live(worker[w].job)
<1>1. HoldsClaim(w)
  BY DEF QueueAgrees
<1>2. ASSUME NEW v \in Workers, worker[v].job = worker[w].job
      PROVE  ~Stage(v, "done")
  <2>1. Stage(v, "idle") \/ v = w
    BY <1>1, <1>2 DEF HoldsClaim
  <2> QED
    BY <2>1 DEF Stage
<1> QED
  BY <1>1, <1>2 DEF HoldsClaim, Live

\* A worker on its way: it keeps its job, and writes its order's row at most.
LEMMA MovingKeepsQueue ==
    ASSUME ShopAgrees, QueueAgrees, NEW w \in Workers,
           ~Stage(w, "idle"), ~Stage(w, "done"), OthersWait(w),
           worker'[w].job = worker[w].job, worker'[w].pc # "idle",
           RetryLeft(w)', UNCHANGED <<jobs, requeues, crashes>>,
           failures' \in 0 .. MaxFailures,
           \A p \in Pages : order'[p].st = "none" <=> order[p].st = "none",
           \/ /\ pjob' = pjob
              /\ worker'[w].pc = "write" =>
                    CanProvision(pjob[OrderOf(w)].st, worker'[w].to)
           \/ /\ Stage(w, "write") /\ worker'[w].pc # "write"
              /\ \A p \in Pages \ {OrderOf(w)} : pjob'[p] = pjob[p]
              /\ pjob'[OrderOf(w)].st \notin {"none", "payment_pending"}
              /\ pjob'[OrderOf(w)].st = "manual_review" => worker'[w].pc = "done"
    PROVE  QueueAgrees'
<1> DEFINE o == OrderOf(w)
<1>0. worker[w].job \in JobKeys /\ o \in Pages /\ o = worker[w].job[1]
  BY WorkerHasOrder DEF ShopAgrees
<1>1. Live(worker[w].job)
  BY BusyIsLive
<1>2. /\ HoldsClaim(w) /\ jobs[worker[w].job].st = "CLAIMED"
      /\ worker[w].job[2] # "sync" /\ Started(o) /\ RowStarted(o)
  BY <1>0 DEF QueueAgrees, HoldsClaim, JobCounted
<1> HIDE DEF o
<1>3. \A k \in JobKeys : JobCounted(k)'
  BY DEF QueueAgrees, JobCounted, Started
<1>4. ASSUME NEW v \in Workers
      PROVE  HoldsClaim(v)' /\ RetryLeft(v)'
  <2>1. \A u \in Workers : worker'[u].job = worker[u].job
    BY DEF OthersWait
  <2>2. \A u \in Workers : worker'[u].pc = "idle" <=> worker[u].pc = "idle"
    BY DEF OthersWait, Stage
  <2>3. CASE v = w
    BY <1>2, <2>1, <2>2, <2>3 DEF HoldsClaim, Stage
  <2>4. CASE v # w
    <3>1. worker'[v] = worker[v] /\ HoldsClaim(v) /\ RetryLeft(v)
      BY <2>4 DEF OthersWait, QueueAgrees
    <3> QED
      BY <2>1, <2>2, <3>1 DEF HoldsClaim, RetryLeft, Stage
  <2> QED
    BY <2>3, <2>4
<1>5. ASSUME NEW p \in Pages
      PROVE  RowStarted(p)'
  <2>1. RowStarted(p)
    BY DEF QueueAgrees
  <2>2. CASE p = o
    BY <1>2, <2>1, <2>2 DEF RowStarted, Started, o
  <2>3. CASE p # o
    BY <2>1, <2>3 DEF RowStarted, Started, o
  <2> QED
    BY <2>2, <2>3
<1>6. \A k \in JobKeys : Live(k)' => Live(k)
  <2> SUFFICES ASSUME NEW k \in JobKeys, Live(k)', ~Live(k)
               PROVE  FALSE
    OBVIOUS
  <2>1. PICK v \in Workers : worker[v].job = k /\ Stage(v, "done")
    BY DEF Live
  <2>2. v # w /\ worker'[v] = worker[v]
    BY <2>1 DEF OthersWait, Stage
  <2> QED
    BY <2>1, <2>2 DEF Live, Stage
<1>7. OneRuns'
  <2> SUFFICES ASSUME crashes = 0, requeues <= 1
               PROVE  /\ \A k, l \in JobKeys :
                            Live(k)' /\ Live(l)' /\ k[1] = l[1] => k = l
                      /\ \A k \in JobKeys :
                            Live(k)' /\ pjob'[k[1]].st = "manual_review"
                               => requeues = 1
                      /\ \A v \in Workers : Stage(v, "write")' =>
                            CanProvision(pjob'[OrderOf(v)'].st, worker'[v].to)
    BY DEF OneRuns, CanProvision
  <2>1. \A k, l \in JobKeys : Live(k) /\ Live(l) /\ k[1] = l[1] => k = l
    BY DEF QueueAgrees, OneRuns
  <2>2. ASSUME NEW k \in JobKeys, Live(k)', pjob'[k[1]].st = "manual_review"
        PROVE  requeues = 1
    <3>1. Live(k) /\ k[1] \in Pages
      BY <1>6, <2>2, KeyNamesOrder
    <3>2. CASE pjob'[k[1]] = pjob[k[1]]
      BY <2>2, <3>1, <3>2 DEF QueueAgrees, OneRuns
    <3>3. CASE k[1] = o /\ worker'[w].pc = "done"
      <4>1. k = worker[w].job
        BY <1>0, <1>1, <2>1, <3>1, <3>3
      <4>2. jobs'[k].st # "PENDING"
        BY <1>2, <4>1
      <4> QED
        BY <2>2, <3>3, <4>1, <4>2 DEF Live, Stage
    <3> QED
      BY <2>2, <3>1, <3>2, <3>3 DEF o
  <2>3. ASSUME NEW v \in Workers, Stage(v, "write")'
        PROVE  CanProvision(pjob'[OrderOf(v)'].st, worker'[v].to)
    <3>1. CASE v = w
      <4>1. pjob' = pjob /\ OrderOf(v)' = OrderOf(v)
        BY <2>3, <3>1 DEF Stage, OrderOf
      <4> QED
        BY <2>3, <3>1, <4>1 DEF Stage
    <3>2. CASE v # w
      <4>1. worker'[v] = worker[v] /\ Stage(v, "write") /\ OrderOf(v)' = OrderOf(v)
        BY <2>3, <3>2 DEF OthersWait, Stage, OrderOf
      <4>2. CanProvision(pjob[OrderOf(v)].st, worker[v].to)
        BY <4>1 DEF QueueAgrees, OneRuns
      <4>3. Live(worker[v].job) /\ worker[v].job \in JobKeys
            /\ OrderOf(v) \in Pages /\ OrderOf(v) = worker[v].job[1]
            /\ ~Stage(v, "idle")
        BY <4>1, BusyIsLive, WorkerHasOrder DEF Stage, ShopAgrees
      <4>4. OrderOf(v) # o
        BY <1>0, <1>1, <1>2, <2>1, <3>2, <4>3 DEF HoldsClaim
      <4>5. pjob'[OrderOf(v)] = pjob[OrderOf(v)]
        BY <4>3, <4>4 DEF o
      <4> QED
        BY <4>1, <4>2, <4>5
    <3> QED
      BY <3>1, <3>2
  <2> QED
    BY <1>6, <2>1, <2>2, <2>3
<1>8. QueueCounters'
  BY DEF QueueAgrees, QueueCounters
<1> QED
  BY <1>3, <1>4, <1>5, <1>7, <1>8 DEF QueueAgrees

\* What a change of stage leaves in a worker's record.
LEMMA GoingKeepsRecord ==
    ASSUME WorkersTyped, NEW w \in Workers, NEW pc, GoTo(w, pc)
    PROVE  /\ OthersWait(w) /\ worker'[w].pc = pc
           /\ worker'[w].job = worker[w].job
           /\ worker'[w].st = worker[w].st /\ worker'[w].att = worker[w].att
           /\ worker'[w].to = worker[w].to /\ worker'[w].then = worker[w].then
BY DEF WorkersTyped, OthersWait, GoTo, WorkerRow

LEMMA TransitKeepsRecord ==
    ASSUME WorkersTyped, NEW w \in Workers, NEW to, NEW then, NEW err,
           Transition(w, to, then, err)
    PROVE  /\ OthersWait(w) /\ worker'[w].pc = "check"
           /\ worker'[w].job = worker[w].job
           /\ worker'[w].st = worker[w].st /\ worker'[w].att = worker[w].att
           /\ worker'[w].to = to /\ worker'[w].then = then
BY DEF WorkersTyped, OthersWait, Transition, WorkerRow

\* The rows and the counters that most steps of a worker leave alone.
QueueStands ==
    /\ UNCHANGED <<jobs, pjob, requeues, crashes>>
    /\ failures' \in 0 .. MaxFailures
    /\ \A p \in Pages : order'[p].st = "none" <=> order[p].st = "none"

LEMMA GoingKeepsQueue ==
    ASSUME ShopAgrees, QueueAgrees, QueueStands, NEW w \in Workers,
           ~Stage(w, "idle"), ~Stage(w, "done"),
           NEW pc, pc \notin {"idle", "check", "retry"},
           pc = "write" => /\ Stage(w, "check")
                           /\ CanProvision(pjob[OrderOf(w)].st, worker[w].to),
           GoTo(w, pc)
    PROVE  QueueAgrees'
<1>1. /\ OthersWait(w) /\ worker'[w].pc = pc
      /\ worker'[w].job = worker[w].job
      /\ worker'[w].st = worker[w].st /\ worker'[w].att = worker[w].att
      /\ worker'[w].to = worker[w].to /\ worker'[w].then = worker[w].then
  BY GoingKeepsRecord DEF ShopAgrees, ShopKnown, ShopTyped
<1>2. RetryLeft(w)
  BY DEF QueueAgrees
<1>3. RetryLeft(w)'
  BY <1>1, <1>2 DEF RetryLeft, Stage, Edge
<1> QED
  BY <1>1, <1>3, MovingKeepsQueue DEF QueueStands

LEMMA TransitKeepsQueue ==
    ASSUME ShopAgrees, QueueAgrees, QueueStands, NEW w \in Workers,
           ~Stage(w, "idle"), ~Stage(w, "done"),
           NEW to, NEW then, NEW err,
           then = "retry" => worker[w].att + 1 < MaxRetries,
           to = "manual_review" => then = "done",
           Transition(w, to, then, err)
    PROVE  QueueAgrees'
<1>1. /\ OthersWait(w) /\ worker'[w].pc = "check"
      /\ worker'[w].job = worker[w].job
      /\ worker'[w].st = worker[w].st /\ worker'[w].att = worker[w].att
      /\ worker'[w].to = to /\ worker'[w].then = then
  BY TransitKeepsRecord DEF ShopAgrees, ShopKnown, ShopTyped
<1>2. RetryLeft(w)
  BY DEF QueueAgrees
<1>3. RetryLeft(w)'
  BY <1>1, <1>2 DEF RetryLeft, Stage, Edge
<1> QED
  BY <1>1, <1>3, MovingKeepsQueue DEF QueueStands

LEMMA CatchingKeepsQueue ==
    ASSUME ShopAgrees, QueueAgrees, QueueStands, NEW w \in Workers,
           ~Stage(w, "idle"), ~Stage(w, "done"), NEW again \in BOOLEAN,
           worker' = [worker EXCEPT ![w].pc = "caught", ![w].again = again]
    PROVE  QueueAgrees'
<1>1. WorkersTyped /\ RetryLeft(w)
  BY DEF ShopAgrees, ShopKnown, ShopTyped, QueueAgrees
<1>2. /\ OthersWait(w) /\ worker'[w].pc = "caught"
      /\ worker'[w].job = worker[w].job
  BY <1>1, CatchMoves
<1>3. worker'[w].st = worker[w].st
  BY <1>1 DEF WorkersTyped, WorkerRow
<1>4. RetryLeft(w)'
  BY <1>1, <1>2, <1>3 DEF RetryLeft, Stage, Edge
<1> QED
  BY <1>2, <1>4, MovingKeepsQueue DEF QueueStands

\* The steps of runProvisioning that write no row of the queue, by what they
\* find: the row of the order, its edge, its account.
LEMMA ReadingKeepsQueue ==
    ASSUME ShopAgrees, QueueAgrees, OrdersStand, NEW w \in Workers, ReadJob(w)
    PROVE  QueueAgrees'
<1>0. /\ ~Stage(w, "idle") /\ ~Stage(w, "done") /\ QueueStands
      /\ worker[w] \in WorkerRow
  BY DEF ReadJob, Stage, QueueStands, OrdersStand, QueueAgrees, QueueCounters,
         ShopAgrees, ShopKnown, ShopTyped, WorkersTyped
<1>1. worker[w].job \in JobKeys /\ OrderOf(w) \in Pages
      /\ OrderOf(w) = worker[w].job[1]
  BY <1>0, WorkerHasOrder DEF ShopAgrees
<1>2. pjob[OrderOf(w)].st # "none"
  BY <1>0, <1>1 DEF QueueAgrees, HoldsClaim, JobCounted, RowStarted
<1>3. /\ OthersWait(w) /\ worker'[w].pc = "find"
      /\ worker'[w].job = worker[w].job
      /\ worker'[w].st = pjob[OrderOf(w)].st
  BY <1>0 DEF ReadJob, OthersWait, ShopAgrees, ShopKnown, ShopTyped,
              WorkersTyped, WorkerRow
<1>4. RetryLeft(w)'
  BY <1>2, <1>3 DEF RetryLeft, Stage, Edge
<1> QED
  BY <1>0, <1>3, <1>4, MovingKeepsQueue DEF QueueStands

LEMMA CheckingKeepsQueue ==
    ASSUME ShopAgrees, QueueAgrees, OrdersStand, NEW w \in Workers,
           FindAccount(w) \/ CheckEdge(w) \/ Caught(w)
    PROVE  QueueAgrees'
<1>0. ~Stage(w, "idle") /\ ~Stage(w, "done") /\ QueueStands
  BY DEF FindAccount, CheckEdge, Caught, Stage, QueueStands, OrdersStand,
         QueueAgrees, QueueCounters
<1>1. CASE FindAccount(w)
  <2>1. CASE GoTo(w, "risk") \/ GoTo(w, "create")
    BY <1>0, <2>1, GoingKeepsQueue
  <2>2. CASE Transition(w, "provisioning", "create", "fail")
    BY <1>0, <2>2, TransitKeepsQueue
  <2> QED
    BY <1>1, <2>1, <2>2 DEF FindAccount
<1>2. CASE CheckEdge(w)
  <2>1. CASE GoTo(w, "write") /\ CanProvision(pjob[OrderOf(w)].st, worker[w].to)
    BY <1>0, <1>2, <2>1, GoingKeepsQueue DEF CheckEdge
  <2>2. CASE GoTo(w, worker[w].err)
    <3>1. worker[w].err \in {"fail", "caught", "review"}
      BY <1>2 DEF CheckEdge, Stage, Edge, ShopAgrees, ShopKnown, WorkerAgrees
    <3> QED
      BY <1>0, <2>2, <3>1, GoingKeepsQueue
  <2> QED
    BY <1>2, <2>1, <2>2 DEF CheckEdge
<1>3. CASE Caught(w)
  <2> DEFINE to == NextStateAfterFailure(worker[w].att + 1, worker[w].again)
             then == IF to = "manual_review" THEN "done" ELSE "retry"
  <2>1. Transition(w, to, then, "fail")
    BY <1>3 DEF Caught
  <2>2. then = "retry" => worker[w].att + 1 < MaxRetries
    BY DEF NextStateAfterFailure
  <2>3. to = "manual_review" => then = "done"
    OBVIOUS
  <2> HIDE DEF to, then
  <2> QED
    BY <1>0, <2>1, <2>2, <2>3, TransitKeepsQueue
<1> QED
  BY <1>1, <1>2, <1>3

LEMMA WritingKeepsQueue ==
    ASSUME ShopAgrees, QueueAgrees, OrdersStand, NEW w \in Workers, WriteEdge(w)
    PROVE  QueueAgrees'
<1>0. /\ Stage(w, "write") /\ ~Stage(w, "idle") /\ ~Stage(w, "done")
      /\ worker[w].pc \in Edge /\ GoTo(w, worker[w].then)
      /\ UNCHANGED <<jobs, requeues, crashes, failures>>
  BY DEF WriteEdge, Stage, Edge
<1>1. worker[w].job \in JobKeys /\ OrderOf(w) \in Pages
  BY <1>0, WorkerHasOrder DEF ShopAgrees
<1>2. /\ worker[w].then \in {"create", "risk", "activate", "open", "done",
                             "retry"}
      /\ worker[w].to \in ProvisioningState \ {"payment_pending"}
  BY <1>0 DEF ShopAgrees, ShopKnown, WorkerAgrees, ShopTyped, WorkersTyped,
              WorkerRow
<1>3. /\ OthersWait(w) /\ worker'[w].pc = worker[w].then
      /\ worker'[w].job = worker[w].job
      /\ worker'[w].st = worker[w].st /\ worker'[w].att = worker[w].att
  BY <1>0, GoingKeepsRecord DEF ShopAgrees, ShopKnown, ShopTyped
<1>4. RetryLeft(w)
  BY DEF QueueAgrees
<1>5. RetryLeft(w)'
  BY <1>0, <1>2, <1>3, <1>4 DEF RetryLeft, Stage, Edge
<1>6. /\ pjob'[OrderOf(w)].st = worker[w].to
      /\ \A p \in Pages \ {OrderOf(w)} : pjob'[p] = pjob[p]
  BY <1>1 DEF WriteEdge, ShopAgrees, ShopKnown, ShopTyped, AccountsTyped
<1>7. worker[w].to = "manual_review" => worker'[w].pc = "done"
  BY <1>0, <1>3, <1>4 DEF RetryLeft
<1>8. worker[w].to \notin {"none", "payment_pending"}
  BY <1>2 DEF ProvisioningState
<1>9. failures' \in 0 .. MaxFailures
  BY <1>0 DEF QueueAgrees, QueueCounters
<1>10. \A p \in Pages : order'[p].st = "none" <=> order[p].st = "none"
  BY DEF OrdersStand
<1> QED
  BY <1>0, <1>2, <1>3, <1>5, <1>6, <1>7, <1>8, <1>9, <1>10, MovingKeepsQueue

LEMMA MakingKeepsQueue ==
    ASSUME ShopAgrees, QueueAgrees, OrdersStand, NEW w \in Workers,
           \/ CreateExternal(w) \/ CreateRow(w) \/ ReadForRisk(w)
           \/ ConfigureRisk(w) \/ HoldForReview(w)
           \/ ReadForActivation(w) \/ OpenAccount(w)
    PROVE  QueueAgrees'
<1>0. failures \in 0 .. MaxFailures /\ MaxFailures \in Nat
  BY WorkerAssumption DEF QueueAgrees, QueueCounters
<1>1. ~Stage(w, "idle") /\ ~Stage(w, "done")
  BY DEF CreateExternal, CreateRow, ReadForRisk, ConfigureRisk, HoldForReview,
         ReadForActivation, OpenAccount, Stage
<1>2. QueueStands
  <2>1. failures' \in 0 .. MaxFailures
    BY <1>0 DEF CreateExternal, CreateRow, ReadForRisk, ConfigureRisk,
       HoldForReview, ReadForActivation, OpenAccount
  <2>2. UNCHANGED <<jobs, pjob, requeues, crashes>>
    BY DEF CreateExternal, CreateRow, ReadForRisk, ConfigureRisk, HoldForReview,
       ReadForActivation, OpenAccount
  <2> QED
    BY <2>1, <2>2 DEF QueueStands, OrdersStand
<1>3. \/ \E pc \in {"row", "configure", "activate", "review", "done", "fulfil"} :
            GoTo(w, pc)
      \/ \E again \in BOOLEAN :
            worker' = [worker EXCEPT ![w].pc = "caught", ![w].again = again]
      \/ \E then \in {"risk", "activate", "open"},
             err \in {"caught", "review", "fail"},
             to \in {"provisioned_unverified", "risk_verified", "active"} :
            Transition(w, to, then, err)
      \/ \E err \in {"review", "fail"} : Transition(w, "manual_review", "done", err)
  BY DEF CreateExternal, CreateRow, ReadForRisk, ConfigureRisk, HoldForReview,
         ReadForActivation, OpenAccount
<1> QED
  <2>1. CASE \E pc \in {"row", "configure", "activate", "review", "done",
                        "fulfil"} : GoTo(w, pc)
    BY <1>1, <1>2, <2>1, GoingKeepsQueue
  <2>2. CASE \E again \in BOOLEAN :
            worker' = [worker EXCEPT ![w].pc = "caught", ![w].again = again]
    BY <1>1, <1>2, <2>2, CatchingKeepsQueue
  <2>3. CASE \E then \in {"risk", "activate", "open"}, err \in {"caught", "review", "fail"},
             to \in {"provisioned_unverified", "risk_verified", "active"} :
            Transition(w, to, then, err)
    BY <1>1, <1>2, <2>3, TransitKeepsQueue
  <2>4. CASE \E err \in {"review", "fail"} : Transition(w, "manual_review", "done", err)
    BY <1>1, <1>2, <2>4, TransitKeepsQueue
  <2> QED
    BY <1>3, <2>1, <2>2, <2>3, <2>4

-----------------------------------------------------------------------------
(* The steps that write the queue.                                         *)

LEMMA EnqueueWrites ==
    ASSUME ShopAgrees, NEW k \in JobKeys, jobs' = Enqueued(k)
    PROVE  /\ \A j \in JobKeys : j # k => jobs'[j] = jobs[j]
           /\ jobs[k].st # "none" => jobs'[k] = jobs[k]
           /\ jobs[k].st = "none" => jobs'[k] = [st |-> "PENDING", att |-> 0]
BY DEF Enqueued, ShopAgrees, ShopKnown, ShopTyped, JobsTyped

\* A new row is counted when its order is started and a retry is left.
LEMMA EnqueuedIsCounted ==
    ASSUME ShopAgrees, NEW k \in JobKeys, jobs' = Enqueued(k),
           \A j \in JobKeys : JobCounted(j), Started(k[1])',
           k[2] = "retry" => k[3] < MaxRetries
    PROVE  \A j \in JobKeys : JobCounted(j)'
<1>0. MaxAttempts \in Nat \ {0}
  BY WorkerAssumption
<1>1. \A p \in Pages : Started(p) => Started(p)'
  <2>1. \A p \in Pages : <<p, "provision", 0>> \in JobKeys
    BY FulfilmentAssumption DEF JobKeys
  <2> QED
    BY <2>1, EnqueueWrites DEF Started
<1>2. ASSUME NEW j \in JobKeys
      PROVE  JobCounted(j)'
  <2>1. JobCounted(j) /\ j[1] \in Pages
    BY KeyNamesOrder
  <2>2. CASE jobs'[j] = jobs[j] /\ jobs[j].st # "none"
    BY <1>1, <2>1, <2>2 DEF JobCounted
  <2>3. CASE jobs'[j] = jobs[j] /\ jobs[j].st = "none"
    BY <2>1, <2>3 DEF JobCounted
  <2>4. CASE j = k /\ jobs'[j] = [st |-> "PENDING", att |-> 0]
    BY <1>0, <2>4 DEF JobCounted
  <2> QED
    BY <2>2, <2>3, <2>4, EnqueueWrites
<1> QED
  BY <1>2

LEMMA EnqueueingKeepsQueue ==
    ASSUME ShopAgrees, QueueAgrees, OrdersStand, NEW w \in Workers,
           EnqueueRetry(w) \/ EnqueueSync(w)
    PROVE  QueueAgrees'
<1> DEFINE o == OrderOf(w)
           k == IF Stage(w, "retry") THEN <<o, "retry", worker[w].att + 1>>
                ELSE <<o, "sync", 0>>
<1>0. /\ ~Stage(w, "idle") /\ ~Stage(w, "done") /\ GoTo(w, "done")
      /\ UNCHANGED <<pjob, requeues, crashes, failures>>
      /\ jobs' = Enqueued(k) /\ (Stage(w, "retry") \/ Stage(w, "sync"))
  BY DEF EnqueueRetry, EnqueueSync, Stage
<1>1. worker[w].job \in JobKeys /\ o \in Pages /\ o = worker[w].job[1]
  BY <1>0, WorkerHasOrder DEF ShopAgrees
<1>2. /\ RetryLeft(w) /\ HoldsClaim(w) /\ worker[w] \in WorkerRow
      /\ jobs[worker[w].job].st = "CLAIMED" /\ worker[w].job[2] # "sync"
      /\ \A j \in JobKeys : JobCounted(j)
  BY <1>0 DEF QueueAgrees, HoldsClaim, ShopAgrees, ShopKnown, ShopTyped,
              WorkersTyped
<1>3. /\ k \in JobKeys /\ k[1] = o
      /\ k[2] = "retry" => k[3] < MaxRetries
      /\ k[2] \in {"retry", "sync"}
  <2>1. CASE Stage(w, "retry")
    <3>1. worker[w].att \in Nat /\ worker[w].att + 1 < MaxRetries
      BY <1>2, <2>1 DEF RetryLeft, WorkerRow
    <3>2. worker[w].att + 1 \in 1 .. MaxRetries
      BY <3>1, ProvisioningAssumption
    <3> QED
      BY <1>1, <2>1, <3>1, <3>2, FulfilmentAssumption DEF JobKeys
  <2>2. CASE ~Stage(w, "retry")
    BY <1>1, <2>2, FulfilmentAssumption DEF JobKeys
  <2> QED
    BY <2>1, <2>2
<1>4. Live(worker[w].job)
  BY <1>0, BusyIsLive
<1> HIDE DEF o, k
<1>5. /\ \A j \in JobKeys : j # k => jobs'[j] = jobs[j]
      /\ jobs[k].st # "none" => jobs'[k] = jobs[k]
      /\ jobs[k].st = "none" => jobs'[k] = [st |-> "PENDING", att |-> 0]
  BY <1>0, <1>3, EnqueueWrites
<1>6. \A p \in Pages : Started(p)' <=> Started(p)
  <2>1. \A p \in Pages : <<p, "provision", 0>> \in JobKeys \ {k}
    BY <1>3, FulfilmentAssumption DEF JobKeys
  <2> QED
    BY <1>5, <2>1 DEF Started
<1>7. \A j \in JobKeys : JobCounted(j)'
  <2>1. Started(o)
    BY <1>1, <1>2 DEF JobCounted
  <2> QED
    BY <1>0, <1>1, <1>2, <1>3, <1>6, <2>1, EnqueuedIsCounted
<1>8. /\ OthersWait(w) /\ worker'[w].pc = "done"
      /\ worker'[w].job = worker[w].job /\ worker'[w].st = worker[w].st
  BY <1>0, GoingKeepsRecord DEF ShopAgrees, ShopKnown, ShopTyped
<1>9. \A u \in Workers :
         /\ worker'[u].job = worker[u].job
         /\ worker'[u].pc = "idle" <=> worker[u].pc = "idle"
  BY <1>0, <1>8 DEF OthersWait, Stage
<1>10. ASSUME NEW v \in Workers
       PROVE  HoldsClaim(v)' /\ RetryLeft(v)'
  <2>1. HoldsClaim(v) /\ RetryLeft(v)
    BY DEF QueueAgrees
  <2>2. ~Stage(v, "idle") => jobs'[worker[v].job].st = "CLAIMED"
    <3>1. ~Stage(v, "idle") => worker[v].job \in JobKeys
      BY WorkerHasOrder DEF ShopAgrees
    <3> QED
      BY <1>5, <2>1, <3>1 DEF HoldsClaim
  <2>3. CASE v = w
    BY <1>2, <1>8, <1>9, <2>1, <2>2, <2>3 DEF HoldsClaim, RetryLeft, Stage, Edge
  <2>4. CASE v # w
    <3>1. worker'[v] = worker[v]
      BY <1>8, <2>4 DEF OthersWait
    <3> QED
      BY <1>9, <2>1, <2>2, <3>1 DEF HoldsClaim, RetryLeft, Stage
  <2> QED
    BY <2>3, <2>4
<1>11. \A p \in Pages : RowStarted(p)'
  BY <1>0, <1>6 DEF QueueAgrees, RowStarted, OrdersStand
<1>12. ASSUME NEW j \in JobKeys, Live(j)'
       PROVE  \/ Live(j) /\ j # worker[w].job
              \/ j = k /\ j[2] = "retry"
  <2>1. j # worker[w].job
    <3>1. jobs'[worker[w].job] = jobs[worker[w].job]
      BY <1>1, <1>2, <1>5
    <3>2. Stage(w, "done")'
      BY <1>8 DEF Stage
    <3> QED
      BY <1>2, <1>8, <1>12, <3>1, <3>2 DEF Live
  <2>2. CASE jobs'[j] = jobs[j]
    <3>1. ASSUME NEW v \in Workers, worker[v].job = j
          PROVE  worker'[v] = worker[v]
      BY <1>8, <2>1, <3>1 DEF OthersWait
    <3> QED
      BY <1>12, <2>1, <2>2, <3>1 DEF Live, Stage
  <2>3. CASE jobs'[j] # jobs[j]
    BY <1>3, <1>5, <1>12, <2>3 DEF Live
  <2> QED
    BY <2>2, <2>3
<1>13. OneRuns'
  <2> SUFFICES ASSUME crashes = 0, requeues <= 1
               PROVE  /\ \A j, l \in JobKeys :
                            Live(j)' /\ Live(l)' /\ j[1] = l[1] => j = l
                      /\ \A j \in JobKeys :
                            Live(j)' /\ pjob[j[1]].st = "manual_review"
                               => requeues = 1
                      /\ \A v \in Workers : Stage(v, "write")' =>
                            CanProvision(pjob[OrderOf(v)'].st, worker'[v].to)
    BY <1>0 DEF OneRuns, CanProvision
  <2>1. /\ \A j, l \in JobKeys : Live(j) /\ Live(l) /\ j[1] = l[1] => j = l
        /\ \A j \in JobKeys :
              Live(j) /\ pjob[j[1]].st = "manual_review" => requeues = 1
        /\ \A v \in Workers : Stage(v, "write") =>
              CanProvision(pjob[OrderOf(v)].st, worker[v].to)
    BY DEF QueueAgrees, OneRuns
  <2>2. \A j \in JobKeys : Live(j)' => j[1] # o \/ j = k
    BY <1>1, <1>4, <1>12, <2>1
  <2>3. \A j, l \in JobKeys : Live(j)' /\ Live(l)' /\ j[1] = l[1] => j = l
    BY <1>3, <1>12, <2>1, <2>2
  <2>4. \A j \in JobKeys :
            Live(j)' /\ pjob[j[1]].st = "manual_review" => requeues = 1
    BY <1>1, <1>3, <1>4, <1>12, <2>1
  <2>5. \A v \in Workers : Stage(v, "write")' =>
            CanProvision(pjob[OrderOf(v)'].st, worker'[v].to)
    <3>1. ASSUME NEW v \in Workers, Stage(v, "write")'
          PROVE  CanProvision(pjob[OrderOf(v)'].st, worker'[v].to)
      <4>1. v # w /\ worker'[v] = worker[v]
        BY <1>8, <3>1 DEF Stage, OthersWait
      <4> QED
        BY <2>1, <3>1, <4>1 DEF Stage, OrderOf
    <3> QED
      BY <3>1
  <2> QED
    BY <2>3, <2>4, <2>5
<1>14. QueueCounters'
  BY <1>0 DEF QueueAgrees, QueueCounters
<1> QED
  BY <1>7, <1>10, <1>11, <1>13, <1>14 DEF QueueAgrees

\* One row is claimed, released or recovered; nothing runs that did not before.
LEMMA RowKeepsQueue ==
    ASSUME ShopAgrees, QueueAgrees, OrdersStand, UNCHANGED pjob,
           NEW k \in JobKeys, jobs[k].st # "none", jobs'[k].st # "none",
           \A j \in JobKeys : j # k => jobs'[j] = jobs[j],
           jobs'[k].att <= MaxAttempts,
           jobs'[k].att = MaxAttempts => jobs'[k].st = "DEAD",
           \A v \in Workers : HoldsClaim(v)' /\ RetryLeft(v)',
           QueueCounters',
           \/ crashes' # 0
           \/ /\ UNCHANGED <<crashes, requeues>>
              /\ \A j \in JobKeys : Live(j)' => Live(j)
              /\ \A v \in Workers : Stage(v, "write")' => worker'[v] = worker[v]
    PROVE  QueueAgrees'
<1>1. \A p \in Pages : Started(p)' <=> Started(p)
  <2>1. \A p \in Pages : <<p, "provision", 0>> \in JobKeys
    BY FulfilmentAssumption DEF JobKeys
  <2> QED
    BY <2>1 DEF Started
<1>2. ASSUME NEW j \in JobKeys
      PROVE  JobCounted(j)'
  <2>1. JobCounted(j) /\ j[1] \in Pages
    BY KeyNamesOrder DEF QueueAgrees
  <2>2. jobs'[j].st # "none" => jobs[j].st # "none"
    OBVIOUS
  <2>3. jobs'[j].st # "none" => Started(j[1])'
    BY <1>1, <2>1, <2>2 DEF JobCounted
  <2>4. /\ jobs'[j].att <= MaxAttempts
        /\ jobs'[j].att = MaxAttempts => jobs'[j].st = "DEAD"
    BY <2>1 DEF JobCounted
  <2>5. j[2] = "retry" /\ jobs'[j].st # "none" => j[3] < MaxRetries
    BY <2>1, <2>2 DEF JobCounted
  <2> QED
    BY <2>3, <2>4, <2>5 DEF JobCounted
<1>3. \A p \in Pages : RowStarted(p)'
  BY <1>1 DEF QueueAgrees, RowStarted, OrdersStand
<1>4. OneRuns'
  <2>1. CASE crashes' # 0
    BY <2>1 DEF OneRuns
  <2>2. CASE /\ UNCHANGED <<crashes, requeues>>
             /\ \A j \in JobKeys : Live(j)' => Live(j)
             /\ \A v \in Workers : Stage(v, "write")' => worker'[v] = worker[v]
    <3>1. OneRuns
      BY DEF QueueAgrees
    <3>2. \A v \in Workers : Stage(v, "write")' =>
             /\ Stage(v, "write") /\ OrderOf(v)' = OrderOf(v)
             /\ worker'[v].to = worker[v].to
      BY <2>2 DEF Stage, OrderOf
    <3> QED
      BY <2>2, <3>1, <3>2 DEF OneRuns, CanProvision
  <2> QED
    BY <2>1, <2>2
<1> QED
  BY <1>2, <1>3, <1>4 DEF QueueAgrees

LEMMA ClaimKeepsQueue ==
    ASSUME ShopAgrees, QueueAgrees, OrdersStand, NEW w \in Workers, Claim(w)
    PROVE  QueueAgrees'
<1>1. PICK k \in JobKeys :
         /\ jobs[k].st = "PENDING"
         /\ jobs' = [jobs EXCEPT ![k].st = "CLAIMED"]
         /\ worker' = [worker EXCEPT ![w].job = k,
                ![w].pc = IF k[2] = "sync" THEN "done" ELSE "read"]
  BY DEF Claim
<1>2. /\ Stage(w, "idle") /\ UNCHANGED <<pjob, requeues, failures, crashes>>
  BY DEF Claim, Stage
<1>3. /\ jobs'[k].st = "CLAIMED" /\ jobs'[k].att = jobs[k].att
      /\ \A j \in JobKeys : j # k => jobs'[j] = jobs[j]
  BY <1>1 DEF ShopAgrees, ShopKnown, ShopTyped, JobsTyped
<1>4. /\ OthersWait(w) /\ worker'[w].job = k /\ worker'[w].st = worker[w].st
      /\ worker'[w].pc = IF k[2] = "sync" THEN "done" ELSE "read"
  BY <1>1 DEF ShopAgrees, ShopKnown, ShopTyped, WorkersTyped, WorkerRow,
              OthersWait
<1>5. \A v \in Workers : ~Stage(v, "idle") =>
         worker[v].job \in JobKeys /\ worker[v].job # k
  BY <1>1, WorkerHasOrder DEF QueueAgrees, HoldsClaim, ShopAgrees
<1>6. ASSUME NEW v \in Workers
      PROVE  HoldsClaim(v)' /\ RetryLeft(v)'
  <2>1. HoldsClaim(v) /\ RetryLeft(v)
    BY DEF QueueAgrees
  <2>2. CASE v = w
    <3>1. \A u \in Workers : worker'[u].job = k => Stage(u, "idle")' \/ u = w
      BY <1>4, <1>5 DEF OthersWait, Stage
    <3> QED
      BY <1>3, <1>4, <2>1, <2>2, <3>1 DEF HoldsClaim, RetryLeft, Stage, Edge
  <2>3. CASE v # w
    <3>1. worker'[v] = worker[v]
      BY <1>4, <2>3 DEF OthersWait
    <3>2. RetryLeft(v)'
      BY <2>1, <3>1 DEF RetryLeft, Stage
    <3>3. ASSUME ~Stage(v, "idle")
          PROVE  /\ jobs'[worker[v].job] = jobs[worker[v].job]
                 /\ \A u \in Workers : worker'[u].job = worker[v].job =>
                       Stage(u, "idle")' \/ u = v
      BY <1>3, <1>4, <1>5, <2>1, <3>3 DEF HoldsClaim, OthersWait, Stage
    <3> QED
      BY <2>1, <3>1, <3>2, <3>3 DEF HoldsClaim, Stage
  <2> QED
    BY <2>2, <2>3
<1>7. ASSUME NEW j \in JobKeys, Live(j)'
      PROVE  Live(j)
  <2>1. CASE j = k
    BY <1>1, <1>7, <2>1 DEF Live
  <2>2. CASE j # k
    <3>1. \A v \in Workers : worker[v].job = j => ~Stage(v, "done") \/
             (v # w /\ worker'[v] = worker[v])
      BY <1>2, <1>4 DEF OthersWait, Stage
    <3> QED
      BY <1>3, <1>7, <2>2, <3>1 DEF Live, Stage
  <2> QED
    BY <2>1, <2>2
<1>8. \A v \in Workers : Stage(v, "write")' => worker'[v] = worker[v]
  BY <1>4 DEF OthersWait, Stage
<1>9. jobs[k].att <= MaxAttempts /\ jobs[k].att # MaxAttempts
  BY <1>1 DEF QueueAgrees, JobCounted
<1>10. QueueCounters'
  BY <1>2 DEF QueueAgrees, QueueCounters
<1> QED
  BY <1>1, <1>2, <1>3, <1>6, <1>7, <1>8, <1>9, <1>10, RowKeepsQueue

LEMMA EndingKeepsQueue ==
    ASSUME ShopAgrees, QueueAgrees, OrdersStand, NEW w \in Workers,
           CompleteJob(w) \/ FailJob(w) \/ WorkerDies(w)
    PROVE  QueueAgrees'
<1> DEFINE k == worker[w].job
<1>0. ~Stage(w, "idle") /\ Release(w) /\ UNCHANGED <<pjob, requeues, failures>>
  BY DEF CompleteJob, FailJob, WorkerDies, Stage
<1>1. /\ k \in JobKeys /\ jobs[k].st = "CLAIMED" /\ HoldsClaim(w)
      /\ jobs[k].att \in Nat /\ jobs[k].att <= MaxAttempts
      /\ jobs[k].att # MaxAttempts /\ MaxAttempts \in Nat
  BY <1>0, WorkerHasOrder, WorkerAssumption
     DEF QueueAgrees, HoldsClaim, JobCounted, ShopAgrees, ShopKnown, ShopTyped,
         JobsTyped
<1>2. OthersWait(w) /\ worker'[w] = IdleWorker
  BY <1>0 DEF Release, OthersWait, ShopAgrees, ShopKnown, ShopTyped, WorkersTyped
<1>3. /\ \A j \in JobKeys : j # k => jobs'[j] = jobs[j]
      /\ \/ CompleteJob(w) /\ jobs'[k].st = "SUCCEEDED" /\ jobs'[k].att = jobs[k].att
         \/ /\ FailJob(w) /\ jobs'[k].st \in {"DEAD", "PENDING"}
            /\ jobs'[k].att = jobs[k].att + 1
            /\ jobs[k].att + 1 >= MaxAttempts => jobs'[k].st = "DEAD"
         \/ WorkerDies(w) /\ jobs'[k] = jobs[k]
  BY <1>1 DEF CompleteJob, FailJob, WorkerDies, ShopAgrees, ShopKnown, ShopTyped,
              JobsTyped
<1>4. /\ CompleteJob(w) => Stage(w, "done") /\ crashes' = crashes
      /\ FailJob(w) => Stage(w, "fail") /\ crashes' = crashes
      /\ WorkerDies(w) => crashes' = crashes + 1 /\ crashes < MaxCrashes
  BY DEF CompleteJob, FailJob, WorkerDies, Stage
<1> HIDE DEF k
<1>5. ASSUME NEW v \in Workers
      PROVE  HoldsClaim(v)' /\ RetryLeft(v)'
  <2>1. HoldsClaim(v) /\ RetryLeft(v)
    BY DEF QueueAgrees
  <2>2. CASE v = w
    BY <1>2, <2>2 DEF HoldsClaim, RetryLeft, Stage, Edge, IdleWorker
  <2>3. CASE v # w
    <3>1. worker'[v] = worker[v]
      BY <1>2, <2>3 DEF OthersWait
    <3>2. RetryLeft(v)'
      BY <2>1, <3>1 DEF RetryLeft, Stage
    <3>3. ASSUME ~Stage(v, "idle")
          PROVE  /\ jobs'[worker[v].job] = jobs[worker[v].job]
                 /\ \A u \in Workers : worker'[u].job = worker[v].job =>
                       Stage(u, "idle")' \/ u = v
      <4>1. worker[v].job \in JobKeys /\ worker[v].job # k
        BY <1>0, <1>1, <2>3, <3>3, WorkerHasOrder DEF HoldsClaim, ShopAgrees, k
      <4>2. Stage(w, "idle")'
        BY <1>2 DEF Stage, IdleWorker
      <4>3. \A u \in Workers : u # w => worker'[u] = worker[u]
        BY <1>2 DEF OthersWait
      <4> QED
        BY <1>3, <2>1, <3>3, <4>1, <4>2, <4>3 DEF HoldsClaim, Stage
    <3> QED
      BY <2>1, <3>1, <3>2, <3>3 DEF HoldsClaim, Stage
  <2> QED
    BY <2>2, <2>3
<1>6. ASSUME NEW j \in JobKeys, Live(j)', ~WorkerDies(w)
      PROVE  Live(j)
  <2>1. CASE j = k
    <3>1. FailJob(w) /\ ~Stage(w, "done")
      BY <1>3, <1>4, <1>6, <2>1 DEF Live, Stage
    <3> QED
      BY <1>0, <2>1, <3>1, BusyIsLive DEF k
  <2>2. CASE j # k
    <3>1. \A v \in Workers : worker[v].job = j => worker'[v] = worker[v]
      BY <1>2, <2>2 DEF OthersWait, k
    <3> QED
      BY <1>3, <1>6, <2>2, <3>1 DEF Live, Stage
  <2> QED
    BY <2>1, <2>2
<1>7. \A v \in Workers : Stage(v, "write")' => worker'[v] = worker[v]
  BY <1>2 DEF OthersWait, Stage, IdleWorker
<1>8. /\ jobs'[k].st # "none" /\ jobs'[k].att <= MaxAttempts
      /\ jobs'[k].att = MaxAttempts => jobs'[k].st = "DEAD"
  BY <1>1, <1>3
<1>9. QueueCounters' /\ (WorkerDies(w) => crashes' # 0)
  BY <1>0, <1>3, <1>4, WorkerAssumption DEF QueueAgrees, QueueCounters
<1>10. ~WorkerDies(w) => UNCHANGED <<crashes, requeues>>
  BY <1>0, <1>4
<1> QED
  BY <1>0, <1>1, <1>3, <1>5, <1>6, <1>7, <1>8, <1>9, <1>10, RowKeepsQueue

LEMMA RecoveryKeepsQueue ==
    ASSUME ShopAgrees, QueueAgrees, OrdersStand, Recover
    PROVE  QueueAgrees'
<1>1. PICK k \in JobKeys : /\ jobs[k].st = "CLAIMED"
                           /\ \A w \in Workers : worker[w].job # k
                           /\ jobs' = [jobs EXCEPT ![k].st = "PENDING"]
  BY DEF Recover
<1>2. UNCHANGED <<pjob, worker, requeues, failures, crashes>>
  BY DEF Recover
<1>3. /\ jobs'[k].st = "PENDING" /\ jobs'[k].att = jobs[k].att
      /\ \A j \in JobKeys : j # k => jobs'[j] = jobs[j]
  BY <1>1 DEF ShopAgrees, ShopKnown, ShopTyped, JobsTyped
<1>4. ASSUME NEW v \in Workers
      PROVE  HoldsClaim(v)' /\ RetryLeft(v)'
  <2>1. HoldsClaim(v) /\ RetryLeft(v)
    BY DEF QueueAgrees
  <2>2. ~Stage(v, "idle") => jobs'[worker[v].job] = jobs[worker[v].job]
    BY <1>1, <1>3, WorkerHasOrder DEF ShopAgrees
  <2> QED
    BY <1>2, <2>1, <2>2 DEF HoldsClaim, RetryLeft, Stage
<1>5. \A j \in JobKeys : Live(j)' => Live(j)
  BY <1>1, <1>2, <1>3 DEF Live, Stage
<1>6. jobs[k].att <= MaxAttempts /\ jobs[k].att # MaxAttempts
  BY <1>1 DEF QueueAgrees, JobCounted
<1>7. QueueCounters'
  BY <1>2 DEF QueueAgrees, QueueCounters
<1> QED
  BY <1>1, <1>2, <1>3, <1>4, <1>5, <1>6, <1>7, RowKeepsQueue

LEMMA RequeueKeepsQueue ==
    ASSUME ShopAgrees, QueueAgrees, OrdersStand, Requeue
    PROVE  QueueAgrees'
<1>1. PICK o \in Pages : /\ pjob[o].st = "manual_review"
                         /\ jobs' = Enqueued(<<o, "requeue", requeues + 1>>)
  BY FulfilmentAssumption DEF Requeue
<1>2. /\ UNCHANGED <<pjob, worker, failures, crashes>>
      /\ requeues' = requeues + 1 /\ requeues < MaxRequeues
      /\ requeues \in Nat /\ MaxRequeues \in Nat
  BY WorkerAssumption DEF Requeue, QueueAgrees, QueueCounters
<1> DEFINE k == <<o, "requeue", requeues + 1>>
<1>3. k \in JobKeys /\ k[1] = o /\ k[2] = "requeue"
  <2>1. requeues + 1 \in 1 .. MaxRequeues
    BY <1>2
  <2> QED
    BY <2>1, FulfilmentAssumption DEF JobKeys
<1>4. jobs' = Enqueued(k) /\ Started(o)
  BY <1>1 DEF QueueAgrees, RowStarted
<1> HIDE DEF k
<1>5. /\ \A j \in JobKeys : j # k => jobs'[j] = jobs[j]
      /\ jobs[k].st # "none" => jobs'[k] = jobs[k]
      /\ jobs[k].st = "none" => jobs'[k] = [st |-> "PENDING", att |-> 0]
  BY <1>3, <1>4, EnqueueWrites
<1>6. \A p \in Pages : Started(p)' <=> Started(p)
  <2>1. \A p \in Pages : <<p, "provision", 0>> \in JobKeys \ {k}
    BY <1>3, FulfilmentAssumption DEF JobKeys
  <2> QED
    BY <1>5, <2>1 DEF Started
<1>7. \A j \in JobKeys : JobCounted(j)'
  BY <1>3, <1>4, <1>6, EnqueuedIsCounted DEF QueueAgrees
<1>8. ASSUME NEW v \in Workers
      PROVE  HoldsClaim(v)' /\ RetryLeft(v)'
  <2>1. HoldsClaim(v) /\ RetryLeft(v)
    BY DEF QueueAgrees
  <2>2. ~Stage(v, "idle") => jobs'[worker[v].job] = jobs[worker[v].job]
    BY <1>5, <2>1, WorkerHasOrder DEF ShopAgrees, HoldsClaim
  <2> QED
    BY <1>2, <2>1, <2>2 DEF HoldsClaim, RetryLeft, Stage
<1>9. \A p \in Pages : RowStarted(p)'
  BY <1>2, <1>6 DEF QueueAgrees, RowStarted, OrdersStand
<1>10. \A j \in JobKeys : Live(j)' => Live(j) \/ j = k
  BY <1>2, <1>5 DEF Live, Stage
<1>11. OneRuns'
  <2> SUFFICES ASSUME crashes = 0, requeues + 1 <= 1
               PROVE  /\ \A j, l \in JobKeys :
                            Live(j)' /\ Live(l)' /\ j[1] = l[1] => j = l
                      /\ requeues' = 1
                      /\ \A v \in Workers : Stage(v, "write")' =>
                            CanProvision(pjob[OrderOf(v)'].st, worker'[v].to)
    BY <1>2 DEF OneRuns, CanProvision
  <2>1. requeues = 0 /\ OneRuns
    BY <1>2 DEF QueueAgrees
  <2>2. \A j \in JobKeys : Live(j) => j[1] # o
    BY <1>1, <2>1 DEF OneRuns
  <2>3. \A j, l \in JobKeys : Live(j)' /\ Live(l)' /\ j[1] = l[1] => j = l
    BY <1>3, <1>10, <2>1, <2>2 DEF OneRuns
  <2>4. \A v \in Workers : Stage(v, "write") =>
            CanProvision(pjob[OrderOf(v)].st, worker[v].to)
    BY <2>1 DEF OneRuns
  <2>5. \A v \in Workers : Stage(v, "write")' =>
            CanProvision(pjob[OrderOf(v)'].st, worker'[v].to)
    BY <1>2, <2>4 DEF Stage, OrderOf
  <2> QED
    BY <1>2, <2>1, <2>3, <2>5
<1>12. QueueCounters'
  BY <1>2 DEF QueueAgrees, QueueCounters
<1> QED
  BY <1>7, <1>8, <1>9, <1>11, <1>12 DEF QueueAgrees

-----------------------------------------------------------------------------
(* The steps of an order.                                                  *)

\* Steps that touch neither the queue nor which orders there are.
LEMMA RestKeepsQueue ==
    ASSUME QueueAgrees, UNCHANGED provVars,
           \A p \in Pages : order'[p].st = "none" <=> order[p].st = "none"
    PROVE  QueueAgrees'
<1>0. UNCHANGED <<pjob, jobs, worker, requeues, failures, crashes>>
  BY DEF provVars
<1>1. \A k \in JobKeys : JobCounted(k)'
  BY <1>0 DEF QueueAgrees, JobCounted, Started
<1>2. \A w \in Workers : HoldsClaim(w)' /\ RetryLeft(w)'
  BY <1>0 DEF QueueAgrees, HoldsClaim, RetryLeft, Stage
<1>3. \A p \in Pages : RowStarted(p)'
  BY <1>0 DEF QueueAgrees, RowStarted, Started
<1>4. OneRuns'
  BY <1>0 DEF QueueAgrees, OneRuns, Live, Stage, OrderOf
<1> QED
  BY <1>0, <1>1, <1>2, <1>3, <1>4 DEF QueueAgrees, QueueCounters

LEMMA OrderPlacedKeepsQueue ==
    ASSUME ShopAgrees, QueueAgrees, NEW s \in Submits, OrderPlaced(s)
    PROVE  QueueAgrees'
<1> DEFINE o == PageOf[s]
<1>0. /\ o \in Pages /\ order[o].st = "none" /\ AddProvisioningJob(o)
      /\ order' = [order EXCEPT ![o] = [st |-> "PENDING_PAYMENT",
                    price |-> submit[s].price, rules |-> submit[s].rules]]
  BY CheckoutAssumption DEF OrderPlaced, OrderCommit, PlaceOrder
<1>1. UNCHANGED <<jobs, worker, requeues, failures, crashes>>
  BY <1>0 DEF AddProvisioningJob
<1> HIDE DEF o
<1>2. /\ pjob'[o].st = "payment_pending"
      /\ \A p \in Pages \ {o} : pjob'[p] = pjob[p]
  BY <1>0 DEF AddProvisioningJob, ShopAgrees, ShopKnown, ShopTyped,
              AccountsTyped
<1>3. /\ order'[o].st = "PENDING_PAYMENT"
      /\ \A p \in Pages \ {o} : order'[p] = order[p]
  BY <1>0, TypeParts DEF ShopAgrees, RowsTyped
<1>4. ~Started(o)
  BY <1>0 DEF QueueAgrees, RowStarted
<1>5. \A k \in JobKeys : JobCounted(k)' /\ (jobs[k].st # "none" => k[1] # o)
  BY <1>1, <1>4 DEF QueueAgrees, JobCounted, Started
<1>6. \A w \in Workers : HoldsClaim(w)' /\ RetryLeft(w)'
  BY <1>1 DEF QueueAgrees, HoldsClaim, RetryLeft, Stage
<1>7. ASSUME NEW p \in Pages
      PROVE  RowStarted(p)'
  BY <1>1, <1>2, <1>3, <1>4 DEF QueueAgrees, RowStarted, Started
<1>8. \A k \in JobKeys : Live(k)' => Live(k) /\ k[1] # o
  BY <1>1, <1>5 DEF Live, Stage
<1>9. \A w \in Workers : Stage(w, "write") => OrderOf(w) \in Pages \ {o}
  <2> SUFFICES ASSUME NEW w \in Workers, Stage(w, "write")
               PROVE  OrderOf(w) \in Pages \ {o}
    OBVIOUS
  <2>1. ~Stage(w, "idle") /\ HoldsClaim(w)
    BY DEF Stage, QueueAgrees
  <2>2. worker[w].job \in JobKeys /\ OrderOf(w) \in Pages
        /\ OrderOf(w) = worker[w].job[1]
    BY <2>1, WorkerHasOrder DEF ShopAgrees
  <2> QED
    BY <1>5, <2>1, <2>2 DEF HoldsClaim
<1>10. OneRuns'
  <2> SUFFICES ASSUME crashes = 0, requeues <= 1
               PROVE  /\ \A j, l \in JobKeys :
                            Live(j)' /\ Live(l)' /\ j[1] = l[1] => j = l
                      /\ \A j \in JobKeys :
                            Live(j)' /\ pjob'[j[1]].st = "manual_review"
                               => requeues = 1
                      /\ \A v \in Workers : Stage(v, "write") =>
                            CanProvision(pjob'[OrderOf(v)].st, worker[v].to)
    BY <1>1 DEF OneRuns, CanProvision, Stage, OrderOf
  <2>1. OneRuns
    BY DEF QueueAgrees
  <2>2. \A j, l \in JobKeys : Live(j)' /\ Live(l)' /\ j[1] = l[1] => j = l
    BY <1>8, <2>1 DEF OneRuns
  <2>3. \A j \in JobKeys :
            Live(j)' /\ pjob'[j[1]].st = "manual_review" => requeues = 1
    BY <1>2, <1>8, <2>1, KeyNamesOrder DEF OneRuns
  <2>4. \A v \in Workers : Stage(v, "write") =>
            CanProvision(pjob'[OrderOf(v)].st, worker[v].to)
    BY <1>2, <1>9, <2>1 DEF OneRuns
  <2> QED
    BY <2>2, <2>3, <2>4
<1> QED
  BY <1>1, <1>5, <1>6, <1>7, <1>10 DEF QueueAgrees, QueueCounters

LEMMA OrderPaidKeepsQueue ==
    ASSUME ShopAgrees, QueueAgrees, NEW s \in Submits, OrderPaid(s)
    PROVE  QueueAgrees'
<1> DEFINE o == PageOf[s]
           k == <<o, "provision", 0>>
<1>0. /\ o \in Pages /\ StartProvisioning(o) /\ MarkOrderPaid(s)
      /\ [CheckoutNext]_checkoutVars /\ jobs' = Enqueued(k)
  BY CheckoutAssumption DEF OrderPaid, CheckoutNext, CallStep, StartProvisioning
<1>1. UNCHANGED <<worker, requeues, failures, crashes>>
  BY <1>0 DEF StartProvisioning
<1>2. order[o].st # "none"
  BY <1>0 DEF MarkOrderPaid, SubmitAt, ShopAgrees, CheckoutInv, CallAgrees
<1>3. k \in JobKeys /\ k[1] = o /\ k[2] = "provision"
      /\ (Started(o) <=> jobs[k].st # "none")
      /\ (Started(o)' <=> jobs'[k].st # "none")
  BY <1>0, FulfilmentAssumption DEF JobKeys, Started
<1>4. \A p \in Pages : order'[p].st = "none" <=> order[p].st = "none"
  <2>1. order \in [Pages -> OrderRow]
    BY TypeParts DEF ShopAgrees, RowsTyped
  <2> QED
    BY <1>0, <2>1 DEF MarkOrderPaid, OrderRow
<1>5. \A p \in Pages : <<p, "provision", 0>> \in JobKeys
                        /\ (p # o => <<p, "provision", 0>> # k)
  BY FulfilmentAssumption DEF JobKeys
<1> HIDE DEF o, k
<1>6. /\ \A j \in JobKeys : j # k => jobs'[j] = jobs[j]
      /\ jobs[k].st # "none" => jobs'[k] = jobs[k]
      /\ jobs[k].st = "none" => jobs'[k] = [st |-> "PENDING", att |-> 0]
  BY <1>0, <1>3, EnqueueWrites
<1>7. pjob' = [pjob EXCEPT ![o].st = IF @ = "payment_pending" THEN "paid" ELSE @]
      /\ pjob \in [Pages -> [st : ProvisioningState \union {"none"}, att : Nat]]
  BY <1>0 DEF StartProvisioning, ShopAgrees, ShopKnown, ShopTyped, AccountsTyped
<1>8. /\ pjob'[o].st = IF pjob[o].st = "payment_pending" THEN "paid"
                       ELSE pjob[o].st
      /\ \A p \in Pages \ {o} : pjob'[p] = pjob[p]
  BY <1>0, <1>7
<1>9. RowStarted(o)
  BY <1>0 DEF QueueAgrees
<1>10. Started(o)'
  BY <1>3, <1>6
<1>11. \A p \in Pages \ {o} : Started(p)' <=> Started(p)
  BY <1>5, <1>6 DEF Started
<1>12. \A j \in JobKeys : JobCounted(j)'
  BY <1>0, <1>3, <1>10, EnqueuedIsCounted DEF QueueAgrees
<1>13. ASSUME NEW v \in Workers
       PROVE  HoldsClaim(v)' /\ RetryLeft(v)'
  <2>1. HoldsClaim(v) /\ RetryLeft(v)
    BY DEF QueueAgrees
  <2>2. ~Stage(v, "idle") => jobs'[worker[v].job] = jobs[worker[v].job]
    BY <1>6, <2>1, WorkerHasOrder DEF ShopAgrees, HoldsClaim
  <2> QED
    BY <1>1, <2>1, <2>2 DEF HoldsClaim, RetryLeft, Stage
<1>14. ASSUME NEW p \in Pages
       PROVE  RowStarted(p)'
  <2>1. CASE p = o
    BY <1>2, <1>4, <1>8, <1>9, <1>10, <2>1 DEF RowStarted
  <2>2. CASE p # o
    BY <1>4, <1>8, <1>11, <2>2 DEF QueueAgrees, RowStarted
  <2> QED
    BY <2>1, <2>2
<1>15. CASE Started(o)
  <2>1. pjob'[o].st = pjob[o].st /\ \A j \in JobKeys : jobs'[j] = jobs[j]
    BY <1>3, <1>6, <1>8, <1>9, <1>15 DEF RowStarted
  <2>2. \A p \in Pages : pjob'[p].st = pjob[p].st
    BY <1>8, <2>1
  <2>3. \A j \in JobKeys : Live(j)' <=> Live(j)
    BY <1>1, <2>1 DEF Live, Stage
  <2>4. \A v \in Workers : Stage(v, "write") => OrderOf(v) \in Pages
    BY WorkerHasOrder DEF Stage, ShopAgrees
  <2>5. OneRuns'
    <3> SUFFICES ASSUME crashes = 0, requeues <= 1
                 PROVE  /\ \A j, l \in JobKeys :
                              Live(j)' /\ Live(l)' /\ j[1] = l[1] => j = l
                        /\ \A j \in JobKeys :
                              Live(j)' /\ pjob'[j[1]].st = "manual_review"
                                 => requeues = 1
                        /\ \A v \in Workers : Stage(v, "write") =>
                              CanProvision(pjob'[OrderOf(v)].st, worker[v].to)
      BY <1>1 DEF OneRuns, CanProvision, Stage, OrderOf
    <3> QED
      BY <2>2, <2>3, <2>4, KeyNamesOrder DEF QueueAgrees, OneRuns
  <2> QED
    BY <1>1, <1>12, <1>13, <1>14, <2>5 DEF QueueAgrees, QueueCounters
<1>16. CASE ~Started(o)
  <2>1. pjob'[o].st = "paid"
    BY <1>2, <1>8, <1>9, <1>16 DEF RowStarted
  <2>2. \A j \in JobKeys : jobs[j].st # "none" => j[1] # o
    BY <1>16 DEF QueueAgrees, JobCounted
  <2>3. \A j \in JobKeys : Live(j)' => (Live(j) /\ j[1] # o) \/ j = k
    BY <1>1, <1>6, <2>2 DEF Live, Stage
  <2>4. \A w \in Workers : Stage(w, "write") => OrderOf(w) \in Pages \ {o}
    <3> SUFFICES ASSUME NEW w \in Workers, Stage(w, "write")
                 PROVE  OrderOf(w) \in Pages \ {o}
      OBVIOUS
    <3>1. ~Stage(w, "idle") /\ HoldsClaim(w)
      BY DEF Stage, QueueAgrees
    <3>2. worker[w].job \in JobKeys /\ OrderOf(w) \in Pages
          /\ OrderOf(w) = worker[w].job[1]
      BY <3>1, WorkerHasOrder DEF ShopAgrees
    <3> QED
      BY <2>2, <3>1, <3>2 DEF HoldsClaim
  <2>5. OneRuns'
    <3> SUFFICES ASSUME crashes = 0, requeues <= 1
                 PROVE  /\ \A j, l \in JobKeys :
                              Live(j)' /\ Live(l)' /\ j[1] = l[1] => j = l
                        /\ \A j \in JobKeys :
                              Live(j)' /\ pjob'[j[1]].st = "manual_review"
                                 => requeues = 1
                        /\ \A v \in Workers : Stage(v, "write") =>
                              CanProvision(pjob'[OrderOf(v)].st, worker[v].to)
      BY <1>1 DEF OneRuns, CanProvision, Stage, OrderOf
    <3>1. OneRuns
      BY DEF QueueAgrees
    <3>2. \A j, l \in JobKeys : Live(j)' /\ Live(l)' /\ j[1] = l[1] => j = l
      BY <1>3, <2>3, <3>1 DEF OneRuns
    <3>3. \A j \in JobKeys :
              Live(j)' /\ pjob'[j[1]].st = "manual_review" => requeues = 1
      BY <1>3, <1>8, <2>1, <2>3, <3>1, KeyNamesOrder DEF OneRuns
    <3>4. \A v \in Workers : Stage(v, "write") =>
              CanProvision(pjob'[OrderOf(v)].st, worker[v].to)
      BY <1>8, <2>4, <3>1 DEF OneRuns
    <3> QED
      BY <3>2, <3>3, <3>4
  <2> QED
    BY <1>1, <1>12, <1>13, <1>14, <2>5 DEF QueueAgrees, QueueCounters
<1> QED
  BY <1>15, <1>16

-----------------------------------------------------------------------------
(* The invariant of the queue holds, and what follows from it.             *)

LEMMA QueueAgreesAtFirst == ShopInit => QueueAgrees
<1> SUFFICES ASSUME ShopInit
             PROVE  QueueAgrees
  OBVIOUS
<1>0. CheckoutInit /\ ProvInit /\ Orders = Pages
  BY FulfilmentAssumption DEF ShopInit
<1>1. \A k \in JobKeys : jobs[k].st = "none" /\ jobs[k].att = 0
  BY <1>0 DEF ProvInit, NoJob
<1>2. \A w \in Workers : worker[w].pc = "idle" /\ worker[w].st = "payment_pending"
  BY <1>0 DEF ProvInit, IdleWorker
<1>3. \A p \in Pages : ~Started(p)
  <2>1. \A p \in Pages : <<p, "provision", 0>> \in JobKeys
    BY <1>0 DEF JobKeys
  <2> QED
    BY <1>1, <2>1 DEF Started
<1>4. \A k \in JobKeys : JobCounted(k)
  BY <1>1, WorkerAssumption DEF JobCounted
<1>5. \A w \in Workers : HoldsClaim(w) /\ RetryLeft(w)
  BY <1>2 DEF HoldsClaim, RetryLeft, Stage, Edge
<1>6. \A p \in Pages : RowStarted(p)
  <2>1. \A p \in Pages : pjob[p].st = "none" /\ order[p].st = "none"
    BY <1>0 DEF ProvInit, CheckoutInit, NoOrder
  <2> QED
    BY <1>3, <2>1 DEF RowStarted
<1>7. OneRuns
  BY <1>1, <1>2 DEF OneRuns, Live, Stage
<1>8. QueueCounters
  BY <1>0, WorkerAssumption DEF ProvInit, QueueCounters
<1> QED
  BY <1>4, <1>5, <1>6, <1>7, <1>8 DEF QueueAgrees

LEMMA QueueAgreesStep ==
    ASSUME ShopAgrees, QueueAgrees, [ShopNext]_shopVars
    PROVE  QueueAgrees'
<1>0. CheckoutTypeOK
  BY DEF ShopAgrees
<1>1. CASE \/ CheckoutEnvironment /\ UNCHANGED <<provVars, credVars>>
           \/ UNCHANGED shopVars
           \/ \E s \in Submits : CheckoutStep(s) /\ UNCHANGED <<provVars, credVars>>
  <2>1. UNCHANGED provVars
    BY <1>1 DEF shopVars
  <2>2. \A p \in Pages : order'[p].st = "none" <=> order[p].st = "none"
    <3>1. order' = order
      BY <1>1 DEF CheckoutEnvironment, Deploy, Publish, CreateQuote,
         QuoteExpires, SubmitStart, SubmitDies, CheckoutStep, Sign, OrderCheck,
         OrderExists, OrderRefused, Charge, RecordPayment, PaymentKnown,
         checkoutVars, shopVars
    <3> QED
      BY <3>1
  <2> QED
    BY <2>1, <2>2, RestKeepsQueue
<1>2. ASSUME NEW s \in Submits, OrderPlaced(s) \/ OrderPaid(s)
      PROVE  QueueAgrees'
  BY <1>2, OrderPlacedKeepsQueue, OrderPaidKeepsQueue
<1>3. ASSUME NEW w \in Workers, UNCHANGED <<checkoutVars, credVars>>,
             Claim(w) \/ ProvisioningStep(w) \/ WorkerDies(w)
      PROVE  QueueAgrees'
  <2>0. OrdersStand
    BY <1>3 DEF checkoutVars, credVars, OrdersStand
  <2>1. CASE Claim(w) \/ CompleteJob(w) \/ FailJob(w) \/ WorkerDies(w)
    BY <2>0, <2>1, ClaimKeepsQueue, EndingKeepsQueue
  <2>2. CASE ReadJob(w) \/ FindAccount(w) \/ CheckEdge(w) \/ Caught(w)
    BY <2>0, <2>2, ReadingKeepsQueue, CheckingKeepsQueue
  <2>3. CASE WriteEdge(w) \/ EnqueueRetry(w) \/ EnqueueSync(w)
    BY <2>0, <2>3, WritingKeepsQueue, EnqueueingKeepsQueue
  <2>4. CASE \/ CreateExternal(w) \/ CreateRow(w) \/ ReadForRisk(w)
             \/ ConfigureRisk(w) \/ HoldForReview(w)
             \/ ReadForActivation(w) \/ OpenAccount(w)
    BY <2>0, <2>4, MakingKeepsQueue
  <2> QED
    BY <1>3, <2>1, <2>2, <2>3, <2>4 DEF ProvisioningStep
<1>4. CASE UNCHANGED <<checkoutVars, credVars>> /\ (Recover \/ Requeue)
  <2>0. OrdersStand
    BY <1>4 DEF checkoutVars, credVars, OrdersStand
  <2> QED
    BY <1>4, <2>0, RecoveryKeepsQueue, RequeueKeepsQueue
<1>5. ASSUME NEW w \in Workers, OrderFulfilled(w) \/ CredentialIssued(w)
      PROVE  QueueAgrees'
  <2>1. /\ ~Stage(w, "idle") /\ ~Stage(w, "done")
        /\ GoTo(w, "issue") \/ GoTo(w, "sync")
        /\ UNCHANGED <<jobs, pjob, requeues, crashes, failures>>
    BY <1>5 DEF OrderFulfilled, CredentialIssued, Fulfil, Issue, Stage
  <2>2. \A p \in Pages : order'[p].st = "none" <=> order[p].st = "none"
    <3>1. CASE OrderFulfilled(w)
      <4>1. order[OrderOf(w)].st # "none" /\ OrderOf(w) \in Pages
        BY <2>1, WorkerHasOrder DEF ShopAgrees, Bought
      <4>2. order \in [Pages -> OrderRow]
        BY <1>0, TypeParts DEF RowsTyped
      <4> QED
        BY <3>1, <4>1, <4>2 DEF OrderFulfilled, OrderRow
    <3>2. CASE CredentialIssued(w)
      BY <3>2 DEF CredentialIssued, checkoutVars
    <3> QED
      BY <1>5, <3>1, <3>2
  <2>3. QueueStands
    BY <2>1, <2>2 DEF QueueStands, QueueAgrees, QueueCounters
  <2> QED
    BY <2>1, <2>3, GoingKeepsQueue
<1>6. ASSUME NEW t \in Tabs, NEW a \in Accounts, CredentialStep(t, a),
             UNCHANGED <<checkoutVars, provVars>>
      PROVE  QueueAgrees'
  BY <1>6, RestKeepsQueue DEF checkoutVars
<1> QED
  <2>1. CASE ShopNext
    BY <1>1, <1>2, <1>3, <1>4, <1>5, <1>6, <2>1
       DEF ShopNext, SubmitStep, WorkerStep, ClaimJob, RecoverClaim
  <2>2. CASE UNCHANGED shopVars
    BY <1>1, <2>2
  <2> QED
    BY <2>1, <2>2

LEMMA QueueAgreesAlways == ShopSpec => [](ShopAgrees /\ QueueAgrees)
<1>1. ShopAgrees /\ QueueAgrees /\ [ShopNext]_shopVars => QueueAgrees'
  BY QueueAgreesStep
<1> QED
  BY <1>1, QueueAgreesAtFirst, ShopAgreesAlways, PTL DEF ShopSpec

LEMMA CredTypeAlways == ShopSpec => []CredTypeOK
<1>0. MaxReissues \in Nat
  BY CredentialAssumption
<1>1. ShopInit => CredTypeOK
  BY <1>0 DEF ShopInit, CredInit, CredTypeOK
<1>2. ASSUME CredTypeOK, [ShopNext]_shopVars
      PROVE  CredTypeOK'
  <2>0. /\ cred \in [Accounts -> [pw : 0 .. MaxReissues + 1, acked : BOOLEAN]]
        /\ shown \in [Tabs -> [Accounts -> 0 .. MaxReissues + 1]]
        /\ known \in [Accounts -> SUBSET (1 .. MaxReissues + 1)]
    BY <1>2 DEF CredTypeOK
  <2>1. ASSUME NEW t \in Tabs, NEW a \in Accounts, NEW pw \in 0 .. MaxReissues + 1,
               Show(t, a, pw)
        PROVE  /\ shown' \in [Tabs -> [Accounts -> 0 .. MaxReissues + 1]]
               /\ known' \in [Accounts -> SUBSET (1 .. MaxReissues + 1)]
    <3>1. {pw} \ {0} \subseteq 1 .. MaxReissues + 1
      BY <1>0
    <3> QED
      BY <2>0, <2>1, <3>1 DEF Show
  <2>2. ASSUME NEW w \in Workers, CredentialIssued(w)
        PROVE  CredTypeOK'
    <3> DEFINE o == OrderOf(w)
    <3>1. /\ cred' = [cred EXCEPT ![o] =
                IF cred[o].pw = 0 THEN [pw |-> 1, acked |-> FALSE] ELSE cred[o]]
          /\ UNCHANGED <<shown, known>>
      BY <2>2 DEF CredentialIssued, IssueCredential
    <3> HIDE DEF o
    <3>2. [pw |-> 1, acked |-> FALSE] \in [pw : 0 .. MaxReissues + 1, acked : BOOLEAN]
      BY <1>0
    <3>3. cred' \in [Accounts -> [pw : 0 .. MaxReissues + 1, acked : BOOLEAN]]
      BY <2>0, <3>1, <3>2
    <3> QED
      BY <2>0, <3>1, <3>3 DEF CredTypeOK
  <2>3. ASSUME NEW t \in Tabs, NEW a \in Accounts, ViewCredential(t, a)
        PROVE  CredTypeOK'
    <3>1. (IF cred[a].acked THEN 0 ELSE cred[a].pw) \in 0 .. MaxReissues + 1
      BY <1>0, <2>0
    <3> QED
      BY <2>0, <2>1, <2>3, <3>1 DEF ViewCredential, CredTypeOK
  <2>4. ASSUME NEW t \in Tabs, NEW a \in Accounts, Acknowledge(t, a)
        PROVE  CredTypeOK'
    <3>1. /\ cred' = [cred EXCEPT ![a].acked = TRUE]
          /\ shown' = [shown EXCEPT ![t][a] = 0] /\ known' = known
      BY <2>4 DEF Acknowledge
    <3>2. cred' \in [Accounts -> [pw : 0 .. MaxReissues + 1, acked : BOOLEAN]]
      BY <2>0, <3>1
    <3>3. 0 \in 0 .. MaxReissues + 1
      BY <1>0
    <3>4. shown' \in [Tabs -> [Accounts -> 0 .. MaxReissues + 1]]
      BY <2>0, <3>1, <3>3
    <3> QED
      BY <2>0, <3>1, <3>2, <3>4 DEF CredTypeOK
  <2>5. ASSUME NEW t \in Tabs, NEW a \in Accounts, Reissue(t, a)
        PROVE  CredTypeOK'
    <3>1. cred[a].pw + 1 \in 0 .. MaxReissues + 1
      BY <1>0, <2>0, <2>5 DEF Reissue
    <3>2. cred' = [cred EXCEPT ![a] = [pw |-> cred[a].pw + 1, acked |-> FALSE]]
      BY <2>0, <2>5 DEF Reissue
    <3>3. cred' \in [Accounts -> [pw : 0 .. MaxReissues + 1, acked : BOOLEAN]]
      BY <2>0, <3>1, <3>2
    <3> QED
      BY <2>0, <2>1, <2>5, <3>1, <3>3 DEF Reissue, CredTypeOK
  <2>6. CASE UNCHANGED credVars
    BY <2>0, <2>6 DEF credVars, CredTypeOK
  <2>7. CASE UNCHANGED shopVars
    BY <2>6, <2>7 DEF shopVars
  <2> QED
    BY <1>2, <2>2, <2>3, <2>4, <2>5, <2>6, <2>7
       DEF ShopNext, SubmitStep, WorkerStep, ClaimJob, RecoverClaim,
           OrderPlaced, OrderPaid, OrderFulfilled, CredentialStep
<1> QED
  BY <1>1, <1>2, PTL DEF ShopSpec

\* The tables keep their shape and the retries of an order end, whatever dies
\* and however often a claim is recovered: a row that used up its attempts is
\* DEAD, and the key of a retry stays below MAX_AUTOMATIC_RETRIES.
THEOREM RetriesEnd == ShopSpec => []ShopInv
<1>1. ASSUME ShopAgrees, QueueAgrees
      PROVE  CheckoutTypeOK /\ ProvTypeOK /\ RetriesAreBounded
  <2>0. Orders = Pages /\ CheckoutTypeOK /\ ShopTyped
    BY <1>1, FulfilmentAssumption DEF ShopAgrees, ShopKnown
  <2>1. RetriesAreBounded
    BY <1>1 DEF QueueAgrees, JobCounted, RetriesAreBounded
  <2>2. worker \in [Workers -> [pc : Stages, job : JobKeys \union {NoKey},
                    st : ProvisioningState, att : Nat, to : ProvisioningState,
                    then : Stages, err : Stages, again : BOOLEAN]]
    <3>1. \A w \in Workers : worker[w].st # "none"
      BY <1>1 DEF QueueAgrees, RetryLeft
    <3>2. worker \in [Workers -> WorkerRow]
      BY <2>0 DEF ShopTyped, WorkersTyped
    <3>3. \A r \in WorkerRow : r.st # "none" =>
            r \in [pc : Stages, job : JobKeys \union {NoKey},
                   st : ProvisioningState, att : Nat, to : ProvisioningState,
                   then : Stages, err : Stages, again : BOOLEAN]
      BY DEF WorkerRow
    <3> QED
      BY <3>1, <3>2, <3>3
  <2>3. jobs \in [JobKeys -> [st : JobStates, att : 0 .. MaxAttempts]]
    <3>1. \A k \in JobKeys : jobs[k] \in JobRow /\ jobs[k].att <= MaxAttempts
      BY <1>1, <2>0 DEF QueueAgrees, JobCounted, ShopTyped, JobsTyped, JobRow,
                        JobStates
    <3>2. \A r \in JobRow : r.att <= MaxAttempts =>
             r \in [st : JobStates, att : 0 .. MaxAttempts]
      BY WorkerAssumption DEF JobRow
    <3>3. \A k \in JobKeys : jobs[k] \in [st : JobStates, att : 0 .. MaxAttempts]
      BY <3>1, <3>2
    <3>4. jobs = [k \in JobKeys |-> jobs[k]]
      BY <2>0 DEF ShopTyped, JobsTyped
    <3> QED
      BY <3>3, <3>4
  <2>4. ProvTypeOK
    BY <1>1, <2>0, <2>2, <2>3 DEF ProvTypeOK, ShopTyped, AccountsTyped,
       QueueAgrees, QueueCounters, JobStates
  <2> QED
    BY <2>0, <2>1, <2>4
<1> QED
  BY <1>1, QueueAgreesAlways, CredTypeAlways, PTL DEF ShopInv

\* While nobody dies and one job at most is re-queued, each change of a
\* provisioning job is an edge of the table: one job of an order runs at a
\* time, so the row it checked is the row it writes (transition()).
THEOREM EdgesKept == ShopSpec => ProvisioningEdgesKept
<1>1. ASSUME ShopAgrees, QueueAgrees, [ShopNext]_shopVars, NEW o \in Orders
      PROVE  \/ crashes > 0 \/ requeues > 1
             \/ pjob'[o].st = pjob[o].st
             \/ pjob[o].st = "none"
             \/ CanProvision(pjob[o].st, pjob'[o].st)
  <2>0. /\ Orders = Pages /\ crashes \in Nat /\ requeues \in Nat
        /\ pjob \in [Pages -> [st : ProvisioningState \union {"none"}, att : Nat]]
    BY <1>1, FulfilmentAssumption DEF QueueAgrees, QueueCounters, ShopAgrees,
       ShopKnown, ShopTyped, AccountsTyped
  <2>1. ASSUME NEW s \in Submits, OrderPlaced(s)
        PROVE  pjob'[o].st = pjob[o].st \/ pjob[o].st = "none"
    <3>1. /\ order[PageOf[s]].st = "none" /\ PageOf[s] \in Pages
          /\ pjob' = [pjob EXCEPT ![PageOf[s]].st = "payment_pending"]
      BY <2>1, CheckoutAssumption DEF OrderPlaced, OrderCommit, AddProvisioningJob
    <3>2. pjob[PageOf[s]].st = "none"
      BY <1>1, <3>1 DEF QueueAgrees, RowStarted
    <3> QED
      BY <2>0, <3>1, <3>2
  <2>2. ASSUME NEW s \in Submits, OrderPaid(s)
        PROVE  \/ pjob'[o].st = pjob[o].st
               \/ pjob[o].st = "payment_pending" /\ pjob'[o].st = "paid"
    BY <2>0, <2>2 DEF OrderPaid, StartProvisioning
  <2>3. CanProvision("payment_pending", "paid")
    BY DEF CanProvision, ProvisioningEdges
  <2>4. ASSUME NEW w \in Workers, WriteEdge(w), crashes = 0, requeues <= 1
        PROVE  \/ pjob'[o].st = pjob[o].st
               \/ CanProvision(pjob[o].st, pjob'[o].st)
    <3>1. CanProvision(pjob[OrderOf(w)].st, worker[w].to)
      BY <1>1, <2>4 DEF QueueAgrees, OneRuns, WriteEdge
    <3>2. OrderOf(w) \in Pages
      BY <1>1, <2>4, WorkerHasOrder DEF WriteEdge, Stage, ShopAgrees
    <3>3. /\ pjob'[OrderOf(w)].st = worker[w].to
          /\ o # OrderOf(w) => pjob'[o] = pjob[o]
      BY <2>0, <2>4, <3>2 DEF WriteEdge
    <3> QED
      BY <3>1, <3>3
  <2>5. ASSUME ~UNCHANGED pjob
        PROVE  \/ \E s \in Submits : OrderPlaced(s) \/ OrderPaid(s)
               \/ \E w \in Workers : WriteEdge(w)
    <3>1. ASSUME NEW w \in Workers, ProvisioningStep(w) \/ Claim(w) \/ WorkerDies(w),
                 ~WriteEdge(w)
          PROVE  UNCHANGED pjob
      BY <3>1 DEF ProvisioningStep, Claim, WorkerDies, CompleteJob, FailJob,
         ReadJob, FindAccount, CheckEdge, CreateExternal, CreateRow, Caught,
         EnqueueRetry, ReadForRisk, ConfigureRisk, HoldForReview,
         ReadForActivation, OpenAccount, EnqueueSync
    <3>2. ~UNCHANGED provVars /\ ~UNCHANGED shopVars
      BY <2>5 DEF provVars, shopVars
    <3> QED
      BY <1>1, <2>5, <3>1, <3>2 DEF ShopNext, SubmitStep, WorkerStep, ClaimJob,
         RecoverClaim, Recover, Requeue, OrderFulfilled, Fulfil,
         CredentialIssued, Issue
  <2> QED
    BY <2>0, <2>1, <2>2, <2>3, <2>4, <2>5
<1>2. ASSUME ShopAgrees, QueueAgrees, [ShopNext]_shopVars
      PROVE  [\A o \in Orders :
                \/ crashes > 0 \/ requeues > 1
                \/ pjob'[o].st = pjob[o].st
                \/ pjob[o].st = "none"
                \/ CanProvision(pjob[o].st, pjob'[o].st)]_pjob
  BY <1>1, <1>2
<1> QED
  BY <1>2, QueueAgreesAlways, PTL DEF ShopSpec, ProvisioningEdgesKept

=============================================================================
