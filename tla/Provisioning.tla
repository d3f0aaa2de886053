----------------------------- MODULE Provisioning -----------------------------
(***************************************************************************)
(* Making the account: src/server/services/provisioning-service.ts, run by *)
(* the workers of src/server/jobs (queue.ts, worker.ts), and the sign-in   *)
(* of src/server/services/credential-service.ts that it ends with.         *)
(*                                                                         *)
(* A job row is named by its idempotency key: `provision:', the retries    *)
(* `provision-retry:n', a re-queueing by a person, and `sync-initial:'.    *)
(* The back-off of a job is an arbitrary delay.                            *)
(***************************************************************************)
EXTENDS ProvisioningStates, FiniteSets

CONSTANTS
    Orders,
    Workers,
    MaxAttempts,    \* attempts of a job before it is DEAD
    MaxRequeues,    \* bound on re-queueing by a person
    MaxFailures,    \* bound on calls that the provider refuses or loses
    MaxCrashes      \* bound on workers that die

ASSUME WorkerAssumption ==
    /\ MaxAttempts \in Nat \ {0}
    /\ {MaxRequeues, MaxFailures, MaxCrashes} \subseteq Nat

VARIABLES
    pjob,       \* ProvisioningJob rows: state and attempts
    acct,       \* TradingAccount rows, by order
    ext,        \* accounts that exist at the provider, by order
    limits,     \* orders whose risk limits the provider has confirmed
    jobs,       \* Job rows
    worker,     \* progress of each worker
    requeues, failures, crashes

provVars == <<pjob, acct, ext, limits, jobs, worker, requeues, failures, crashes>>

JobKeys ==
    (Orders \X {"provision", "sync"} \X {0})
        \union (Orders \X {"retry"} \X (1 .. MaxRetries))
        \union (Orders \X {"requeue"} \X (1 .. MaxRequeues))

NoJob == [st |-> "none", att |-> 0]
NoKey == <<"none", "none", 0>>
IdleWorker == [pc |-> "idle", job |-> NoKey, st |-> "payment_pending",
               att |-> 0, to |-> "paid", then |-> "done", err |-> "fail",
               again |-> TRUE]

ProvInit ==
    /\ pjob = [o \in Orders |-> [st |-> "none", att |-> 0]]
    /\ acct = [o \in Orders |-> "none"]
    /\ ext = [o \in Orders |-> 0]
    /\ limits = {}
    /\ jobs = [k \in JobKeys |-> NoJob]
    /\ worker = [w \in Workers |-> IdleWorker]
    /\ requeues = 0
    /\ failures = 0
    /\ crashes = 0

-----------------------------------------------------------------------------
(* queue.ts                                                                *)

\* enqueueJob: a key that is there already is left alone.
Enqueued(k) ==
    [jobs EXCEPT ![k] = IF @.st = "none" THEN [st |-> "PENDING", att |-> 0] ELSE @]

\* Only the worker that flips PENDING to CLAIMED wins.
Claim(w) ==
    /\ worker[w].pc = "idle"
    /\ \E k \in JobKeys :
          /\ jobs[k].st = "PENDING"
          /\ jobs' = [jobs EXCEPT ![k].st = "CLAIMED"]
          /\ worker' = [worker EXCEPT ![w].job = k,
                ![w].pc = IF k[2] = "sync" THEN "done" ELSE "read"]
    /\ UNCHANGED <<pjob, acct, ext, limits, requeues, failures, crashes>>

Release(w) == worker' = [worker EXCEPT ![w] = IdleWorker]

CompleteJob(w) ==
    /\ worker[w].pc = "done"
    /\ jobs' = [jobs EXCEPT ![worker[w].job].st = "SUCCEEDED"]
    /\ Release(w)
    /\ UNCHANGED <<pjob, acct, ext, limits, requeues, failures, crashes>>

\* failJob: back to PENDING, or DEAD when the attempts are used up.
FailJob(w) ==
    LET k == worker[w].job
        att == jobs[k].att + 1 IN
    /\ worker[w].pc = "fail"
    /\ jobs' = [jobs EXCEPT ![k] =
          [st |-> IF att >= MaxAttempts THEN "DEAD" ELSE "PENDING", att |-> att]]
    /\ Release(w)
    /\ UNCHANGED <<pjob, acct, ext, limits, requeues, failures, crashes>>

\* A worker dies; a claim nobody works on is recovered after five minutes,
\* without counting as an attempt.
WorkerDies(w) ==
    /\ worker[w].pc # "idle"
    /\ crashes < MaxCrashes
    /\ crashes' = crashes + 1
    /\ Release(w)
    /\ UNCHANGED <<pjob, acct, ext, limits, jobs, requeues, failures>>

\* Faulty variant: claims are never recovered.
RecoverNothing == FALSE /\ UNCHANGED provVars

Recover ==
    /\ \E k \in JobKeys :
          /\ jobs[k].st = "CLAIMED"
          /\ \A w \in Workers : worker[w].job # k
          /\ jobs' = [jobs EXCEPT ![k].st = "PENDING"]
    /\ UNCHANGED <<pjob, acct, ext, limits, worker, requeues, failures, crashes>>

-----------------------------------------------------------------------------
(* runProvisioning.                                                        *)

OrderOf(w) == worker[w].job[1]
Stage(w, pc) == worker[w].pc = pc
GoTo(w, pc) == worker' = [worker EXCEPT ![w].pc = pc]

\* The ProvisioningJob row and the order; the order is paid, or the job would
\* not have been enqueued.
ReadJob(w) ==
    /\ Stage(w, "read")
    /\ worker' = [worker EXCEPT ![w].pc = "find",
          ![w].st = pjob[OrderOf(w)].st, ![w].att = pjob[OrderOf(w)].att]
    /\ UNCHANGED <<pjob, acct, ext, limits, jobs, requeues, failures, crashes>>

\* transition(): the row is read and the edge checked, then it is written
\* without a condition.  An illegal edge throws, to where the call stands.
Transition(w, to, then, err) ==
    worker' = [worker EXCEPT ![w].pc = "check", ![w].to = to,
                             ![w].then = then, ![w].err = err]

Waiting == {"paid", "provisioning_failed_retryable", "manual_review"}

FindAccount(w) ==
    /\ Stage(w, "find")
    /\ IF acct[OrderOf(w)] # "none" THEN GoTo(w, "risk")
       ELSE IF worker[w].st \in Waiting
       THEN Transition(w, "provisioning", "create", "fail")
       ELSE GoTo(w, "create")
    /\ UNCHANGED <<pjob, acct, ext, limits, jobs, requeues, failures, crashes>>

CheckEdge(w) ==
    /\ Stage(w, "check")
    /\ GoTo(w, IF CanProvision(pjob[OrderOf(w)].st, worker[w].to) THEN "write"
               ELSE worker[w].err)
    /\ UNCHANGED <<pjob, acct, ext, limits, jobs, requeues, failures, crashes>>

WriteEdge(w) ==
    /\ Stage(w, "write")
    /\ pjob' = [pjob EXCEPT ![OrderOf(w)] =
          [st |-> worker[w].to,
           att |-> IF worker[w].to = "provisioning" THEN @.att + 1 ELSE @.att]]
    /\ GoTo(w, worker[w].then)
    /\ UNCHANGED <<acct, ext, limits, jobs, requeues, failures, crashes>>

\* Faulty variant: each attempt has an idempotency key of its own.
CreateExternalAnyKey(w) ==
    LET o == OrderOf(w) IN
    /\ Stage(w, "create")
    /\ \/ ext' = [ext EXCEPT ![o] = @ + 1] /\ GoTo(w, "row") /\ UNCHANGED failures
       \/ /\ failures < MaxFailures
          /\ failures' = failures + 1
          /\ \E done, again \in BOOLEAN :
                /\ ext' = IF done /\ again THEN [ext EXCEPT ![o] = @ + 1] ELSE ext
                /\ worker' = [worker EXCEPT ![w].pc = "caught", ![w].again = again]
    /\ UNCHANGED <<pjob, acct, limits, jobs, requeues, crashes>>

\* provisionAccount with one key per order: it creates the account or finds
\* it; it may refuse, now or for good, or its answer may be lost.
CreateExternal(w) ==
    LET o == OrderOf(w) IN
    /\ Stage(w, "create")
    /\ \/ ext' = [ext EXCEPT ![o] = 1] /\ GoTo(w, "row") /\ UNCHANGED failures
       \/ /\ failures < MaxFailures
          /\ failures' = failures + 1
          /\ \E done, again \in BOOLEAN :
                /\ ext' = IF done /\ again THEN [ext EXCEPT ![o] = 1] ELSE ext
                /\ worker' = [worker EXCEPT ![w].pc = "caught", ![w].again = again]
    /\ UNCHANGED <<pjob, acct, limits, jobs, requeues, crashes>>

\* The TradingAccount row is unique per order; a second one is an error that
\* counts as retryable.
CreateRow(w) ==
    LET o == OrderOf(w) IN
    /\ Stage(w, "row")
    /\ \/ acct[o] = "none" /\ acct' = [acct EXCEPT ![o] = "PENDING"]
          /\ Transition(w, "provisioned_unverified", "risk", "caught")
       \/ acct[o] # "none" /\ UNCHANGED acct
          /\ worker' = [worker EXCEPT ![w].pc = "caught", ![w].again = TRUE]
    /\ UNCHANGED <<pjob, ext, limits, jobs, requeues, failures, crashes>>

Caught(w) ==
    LET to == NextStateAfterFailure(worker[w].att + 1, worker[w].again) IN
    /\ Stage(w, "caught")
    /\ Transition(w, to,
          IF to = "manual_review" THEN "done" ELSE "retry", "fail")
    /\ UNCHANGED <<pjob, acct, ext, limits, jobs, requeues, failures, crashes>>

EnqueueRetry(w) ==
    /\ Stage(w, "retry")
    /\ jobs' = Enqueued(<<OrderOf(w), "retry", worker[w].att + 1>>)
    /\ GoTo(w, "done")
    /\ UNCHANGED <<pjob, acct, ext, limits, requeues, failures, crashes>>

ReadForRisk(w) ==
    /\ Stage(w, "risk")
    /\ GoTo(w, IF pjob[OrderOf(w)].st = "provisioned_unverified" THEN "configure"
               ELSE "activate")
    /\ UNCHANGED <<pjob, acct, ext, limits, jobs, requeues, failures, crashes>>

\* Faulty variant: a call that does not throw is taken for confirmation.
ConfigureRiskUnread(w) ==
    /\ Stage(w, "configure")
    /\ \/ limits' = limits \union {OrderOf(w)} /\ UNCHANGED failures
       \/ failures < MaxFailures /\ failures' = failures + 1 /\ UNCHANGED limits
    /\ Transition(w, "risk_verified", "activate", "review")
    /\ UNCHANGED <<pjob, acct, ext, jobs, requeues, crashes>>

\* configureRisk with its read-back: confirmed, mismatched, or failed.
ConfigureRisk(w) ==
    /\ Stage(w, "configure")
    /\ \/ /\ limits' = limits \union {OrderOf(w)}
          /\ Transition(w, "risk_verified", "activate", "review")
          /\ UNCHANGED failures
       \/ /\ failures < MaxFailures
          /\ failures' = failures + 1
          /\ UNCHANGED limits
          /\ \/ Transition(w, "manual_review", "done", "review")
             \/ GoTo(w, "review")
    /\ UNCHANGED <<pjob, acct, ext, jobs, requeues, crashes>>

HoldForReview(w) ==
    /\ Stage(w, "review")
    /\ Transition(w, "manual_review", "done", "fail")
    /\ UNCHANGED <<pjob, acct, ext, limits, jobs, requeues, failures, crashes>>

\* Faulty variant: the account row is not opened.
ReadForActivationUnopened(w) ==
    /\ Stage(w, "activate")
    /\ IF pjob[OrderOf(w)].st = "risk_verified"
       THEN Transition(w, "active", "fulfil", "fail")
       ELSE GoTo(w, "done")
    /\ UNCHANGED <<pjob, acct, ext, limits, jobs, requeues, failures, crashes>>

ReadForActivation(w) ==
    /\ Stage(w, "activate")
    /\ IF pjob[OrderOf(w)].st = "risk_verified"
       THEN Transition(w, "active", "open", "fail")
       ELSE GoTo(w, "done")
    /\ UNCHANGED <<pjob, acct, ext, limits, jobs, requeues, failures, crashes>>

OpenAccount(w) ==
    /\ Stage(w, "open")
    /\ acct' = [acct EXCEPT ![OrderOf(w)] = "ACTIVE"]
    /\ GoTo(w, "fulfil")
    /\ UNCHANGED <<pjob, ext, limits, jobs, requeues, failures, crashes>>

\* The order becomes FULFILLED; the row is the composing module's.
Fulfil(w) ==
    /\ Stage(w, "fulfil")
    /\ GoTo(w, "issue")
    /\ UNCHANGED <<pjob, acct, ext, limits, jobs, requeues, failures, crashes>>

\* issueCredential; the row is the composing module's.
Issue(w) ==
    /\ Stage(w, "issue")
    /\ GoTo(w, "sync")
    /\ UNCHANGED <<pjob, acct, ext, limits, jobs, requeues, failures, crashes>>

EnqueueSync(w) ==
    /\ Stage(w, "sync")
    /\ jobs' = Enqueued(<<OrderOf(w), "sync", 0>>)
    /\ GoTo(w, "done")
    /\ UNCHANGED <<pjob, acct, ext, limits, requeues, failures, crashes>>

\* "manual_review after an operator re-queues it".
Requeue ==
    /\ requeues < MaxRequeues
    /\ requeues' = requeues + 1
    /\ \E o \in Orders :
          /\ pjob[o].st = "manual_review"
          /\ jobs' = Enqueued(<<o, "requeue", requeues + 1>>)
    /\ UNCHANGED <<pjob, acct, ext, limits, worker, failures, crashes>>

-----------------------------------------------------------------------------
(* What the order's transactions do here.                                  *)

\* createOrder: the job waits for the payment.
AddProvisioningJob(o) ==
    /\ pjob' = [pjob EXCEPT ![o].st = "payment_pending"]
    /\ UNCHANGED <<acct, ext, limits, jobs, worker, requeues, failures, crashes>>

\* Faulty variant: a payment begins the provisioning itself.
StartProvisioningEager(o) ==
    /\ pjob' = [pjob EXCEPT ![o].st =
                    IF @ = "payment_pending" THEN "provisioning" ELSE @]
    /\ jobs' = Enqueued(<<o, "provision", 0>>)
    /\ UNCHANGED <<acct, ext, limits, worker, requeues, failures, crashes>>

\* markOrderPaid.
StartProvisioning(o) ==
    /\ pjob' = [pjob EXCEPT ![o].st = IF @ = "payment_pending" THEN "paid" ELSE @]
    /\ jobs' = Enqueued(<<o, "provision", 0>>)
    /\ UNCHANGED <<acct, ext, limits, worker, requeues, failures, crashes>>

\* The steps that touch nothing but the tables of this module.
ProvisioningStep(w) ==
    \/ CompleteJob(w) \/ FailJob(w) \/ ReadJob(w) \/ FindAccount(w)
    \/ CheckEdge(w) \/ WriteEdge(w) \/ CreateExternal(w) \/ CreateRow(w)
    \/ Caught(w) \/ EnqueueRetry(w) \/ ReadForRisk(w) \/ ConfigureRisk(w)
    \/ HoldForReview(w) \/ ReadForActivation(w) \/ OpenAccount(w)
    \/ EnqueueSync(w)

-----------------------------------------------------------------------------
(* Properties.                                                             *)

Stages == {"idle", "read", "find", "check", "write", "create", "row",
           "caught", "retry", "risk", "configure", "review", "activate",
           "open", "fulfil", "issue", "sync", "done", "fail"}

\* Every row and worker has its declared shape (Prisma schema).
ProvTypeOK ==
    /\ pjob \in [Orders -> [st : ProvisioningState \union {"none"}, att : Nat]]
    /\ acct \in [Orders -> {"none", "PENDING", "ACTIVE"}]
    /\ ext \in [Orders -> Nat]
    /\ limits \subseteq Orders
    /\ jobs \in [JobKeys -> [st : {"none", "PENDING", "CLAIMED", "SUCCEEDED", "DEAD"},
                             att : 0 .. MaxAttempts]]
    /\ worker \in [Workers -> [pc : Stages, job : JobKeys \union {NoKey},
                    st : ProvisioningState, att : Nat, to : ProvisioningState,
                    then : Stages, err : Stages, again : BOOLEAN]]
    /\ requeues \in 0 .. MaxRequeues
    /\ failures \in 0 .. MaxFailures
    /\ crashes \in 0 .. MaxCrashes

\* "Retried jobs never create a second identity or account": however often the
\* job is retried, recovered or re-queued, one account exists per order.
OneAccountPerOrder ==
    \A o \in Orders : ext[o] <= 1 /\ (acct[o] # "none" => ext[o] = 1)

\* An account becomes ACTIVE only after the provider has confirmed its risk
\* limits by read-back.
NeverActiveUnverified ==
    \A o \in Orders :
        acct[o] = "ACTIVE" \/ pjob[o].st \in {"risk_verified", "active"}
            => o \in limits

\* Retries and attempts are bounded: no job runs beyond its limit, and the
\* automatic retries of an order end (queue.ts, MAX_AUTOMATIC_RETRIES).
RetriesAreBounded ==
    \A k \in JobKeys :
        /\ jobs[k].att = MaxAttempts => jobs[k].st = "DEAD"
        /\ k[2] = "retry" /\ jobs[k].st # "none" => k[3] < MaxRetries

\* Each change of a provisioning job is an edge of the table, as long as no
\* worker dies and no second job is re-queued: the edge is checked against a
\* row read before it is written, and a recovered claim, or two re-queued jobs,
\* can run beside each other.
ProvisioningEdgesKept ==
    [][\A o \in Orders :
          \/ crashes > 0 \/ requeues > 1
          \/ pjob'[o].st = pjob[o].st
          \/ pjob[o].st = "none"
          \/ CanProvision(pjob[o].st, pjob'[o].st)]_pjob

=============================================================================
