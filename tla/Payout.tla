------------------------------- MODULE Payout -------------------------------
(***************************************************************************)
(* The payout saga of src/server/services/payout-service.ts for one        *)
(* trading account, with everything it shares state with:                  *)
(*                                                                         *)
(*   callers    concurrent requestPayout() calls (several may carry the    *)
(*              same idempotency key);                                     *)
(*   workers    processes that claim SUBMIT_PAYOUT jobs and run            *)
(*              validateAndApprove() and submitPayout(), may die between   *)
(*              any two awaits and have their claim recovered;             *)
(*   operators  people who record the outcome of the cash payment with     *)
(*              markPayoutPaid(), markPayoutOutcomeUnknown() and           *)
(*              resolveReconciliation();                                   *)
(*   sync       syncAccount(), which copies the provider's balance into    *)
(*              the account row and enforces the loss limits;              *)
(*   provider   the simulated account at the trading provider;             *)
(*   rail       the payment rail, outside the program.                     *)
(*                                                                         *)
(* One action is one database transaction (or one read) between two awaits *)
(* of a handler; a handler's program counter names its next step.  Wording,*)
(* audit rows and the transition log are left out.                         *)
(***************************************************************************)
EXTENDS PayoutStates, PayoutRules, RiskRules, CashTotal

CONSTANTS
    Calls,          \* requestPayout calls; a row is named by its call
    Keys,           \* client-supplied idempotency keys
    KeyOf,          \* the key each call carries
    Asks,           \* gross amounts a caller may ask for
    NoCall,         \* a process that is working on no request
    Workers,        \* worker processes
    Operators,      \* operators recording payment outcomes
    SlowWorkers,    \* a claim may go stale while its worker is still running
    Polling,        \* whether the account poller runs
    LastDay,        \* bound: the number of trading sessions
    FirstBalances,  \* simulated balances the account may start from
    Moves,          \* changes of the simulated balance by trading
    MaxTrades,      \* bound: number of such changes
    MaxCrashes      \* bound: number of worker or operator deaths

ASSUME PayoutAssumption ==
    /\ IsFiniteSet(Calls)
    /\ KeyOf \in [Calls -> Keys]
    /\ NoCall \notin Calls
    /\ Asks \subseteq 2 .. (2 * MaxCash)
    /\ SlowWorkers \in BOOLEAN
    /\ Polling \in BOOLEAN
    /\ LastDay \in Nat \ {0}
    /\ FirstBalances \subseteq Int
    /\ Moves \subseteq Int
    /\ MaxTrades \in Nat
    /\ MaxCrashes \in Nat

VARIABLES
    day,        \* today's session date
    acct,       \* the TradingAccount row and its latest PositionSnapshot
    prov,       \* the account at the trading provider
    gross,      \* what each call asks for
    call,       \* progress of each requestPayout call
    state,      \* PayoutRequest.state
    resv,       \* PayoutReservation.status
    rday,       \* PayoutReservation.sessionDate
    jobs,       \* the SUBMIT_PAYOUT rows of the Job table
    worker,     \* progress of each worker
    oper,       \* progress of each operator
    rail,       \* what the payment rail did with the cash of each request
    ledger,     \* LedgerEntry rows, by the kind of entry and the request
    sync,       \* progress of the account poller
    trades,     \* number of balance changes by trading so far
    crashes     \* number of deaths so far

acctVars == <<day, acct, prov, sync, trades>>
reqVars == <<gross, call, state, resv, rday>>
procVars == <<jobs, worker, oper, rail, ledger, crashes>>
vars == <<acctVars, reqVars, procVars>>

Days == 1 .. LastDay

Cash == [c \in Calls |-> CashForGross(gross[c])]

\* Faulty variant: only what was paid counts.
HeldPaidOnly == {c \in Calls : resv[c] = "CONSUMED"}

\* ACTIVE (pending) and CONSUMED (paid) reservations count; RELEASED do not.
Held == {c \in Calls : resv[c] \in {"ACTIVE", "CONSUMED"}}
HeldOn(d) == {c \in Held : rday[c] = d}

Stages == {"validate", "submit"}
JobIds == Stages \X Calls
ProviderKeys == {"deduct", "reverse"} \X Calls

NoView == [ok |-> FALSE, limit |-> 0, day |-> 1]
IdleWorker == [pc |-> "idle", stage |-> "validate", call |-> NoCall,
               view |-> NoView]
IdleOperator == [pc |-> "idle", call |-> NoCall, held |-> FALSE]
IdleSync == [pc |-> "idle", bal |-> 0, seq |-> 0, flat |-> TRUE, day |-> 1,
             row |-> [high |-> 0, thr |-> 0, open |-> 0, wd |-> 0, day |-> 1]]

-----------------------------------------------------------------------------
(* Initial state: a provisioned, synchronised, flat account with some      *)
(* simulated balance, and no payout yet.                                   *)

Init ==
    /\ day = 1
    /\ \E b \in FirstBalances :
          /\ prov = [bal |-> b, seq |-> 1, flat |-> TRUE, done |-> {}]
          /\ acct = [bal |-> b, high |-> b, thr |-> ComputeThreshold(b),
                     day |-> 1, open |-> b, wd |-> 0, seq |-> 1,
                     stale |-> FALSE, flat |-> TRUE, status |-> "ACTIVE",
                     paused |-> {}]
    /\ sync = IdleSync
    /\ trades = 0
    /\ gross \in [Calls -> Asks]
    /\ call = [c \in Calls |-> [pc |-> "start", view |-> NoView]]
    /\ state = [c \in Calls |-> NoRow]
    /\ resv = [c \in Calls |-> "NONE"]
    /\ rday = [c \in Calls |-> 1]
    /\ jobs = [j \in JobIds |-> "none"]
    /\ worker = [w \in Workers |-> IdleWorker]
    /\ oper = [o \in Operators |-> IdleOperator]
    /\ rail = [c \in Calls |-> "idle"]
    /\ ledger = {}
    /\ crashes = 0

-----------------------------------------------------------------------------
(* Eligibility.  getPayoutView() reads the account row and the session     *)
(* date, then the reservations, then the latest positions.  The second and *)
(* third read are one step here, with the decision taken on them.          *)

\* The account half of the view, as read now.
AccountView ==
    [ok    |-> acct.status = "ACTIVE" /\ ~acct.stale,
     limit |-> AccountLimit(acct.bal, acct.thr),
     day   |-> day]

\* validateRequest() on that view, with the request's own cash handed back.
Eligible(c, view, own) ==
    /\ view.ok
    /\ acct.flat
    /\ GrossAllowed(gross[c],
          MaxGross(view.limit,
                   RemainingDaily(Total(Cash, HeldOn(view.day))) + own,
                   RemainingLifetime(Total(Cash, Held)) + own))

-----------------------------------------------------------------------------
(* Callers: requestPayout().  A call refused for ownership, an incomplete  *)
(* payout profile or an unresolved lifetime cap leaves no trace and is the *)
(* same as a call that never starts.                                       *)

\* Some call with the same idempotency key has created its row.
KeyTaken(c) == \E k \in Calls : KeyOf[k] = KeyOf[c] /\ state[k] # NoRow

RequestRead(c) ==
    /\ call[c].pc = "start"
    /\ call' = [call EXCEPT ![c] =
                  IF KeyTaken(c) THEN [pc |-> "done", view |-> NoView]
                                 ELSE [pc |-> "validate", view |-> AccountView]]
    /\ UNCHANGED <<acctVars, procVars, gross, state, resv, rday>>

RequestValidate(c) ==
    /\ call[c].pc = "validate"
    /\ call' = [call EXCEPT ![c].pc =
                  IF Eligible(c, call[c].view, 0) THEN "reserve" ELSE "done"]
    /\ UNCHANGED <<acctVars, procVars, gross, state, resv, rday>>

\* Faulty variants: the transaction trusts the earlier reads, of the
\* reservations or of the idempotency key.
ReserveIf(c, test) ==
    /\ call[c].pc = "reserve"
    /\ call' = [call EXCEPT ![c].pc = "done"]
    /\ IF ~test THEN UNCHANGED <<state, resv, rday, jobs>>
       ELSE /\ state' = [state EXCEPT ![c] = "reserved"]
            /\ resv' = [resv EXCEPT ![c] = "ACTIVE"]
            /\ rday' = [rday EXCEPT ![c] = call[c].view.day]
            /\ jobs' = [jobs EXCEPT ![<<"validate", c>>] = "pending"]
    /\ UNCHANGED <<acctVars, gross, worker, oper, rail, ledger, crashes>>
RequestReserveTrustingCaps(c) == ReserveIf(c, ~KeyTaken(c))
RequestReserveTrustingKey(c) ==
    ReserveIf(c, MayReserve(Cash[c], Total(Cash, HeldOn(call[c].view.day)),
                            Total(Cash, Held)))

\* One transaction: the key and the reservations are read again inside it.
RequestReserve(c) ==
    LET d == call[c].view.day IN
    /\ call[c].pc = "reserve"
    /\ call' = [call EXCEPT ![c].pc = "done"]
    /\ \/ /\ \/ KeyTaken(c)
             \/ ~MayReserve(Cash[c], Total(Cash, HeldOn(d)), Total(Cash, Held))
          /\ UNCHANGED <<state, resv, rday, jobs>>
       \/ /\ ~KeyTaken(c)
          /\ MayReserve(Cash[c], Total(Cash, HeldOn(d)), Total(Cash, Held))
          /\ CanTransition("requested", "reserved")
          /\ state' = [state EXCEPT ![c] = "reserved"]
          /\ resv' = [resv EXCEPT ![c] = "ACTIVE"]
          /\ rday' = [rday EXCEPT ![c] = d]
          /\ jobs' = [jobs EXCEPT ![<<"validate", c>>] = "pending"]
    /\ UNCHANGED <<acctVars, gross, worker, oper, rail, ledger, crashes>>

-----------------------------------------------------------------------------
(* The job table and the worker loop.  recordTransition() checks the edge  *)
(* from the state the handler believes in, then overwrites whatever state  *)
(* the row has.  A handler that throws has its job put back to PENDING,    *)
(* which is a crash followed at once by a recovery.                        *)

At(w, pc) == worker[w].pc = pc

Advance(w, pc) == worker' = [worker EXCEPT ![w].pc = pc]

RecordTransition(c, from, to) ==
    /\ CanTransition(from, to)
    /\ state' = [state EXCEPT ![c] = to]

Holds(w, j) == ~At(w, "idle") /\ <<worker[w].stage, worker[w].call>> = j

\* claimNextJob: the conditional update lets one worker win.
Claim(w) ==
    /\ At(w, "idle")
    /\ \E c \in Calls, s \in Stages :
          /\ jobs[<<s, c>>] = "pending"
          /\ jobs' = [jobs EXCEPT ![<<s, c>>] = "claimed"]
          /\ worker' = [worker EXCEPT ![w] =
                [pc |-> IF s = "validate" THEN "v_read" ELSE "s_read",
                 stage |-> s, call |-> c, view |-> NoView]]
    /\ UNCHANGED <<acctVars, reqVars, oper, rail, ledger, crashes>>

\* completeJob overwrites the status, whoever holds the claim by now.
Finish(w) ==
    /\ At(w, "finish")
    /\ jobs' = [jobs EXCEPT ![<<worker[w].stage, worker[w].call>>] = "done"]
    /\ worker' = [worker EXCEPT ![w] = IdleWorker]
    /\ UNCHANGED <<acctVars, reqVars, oper, rail, ledger, crashes>>

WorkerCrash(w) ==
    /\ ~At(w, "idle")
    /\ crashes < MaxCrashes
    /\ crashes' = crashes + 1
    /\ worker' = [worker EXCEPT ![w] = IdleWorker]
    /\ UNCHANGED <<acctVars, reqVars, jobs, oper, rail, ledger>>

\* Faulty variants: a claim is recovered while its worker runs, or only for
\* one type of job.
RecoverTooEarly(j) ==
    /\ jobs[j] = "claimed"
    /\ jobs' = [jobs EXCEPT ![j] = "pending"]
    /\ UNCHANGED <<acctVars, reqVars, worker, oper, rail, ledger, crashes>>
RecoverValidations(j) ==
    /\ j[1] = "validate"
    /\ \A w \in Workers : ~Holds(w, j)
    /\ RecoverTooEarly(j)

\* recoverStaleClaims: a claim older than five minutes is pending again.
Recover(j) ==
    /\ jobs[j] = "claimed"
    /\ SlowWorkers \/ \A w \in Workers : ~Holds(w, j)
    /\ jobs' = [jobs EXCEPT ![j] = "pending"]
    /\ UNCHANGED <<acctVars, reqVars, worker, oper, rail, ledger, crashes>>

-----------------------------------------------------------------------------
(* validateAndApprove(), one action per await.                             *)

V_Read(w) ==
    /\ At(w, "v_read")
    /\ Advance(w, IF state[worker[w].call] = "reserved"
                  THEN "v_mark" ELSE "finish")
    /\ UNCHANGED <<acctVars, reqVars, jobs, oper, rail, ledger, crashes>>

V_Mark(w) ==
    /\ At(w, "v_mark")
    /\ RecordTransition(worker[w].call, "reserved", "validating")
    /\ Advance(w, "v_account")
    /\ UNCHANGED <<acctVars, gross, call, resv, rday,
                   jobs, oper, rail, ledger, crashes>>

V_Account(w) ==
    /\ At(w, "v_account")
    /\ worker' = [worker EXCEPT ![w].pc = "v_decide", ![w].view = AccountView]
    /\ UNCHANGED <<acctVars, reqVars, jobs, oper, rail, ledger, crashes>>

V_Decide(w) ==
    LET c == worker[w].call IN
    /\ At(w, "v_decide")
    /\ worker' = [worker EXCEPT
          ![w].pc = IF Eligible(c, worker[w].view, Cash[c])
                    THEN "v_approve" ELSE "v_park",
          ![w].view = NoView]
    /\ UNCHANGED <<acctVars, reqVars, jobs, oper, rail, ledger, crashes>>

V_Park(w) ==
    /\ At(w, "v_park")
    /\ RecordTransition(worker[w].call, "validating", "needs_reconciliation")
    /\ Advance(w, "finish")
    /\ UNCHANGED <<acctVars, gross, call, resv, rday,
                   jobs, oper, rail, ledger, crashes>>

\* Faulty variants: approval forgets the obligation, or frees the capacity.
V_ApproveUnaccrued(w) ==
    /\ At(w, "v_approve")
    /\ RecordTransition(worker[w].call, "validating", "approved")
    /\ Advance(w, "v_enqueue")
    /\ UNCHANGED <<acctVars, gross, call, resv, rday,
                   jobs, oper, rail, ledger, crashes>>
V_ApproveReleasing(w) ==
    /\ At(w, "v_approve")
    /\ RecordTransition(worker[w].call, "validating", "approved")
    /\ resv' = [resv EXCEPT ![worker[w].call] = "RELEASED"]
    /\ Advance(w, "v_accrue")
    /\ UNCHANGED <<acctVars, gross, call, rday,
                   jobs, oper, rail, ledger, crashes>>

V_Approve(w) ==
    /\ At(w, "v_approve")
    /\ RecordTransition(worker[w].call, "validating", "approved")
    /\ Advance(w, "v_accrue")
    /\ UNCHANGED <<acctVars, gross, call, resv, rday,
                   jobs, oper, rail, ledger, crashes>>

\* postEntry(buildObligationEntry): idempotent on its key.
V_Accrue(w) ==
    /\ At(w, "v_accrue")
    /\ ledger' = ledger \union {<<"accrue", worker[w].call>>}
    /\ Advance(w, "v_enqueue")
    /\ UNCHANGED <<acctVars, reqVars, jobs, oper, rail, crashes>>

\* Faulty variant: the submit job is given the key of the validate job.
V_EnqueueSameKey(w) ==
    /\ At(w, "v_enqueue")
    /\ Advance(w, "finish")
    /\ UNCHANGED <<acctVars, reqVars, jobs, oper, rail, ledger, crashes>>

\* enqueueJob: a job with this key is created at most once.
V_Enqueue(w) ==
    LET j == <<"submit", worker[w].call>> IN
    /\ At(w, "v_enqueue")
    /\ jobs' = [jobs EXCEPT ![j] = IF @ = "none" THEN "pending" ELSE @]
    /\ Advance(w, "finish")
    /\ UNCHANGED <<acctVars, reqVars, oper, rail, ledger, crashes>>

-----------------------------------------------------------------------------
(* adjustSimBalance() of the trading provider: an adjustment key takes     *)
(* effect once.  A call that throws or is not confirmed may or may not     *)
(* have been applied.                                                      *)

Applied(key, delta) ==
    IF key \in prov.done THEN prov
    ELSE [prov EXCEPT !.bal = @ + delta, !.seq = @ + 1, !.done = @ \union {key}]

(* submitPayout(), one action per await.                                   *)

S_Read(w) ==
    /\ At(w, "s_read")
    /\ Advance(w, IF state[worker[w].call] = "approved"
                  THEN "s_deduct" ELSE "finish")
    /\ UNCHANGED <<acctVars, reqVars, jobs, oper, rail, ledger, crashes>>

\* Faulty variant: an unconfirmed deduction is taken for a done one.
S_DeductUnconfirmed(w) ==
    LET c == worker[w].call IN
    /\ At(w, "s_deduct")
    /\ prov' \in {prov, Applied(<<"deduct", c>>, -gross[c])}
    /\ Advance(w, "s_mark")
    /\ UNCHANGED <<day, acct, sync, trades, reqVars,
                   jobs, oper, rail, ledger, crashes>>

S_Deduct(w) ==
    LET c == worker[w].call
        after == Applied(<<"deduct", c>>, -gross[c]) IN
    /\ At(w, "s_deduct")
    /\ \/ prov' = after /\ Advance(w, "s_mark")
       \/ prov' \in {prov, after} /\ Advance(w, "s_park")
    /\ UNCHANGED <<day, acct, sync, trades, reqVars,
                   jobs, oper, rail, ledger, crashes>>

S_Park(w) ==
    /\ At(w, "s_park")
    /\ RecordTransition(worker[w].call, "approved", "needs_reconciliation")
    /\ Advance(w, "finish")
    /\ UNCHANGED <<acctVars, gross, call, resv, rday,
                   jobs, oper, rail, ledger, crashes>>

S_Mark(w) ==
    /\ At(w, "s_mark")
    /\ RecordTransition(worker[w].call, "approved", "submitted")
    /\ Advance(w, "s_local")
    /\ UNCHANGED <<acctVars, gross, call, resv, rday,
                   jobs, oper, rail, ledger, crashes>>

\* The local copy of the balance, and the session's withdrawal tally.
S_Local(w) ==
    LET g == gross[worker[w].call] IN
    /\ At(w, "s_local")
    /\ acct' = [acct EXCEPT !.bal = @ - g, !.wd = @ + g]
    /\ Advance(w, "finish")
    /\ UNCHANGED <<day, prov, sync, trades, reqVars,
                   jobs, oper, rail, ledger, crashes>>

WorkerStep(w) ==
    \/ V_Read(w) \/ V_Mark(w) \/ V_Account(w) \/ V_Decide(w) \/ V_Park(w)
    \/ V_Approve(w) \/ V_Accrue(w) \/ V_Enqueue(w)
    \/ S_Read(w) \/ S_Deduct(w) \/ S_Park(w) \/ S_Mark(w) \/ S_Local(w)
    \/ Finish(w)

-----------------------------------------------------------------------------
(* Operators and the payment rail.  No rail is configured in the code: a   *)
(* submitted request waits for a person.  That person sends the cash only  *)
(* for a submitted request nobody else is handling, and records only what  *)
(* the rail says: paid when it was sent, not paid when it was never handed *)
(* over or bounced.                                                        *)

Handling(o, pc) == oper[o].pc = pc

OpAdvance(o, pc) == oper' = [oper EXCEPT ![o].pc = pc]

Begin(o, c, pc) ==
    oper' = [oper EXCEPT ![o] =
                [pc |-> pc, call |-> c, held |-> resv[c] = "ACTIVE"]]

\* Outside the program: the cash is handed to the rail.
SendCash(c) ==
    /\ state[c] = "submitted"
    /\ rail[c] = "idle"
    /\ \A o \in Operators : oper[o].call # c
    /\ rail' = [rail EXCEPT ![c] = "inflight"]
    /\ UNCHANGED <<acctVars, reqVars, jobs, worker, oper, ledger, crashes>>

RailOutcome(c) ==
    /\ rail[c] = "inflight"
    /\ \E r \in {"sent", "bounced"} : rail' = [rail EXCEPT ![c] = r]
    /\ UNCHANGED <<acctVars, reqVars, jobs, worker, oper, ledger, crashes>>

\* markPayoutPaid(), also as resolveReconciliation(confirmedNotPaid: false).
PaidRead(o, c) ==
    /\ Handling(o, "idle")
    /\ rail[c] = "sent"
    /\ CanTransition(state[c], "paid")
    /\ Begin(o, c, "paid_mark")
    /\ UNCHANGED <<acctVars, reqVars, jobs, worker, rail, ledger, crashes>>

\* Faulty variant: a status the schema does not know.
PaidMarkUnknownStatus(o) ==
    /\ Handling(o, "paid_mark")
    /\ state' = [state EXCEPT ![oper[o].call] = "completed"]
    /\ OpAdvance(o, "paid_post")
    /\ UNCHANGED <<acctVars, gross, call, resv, rday,
                   jobs, worker, rail, ledger, crashes>>

PaidMark(o) ==
    /\ Handling(o, "paid_mark")
    /\ state' = [state EXCEPT ![oper[o].call] = "paid"]
    /\ OpAdvance(o, "paid_post")
    /\ UNCHANGED <<acctVars, gross, call, resv, rday,
                   jobs, worker, rail, ledger, crashes>>

PaidPost(o) ==
    LET c == oper[o].call IN
    /\ Handling(o, "paid_post")
    /\ resv' = [resv EXCEPT ![c] = "CONSUMED"]
    /\ ledger' = ledger \union {<<k, c>> : k \in {"sim", "cash", "settle"}}
    /\ OpAdvance(o, "close_read")
    /\ UNCHANGED <<acctVars, gross, call, state, rday,
                   jobs, worker, rail, crashes>>

\* closeIfLifetimeCapReached: what is reserved counts like what was paid.
CloseRead(o) ==
    /\ Handling(o, "close_read")
    /\ IF /\ acct.status \notin {"CLOSED", "BREACHED"}
          /\ Capped
          /\ Total(Cash, Held) >= LifetimeCap
       THEN OpAdvance(o, "close_write")
       ELSE oper' = [oper EXCEPT ![o] = IdleOperator]
    /\ UNCHANGED <<acctVars, reqVars, jobs, worker, rail, ledger, crashes>>

CloseWrite(o) ==
    /\ Handling(o, "close_write")
    /\ acct' = [acct EXCEPT !.status = "CLOSED"]
    /\ oper' = [oper EXCEPT ![o] = IdleOperator]
    /\ UNCHANGED <<day, prov, sync, trades, reqVars,
                   jobs, worker, rail, ledger, crashes>>

\* markPayoutOutcomeUnknown(), for cash that was handed over but whose outcome
\* the operator cannot see.  The operator does not ask it for a failed request,
\* whose outcome is known, although the table of transitions would allow it.
UnknownRead(o, c) ==
    /\ Handling(o, "idle")
    /\ rail[c] # "idle"
    /\ state[c] = "submitted"
    /\ CanTransition(state[c], "needs_reconciliation")
    /\ Begin(o, c, "unknown_mark")
    /\ UNCHANGED <<acctVars, reqVars, jobs, worker, rail, ledger, crashes>>

UnknownMark(o) ==
    /\ Handling(o, "unknown_mark")
    /\ state' = [state EXCEPT ![oper[o].call] = "needs_reconciliation"]
    /\ oper' = [oper EXCEPT ![o] = IdleOperator]
    /\ UNCHANGED <<acctVars, gross, call, resv, rday,
                   jobs, worker, rail, ledger, crashes>>

\* Faulty variant: non-payment is recorded for a request in any state.
NotPaidReadUnchecked(o, c) ==
    /\ Handling(o, "idle")
    /\ rail[c] \in {"idle", "bounced"}
    /\ state[c] # NoRow
    /\ Begin(o, c, "fail_mark")
    /\ UNCHANGED <<acctVars, reqVars, jobs, worker, rail, ledger, crashes>>

\* resolveReconciliation(confirmedNotPaid: true).
NotPaidRead(o, c) ==
    /\ Handling(o, "idle")
    /\ rail[c] \in {"idle", "bounced"}
    /\ CanTransition(state[c], "failed")
    /\ Begin(o, c, "fail_mark")
    /\ UNCHANGED <<acctVars, reqVars, jobs, worker, rail, ledger, crashes>>

FailMark(o) ==
    /\ Handling(o, "fail_mark")
    /\ state' = [state EXCEPT ![oper[o].call] = "failed"]
    /\ OpAdvance(o, "fail_credit")
    /\ UNCHANGED <<acctVars, gross, call, resv, rday,
                   jobs, worker, rail, ledger, crashes>>

\* The provider's answer is not looked at: unconfirmed counts as done.
FailCredit(o) ==
    LET c == oper[o].call IN
    /\ Handling(o, "fail_credit")
    /\ prov' \in {prov, Applied(<<"reverse", c>>, gross[c])}
    /\ OpAdvance(o, "fail_local")
    /\ UNCHANGED <<day, acct, sync, trades, reqVars,
                   jobs, worker, rail, ledger, crashes>>

\* One transaction; the reservation's status is the one read at the start.
FailLocal(o) ==
    LET c == oper[o].call IN
    /\ Handling(o, "fail_local")
    /\ acct' = [acct EXCEPT !.bal = @ + gross[c], !.wd = @ - gross[c]]
    /\ resv' = [resv EXCEPT ![c] = IF oper[o].held THEN "RELEASED" ELSE @]
    /\ oper' = [oper EXCEPT ![o] = IdleOperator]
    /\ UNCHANGED <<day, prov, sync, trades, gross, call, state, rday,
                   jobs, worker, rail, ledger, crashes>>

OperatorCrash(o) ==
    /\ ~Handling(o, "idle")
    /\ crashes < MaxCrashes
    /\ crashes' = crashes + 1
    /\ oper' = [oper EXCEPT ![o] = IdleOperator]
    /\ UNCHANGED <<acctVars, reqVars, jobs, worker, rail, ledger>>

OperatorStep(o) ==
    \/ PaidMark(o) \/ PaidPost(o) \/ CloseRead(o) \/ CloseWrite(o)
    \/ UnknownMark(o) \/ FailMark(o) \/ FailCredit(o) \/ FailLocal(o)

-----------------------------------------------------------------------------
(* The poller: syncAccount() and ingestSnapshot(), for accounts that are   *)
(* ACTIVE or DAILY_PAUSED.                                                 *)

SyncFetch ==
    /\ Polling
    /\ sync.pc = "idle"
    /\ acct.status \in {"ACTIVE", "DAILY_PAUSED"}
    /\ sync' = [sync EXCEPT !.pc = "read", !.bal = prov.bal, !.seq = prov.seq,
                            !.flat = prov.flat, !.day = day]
    /\ UNCHANGED <<day, acct, prov, trades, reqVars, procVars>>

\* A duplicated or out-of-order snapshot is skipped.
SyncRead ==
    /\ sync.pc = "read"
    /\ sync' = IF sync.seq <= acct.seq THEN IdleSync
               ELSE [sync EXCEPT !.pc = "write",
                        !.row = [high |-> acct.high, thr |-> acct.thr,
                                 open |-> acct.open, wd |-> acct.wd,
                                 day |-> acct.day]]
    /\ UNCHANGED <<day, acct, prov, trades, reqVars, procVars>>

\* The session the snapshot belongs to: the row's, or a new one opened by it.
SyncOpen == IF sync.row.day = sync.day THEN sync.row.open ELSE sync.bal
SyncWithdrawn == IF sync.row.day = sync.day THEN sync.row.wd ELSE 0
SyncThreshold == NextThreshold(sync.row.thr, sync.row.high, sync.bal)

SyncTrailing == IsTrailingBreached(SyncThreshold, sync.bal)
SyncDaily == IsDailyLossBreached(SyncOpen, SyncWithdrawn, sync.bal)

\* Enforcement runs the daily lockout first and the terminal breach last.
SyncWrite ==
    /\ sync.pc = "write"
    /\ acct' = [acct EXCEPT
          !.bal = sync.bal,
          !.high = NextHighWater(sync.row.high, sync.bal),
          !.thr = SyncThreshold,
          !.day = sync.day, !.open = SyncOpen, !.wd = SyncWithdrawn,
          !.seq = sync.seq, !.stale = FALSE, !.flat = sync.flat]
    /\ sync' = IF SyncDaily THEN [sync EXCEPT !.pc = "daily"]
               ELSE IF SyncTrailing THEN [sync EXCEPT !.pc = "trail"]
               ELSE IdleSync
    /\ UNCHANGED <<day, prov, trades, reqVars, procVars>>

\* flattenPositions(), confirmed or not.
Flattened == [prov EXCEPT !.flat = TRUE, !.seq = @ + 1]

\* enforceBreach(DAILY_LOSS), once per session; never overwrites BREACHED.
EnforceDaily ==
    /\ sync.pc = "daily"
    /\ IF sync.day \in acct.paused
       THEN UNCHANGED <<acct, prov>>
       ELSE /\ prov' \in {prov, Flattened}
            /\ acct' = [acct EXCEPT
                  !.status = IF @ = "BREACHED" THEN @ ELSE "DAILY_PAUSED",
                  !.paused = @ \union {sync.day}]
    /\ sync' = IF SyncTrailing THEN [sync EXCEPT !.pc = "trail"] ELSE IdleSync
    /\ UNCHANGED <<day, trades, reqVars, procVars>>

\* enforceBreach(TRAILING).
EnforceTrailing ==
    /\ sync.pc = "trail"
    /\ prov' \in {prov, Flattened}
    /\ acct' = [acct EXCEPT !.status = "BREACHED"]
    /\ sync' = IdleSync
    /\ UNCHANGED <<day, trades, reqVars, procVars>>

\* The provider did not answer, or the last answer is too old by now.
GoStale ==
    /\ Polling
    /\ ~acct.stale
    /\ acct' = [acct EXCEPT !.stale = TRUE]
    /\ UNCHANGED <<day, prov, sync, trades, reqVars, procVars>>

SyncStep == SyncRead \/ SyncWrite \/ EnforceDaily \/ EnforceTrailing

-----------------------------------------------------------------------------
(* The environment: trading on the simulated account, and the clock.       *)

Trade ==
    /\ trades < MaxTrades
    /\ trades' = trades + 1
    /\ \E m \in Moves, f \in BOOLEAN :
          prov' = [prov EXCEPT !.bal = @ + m, !.seq = @ + 1, !.flat = f]
    /\ UNCHANGED <<day, acct, sync, reqVars, procVars>>

NewSession ==
    /\ day < LastDay
    /\ day' = day + 1
    /\ UNCHANGED <<acct, prov, sync, trades, reqVars, procVars>>

-----------------------------------------------------------------------------

Next ==
    \/ \E c \in Calls :
          RequestRead(c) \/ RequestValidate(c) \/ RequestReserve(c)
    \/ \E w \in Workers : Claim(w) \/ WorkerStep(w) \/ WorkerCrash(w)
    \/ \E j \in JobIds : Recover(j)
    \/ \E c \in Calls : SendCash(c) \/ RailOutcome(c)
    \/ \E o \in Operators, c \in Calls :
          PaidRead(o, c) \/ UnknownRead(o, c) \/ NotPaidRead(o, c)
    \/ \E o \in Operators : OperatorStep(o) \/ OperatorCrash(o)
    \/ SyncFetch \/ SyncStep \/ GoStale
    \/ Trade \/ NewSession

Spec == Init /\ [][Next]_vars

(***************************************************************************)
(* What the deployment schedules: the worker loop polls every second and   *)
(* recovers stale claims on every poll, so a worker keeps running what it  *)
(* claimed and keeps claiming.  Callers, operators, the rail and the       *)
(* provider promise nothing.  A handler that was started runs on.          *)
(***************************************************************************)
Fairness ==
    /\ \A w \in Workers : WF_vars(Claim(w)) /\ WF_vars(WorkerStep(w))
    /\ \A j \in JobIds : WF_vars(Recover(j))
    /\ \A o \in Operators : WF_vars(OperatorStep(o))
    /\ WF_vars(SyncFetch) /\ WF_vars(SyncStep)

FairSpec == Spec /\ Fairness

-----------------------------------------------------------------------------
(* Properties.                                                             *)

View == [ok : BOOLEAN, limit : Int, day : Days]
WorkerPCs == {"idle", "v_read", "v_mark", "v_account", "v_decide", "v_park",
              "v_approve", "v_accrue", "v_enqueue", "s_read", "s_deduct",
              "s_park", "s_mark", "s_local", "finish"}
OperatorPCs == {"idle", "paid_mark", "paid_post", "close_read", "close_write",
                "unknown_mark", "fail_mark", "fail_credit", "fail_local"}

AccountRow == [bal : Int, high : Int, thr : Int, day : Days, open : Int,
               wd : Int, seq : Int, stale : BOOLEAN, flat : BOOLEAN,
               status : {"ACTIVE", "DAILY_PAUSED", "BREACHED", "CLOSED"},
               paused : SUBSET Days]
ProviderAccount == [bal : Int, seq : Int, flat : BOOLEAN,
                    done : SUBSET ProviderKeys]
Poll == [pc : {"idle", "read", "write", "daily", "trail"},
         bal : Int, seq : Int, flat : BOOLEAN, day : Days,
         row : [high : Int, thr : Int, open : Int, wd : Int, day : Days]]
Call == [pc : {"start", "validate", "reserve", "done"}, view : View]
Worker == [pc : WorkerPCs, stage : Stages, call : Calls \union {NoCall},
           view : View]
Operator == [pc : OperatorPCs, call : Calls \union {NoCall}, held : BOOLEAN]

AccountType ==
    /\ day \in Days
    /\ acct \in AccountRow
    /\ prov \in ProviderAccount
    /\ sync \in Poll
    /\ trades \in 0 .. MaxTrades

RequestType ==
    /\ gross \in [Calls -> Asks]
    /\ call \in [Calls -> Call]
    /\ state \in [Calls -> PayoutState \union {NoRow}]
    /\ resv \in [Calls -> {"NONE", "ACTIVE", "CONSUMED", "RELEASED"}]
    /\ rday \in [Calls -> Days]

ProcessType ==
    /\ jobs \in [JobIds -> {"none", "pending", "claimed", "done"}]
    /\ worker \in [Workers -> Worker]
    /\ \A w \in Workers : ~At(w, "idle") => worker[w].call \in Calls
    /\ oper \in [Operators -> Operator]
    /\ \A o \in Operators : ~Handling(o, "idle") => oper[o].call \in Calls
    /\ rail \in [Calls -> {"idle", "inflight", "sent", "bounced"}]
    /\ ledger \subseteq ({"accrue", "sim", "cash", "settle"} \X Calls)
    /\ crashes \in 0 .. MaxCrashes

\* Every row, record and process is of its declared shape (Prisma schema and
\* the types of payout-service.ts).
TypeOK == AccountType /\ RequestType /\ ProcessType

\* The payment rail has, or may have, moved the cash of this request.
CashMoving(c) == rail[c] \in {"inflight", "sent"}

\* Whatever the interleaving of callers, workers, operators and crashes, the
\* cash actually handed to the rail stays within the daily cap of each session
\* and within the lifetime cap: the re-read inside requestPayout's transaction
\* and the release on confirmed non-payment together keep real money bounded.
CashWithinCaps ==
    /\ \A d \in Days :
          Total(Cash, {c \in Calls : CashMoving(c) /\ rday[c] = d}) <= DailyCap
    /\ Capped => Total(Cash, {c \in Calls : CashMoving(c)}) <= LifetimeCap

\* Cash only ever follows a deduction the provider has applied and not given
\* back: submitPayout deducts first "because it is the reversible one".
CashOnlyAfterDeduction ==
    \A c \in Calls : CashMoving(c) =>
        /\ <<"deduct", c>> \in prov.done
        /\ <<"reverse", c>> \notin prov.done

\* The cash ledger says a payout left only if it did, and then the simulated
\* deduction stands, the obligation it settles was accrued before, and the
\* capacity is consumed for good (buildPayoutEntries, buildObligationEntry).
BooksAreTruthful ==
    \A c \in Calls : <<"cash", c>> \in ledger =>
        /\ rail[c] = "sent"
        /\ <<"deduct", c>> \in prov.done
        /\ {<<"accrue", c>>, <<"settle", c>>} \subseteq ledger
        /\ resv[c] = "CONSUMED"

\* Concurrent requestPayout calls with one idempotency key create one request.
OneRequestPerKey ==
    \A a, b \in Calls :
        state[a] # NoRow /\ state[b] # NoRow /\ KeyOf[a] = KeyOf[b] => a = b

\* A request that is on its way to payment or paid holds its cash capacity
\* (holdsCapacity of state-machine.ts, but for the parked and failed ones).
LiveRequestsHoldCapacity ==
    \A c \in Calls :
        state[c] \in {"reserved", "validating", "approved", "submitted", "paid"}
            => c \in Held

\* Two of the state machine's promises at the level of the database row, not
\* of the check each handler makes on the state it read earlier: a row only
\* moves along TRANSITIONS, so paid, canceled and rejected are terminal.
LegalStep ==
    \A c \in Calls : state'[c] # state[c] =>
        \/ CanTransition(state[c], state'[c])
        \/ state[c] = NoRow /\ state'[c] = "reserved"
LegalEdges == [][LegalStep]_state

\* The saga implements the pure capacity model of reservation.ts.
Capacity == INSTANCE Reservation WITH Sessions <- Days, cash <- Cash
ImplementsReservation == Capacity!ReservationSpec

\* While nothing but the payout of one request moves the balance, it takes the
\* provider's balance neither into the retained buffer nor down to the threshold,
\* although the room is computed from a copy of the balance and of the threshold
\* that others write (computeCapacity, submitPayout).  Several requests may be
\* approved against the same balance.
OneRequest == \A a, b \in Calls : state[a] # NoRow /\ state[b] # NoRow => a = b
BufferKept ==
    trades = 0 /\ OneRequest => /\ prov.bal >= StartBalance + Buffer
                                /\ prov.bal > acct.thr

\* Every job that is enqueued is run to its end, although workers may die.
JobsFinish == \A j \in JobIds : jobs[j] = "pending" ~> jobs[j] = "done"

\* What each state of a request promises to come.
AwaitingOperator(c) ==
    state[c] \in {"submitted", "needs_reconciliation", "paid", "failed"}
Promised(c) == [reserved |-> AwaitingOperator(c),
                paid     |-> <<"cash", c>> \in ledger,
                failed   |-> resv[c] = "RELEASED"]
PromisingStates == {"reserved", "paid", "failed"}

\* What was begun is carried to its end, as long as no worker and no operator
\* dies: a reserved request reaches the point where an operator is asked to pay
\* it or to look at it, a payment that was recorded is posted to the ledger, a
\* confirmed failure gives its capacity back (validateAndApprove,
\* markPayoutPaid, resolveReconciliation).
NothingIsLostAlive ==
    \A c \in Calls, s \in PromisingStates :
        state[c] = s ~> Promised(c)[s] \/ crashes > 0

=============================================================================
