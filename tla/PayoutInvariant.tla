-------------------------- MODULE PayoutInvariant --------------------------
(***************************************************************************)
(* The inductive invariant behind the safety of the payout saga, for       *)
(* workers that finish or die within the five minutes after which their    *)
(* claim is recovered (SlowWorkers = FALSE).  The properties themselves    *)
(* only relate the rail to the other records; they are not inductive       *)
(* because they do not say which request a worker or an operator holds in  *)
(* which state while it is between two of its steps.                       *)
(***************************************************************************)
EXTENDS Payout

\* A request whose cash has not been handed over and not been refused.
Fresh == {"reserved", "validating", "approved", "submitted"}

\* A row of the job table exists only for a request, and the submit job only
\* for one that was approved and whose obligation was accrued.
JobInv ==
    \A c \in Calls :
        /\ state[c] = NoRow =>
              /\ jobs[<<"validate", c>>] = "none"
              /\ resv[c] = "NONE"
              /\ <<"deduct", c>> \notin prov.done
              /\ <<"reverse", c>> \notin prov.done
        /\ jobs[<<"submit", c>>] # "none" =>
              /\ state[c] \notin {NoRow, "reserved", "validating"}
              /\ <<"accrue", c>> \in ledger

\* What a busy worker knows about the request it works on.
WorkerPhase(w, c) ==
    /\ At(w, "v_mark") => state[c] = "reserved"
    /\ worker[w].pc \in {"v_account", "v_decide", "v_approve", "v_park"}
          => state[c] = "validating"
    /\ worker[w].pc \in {"v_accrue", "v_enqueue"} =>
          /\ state[c] = "approved"
          /\ jobs[<<"submit", c>>] = "none"
    /\ At(w, "v_enqueue") => <<"accrue", c>> \in ledger
    /\ worker[w].pc \in {"s_deduct", "s_park", "s_mark"}
          => state[c] = "approved"
    /\ At(w, "s_mark") => <<"deduct", c>> \in prov.done

ValidatePCs == {"v_read", "v_mark", "v_account", "v_decide", "v_park",
                "v_approve", "v_accrue", "v_enqueue"}
SubmitPCs == {"s_read", "s_deduct", "s_park", "s_mark", "s_local"}

\* Steps at which a worker relies on nothing it read about its request.
CalmPCs == {"v_read", "s_read", "s_local", "finish"}

\* A busy worker holds the claim of its job, alone.
BusyInv(w) ==
    /\ jobs[<<worker[w].stage, worker[w].call>>] = "claimed"
    /\ worker[w].pc \in ValidatePCs => worker[w].stage = "validate"
    /\ worker[w].pc \in SubmitPCs => worker[w].stage = "submit"
    /\ WorkerPhase(w, worker[w].call)

WorkerInv == \A w \in Workers : ~At(w, "idle") => BusyInv(w)

ExclusiveInv ==
    \A v, w \in Workers :
        /\ v # w
        /\ ~At(v, "idle")
        /\ ~At(w, "idle")
        => <<worker[v].stage, worker[v].call>>
              # <<worker[w].stage, worker[w].call>>

\* What a busy operator knows about the payment it records.
OperatorPhase(o, c) ==
    /\ Handling(o, "paid_mark") =>
          /\ rail[c] = "sent"
          /\ state[c] \in {"submitted", "needs_reconciliation", "paid"}
    /\ Handling(o, "paid_post") =>
          /\ rail[c] = "sent"
          /\ state[c] \in {"needs_reconciliation", "paid"}
    /\ Handling(o, "unknown_mark") => rail[c] # "idle"
    /\ Handling(o, "fail_mark") =>
          /\ rail[c] \in {"idle", "bounced"}
          /\ state[c] \in {"submitted", "needs_reconciliation", "failed"}
    /\ oper[o].pc \in {"fail_credit", "fail_local"} =>
          /\ rail[c] \in {"idle", "bounced"}
          /\ state[c] \in {"needs_reconciliation", "failed"}

OperatorInv ==
    \A o \in Operators : ~Handling(o, "idle") => OperatorPhase(o, oper[o].call)

\* How the reservation, the deduction, the ledger and the rail of one request
\* go together.
MoneyOf(c) ==
    /\ state[c] \in Fresh =>
          resv[c] = "ACTIVE" /\ <<"reverse", c>> \notin prov.done
    /\ state[c] = "submitted" =>
          <<"deduct", c>> \in prov.done /\ <<"accrue", c>> \in ledger
    /\ rail[c] # "idle" =>
          /\ state[c] \in {"submitted", "needs_reconciliation", "paid", "failed"}
          /\ <<"accrue", c>> \in ledger
    /\ CashMoving(c) =>
          /\ state[c] # "failed"
          /\ <<"deduct", c>> \in prov.done
          /\ <<"reverse", c>> \notin prov.done
          /\ resv[c] \in {"ACTIVE", "CONSUMED"}
    /\ state[c] = "paid" => rail[c] = "sent"
    /\ resv[c] = "CONSUMED" => rail[c] = "sent"
    /\ state[c] # NoRow => resv[c] # "NONE"
    /\ <<"cash", c>> \in ledger =>
          resv[c] = "CONSUMED" /\ <<"settle", c>> \in ledger

MoneyInv == \A c \in Calls : MoneyOf(c)

\* Pending and paid cash together stay within both caps.
CapsInv ==
    /\ \A d \in Days : Total(Cash, HeldOn(d)) <= DailyCap
    /\ Capped => Total(Cash, Held) <= LifetimeCap

SafetyInv == JobInv /\ WorkerInv /\ ExclusiveInv /\ OperatorInv /\ MoneyInv

=============================================================================
