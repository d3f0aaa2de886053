---------------------------- MODULE PayoutStates ----------------------------
(***************************************************************************)
(* The payout request lifecycle of src/domain/payout/state-machine.ts: the *)
(* states a PayoutRequest row can be in and the table of transitions that  *)
(* assertTransition() consults.  Nothing here has state; Payout.tla uses   *)
(* the table as the guard of every recordTransition() call.                *)
(***************************************************************************)

\* A request that no row exists for yet.
NoRow == "absent"

PayoutState == {"requested", "reserved", "validating", "approved",
                "submitted", "paid", "failed", "canceled", "rejected",
                "needs_reconciliation"}

TerminalStates == {"paid", "canceled", "rejected"}

\* The states a request may move to from s.
Transitions(s) ==
    CASE s = "requested"  -> {"reserved", "rejected", "canceled"}
      [] s = "reserved"   -> {"validating", "rejected", "canceled"}
      [] s = "validating" -> {"approved", "rejected", "canceled",
                              "needs_reconciliation"}
      [] s = "approved"   -> {"submitted", "canceled",
                              "needs_reconciliation"}
      [] s = "submitted"  -> {"paid", "failed", "needs_reconciliation"}
      [] s = "failed"     -> {"approved", "needs_reconciliation", "canceled"}
      [] s = "needs_reconciliation" -> {"paid", "failed", "canceled",
                                        "approved"}
      [] OTHER -> {}

CanTransition(from, to) == to \in Transitions(from)

=============================================================================
