------------------------------- MODULE MCRisk -------------------------------
(***************************************************************************)
(* Small instances of Risk.  A starting balance of 10, a drawdown of 4 and *)
(* a session loss limit of 2: one loss of 2 pauses, one of 4 pauses and    *)
(* breaches, a gain raises the threshold.                                  *)
(***************************************************************************)
EXTENDS Risk

CONSTANTS p1, p2, o1, o2

WinOrLose == {2, -4}
Lose == {-4}
=============================================================================
