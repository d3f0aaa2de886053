------------------------------ MODULE CashTotal ------------------------------
(***************************************************************************)
(* The sum of the cash amounts of a set of reservations (sumWhere in       *)
(* src/domain/payout/reservation.ts).                                      *)
(***************************************************************************)
EXTENDS Sums

CONSTANT MaxCash    \* no single reservation holds more cash units than this

ASSUME MaxCashAssumption == MaxCash \in Nat

Total(amount, S) == SumOver(amount, S)

=============================================================================
