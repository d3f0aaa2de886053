------------------------------ MODULE MCPayout ------------------------------
(***************************************************************************)
(* Small instances of Payout for TLC.  Money is scaled: a starting balance *)
(* of 10, a retained buffer of 2 and a drawdown allowance of 4, with gross *)
(* withdrawals of 2 or 4 that pay 1 or 2 in cash.                          *)
(***************************************************************************)
EXTENDS PayoutInvariant

CONSTANTS c1, c2, c3

\* Every call carries a key of its own ...
OwnKeys == [c \in Calls |-> c]

\* ... or c1 and c2 are one request sent twice.
SharedKeys == [c \in Calls |-> IF c = c2 THEN c1 ELSE c]

\* A gain, and a loss that reaches the daily limit.
GainOrLoss == {4, -4}

=============================================================================
