------------------------------ MODULE RiskRules ------------------------------
(***************************************************************************)
(* The pure risk arithmetic applied to every authoritative snapshot: the   *)
(* trailing drawdown threshold (src/domain/risk/trailing.ts) and the       *)
(* session loss limit (src/domain/risk/daily-loss.ts).                     *)
(***************************************************************************)
EXTENDS Integers

CONSTANTS
    Drawdown,       \* the drawdown allowance D of T = H - D
    Stops,          \* whether the threshold ever stops rising ...
    StopAt,         \* ... and the balance at which it does
    DailyLossLimit  \* session loss at which trading pauses

ASSUME RiskAssumption ==
    /\ Drawdown \in Nat
    /\ Stops \in BOOLEAN
    /\ StopAt \in Int
    /\ DailyLossLimit \in Nat

Larger(a, b) == IF a >= b THEN a ELSE b

ComputeThreshold(highWater) ==
    LET trailing == highWater - Drawdown IN
    IF Stops /\ StopAt < trailing THEN StopAt ELSE trailing

\* applyEquityObservation: neither H nor T ever moves down.
NextHighWater(highWater, equity) == Larger(highWater, equity)

NextThreshold(threshold, highWater, equity) ==
    Larger(threshold, ComputeThreshold(NextHighWater(highWater, equity)))

IsTrailingBreached(threshold, equity) == equity <= threshold

\* Session trading result; what was withdrawn is not a loss.
SessionPnl(sessionStart, withdrawals, equity) ==
    equity - sessionStart + withdrawals

DailyLossUsed(sessionStart, withdrawals, equity) ==
    LET pnl == SessionPnl(sessionStart, withdrawals, equity) IN
    IF pnl < 0 THEN -pnl ELSE 0

IsDailyLossBreached(sessionStart, withdrawals, equity) ==
    DailyLossUsed(sessionStart, withdrawals, equity) >= DailyLossLimit

=============================================================================
