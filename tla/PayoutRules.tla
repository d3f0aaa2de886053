----------------------------- MODULE PayoutRules -----------------------------
(***************************************************************************)
(* The pure payout arithmetic: remaining cash capacity and reservation     *)
(* (src/domain/payout/reservation.ts), maximum gross withdrawal and        *)
(* request validation (src/domain/payout/eligibility.ts).                  *)
(*                                                                         *)
(* Money is counted in half-increments: a gross amount is a number of      *)
(* them, its cash half is gross \div 2, and Increment (two of them in the  *)
(* code: one dollar, paying fifty cents) is what a gross amount must be a  *)
(* multiple of.                                                            *)
(***************************************************************************)
EXTENDS Integers, FiniteSets

CONSTANTS
    DailyCap,       \* cash one account may be paid per trading session
    LifetimeCap,    \* cash one account may be paid in all ...
    Capped,         \* ... unless an uncapped policy has been approved
    StartBalance,   \* S, the starting simulated balance
    Buffer,         \* B, the retained profit buffer
    MinRoom,        \* room that must stay above the trailing threshold
    MinGross,       \* the smallest gross withdrawal
    Increment       \* gross withdrawals are multiples of this

ASSUME RulesAssumption ==
    /\ DailyCap \in Nat
    /\ LifetimeCap \in Nat
    /\ Capped \in BOOLEAN
    /\ StartBalance \in Nat
    /\ Buffer \in Nat
    /\ MinRoom \in Nat
    /\ MinGross \in Nat \ {0}
    /\ Increment \in Nat \ {0}
    /\ Increment % 2 = 0

NonNegative(v) == IF v < 0 THEN 0 ELSE v

Least(a, b) == IF a <= b THEN a ELSE b

\* The trader's real cash share of a gross withdrawal: exactly half.
CashForGross(gross) == gross \div 2

FloorToIncrement(v) == v - (v % Increment)

(***************************************************************************)
(* computeRemainingCapacity and reserveCapacity, given the cash already    *)
(* held (ACTIVE or CONSUMED reservations) in the session and in all.  An   *)
(* uncapped lifetime policy is `null' in the code: no bound applies.       *)
(***************************************************************************)
RemainingDaily(heldToday) == NonNegative(DailyCap - heldToday)

RemainingLifetime(heldEver) == NonNegative(LifetimeCap - heldEver)

\* Faulty variant: only the daily cap is tested.
MayReserveToday(cash, heldToday, heldEver) == cash <= RemainingDaily(heldToday)

MayReserve(cash, heldToday, heldEver) ==
    /\ cash <= RemainingDaily(heldToday)
    /\ Capped => cash <= RemainingLifetime(heldEver)

\* Faulty variant: the retained buffer is not kept back.
AccountLimitNoBuffer(balance, threshold) ==
    Least(NonNegative(balance - StartBalance),
          NonNegative(balance - threshold - MinRoom))

(***************************************************************************)
(* computeCapacity: the largest gross withdrawal is the least of the       *)
(* profit above the buffer, twice the remaining cash of each cap, and the  *)
(* room above the trailing threshold, floored to the increment.  The two   *)
(* bounds that depend on the account row come first, because the service   *)
(* reads that row before it reads the reservations.                        *)
(***************************************************************************)
AccountLimit(balance, threshold) ==
    Least(NonNegative(balance - StartBalance - Buffer),
          NonNegative(balance - threshold - MinRoom))

CapLimit(dailyLeft, lifetimeLeft) ==
    IF Capped THEN Least(2 * dailyLeft, 2 * lifetimeLeft) ELSE 2 * dailyLeft

MaxGross(accountLimit, dailyLeft, lifetimeLeft) ==
    FloorToIncrement(Least(accountLimit, CapLimit(dailyLeft, lifetimeLeft)))

\* The amount tests of validateRequest, after its preconditions.
GrossAllowed(gross, maxGross) ==
    /\ gross >= MinGross
    /\ gross % Increment = 0
    /\ gross <= maxGross

=============================================================================
