----------------------------- MODULE Reservation -----------------------------
(***************************************************************************)
(* What the payout service promises about cash capacity, as the pure model *)
(* of src/domain/payout/reservation.ts states it: capacity is reserved at  *)
(* request time against the session of the request and against the         *)
(* account's lifetime, a reservation is consumed only while ACTIVE, and    *)
(* one that has been paid is never released.                               *)
(*                                                                         *)
(* Payout.tla is shown to implement this specification although the        *)
(* service never calls consumeReservation or releaseReservation: it writes *)
(* the status column directly, in two different handlers.                  *)
(***************************************************************************)
EXTENDS PayoutRules, CashTotal

CONSTANTS
    Calls,      \* every payout request ever attempted on the account
    Sessions    \* trading session dates

ASSUME ReservationAssumption == IsFiniteSet(Calls)

VARIABLES
    resv,       \* status of the reservation of each request
    rday,       \* its session date
    cash        \* its cash amount

resvVars == <<resv, rday, cash>>

ReservationStatus == {"NONE", "ACTIVE", "CONSUMED", "RELEASED"}

\* ACTIVE (pending) and CONSUMED (paid) reservations count; RELEASED do not.
Held == {c \in Calls : resv[c] \in {"ACTIVE", "CONSUMED"}}

HeldOn(d) == {c \in Held : rday[c] = d}

-----------------------------------------------------------------------------

ReservationInit ==
    /\ resv = [c \in Calls |-> "NONE"]
    /\ rday \in [Calls -> Sessions]
    /\ cash \in [Calls -> 1 .. MaxCash]

\* reserveCapacity: session d is the one the request was validated in.
Reserve(c) ==
    /\ resv[c] = "NONE"
    /\ \E d \in Sessions :
          /\ MayReserve(cash[c], Total(cash, HeldOn(d)), Total(cash, Held))
          /\ rday' = [rday EXCEPT ![c] = d]
    /\ resv' = [resv EXCEPT ![c] = "ACTIVE"]
    /\ UNCHANGED cash

\* Faulty variant: a status the schema does not know.
ConsumeUnknown(c) ==
    /\ resv[c] = "ACTIVE"
    /\ resv' = [resv EXCEPT ![c] = "PAID"]
    /\ UNCHANGED <<rday, cash>>

\* consumeReservation throws unless the reservation is ACTIVE.
Consume(c) ==
    /\ resv[c] = "ACTIVE"
    /\ resv' = [resv EXCEPT ![c] = "CONSUMED"]
    /\ UNCHANGED <<rday, cash>>

\* Faulty variant: a paid reservation may be released.
ReleaseAny(c) ==
    /\ resv[c] # "NONE"
    /\ resv' = [resv EXCEPT ![c] = "RELEASED"]
    /\ UNCHANGED <<rday, cash>>

\* releaseReservation throws on a CONSUMED reservation.
Release(c) ==
    /\ resv[c] = "ACTIVE"
    /\ resv' = [resv EXCEPT ![c] = "RELEASED"]
    /\ UNCHANGED <<rday, cash>>

ReservationNext == \E c \in Calls : Reserve(c) \/ Consume(c) \/ Release(c)

ReservationSpec == ReservationInit /\ [][ReservationNext]_resvVars

-----------------------------------------------------------------------------

\* Each request has one reservation, of one status, session and amount.
ReservationTypeOK ==
    /\ resv \in [Calls -> ReservationStatus]
    /\ rday \in [Calls -> Sessions]
    /\ cash \in [Calls -> 1 .. MaxCash]

\* Pending and paid cash together never exceed the daily cap of any session
\* nor an approved lifetime cap, whatever was reserved, paid and released
\* before (computeRemainingCapacity, reserveCapacity).
CapsRespected ==
    /\ \A d \in Sessions : Total(cash, HeldOn(d)) <= DailyCap
    /\ Capped => Total(cash, Held) <= LifetimeCap

\* A paid reservation is never released, a released one is never paid, and
\* neither is taken again (consumeReservation, releaseReservation).
SettledStep ==
    \A c \in Calls : resv[c] \in {"CONSUMED", "RELEASED"} => resv'[c] = resv[c]
SettledIsFinal == [][SettledStep]_resv

=============================================================================
