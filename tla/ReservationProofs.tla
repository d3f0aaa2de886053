------------------------- MODULE ReservationProofs -------------------------
(***************************************************************************)
(* The capacity model of reservation.ts keeps both caps, for any number of *)
(* requests and sessions.                                                  *)
(***************************************************************************)
EXTENDS Reservation, SumProofs

\* Each request has one reservation, of one status, session and amount.
THEOREM ReservationTyped == ReservationSpec => []ReservationTypeOK
<1>1. ReservationInit => ReservationTypeOK
  BY DEF ReservationInit, ReservationTypeOK, ReservationStatus
<1>2. ReservationTypeOK /\ [ReservationNext]_resvVars => ReservationTypeOK'
  BY DEF ReservationTypeOK, ReservationNext, Reserve, Consume, Release,
         resvVars, ReservationStatus
<1> QED
  BY <1>1, <1>2, PTL DEF ReservationSpec

\* Taking a reservation adds one request to what is held, in its session.
LEMMA ReserveHolds ==
    ASSUME ReservationTypeOK, NEW c \in Calls, NEW d \in Sessions,
           resv[c] = "NONE",
           resv' = [resv EXCEPT ![c] = "ACTIVE"],
           rday' = [rday EXCEPT ![c] = d]
    PROVE  /\ c \notin Held
           /\ Held' = Held \union {c}
           /\ HeldOn(d)' = HeldOn(d) \union {c}
           /\ \A e \in Sessions \ {d} : HeldOn(e)' = HeldOn(e)
BY DEF ReservationTypeOK, Held, HeldOn

\* Paying or releasing a reservation holds nothing new.
LEMMA SettleHolds ==
    ASSUME ReservationTypeOK, NEW c \in Calls, resv[c] = "ACTIVE",
           NEW s \in {"CONSUMED", "RELEASED"},
           resv' = [resv EXCEPT ![c] = s], rday' = rday
    PROVE  /\ Held' \subseteq Held
           /\ \A d \in Sessions : HeldOn(d)' \subseteq HeldOn(d)
BY DEF ReservationTypeOK, Held, HeldOn

LEMMA HeldIsFinite ==
    /\ IsFiniteSet(Held)
    /\ \A d : IsFiniteSet(HeldOn(d))
BY ReservationAssumption, FS_Subset DEF Held, HeldOn

\* The test of reserveCapacity is enough: when the amount is within what
\* remains of a cap that is respected, the cap stays respected.
LEMMA ReserveKeepsCap ==
    ASSUME NEW amount, NEW S, IsFiniteSet(S), \A e \in S : amount[e] \in Nat,
           NEW c, c \notin S, amount[c] \in Nat,
           NEW cap \in Nat, Total(amount, S) <= cap,
           amount[c] <= NonNegative(cap - Total(amount, S))
    PROVE  Total(amount, S \union {c}) <= cap
<1> DEFINE T == S \union {c}
<1>1. IsFiniteSet(T) /\ c \in T /\ T \ {c} = S /\ \A e \in T : amount[e] \in Int
  BY FS_AddElement
<1> HIDE DEF T
<1>2. SumOver(amount, T) = amount[c] + SumOver(amount, S)
  BY <1>1, SumRemove
<1>3. SumOver(amount, S) \in Nat
  BY SumGrows
<1> QED
  BY <1>2, <1>3 DEF T, Total, NonNegative

\* Pending and paid cash together never exceed the daily cap of any session
\* nor an approved lifetime cap: reserveCapacity's promise.
THEOREM CapsHold == ReservationSpec => []CapsRespected
<1>1. ReservationInit => CapsRespected
  <2> SUFFICES ASSUME ReservationInit PROVE CapsRespected
    OBVIOUS
  <2>1. Held = {} /\ \A d \in Sessions : HeldOn(d) = {}
    BY DEF ReservationInit, Held, HeldOn
  <2>2. Total(cash, {}) = 0
    BY SumEmpty DEF Total
  <2> QED
    BY <2>1, <2>2, RulesAssumption DEF CapsRespected
<1>2. ReservationTypeOK /\ CapsRespected /\ [ReservationNext]_resvVars
        => CapsRespected'
  <2> SUFFICES ASSUME ReservationTypeOK, CapsRespected,
                      [ReservationNext]_resvVars
               PROVE  CapsRespected'
    OBVIOUS
  <2>1. ASSUME NEW c \in Calls, Reserve(c) PROVE CapsRespected'
    <3>1. PICK d \in Sessions :
             /\ MayReserve(cash[c], Total(cash, HeldOn(d)), Total(cash, Held))
             /\ rday' = [rday EXCEPT ![c] = d]
      BY <2>1 DEF Reserve
    <3>2. /\ c \notin Held /\ c \notin HeldOn(d)
          /\ Held' = Held \union {c}
          /\ HeldOn(d)' = HeldOn(d) \union {c}
          /\ \A e \in Sessions \ {d} : HeldOn(e)' = HeldOn(e)
      BY <2>1, <3>1, ReserveHolds DEF Reserve, HeldOn
    <3>3. cash' = cash /\ \A e \in Calls : cash[e] \in Nat
      BY <2>1, MaxCashAssumption DEF Reserve, ReservationTypeOK
    <3> DEFINE Amounts(S) == IsFiniteSet(S) /\ \A e \in S : cash[e] \in Nat
    <3>0. Amounts(Held) /\ Amounts(HeldOn(d)) /\ cash[c] \in Nat
      BY <3>3, HeldIsFinite DEF Held, HeldOn
    <3>4. Total(cash, HeldOn(d) \union {c}) <= DailyCap
      <4>1. cash[c] <= NonNegative(DailyCap - Total(cash, HeldOn(d)))
        BY <3>1 DEF MayReserve, RemainingDaily
      <4>2. Total(cash, HeldOn(d)) <= DailyCap
        BY DEF CapsRespected
      <4> QED
        BY <3>2, <3>0, <4>1, <4>2, ReserveKeepsCap, RulesAssumption
    <3>5. ASSUME Capped
          PROVE  Total(cash, Held \union {c}) <= LifetimeCap
      <4>1. cash[c] <= NonNegative(LifetimeCap - Total(cash, Held))
        BY <3>1, <3>5 DEF MayReserve, RemainingLifetime
      <4>2. Total(cash, Held) <= LifetimeCap
        BY <3>5 DEF CapsRespected
      <4> QED
        BY <3>2, <3>0, <4>1, <4>2, ReserveKeepsCap, RulesAssumption
    <3>6. ASSUME NEW e \in Sessions
          PROVE  Total(cash, HeldOn(e))' <= DailyCap
      <4>1. CASE e = d
        BY <3>2, <3>3, <3>4, <4>1
      <4>2. CASE e # d
        BY <3>2, <3>3, <4>2 DEF CapsRespected
      <4> QED
        BY <4>1, <4>2
    <3>7. Capped => Total(cash, Held)' <= LifetimeCap
      BY <3>2, <3>3, <3>5
    <3> QED
      BY <3>6, <3>7 DEF CapsRespected
  <2>2. ASSUME NEW c \in Calls, Consume(c) \/ Release(c)
        PROVE  CapsRespected'
    <3>1. /\ cash' = cash
          /\ Held' \subseteq Held
          /\ \A d \in Sessions : HeldOn(d)' \subseteq HeldOn(d)
      BY <2>2, SettleHolds DEF Consume, Release
    <3>2. ASSUME NEW S \in SUBSET Calls, NEW T \in SUBSET S
          PROVE  /\ Total(cash, T) <= Total(cash, S)
                 /\ Total(cash, T) \in Nat
                 /\ Total(cash, S) \in Nat
      <4>1. IsFiniteSet(S) /\ \A e \in S : cash[e] \in Nat
        BY ReservationAssumption, MaxCashAssumption, FS_Subset DEF ReservationTypeOK
      <4> QED
        BY <4>1, SumGrows DEF Total
    <3>3. /\ Total(cash, Held)' <= Total(cash, Held)
          /\ Total(cash, Held)' \in Nat /\ Total(cash, Held) \in Nat
      BY <3>1, <3>2 DEF Held
    <3>4. ASSUME NEW d \in Sessions
          PROVE  /\ Total(cash, HeldOn(d))' <= Total(cash, HeldOn(d))
                 /\ Total(cash, HeldOn(d))' \in Nat
                 /\ Total(cash, HeldOn(d)) \in Nat
      BY <3>1, <3>2 DEF Held, HeldOn
    <3>5. ASSUME NEW d \in Sessions
          PROVE  Total(cash, HeldOn(d))' <= DailyCap
      BY <3>4, <3>5, RulesAssumption DEF CapsRespected
    <3>6. Capped => Total(cash, Held)' <= LifetimeCap
      BY <3>3, RulesAssumption DEF CapsRespected
    <3> QED
      BY <3>5, <3>6 DEF CapsRespected
  <2>3. CASE UNCHANGED resvVars
    BY <2>3 DEF resvVars, CapsRespected, Held, HeldOn
  <2>4. CASE ReservationNext
    <3>1. PICK c \in Calls : Reserve(c) \/ Consume(c) \/ Release(c)
      BY <2>4 DEF ReservationNext
    <3> QED
      BY <2>1, <2>2, <3>1
  <2> QED
    BY <2>3, <2>4
<1> QED
  BY <1>1, <1>2, ReservationTyped, PTL DEF ReservationSpec

\* What was paid is never handed back, and what was released is not paid.
THEOREM SettledForGood == ReservationSpec => SettledIsFinal
<1>1. ReservationTypeOK /\ [ReservationNext]_resvVars => [SettledStep]_resv
  BY DEF ReservationTypeOK, ReservationNext, Reserve, Consume, Release,
         resvVars, SettledStep
<1> QED
  BY <1>1, ReservationTyped, PTL DEF ReservationSpec, SettledIsFinal

=============================================================================
