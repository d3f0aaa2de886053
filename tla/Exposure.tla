------------------------------- MODULE Exposure -------------------------------
(***************************************************************************)
(* Position and pending-order exposure: src/domain/risk/exposure.ts, put   *)
(* to the use its header describes.  An account holds positions and working *)
(* orders; every new entry order is first put to evaluateNewOrder; orders   *)
(* then fill, are replaced by their one-cancels-other sibling, or are       *)
(* cancelled, in any order.                                                 *)
(*                                                                         *)
(* Contracts are counted in micro-equivalents.  A mini is MicrosPerMini     *)
(* micros, ten in the code.                                                 *)
(***************************************************************************)
EXTENDS Integers, FiniteSets, Sums

CONSTANTS
    Symbols,        \* instruments somebody may order
    GroupOf,        \* netting group of each configured instrument
    MicrosOf,       \* micro-equivalents of one of its contracts
    Approved,       \* instruments whose risk controls are approved
    Slots,          \* working orders an account may have at once
    OcoGroups,      \* names of one-cancels-other groups
    Quantities,     \* signed quantities that may be ordered
    MicrosPerMini,
    CeilingMinis, CeilingMicros,
    MaxOrders       \* bound on orders

Configured == DOMAIN GroupOf
Groups == {GroupOf[s] : s \in Configured}
Alone == "none"     \* ocoGroupId of a standalone order
NoOrderHere == [sym |-> "none", qty |-> 0, oco |-> Alone]

ASSUME ExposureAssumption ==
    /\ Configured \subseteq Symbols /\ IsFiniteSet(Configured)
    /\ MicrosOf \in [Configured -> Nat \ {0}]
    /\ Approved \subseteq Configured
    /\ Quantities \subseteq Int \ {0}
    /\ Alone \notin OcoGroups /\ IsFiniteSet(Slots)
    /\ CeilingMicros \in Nat /\ MaxOrders \in Nat

VARIABLES
    position,   \* signed contracts held, by instrument
    working,    \* the working entry orders
    ordered     \* orders placed so far

bookVars == <<position, working, ordered>>

BookInit ==
    /\ position = [s \in Configured |-> 0]
    /\ working = [i \in Slots |-> NoOrderHere]
    /\ ordered = 0

AbsOf(n) == IF n < 0 THEN -n ELSE n
Largest(S) == CHOOSE n \in S : \A m \in S : m <= n

\* ceilingToMicroEquivalents: an inconsistent pair of ceilings is an error.
CeilingIsConsistent == CeilingMinis * MicrosPerMini = CeilingMicros

-----------------------------------------------------------------------------
(* computeExposure, over a set of working orders.                          *)

OrderUnits(o) == o.qty * MicrosOf[o.sym]
InGroup(orders, g) == {o \in orders : GroupOf[o.sym] = g}

NetFilled(held, g) ==
    SumOver([s \in Configured |-> held[s] * MicrosOf[s]],
            {s \in Configured : GroupOf[s] = g})

\* The leg of a one-cancels-other set with the largest size, on its side.
WorstLeg(legs) ==
    LET most == Largest({AbsOf(OrderUnits(o)) : o \in legs}) IN
    OrderUnits(CHOOSE o \in legs : AbsOf(OrderUnits(o)) = most)

\* What may still be bought (side 1) or sold (side -1) in a group.
PendingAlone(orders, side) ==
    SumOver([o \in orders |-> AbsOf(OrderUnits(o))],
            {o \in orders : o.oco = Alone /\ side * o.qty > 0})
OcosOf(orders) == {o.oco : o \in orders} \ {Alone}
LegsOf(orders, x) == {o \in orders : o.oco = x}
PendingLegs(orders, side) ==
    LET worst == [x \in OcosOf(orders) |-> WorstLeg(LegsOf(orders, x))] IN
    SumOver([x \in OcosOf(orders) |-> AbsOf(worst[x])],
            {x \in OcosOf(orders) : side * worst[x] > 0})
Pending(orders, side) == PendingAlone(orders, side) + PendingLegs(orders, side)

\* Faulty variant: buys and sells that work at the same time are netted.
GroupWorstCaseNetted(held, orders, g) ==
    LET net == NetFilled(held, g)
        some == InGroup(orders, g) IN
    AbsOf(net + Pending(some, 1) - Pending(some, -1))

GroupWorstCase(held, orders, g) ==
    LET net == NetFilled(held, g)
        some == InGroup(orders, g) IN
    Largest({AbsOf(net), AbsOf(net + Pending(some, 1)),
             AbsOf(net - Pending(some, -1))})

\* Groups never offset each other.
TotalWorstCase(held, orders) ==
    SumOver([g \in Groups |-> GroupWorstCase(held, orders, g)], Groups)
AfterFilling(held, filled) ==
    [s \in Configured |->
        held[s] + SumOver([o \in filled |-> o.qty], {o \in filled : o.sym = s})]
TotalFilled(held) == SumOver([g \in Groups |-> AbsOf(NetFilled(held, g))], Groups)

-----------------------------------------------------------------------------

\* The slot tells two orders apart that are otherwise the same.
Order(i) == [sym |-> working[i].sym, qty |-> working[i].qty,
             oco |-> working[i].oco, slot |-> i]
Busy == {i \in Slots : working[i] # NoOrderHere}
WorkingOrders == {Order(i) : i \in Busy}

\* evaluateNewOrder: refuse what is not configured, what is not approved, held
\* or wanted, and what could exceed the ceiling.
Allowed(candidate) ==
    /\ candidate.sym \in Configured
    /\ candidate.sym \in Approved
    /\ {o.sym : o \in WorkingOrders} \subseteq Approved
    /\ \A s \in Configured : position[s] # 0 => s \in Approved
    /\ TotalWorstCase(position, WorkingOrders \union {candidate}) <= CeilingMicros

\* An entry order, alone or as a leg whose siblings are on the same side.
Submit ==
    /\ ordered < MaxOrders
    /\ CeilingIsConsistent
    /\ \E i \in Slots \ Busy, s \in Symbols, q \in Quantities,
          x \in OcoGroups \union {Alone} :
          /\ x = Alone \/ \A o \in WorkingOrders : o.oco = x =>
                o.sym = s /\ o.qty * q > 0
          /\ Allowed([sym |-> s, qty |-> q, oco |-> x, slot |-> i])
          /\ working' = [working EXCEPT ![i] = [sym |-> s, qty |-> q, oco |-> x]]
    /\ ordered' = ordered + 1
    /\ UNCHANGED position

Fill(i) ==
    /\ i \in Busy
    /\ position' = [position EXCEPT ![working[i].sym] = @ + working[i].qty]
    /\ working' = [j \in Slots |->
          IF j = i \/ (working[i].oco # Alone /\ working[j].oco = working[i].oco)
          THEN NoOrderHere ELSE working[j]]
    /\ UNCHANGED ordered

CancelOrder(i) ==
    /\ i \in Busy
    /\ working' = [working EXCEPT ![i] = NoOrderHere]
    /\ UNCHANGED <<position, ordered>>

BookNext == Submit \/ \E i \in Slots : Fill(i) \/ CancelOrder(i)

-----------------------------------------------------------------------------
(* Properties.                                                             *)

\* "Two working entry orders that would each fit under the cap must not be
\* allowed to fill simultaneously and exceed it": whatever fills in whatever
\* order, contracts held stay within the ceiling and are approved, and no set
\* of orders that may still fill could take them beyond it.  (True of entry
\* orders.  A reduce order, which is not counted, or a leg opposite to its
\* siblings can take the account beyond the ceiling: see the README.)
FillsStayBelowCeiling ==
    /\ TotalFilled(position) <= CeilingMicros
    /\ TotalWorstCase(position, WorkingOrders) <= CeilingMicros
    /\ \A s \in Configured : position[s] # 0 => s \in Approved
    /\ \A filled \in SUBSET WorkingOrders :
          (\A o, p \in filled : o.oco # Alone /\ o.oco = p.oco => o = p) =>
             TotalFilled(AfterFilling(position, filled)) <= CeilingMicros

=============================================================================
