---------------------------- MODULE TotalsProofs ----------------------------
(*****************************************************************************)
(* What adds up: the contracts that positions and working orders may come    *)
(* to (exposure.ts), what the four ledgers say (domain/ledger), how a        *)
(* discount is shared out and comes back (allocate.ts, quote.ts), and what   *)
(* the console and the dashboard derive (forecasts, pages read while rows    *)
(* change, statistics, matched trades and their clusters), for any number of *)
(* rows.  RulesProofs states the theorems of the whole.                      *)
(*****************************************************************************)
EXTENDS Exposure, Books, Promotions, Analytics, Overview, Forecast,
        SumProofs, SequenceTheorems, FunctionTheorems

-----------------------------------------------------------------------------
(* The ceiling on contracts. *)

\* What the checks rely on: orders of configured instruments, and the legs of a
\* one-cancels-other set on one instrument and one side.
OrdersAgree(orders) ==
    /\ IsFiniteSet(orders)
    /\ \A o \in orders : o.sym \in Configured /\ o.qty \in Int \ {0}
    /\ \A o, p \in orders : o.oco # Alone /\ o.oco = p.oco
          => o.sym = p.sym /\ (o.qty > 0 <=> p.qty > 0)

LEMMA UnitsHaveSide ==
    ASSUME NEW o, o.sym \in Configured, o.qty \in Int \ {0}
    PROVE  /\ OrderUnits(o) \in Int
           /\ OrderUnits(o) > 0 <=> o.qty > 0
           /\ OrderUnits(o) < 0 <=> o.qty < 0
<1> DEFINE q == o.qty
           m == MicrosOf[o.sym]
<1>1. q \in Int \ {0} /\ m \in Nat \ {0} /\ OrderUnits(o) = q * m
  BY ExposureAssumption DEF OrderUnits
<1> HIDE DEF q, m
<1>2. q * m \in Int /\ (q > 0 <=> q * m > 0) /\ (q < 0 <=> q * m < 0)
  BY <1>1
<1> QED
  BY <1>1, <1>2 DEF q

LEMMA AbsIs == \A n \in Int : AbsOf(n) \in Nat /\ (n >= 0 => AbsOf(n) = n) /\ (n < 0 => AbsOf(n) = -n)
BY DEF AbsOf

LEMMA LargestIs ==
    ASSUME NEW S, IsFiniteSet(S), S # {}, \A n \in S : n \in Int
    PROVE  Largest(S) \in S /\ \A n \in S : n <= Largest(S)
BY LargestExists DEF Largest

\* The leg counted is a leg, and no other is larger.
LEMMA WorstLegIs ==
    ASSUME NEW orders, OrdersAgree(orders), NEW x \in OcosOf(orders)
    PROVE  /\ \E o \in orders : o.oco = x /\ WorstLeg(LegsOf(orders, x)) = OrderUnits(o)
           /\ \A o \in orders : o.oco = x =>
                 AbsOf(OrderUnits(o)) <= AbsOf(WorstLeg(LegsOf(orders, x)))
<1> DEFINE legs == LegsOf(orders, x)
           size == [o \in legs |-> AbsOf(OrderUnits(o))]
           sizes == {size[o] : o \in legs}
<1>1. legs # {} /\ legs \subseteq orders /\ \A o \in orders : o.oco = x => o \in legs
  BY DEF OcosOf, LegsOf
<1>2. \A o \in legs : o.oco = x
  BY DEF LegsOf
<1> HIDE DEF legs
<1>3. IsFiniteSet(legs)
  BY <1>1, FS_Subset DEF OrdersAgree
<1>4. \A o \in legs : size[o] = AbsOf(OrderUnits(o)) /\ size[o] \in Int
  <2> TAKE o \in legs
  <2>1. o.sym \in Configured /\ o.qty \in Int \ {0}
    BY <1>1 DEF OrdersAgree
  <2> QED
    BY <2>1, UnitsHaveSide, AbsIs
<1>5. {AbsOf(OrderUnits(o)) : o \in legs} = sizes
  OBVIOUS
<1> HIDE DEF size
<1>6. IsFiniteSet(sizes) /\ sizes # {} /\ \A n \in sizes : n \in Int
  BY <1>1, <1>3, <1>4, ImageFinite
<1> DEFINE most == Largest(sizes)
<1>7. most \in sizes /\ \A n \in sizes : n <= most
  <2> HIDE DEF sizes
  <2> QED
    BY <1>6, LargestIs
<1>8. \E o \in legs : AbsOf(OrderUnits(o)) = most
  BY <1>4, <1>7
<1>9. \A o \in legs : AbsOf(OrderUnits(o)) <= most
  BY <1>4, <1>7
<1> HIDE DEF most
<1> DEFINE worst == CHOOSE o \in legs : AbsOf(OrderUnits(o)) = most
<1>10. worst \in legs /\ AbsOf(OrderUnits(worst)) = most
  BY <1>8
<1>11. WorstLeg(legs) = OrderUnits(worst)
  BY <1>5 DEF WorstLeg, most
<1> HIDE DEF worst
<1>12. \E o \in orders : o.oco = x /\ WorstLeg(legs) = OrderUnits(o)
  BY <1>1, <1>2, <1>10, <1>11
<1>13. ASSUME NEW o \in orders, o.oco = x
       PROVE  AbsOf(OrderUnits(o)) <= AbsOf(WorstLeg(legs))
  BY <1>1, <1>9, <1>10, <1>11, <1>13
<1> QED
  BY <1>12, <1>13 DEF legs

\* Its side is that of all the legs.
LEMMA WorstLegSide ==
    ASSUME NEW orders, OrdersAgree(orders), NEW o \in orders, o.oco # Alone
    PROVE  LET w == WorstLeg(LegsOf(orders, o.oco)) IN
           /\ o.oco \in OcosOf(orders)
           /\ w \in Int /\ AbsOf(w) \in Nat
           /\ AbsOf(OrderUnits(o)) <= AbsOf(w)
           /\ w > 0 <=> o.qty > 0
           /\ w < 0 <=> o.qty < 0
<1> DEFINE x == o.oco
           w == WorstLeg(LegsOf(orders, x))
<1>1. x \in OcosOf(orders)
  BY DEF OcosOf
<1>2. PICK p \in orders : p.oco = x /\ w = OrderUnits(p)
  BY <1>1, WorstLegIs
<1>3. AbsOf(OrderUnits(o)) <= AbsOf(w)
  BY <1>1, WorstLegIs
<1> HIDE DEF w
<1>4. p.qty \in Int \ {0} /\ p.sym \in Configured /\ o.qty \in Int \ {0}
  BY DEF OrdersAgree
<1>5. p.qty > 0 <=> o.qty > 0
  BY <1>2 DEF OrdersAgree
<1>6. w \in Int /\ (w > 0 <=> p.qty > 0) /\ (w < 0 <=> p.qty < 0)
  BY <1>2, <1>4, UnitsHaveSide
<1>7. (w > 0 <=> o.qty > 0) /\ (w < 0 <=> o.qty < 0)
  BY <1>4, <1>5, <1>6
<1> QED
  BY <1>1, <1>3, <1>6, <1>7, AbsIs DEF w

LEMMA SubsetAgrees ==
    ASSUME NEW orders, OrdersAgree(orders), NEW some \in SUBSET orders
    PROVE  OrdersAgree(some)
BY FS_Subset DEF OrdersAgree

LEMMA OcosFinite ==
    ASSUME NEW orders, IsFiniteSet(orders)
    PROVE  IsFiniteSet(OcosOf(orders))
<1> DEFINE f == [o \in orders |-> o.oco]
<1>1. IsFiniteSet({f[o] : o \in orders})
  <2> HIDE DEF f
  <2> QED
    BY ImageFinite
<1>2. {f[o] : o \in orders} = {o.oco : o \in orders}
  OBVIOUS
<1>3. IsFiniteSet({o.oco : o \in orders})
  BY <1>1, <1>2
<1> QED
  BY <1>3, FS_Subset DEF OcosOf

LEMMA SideIs ==
    ASSUME NEW side \in {1, -1}, NEW n \in Int, NEW k \in Int,
           n > 0 <=> k > 0, n < 0 <=> k < 0
    PROVE  side * n > 0 <=> side * k > 0
<1>1. CASE side = 1
  BY <1>1
<1>2. CASE side = -1
  BY <1>2
<1> QED
  BY <1>1, <1>2

\* Without some of the standalone orders less may be bought and sold, and one
\* that is taken out leaves room for its units.
LEMMA PendingAloneFalls ==
    ASSUME NEW orders, OrdersAgree(orders), NEW some \in SUBSET orders,
           NEW side \in {1, -1}
    PROVE  /\ PendingAlone(some, side) \in Nat /\ PendingAlone(orders, side) \in Nat
           /\ PendingAlone(some, side) <= PendingAlone(orders, side)
           /\ \A o \in orders \ some :
                 o.oco = Alone /\ side * o.qty > 0 =>
                    PendingAlone(some, side) + AbsOf(OrderUnits(o))
                       <= PendingAlone(orders, side)
<1> DEFINE f == [o \in orders |-> AbsOf(OrderUnits(o))]
           g == [o \in some |-> AbsOf(OrderUnits(o))]
           T == {o \in orders : o.oco = Alone /\ side * o.qty > 0}
           S == {o \in some : o.oco = Alone /\ side * o.qty > 0}
<1>1. PendingAlone(orders, side) = SumOver(f, T) /\ PendingAlone(some, side) = SumOver(g, S)
  BY DEF PendingAlone
<1>2. IsFiniteSet(T)
  BY FS_Subset DEF OrdersAgree
<1>3. \A o \in orders : f[o] = AbsOf(OrderUnits(o)) /\ f[o] \in Nat
  <2> TAKE o \in orders
  <2>1. o.sym \in Configured /\ o.qty \in Int \ {0}
    BY DEF OrdersAgree
  <2> QED
    BY <2>1, UnitsHaveSide, AbsIs
<1>4. S \in SUBSET T /\ \A o \in S : g[o] = f[o]
  OBVIOUS
<1>5. \A o \in T : f[o] \in Nat
  BY <1>3
<1>6. \A o \in S : g[o] \in Nat /\ g[o] <= f[o]
  BY <1>4, <1>5
<1>7. ASSUME NEW o \in orders \ some, o.oco = Alone, side * o.qty > 0
      PROVE  SumOver(g, S) + AbsOf(OrderUnits(o)) <= SumOver(f, T)
  <2>1. o \in T /\ S \in SUBSET (T \ {o})
    BY <1>7
  <2>2. f[o] = AbsOf(OrderUnits(o))
    BY <1>3
  <2> HIDE DEF f, g, T, S
  <2> QED
    BY <1>2, <1>5, <1>6, <2>1, <2>2, SumBelowWithout
<1> HIDE DEF f, g, T, S
<1>8. /\ SumOver(g, S) \in Nat /\ SumOver(f, T) \in Nat
      /\ SumOver(g, S) <= SumOver(f, T)
  BY <1>2, <1>4, <1>5, <1>6, SumBelow
<1> QED
  BY <1>1, <1>7, <1>8

\* The same of one-cancels-other sets, when a leg goes with all its siblings.
LEMMA PendingLegsFalls ==
    ASSUME NEW orders, OrdersAgree(orders), NEW some \in SUBSET orders,
           NEW side \in {1, -1}
    PROVE  /\ PendingLegs(some, side) \in Nat /\ PendingLegs(orders, side) \in Nat
           /\ PendingLegs(some, side) <= PendingLegs(orders, side)
           /\ \A o \in orders :
                 /\ o.oco # Alone /\ side * o.qty > 0
                 /\ \A p \in some : p.oco # o.oco
                 => PendingLegs(some, side) + AbsOf(OrderUnits(o))
                       <= PendingLegs(orders, side)
<1> DEFINE w == [x \in OcosOf(orders) |-> WorstLeg(LegsOf(orders, x))]
           v == [x \in OcosOf(some) |-> WorstLeg(LegsOf(some, x))]
           f == [x \in OcosOf(orders) |-> AbsOf(w[x])]
           g == [x \in OcosOf(some) |-> AbsOf(v[x])]
           T == {x \in OcosOf(orders) : side * w[x] > 0}
           S == {x \in OcosOf(some) : side * v[x] > 0}
<1>1. PendingLegs(orders, side) = SumOver(f, T) /\ PendingLegs(some, side) = SumOver(g, S)
  BY DEF PendingLegs
<1>2. OrdersAgree(some) /\ IsFiniteSet(T)
  <2>1. IsFiniteSet(OcosOf(orders)) /\ T \subseteq OcosOf(orders)
    BY OcosFinite DEF OrdersAgree
  <2> HIDE DEF T
  <2> QED
    BY <2>1, FS_Subset, SubsetAgrees
<1>3. ASSUME NEW o \in orders, o.oco # Alone
      PROVE  /\ o.oco \in OcosOf(orders) /\ w[o.oco] \in Int
             /\ f[o.oco] = AbsOf(w[o.oco]) /\ f[o.oco] \in Nat
             /\ AbsOf(OrderUnits(o)) <= f[o.oco]
             /\ side * w[o.oco] > 0 <=> side * o.qty > 0
  <2> DEFINE y == WorstLeg(LegsOf(orders, o.oco))
  <2>1. /\ o.oco \in OcosOf(orders)
        /\ y \in Int /\ AbsOf(y) \in Nat
        /\ AbsOf(OrderUnits(o)) <= AbsOf(y)
        /\ y > 0 <=> o.qty > 0
        /\ y < 0 <=> o.qty < 0
    BY <1>3, WorstLegSide
  <2>2. w[o.oco] = y /\ f[o.oco] = AbsOf(y)
    BY <2>1
  <2> HIDE DEF y, w, f
  <2>3. o.qty \in Int
    BY DEF OrdersAgree
  <2>4. side * y > 0 <=> side * o.qty > 0
    BY <2>1, <2>3, SideIs
  <2> QED
    BY <2>1, <2>2, <2>4
<1>4. ASSUME NEW o \in some, o.oco # Alone
      PROVE  /\ o.oco \in OcosOf(some) /\ v[o.oco] \in Int
             /\ g[o.oco] = AbsOf(v[o.oco]) /\ g[o.oco] \in Nat
             /\ side * v[o.oco] > 0 <=> side * o.qty > 0
             /\ g[o.oco] <= f[o.oco]
  <2> DEFINE y == WorstLeg(LegsOf(some, o.oco))
  <2>1. /\ o.oco \in OcosOf(some)
        /\ y \in Int /\ AbsOf(y) \in Nat
        /\ y > 0 <=> o.qty > 0
        /\ y < 0 <=> o.qty < 0
    BY <1>2, <1>4, WorstLegSide
  <2>2. v[o.oco] = y /\ g[o.oco] = AbsOf(y)
    BY <2>1
  <2>3. PICK p \in some : p.oco = o.oco /\ y = OrderUnits(p)
    BY <1>2, <2>1, WorstLegIs
  <2>4. AbsOf(OrderUnits(p)) <= f[p.oco]
    BY <1>3, <1>4, <2>3
  <2> HIDE DEF y, v, g, f
  <2>5. o.qty \in Int
    BY DEF OrdersAgree
  <2>6. side * y > 0 <=> side * o.qty > 0
    BY <2>1, <2>5, SideIs
  <2> QED
    BY <2>1, <2>2, <2>3, <2>4, <2>6
<1>5. \A x \in OcosOf(orders) : \E o \in orders : o.oco = x /\ o.oco # Alone
  BY DEF OcosOf
<1>6. \A x \in OcosOf(some) : \E o \in some : o.oco = x /\ o.oco # Alone
  BY DEF OcosOf
<1>7. \A x \in T : x \in OcosOf(orders) /\ side * w[x] > 0
  OBVIOUS
<1>8. \A x \in S : x \in OcosOf(some) /\ side * v[x] > 0
  OBVIOUS
<1>9. \A x \in OcosOf(orders) : side * w[x] > 0 => x \in T
  OBVIOUS
<1> HIDE DEF w, v, f, g, T, S
<1>10. \A x \in T : f[x] \in Nat
  BY <1>3, <1>5, <1>7
<1>11. ASSUME NEW x \in S PROVE x \in T /\ g[x] \in Nat /\ g[x] <= f[x]
  <2>1. PICK o \in some : o.oco = x /\ o.oco # Alone
    BY <1>6, <1>8
  <2>2. o \in orders /\ side * v[x] > 0
    BY <1>8
  <2>3. side * o.qty > 0
    BY <1>4, <2>1, <2>2
  <2>4. x \in OcosOf(orders) /\ side * w[x] > 0
    BY <1>3, <2>1, <2>2, <2>3
  <2> QED
    BY <1>4, <1>9, <2>1, <2>4
<1>12. S \in SUBSET T /\ \A x \in S : g[x] \in Nat /\ g[x] <= f[x]
  BY <1>11
<1>13. ASSUME NEW o \in orders, o.oco # Alone, side * o.qty > 0,
              \A p \in some : p.oco # o.oco
       PROVE  SumOver(g, S) + AbsOf(OrderUnits(o)) <= SumOver(f, T)
  <2>1. o.oco \in T /\ AbsOf(OrderUnits(o)) <= f[o.oco] /\ f[o.oco] \in Nat
    BY <1>3, <1>9, <1>13
  <2>2. S \in SUBSET (T \ {o.oco})
    BY <1>6, <1>8, <1>12, <1>13
  <2>3. /\ SumOver(g, S) \in Nat /\ SumOver(f, T) \in Nat
        /\ SumOver(g, S) + f[o.oco] <= SumOver(f, T)
    BY <1>2, <1>10, <1>12, <2>1, <2>2, SumBelowWithout
  <2>4. AbsOf(OrderUnits(o)) \in Int
    BY UnitsHaveSide, AbsIs DEF OrdersAgree
  <2> QED
    BY <2>1, <2>3, <2>4
<1>14. /\ SumOver(g, S) \in Nat /\ SumOver(f, T) \in Nat
       /\ SumOver(g, S) <= SumOver(f, T)
  BY <1>2, <1>10, <1>12, SumBelow
<1> QED
  BY <1>1, <1>13, <1>14

\* An order that is gone and whose siblings are gone.
Gone(o, orders, some) ==
    /\ o \in orders \ some
    /\ o.oco # Alone => \A p \in some : p.oco # o.oco

LEMMA PendingFalls ==
    ASSUME NEW orders, OrdersAgree(orders), NEW some \in SUBSET orders,
           NEW side \in {1, -1}
    PROVE  /\ Pending(some, side) \in Nat /\ Pending(orders, side) \in Nat
           /\ Pending(some, side) <= Pending(orders, side)
           /\ \A o : Gone(o, orders, some) /\ side * o.qty > 0 =>
                 Pending(some, side) + AbsOf(OrderUnits(o)) <= Pending(orders, side)
<1> DEFINE a == PendingAlone(some, side)
           b == PendingAlone(orders, side)
           c == PendingLegs(some, side)
           d == PendingLegs(orders, side)
<1>1. a \in Nat /\ b \in Nat /\ a <= b
  BY PendingAloneFalls
<1>2. c \in Nat /\ d \in Nat /\ c <= d
  BY PendingLegsFalls
<1>3. ASSUME NEW o, Gone(o, orders, some), side * o.qty > 0
      PROVE  a + c + AbsOf(OrderUnits(o)) <= b + d
  <2>1. AbsOf(OrderUnits(o)) \in Int
    BY <1>3, UnitsHaveSide, AbsIs DEF OrdersAgree, Gone
  <2>2. CASE o.oco = Alone
    <3>1. a + AbsOf(OrderUnits(o)) <= b
      BY <1>3, <2>2, PendingAloneFalls DEF Gone
    <3> HIDE DEF a, b, c, d
    <3> QED
      BY <1>1, <1>2, <2>1, <3>1
  <2>3. CASE o.oco # Alone
    <3>1. c + AbsOf(OrderUnits(o)) <= d
      BY <1>3, <2>3, PendingLegsFalls DEF Gone
    <3> HIDE DEF a, b, c, d
    <3> QED
      BY <1>1, <1>2, <2>1, <3>1
  <2> QED
    BY <2>2, <2>3
<1>4. Pending(some, side) = a + c /\ Pending(orders, side) = b + d
  BY DEF Pending
<1> HIDE DEF a, b, c, d
<1> QED
  BY <1>1, <1>2, <1>3, <1>4

\* The worst of a group whose net position may move between two bounds.
WorstOf(n, buy, sell) == Largest({AbsOf(n), AbsOf(n + buy), AbsOf(n - sell)})

LEMMA WorstOfIs ==
    ASSUME NEW n \in Int, NEW buy \in Nat, NEW sell \in Nat
    PROVE  /\ WorstOf(n, buy, sell) \in {AbsOf(n), AbsOf(n + buy), AbsOf(n - sell)}
           /\ WorstOf(n, buy, sell) \in Nat
           /\ AbsOf(n) <= WorstOf(n, buy, sell)
           /\ AbsOf(n + buy) <= WorstOf(n, buy, sell)
           /\ AbsOf(n - sell) <= WorstOf(n, buy, sell)
<1> DEFINE x == AbsOf(n)
           y == AbsOf(n + buy)
           z == AbsOf(n - sell)
           S == {x, y, z}
<1>1. x \in Nat /\ y \in Nat /\ z \in Nat
  BY AbsIs
<1> HIDE DEF x, y, z
<1>2. IsFiniteSet(S)
  <2>1. IsFiniteSet({x}) /\ IsFiniteSet({x} \union {y})
    BY FS_Singleton, FS_AddElement
  <2>2. IsFiniteSet(({x} \union {y}) \union {z})
    BY <2>1, FS_AddElement
  <2>3. ({x} \union {y}) \union {z} = S
    OBVIOUS
  <2> QED
    BY <2>2, <2>3
<1>3. S # {} /\ \A k \in S : k \in Int
  BY <1>1
<1>4. Largest(S) \in S /\ \A k \in S : k <= Largest(S)
  <2> HIDE DEF S
  <2> QED
    BY <1>2, <1>3, LargestIs
<1>5. WorstOf(n, buy, sell) = Largest(S)
  BY DEF WorstOf, x, y, z
<1> DEFINE top == Largest(S)
<1>6. top \in {x, y, z} /\ x <= top /\ y <= top /\ z <= top
  BY <1>4
<1> HIDE DEF top
<1>7. top \in Nat
  BY <1>1, <1>6
<1> QED
  BY <1>5, <1>6, <1>7 DEF top, x, y, z

\* Tighter bounds have a smaller worst case.
LEMMA WorstFalls ==
    ASSUME NEW n \in Int, NEW buy \in Nat, NEW sell \in Nat,
           NEW m \in Int, NEW more \in Nat, NEW less \in Nat,
           n + buy <= m + more, n - sell >= m - less
    PROVE  WorstOf(n, buy, sell) <= WorstOf(m, more, less)
<1> DEFINE w == WorstOf(m, more, less)
<1>1. w \in Nat /\ AbsOf(m + more) <= w /\ AbsOf(m - less) <= w
  BY WorstOfIs
<1> HIDE DEF w
<1>2. m + more <= w /\ -w <= m - less
  BY <1>1 DEF AbsOf
<1>3. ASSUME NEW k \in Int, n - sell <= k, k <= n + buy
      PROVE  AbsOf(k) <= w
  BY <1>1, <1>2, <1>3 DEF AbsOf
<1>4. AbsOf(n) <= w /\ AbsOf(n + buy) <= w /\ AbsOf(n - sell) <= w
  <2>1. n + buy \in Int /\ n - sell \in Int /\ n - sell <= n /\ n <= n + buy
    OBVIOUS
  <2> QED
    BY <1>3, <2>1
<1>5. WorstOf(n, buy, sell) \in {AbsOf(n), AbsOf(n + buy), AbsOf(n - sell)}
  BY WorstOfIs
<1> QED
  BY <1>4, <1>5 DEF w

Moved(held, s, q) == [held EXCEPT ![s] = @ + q]

\* A fill moves the net position of its group and of no other.
LEMMA NetAfterFill ==
    ASSUME NEW held \in [Configured -> Int], NEW s \in Configured, NEW q \in Int, NEW grp
    PROVE  /\ NetFilled(held, grp) \in Int
           /\ NetFilled(Moved(held, s, q), grp) = NetFilled(held, grp)
                 + (IF GroupOf[s] = grp THEN q * MicrosOf[s] ELSE 0)
<1> USE DEF Moved
<1> DEFINE then == Moved(held, s, q)
           f == [t \in Configured |-> held[t] * MicrosOf[t]]
           g == [t \in Configured |-> then[t] * MicrosOf[t]]
           T == {t \in Configured : GroupOf[t] = grp}
<1>1. NetFilled(held, grp) = SumOver(f, T) /\ NetFilled(then, grp) = SumOver(g, T)
  BY DEF NetFilled
<1>2. \A t \in Configured : f[t] \in Int /\ g[t] \in Int
  <2> TAKE t \in Configured
  <2>1. held[t] \in Int /\ then[t] \in Int /\ MicrosOf[t] \in Int
    BY ExposureAssumption
  <2>2. f[t] = held[t] * MicrosOf[t] /\ g[t] = then[t] * MicrosOf[t]
    OBVIOUS
  <2> HIDE DEF then, f, g
  <2> QED
    BY <2>1, <2>2
<1>3. \A t \in Configured \ {s} : f[t] = g[t]
  OBVIOUS
<1>4. g[s] = f[s] + q * MicrosOf[s] /\ q * MicrosOf[s] \in Int
  <2> DEFINE h == held[s]
             m == MicrosOf[s]
  <2>1. h \in Int /\ m \in Int
    BY ExposureAssumption
  <2>2. g[s] = (h + q) * m /\ f[s] = h * m
    OBVIOUS
  <2> HIDE DEF h, m, f, g
  <2>3. (h + q) * m = h * m + q * m /\ q * m \in Int
    BY <2>1
  <2> QED
    BY <2>2, <2>3 DEF m
<1>5. IsFiniteSet(T) /\ T \subseteq Configured /\ (s \in T <=> GroupOf[s] = grp)
  BY ExposureAssumption, FS_Subset
<1> HIDE DEF f, g, T, then
<1>6. SumOver(f, T) \in Int
  BY <1>2, <1>5, SumIsInt
<1>7. CASE GroupOf[s] = grp
  <2> DEFINE R == T \ {s}
  <2>1. /\ SumOver(f, T) = f[s] + SumOver(f, R)
        /\ SumOver(g, T) = g[s] + SumOver(g, R)
    BY <1>2, <1>5, <1>7, SumRemove
  <2>2. IsFiniteSet(R) /\ (\A t \in R : f[t] = g[t]) /\ \A t \in R : f[t] \in Int
    BY <1>2, <1>3, <1>5, FS_Subset
  <2> HIDE DEF R
  <2>3. SumOver(f, R) = SumOver(g, R) /\ SumOver(f, R) \in Int
    BY <2>2, SumSame, SumIsInt
  <2>4. f[s] \in Int
    BY <1>2
  <2>5. SumOver(g, T) = SumOver(f, T) + q * MicrosOf[s]
    BY <1>4, <2>1, <2>3, <2>4
  <2> QED
    BY <1>1, <1>6, <1>7, <2>5 DEF then
<1>8. CASE GroupOf[s] # grp
  <2>1. \A t \in T : f[t] = g[t]
    BY <1>3, <1>5, <1>8
  <2>2. SumOver(f, T) = SumOver(g, T)
    BY <1>5, <2>1, SumSame
  <2> QED
    BY <1>1, <1>6, <1>8, <2>2 DEF then
<1> QED
  BY <1>7, <1>8

LEMMA GroupWorstCaseIs ==
    ASSUME NEW held \in [Configured -> Int], NEW orders, OrdersAgree(orders), NEW grp
    PROVE  LET net == NetFilled(held, grp)
               buy == Pending(InGroup(orders, grp), 1)
               sell == Pending(InGroup(orders, grp), -1) IN
           /\ net \in Int /\ buy \in Nat /\ sell \in Nat
           /\ GroupWorstCase(held, orders, grp) = WorstOf(net, buy, sell)
           /\ GroupWorstCase(held, orders, grp) \in Nat
           /\ AbsOf(net) <= GroupWorstCase(held, orders, grp)
<1> DEFINE net == NetFilled(held, grp)
           some == InGroup(orders, grp)
           buy == Pending(some, 1)
           sell == Pending(some, -1)
<1>1. GroupWorstCase(held, orders, grp) = WorstOf(net, buy, sell)
  BY DEF GroupWorstCase, WorstOf
<1>2. net \in Int
  <2> DEFINE f == [s \in Configured |-> held[s] * MicrosOf[s]]
             T == {s \in Configured : GroupOf[s] = grp}
  <2>1. IsFiniteSet(T) /\ net = SumOver(f, T)
    BY ExposureAssumption, FS_Subset DEF NetFilled
  <2>2. \A s \in T : f[s] \in Int
    <3> TAKE s \in T
    <3>1. held[s] \in Int /\ MicrosOf[s] \in Int /\ f[s] = held[s] * MicrosOf[s]
      BY ExposureAssumption
    <3> HIDE DEF f
    <3> QED
      BY <3>1
  <2> HIDE DEF f, T
  <2> QED
    BY <2>1, <2>2, SumIsInt
<1>3. OrdersAgree(some)
  BY SubsetAgrees DEF InGroup
<1>4. buy \in Nat /\ sell \in Nat
  BY <1>3, PendingFalls
<1> HIDE DEF net, buy, sell
<1>5. WorstOf(net, buy, sell) \in Nat /\ AbsOf(net) <= WorstOf(net, buy, sell)
  BY <1>2, <1>4, WorstOfIs
<1> QED
  BY <1>1, <1>2, <1>4, <1>5 DEF net, buy, sell

\* A cancelled order makes no group worse.
LEMMA GroupAfterCancel ==
    ASSUME NEW held \in [Configured -> Int], NEW orders, OrdersAgree(orders),
           NEW some \in SUBSET orders, NEW grp
    PROVE  GroupWorstCase(held, some, grp) <= GroupWorstCase(held, orders, grp)
<1> DEFINE net == NetFilled(held, grp)
           buy == Pending(InGroup(orders, grp), 1)
           sell == Pending(InGroup(orders, grp), -1)
           less == Pending(InGroup(some, grp), 1)
           few == Pending(InGroup(some, grp), -1)
<1>1. OrdersAgree(some)
  BY SubsetAgrees
<1>2. /\ net \in Int /\ buy \in Nat /\ sell \in Nat
      /\ GroupWorstCase(held, orders, grp) = WorstOf(net, buy, sell)
  BY GroupWorstCaseIs
<1>3. /\ less \in Nat /\ few \in Nat
      /\ GroupWorstCase(held, some, grp) = WorstOf(net, less, few)
  BY <1>1, GroupWorstCaseIs
<1>4. OrdersAgree(InGroup(orders, grp)) /\ InGroup(some, grp) \in SUBSET InGroup(orders, grp)
  BY SubsetAgrees DEF InGroup
<1>5. less <= buy /\ few <= sell
  BY <1>4, PendingFalls
<1> HIDE DEF net, buy, sell, less, few
<1>6. net + less <= net + buy /\ net - few >= net - sell
  BY <1>2, <1>3, <1>5
<1> QED
  BY <1>2, <1>3, <1>6, WorstFalls

\* Nor does one that fills and takes its siblings with it: what it adds to the
\* position it no longer adds to what is pending.
LEMMA GroupAfterFill ==
    ASSUME NEW held \in [Configured -> Int], NEW orders, OrdersAgree(orders),
           NEW some \in SUBSET orders, NEW o, Gone(o, orders, some), NEW grp
    PROVE  GroupWorstCase(Moved(held, o.sym, o.qty), some, grp)
              <= GroupWorstCase(held, orders, grp)
<1> DEFINE then == Moved(held, o.sym, o.qty)
           net == NetFilled(held, grp)
           new == NetFilled(then, grp)
           buy == Pending(InGroup(orders, grp), 1)
           sell == Pending(InGroup(orders, grp), -1)
           less == Pending(InGroup(some, grp), 1)
           few == Pending(InGroup(some, grp), -1)
           u == OrderUnits(o)
<1>1. OrdersAgree(some)
  BY SubsetAgrees
<1>2. o.sym \in Configured /\ o.qty \in Int \ {0}
  BY DEF OrdersAgree, Gone
<1>3. then \in [Configured -> Int]
  BY <1>2 DEF Moved
<1>4. /\ net \in Int /\ buy \in Nat /\ sell \in Nat
      /\ GroupWorstCase(held, orders, grp) = WorstOf(net, buy, sell)
  BY GroupWorstCaseIs
<1>5. new = net + (IF GroupOf[o.sym] = grp THEN u ELSE 0)
  BY <1>2, NetAfterFill DEF OrderUnits
<1> HIDE DEF then
<1>6. /\ new \in Int /\ less \in Nat /\ few \in Nat
      /\ GroupWorstCase(then, some, grp) = WorstOf(new, less, few)
  BY <1>1, <1>3, GroupWorstCaseIs
<1>7. OrdersAgree(InGroup(orders, grp)) /\ InGroup(some, grp) \in SUBSET InGroup(orders, grp)
  BY SubsetAgrees DEF InGroup
<1>8. less <= buy /\ few <= sell
  BY <1>7, PendingFalls
<1>9. u \in Int /\ (u > 0 <=> o.qty > 0) /\ (u < 0 <=> o.qty < 0)
  BY <1>2, UnitsHaveSide
<1>10. ASSUME GroupOf[o.sym] = grp
       PROVE  /\ o.qty > 0 => less + u <= buy
              /\ o.qty < 0 => few - u <= sell
  <2>1. Gone(o, InGroup(orders, grp), InGroup(some, grp))
    BY <1>10 DEF Gone, InGroup
  <2>2. (1 * o.qty > 0 <=> o.qty > 0) /\ ((-1) * o.qty > 0 <=> o.qty < 0)
    BY <1>2
  <2>3. o.qty > 0 => less + AbsOf(u) <= buy
    BY <1>7, <2>1, <2>2, PendingFalls
  <2>4. o.qty < 0 => few + AbsOf(u) <= sell
    BY <1>7, <2>1, <2>2, PendingFalls
  <2> HIDE DEF less, few, buy, sell, u
  <2> QED
    BY <1>4, <1>6, <1>9, <2>3, <2>4 DEF AbsOf
<1> HIDE DEF net, new, buy, sell, less, few, u
<1>11. new + less <= net + buy /\ new - few >= net - sell
  <2>1. CASE GroupOf[o.sym] = grp
    BY <1>2, <1>4, <1>5, <1>6, <1>8, <1>9, <1>10, <2>1
  <2>2. CASE GroupOf[o.sym] # grp
    BY <1>4, <1>5, <1>6, <1>8, <2>2
  <2> QED
    BY <2>1, <2>2
<1> QED
  BY <1>4, <1>6, <1>11, WorstFalls DEF then

LEMMA GroupsFinite == IsFiniteSet(Groups)
<1> DEFINE f == [s \in Configured |-> GroupOf[s]]
<1>1. IsFiniteSet({f[s] : s \in Configured})
  <2> HIDE DEF f
  <2> QED
    BY ExposureAssumption, ImageFinite
<1>2. {f[s] : s \in Configured} = Groups
  BY DEF Groups
<1> QED
  BY <1>1, <1>2

\* Where no group is worse, the total is not.
LEMMA TotalFalls ==
    ASSUME NEW held \in [Configured -> Int], NEW orders, OrdersAgree(orders),
           NEW then \in [Configured -> Int], NEW some, OrdersAgree(some),
           \A grp \in Groups :
              GroupWorstCase(then, some, grp) <= GroupWorstCase(held, orders, grp)
    PROVE  /\ TotalWorstCase(then, some) \in Nat /\ TotalWorstCase(held, orders) \in Nat
           /\ TotalWorstCase(then, some) <= TotalWorstCase(held, orders)
<1> DEFINE f == [grp \in Groups |-> GroupWorstCase(held, orders, grp)]
           g == [grp \in Groups |-> GroupWorstCase(then, some, grp)]
<1>1. TotalWorstCase(then, some) = SumOver(g, Groups)
      /\ TotalWorstCase(held, orders) = SumOver(f, Groups)
  BY DEF TotalWorstCase
<1>2. \A grp \in Groups : f[grp] \in Nat /\ g[grp] \in Nat /\ g[grp] <= f[grp]
  BY GroupWorstCaseIs
<1> HIDE DEF f, g
<1>3. Groups \in SUBSET Groups
  OBVIOUS
<1> QED
  BY <1>1, <1>2, <1>3, GroupsFinite, SumBelow

LEMMA FilledBelowWorst ==
    ASSUME NEW held \in [Configured -> Int], NEW orders, OrdersAgree(orders),
           NEW then \in [Configured -> Int],
           \A grp \in Groups :
              AbsOf(NetFilled(then, grp)) <= GroupWorstCase(held, orders, grp)
    PROVE  TotalFilled(then) <= TotalWorstCase(held, orders)
<1> DEFINE f == [grp \in Groups |-> GroupWorstCase(held, orders, grp)]
           g == [grp \in Groups |-> AbsOf(NetFilled(then, grp))]
<1>1. TotalFilled(then) = SumOver(g, Groups) /\ TotalWorstCase(held, orders) = SumOver(f, Groups)
  BY DEF TotalWorstCase, TotalFilled
<1>2. \A grp \in Groups : f[grp] \in Nat /\ g[grp] \in Nat /\ g[grp] <= f[grp]
  <2> TAKE grp \in Groups
  <2>1. NetFilled(then, grp) \in Int
    BY GroupWorstCaseIs
  <2> QED
    BY <2>1, GroupWorstCaseIs, AbsIs
<1> HIDE DEF f, g
<1>3. Groups \in SUBSET Groups
  OBVIOUS
<1> QED
  BY <1>1, <1>2, <1>3, GroupsFinite, SumBelow

Exclusive(filled) ==
    \A o, p \in filled : o.oco # Alone /\ o.oco = p.oco => o = p

LEMMA NothingFilled ==
    ASSUME NEW held \in [Configured -> Int]
    PROVE  AfterFilling(held, {}) = held
<1> DEFINE f == [o \in {} |-> o.qty]
<1>1. \A s : {o \in {} : o.sym = s} = {}
  OBVIOUS
<1>2. SumOver(f, {}) = 0
  BY SumEmpty
<1>3. AfterFilling(held, {}) = [s \in Configured |-> held[s] + SumOver(f, {})]
  BY <1>1 DEF AfterFilling
<1> HIDE DEF f
<1>4. \A s \in Configured : held[s] + SumOver(f, {}) = held[s]
  BY <1>2
<1> QED
  BY <1>3, <1>4

\* Filling some orders is filling one of them and then the others.
LEMMA FillingOne ==
    ASSUME NEW held \in [Configured -> Int], NEW filled, IsFiniteSet(filled),
           \A p \in filled : p.sym \in Configured /\ p.qty \in Int, NEW o \in filled
    PROVE  /\ AfterFilling(held, filled) \in [Configured -> Int]
           /\ AfterFilling(Moved(held, o.sym, o.qty), filled \ {o})
                 = AfterFilling(held, filled)
<1> DEFINE rest == filled \ {o}
           f == [p \in filled |-> p.qty]
           g == [p \in rest |-> p.qty]
           F(s) == {p \in filled : p.sym = s}
           G(s) == {p \in rest : p.sym = s}
           then == Moved(held, o.sym, o.qty)
<1>1. ASSUME NEW s \in Configured
      PROVE  /\ IsFiniteSet(F(s)) /\ IsFiniteSet(G(s))
             /\ \A p \in F(s) : f[p] \in Int
             /\ \A p \in G(s) : g[p] \in Int /\ f[p] = g[p]
  <2>1. F(s) \subseteq filled /\ G(s) \subseteq filled
    OBVIOUS
  <2>2. IsFiniteSet(F(s)) /\ IsFiniteSet(G(s))
    <3> HIDE DEF F, G
    <3> QED
      BY <2>1, FS_Subset
  <2> QED
    BY <2>2
<1>2. ASSUME NEW s \in Configured
      PROVE  /\ SumOver(f, F(s)) \in Int
             /\ then[s] + SumOver(g, G(s)) = held[s] + SumOver(f, F(s))
  <2>1. SumOver(f, F(s)) \in Int /\ SumOver(g, G(s)) \in Int
    <3> HIDE DEF f, g, F, G
    <3> QED
      BY <1>1, SumIsInt
  <2>2. SumOver(f, G(s)) = SumOver(g, G(s))
    <3> HIDE DEF f, g, F, G
    <3> QED
      BY <1>1, SumSame
  <2>3. CASE s = o.sym
    <3>1. o \in F(s) /\ F(s) \ {o} = G(s) /\ f[o] = o.qty
      BY <2>3
    <3>2. then[s] = held[s] + o.qty /\ held[s] \in Int /\ o.qty \in Int
      BY <2>3 DEF Moved
    <3>3. SumOver(f, F(s)) = f[o] + SumOver(f, F(s) \ {o})
      <4> HIDE DEF f, g, F, G
      <4> QED
        BY <1>1, <3>1, SumRemove
    <3>4. SumOver(f, F(s)) = f[o] + SumOver(f, G(s))
      <4> HIDE DEF f, g, F, G
      <4> QED
        BY <3>1, <3>3
    <3> DEFINE a == SumOver(f, F(s))
               b == SumOver(g, G(s))
    <3>5. a \in Int /\ b \in Int /\ a = o.qty + b
      <4> HIDE DEF f, g, F, G
      <4> QED
        BY <2>1, <2>2, <3>1, <3>4
    <3> HIDE DEF a, b, then
    <3>6. then[s] + b = held[s] + a
      BY <3>2, <3>5
    <3> QED
      BY <3>5, <3>6 DEF a, b
  <2>4. CASE s # o.sym
    <3>1. F(s) = G(s)
      BY <2>4
    <3>2. then[s] = held[s]
      BY <2>4 DEF Moved
    <3> HIDE DEF f, g, F, G, then
    <3> QED
      BY <2>1, <2>2, <3>1, <3>2
  <2> QED
    BY <2>3, <2>4
<1>3. AfterFilling(held, filled) = [s \in Configured |-> held[s] + SumOver(f, F(s))]
  BY DEF AfterFilling
<1>4. AfterFilling(then, rest) = [s \in Configured |-> then[s] + SumOver(g, G(s))]
  BY DEF AfterFilling
<1> HIDE DEF f, g, F, G, then
<1>5. \A s \in Configured : held[s] + SumOver(f, F(s)) \in Int
  BY <1>2
<1> QED
  BY <1>2, <1>3, <1>4, <1>5 DEF then

\* Whatever set of orders fills, no group comes out of its worst case.
LEMMA FilledInside ==
    ASSUME NEW held \in [Configured -> Int], NEW orders, OrdersAgree(orders),
           NEW filled \in SUBSET orders, Exclusive(filled), NEW grp \in Groups
    PROVE  /\ AfterFilling(held, filled) \in [Configured -> Int]
           /\ AbsOf(NetFilled(AfterFilling(held, filled), grp))
                 <= GroupWorstCase(held, orders, grp)
<1> DEFINE Inside(F) ==
             \A from \in [Configured -> Int] : \A some \in SUBSET orders :
                F \subseteq some /\ Exclusive(F) =>
                   /\ AfterFilling(from, F) \in [Configured -> Int]
                   /\ AbsOf(NetFilled(AfterFilling(from, F), grp))
                         <= GroupWorstCase(from, some, grp)
           Bad == {F \in SUBSET orders : ~ Inside(F)}
<1>1. ASSUME Bad # {} PROVE FALSE
  <2>1. PICK F \in Bad : \A E \in Bad : E \subseteq F => E = F
    <3>1. Bad \in SUBSET SUBSET orders
      OBVIOUS
    <3>2. IsFiniteSet(orders)
      BY DEF OrdersAgree
    <3> HIDE DEF Bad
    <3> QED
      BY <1>1, <3>1, <3>2, SmallestSet
  <2>2. F \in SUBSET orders /\ ~ Inside(F)
    OBVIOUS
  <2>3. \A E \in SUBSET orders : E \subseteq F /\ E # F => Inside(E)
    BY <2>1
  <2> HIDE DEF Bad
  <2>4. ASSUME NEW from \in [Configured -> Int], NEW some \in SUBSET orders,
               F \subseteq some, Exclusive(F)
        PROVE  /\ AfterFilling(from, F) \in [Configured -> Int]
               /\ AbsOf(NetFilled(AfterFilling(from, F), grp))
                     <= GroupWorstCase(from, some, grp)
    <3>1. OrdersAgree(some)
      BY SubsetAgrees
    <3>2. CASE F = {}
      <4>1. AfterFilling(from, F) = from
        BY <3>2, NothingFilled
      <4>2. AbsOf(NetFilled(from, grp)) <= GroupWorstCase(from, some, grp)
        BY <3>1, GroupWorstCaseIs
      <4> QED
        BY <4>1, <4>2
    <3>3. CASE F # {}
      <4>1. PICK o \in F : TRUE
        BY <3>3
      <4> DEFINE E == F \ {o}
                 left == {p \in some : p # o /\ (o.oco # Alone => p.oco # o.oco)}
                 then == Moved(from, o.sym, o.qty)
      <4>2. Gone(o, some, left) /\ left \in SUBSET some
        BY <2>4 DEF Gone
      <4>3. E \subseteq left /\ Exclusive(E)
        BY <2>4 DEF Exclusive
      <4>4. \A p \in F : p.sym \in Configured /\ p.qty \in Int
        BY <2>2 DEF OrdersAgree
      <4>5. IsFiniteSet(F)
        BY <2>2, FS_Subset DEF OrdersAgree
      <4>6. then \in [Configured -> Int]
        BY <4>4 DEF Moved
      <4>7. Inside(E)
        BY <2>2, <2>3, <4>1
      <4> HIDE DEF left, then
      <4>8. AbsOf(NetFilled(AfterFilling(then, E), grp)) <= GroupWorstCase(then, left, grp)
        BY <4>2, <4>3, <4>6, <4>7
      <4> HIDE DEF E
      <4>9. /\ AfterFilling(from, F) \in [Configured -> Int]
            /\ AfterFilling(then, E) = AfterFilling(from, F)
        BY <4>4, <4>5, FillingOne DEF then, E
      <4>10. GroupWorstCase(then, left, grp) <= GroupWorstCase(from, some, grp)
        BY <3>1, <4>2, GroupAfterFill DEF then
      <4>11. OrdersAgree(left)
        BY <3>1, <4>2, SubsetAgrees
      <4>12. /\ GroupWorstCase(then, left, grp) \in Int
             /\ GroupWorstCase(from, some, grp) \in Int
        BY <3>1, <4>6, <4>11, GroupWorstCaseIs
      <4>13. AbsOf(NetFilled(AfterFilling(from, F), grp)) \in Int
        BY <3>1, <4>9, GroupWorstCaseIs, AbsIs
      <4> QED
        BY <4>8, <4>9, <4>10, <4>12, <4>13
    <3> QED
      BY <3>2, <3>3
  <2> QED
    BY <2>2, <2>4
<1>2. Inside(filled)
  BY <1>1
<1> QED
  BY <1>2

\* The account is within the ceiling whatever fills, and so are the things the
\* checks rely on.
ExposureFacts ==
    /\ position \in [Configured -> Int]
    /\ working \in [Slots -> [sym : Symbols \union {"none"}, qty : Int,
                              oco : OcoGroups \union {Alone}]]
    /\ OrdersAgree(WorkingOrders)
    /\ \A i \in Busy : working[i].sym \in Approved
    /\ \A s \in Configured : position[s] # 0 => s \in Approved
    /\ TotalWorstCase(position, WorkingOrders) <= CeilingMicros

LEMMA ExposureSound == ExposureFacts => FillsStayBelowCeiling
<1> SUFFICES ASSUME ExposureFacts PROVE FillsStayBelowCeiling
  OBVIOUS
<1> DEFINE worst == TotalWorstCase(position, WorkingOrders)
<1>1. /\ position \in [Configured -> Int] /\ OrdersAgree(WorkingOrders)
      /\ worst <= CeilingMicros
  BY DEF ExposureFacts
<1>2. worst \in Nat /\ CeilingMicros \in Nat
  <2>1. \A grp \in Groups :
           GroupWorstCase(position, WorkingOrders, grp)
              <= GroupWorstCase(position, WorkingOrders, grp)
    BY <1>1, GroupWorstCaseIs
  <2> QED
    BY <1>1, <2>1, TotalFalls, ExposureAssumption
<1>3. ASSUME NEW filled \in SUBSET WorkingOrders, Exclusive(filled)
      PROVE  TotalFilled(AfterFilling(position, filled)) <= CeilingMicros
  <2> DEFINE then == AfterFilling(position, filled)
  <2>1. \A grp \in Groups :
           /\ then \in [Configured -> Int]
           /\ AbsOf(NetFilled(then, grp)) <= GroupWorstCase(position, WorkingOrders, grp)
    BY <1>1, <1>3, FilledInside
  <2>2. then \in [Configured -> Int]
    <3>1. CASE Configured = {}
      BY <3>1 DEF AfterFilling
    <3>2. CASE Configured # {}
      <4>1. Groups # {}
        BY <3>2 DEF Groups
      <4> QED
        BY <2>1, <4>1
    <3> QED
      BY <3>1, <3>2
  <2> HIDE DEF then
  <2>3. TotalFilled(then) <= worst
    BY <1>1, <2>1, <2>2, FilledBelowWorst
  <2>4. TotalFilled(then) \in Int
    <3> DEFINE g == [grp \in Groups |-> AbsOf(NetFilled(then, grp))]
    <3>1. \A grp \in Groups : g[grp] \in Int
      <4> TAKE grp \in Groups
      <4>1. NetFilled(then, grp) \in Int
        BY <1>1, <2>2, GroupWorstCaseIs
      <4> QED
        BY <4>1, AbsIs
    <3>2. TotalFilled(then) = SumOver(g, Groups)
      BY DEF TotalFilled
    <3> HIDE DEF g
    <3> QED
      BY <3>1, <3>2, GroupsFinite, SumIsInt
  <2> HIDE DEF worst
  <2> QED
    BY <1>1, <1>2, <2>3, <2>4 DEF then
<1>4. TotalFilled(position) <= CeilingMicros
  <2>1. AfterFilling(position, {}) = position
    BY <1>1, NothingFilled
  <2>2. Exclusive({}) /\ {} \in SUBSET WorkingOrders
    BY DEF Exclusive
  <2> QED
    BY <1>3, <2>1, <2>2
<1>5. \A s \in Configured : position[s] # 0 => s \in Approved
  BY DEF ExposureFacts
<1>6. \A filled \in SUBSET WorkingOrders :
         Exclusive(filled) => TotalFilled(AfterFilling(position, filled)) <= CeilingMicros
  BY <1>3
<1> QED
  BY <1>1, <1>4, <1>5, <1>6 DEF FillsStayBelowCeiling, Exclusive

LEMMA NothingPending ==
    ASSUME NEW side \in {1, -1} PROVE Pending({}, side) = 0
<1> DEFINE f == [o \in {} |-> AbsOf(OrderUnits(o))]
           w == [x \in OcosOf({}) |-> WorstLeg(LegsOf({}, x))]
           g == [x \in OcosOf({}) |-> AbsOf(w[x])]
           T == {x \in OcosOf({}) : side * w[x] > 0}
<1>1. PendingAlone({}, side) = SumOver(f, {})
  <2>1. {o \in {} : o.oco = Alone /\ side * o.qty > 0} = {}
    OBVIOUS
  <2> QED
    BY <2>1 DEF PendingAlone
<1>2. T = {}
  BY DEF OcosOf
<1>3. PendingLegs({}, side) = SumOver(g, T)
  BY DEF PendingLegs
<1> HIDE DEF f, g, T
<1>4. PendingAlone({}, side) = 0 /\ PendingLegs({}, side) = 0
  BY <1>1, <1>2, <1>3, SumEmpty
<1> QED
  BY <1>4 DEF Pending

LEMMA ExposureStarts == BookInit => ExposureFacts
<1> SUFFICES ASSUME BookInit PROVE ExposureFacts
  OBVIOUS
<1>1. position \in [Configured -> Int] /\ \A s \in Configured : position[s] = 0
  BY DEF BookInit
<1>2. Busy = {} /\ WorkingOrders = {}
  BY DEF BookInit, Busy, WorkingOrders
<1>3. working \in [Slots -> [sym : Symbols \union {"none"}, qty : Int,
                             oco : OcoGroups \union {Alone}]]
  BY DEF BookInit, NoOrderHere
<1>4. OrdersAgree({})
  BY FS_EmptySet DEF OrdersAgree
<1>5. ASSUME NEW grp \in Groups PROVE GroupWorstCase(position, {}, grp) = 0
  <2> DEFINE f == [s \in Configured |-> position[s] * MicrosOf[s]]
             T == {s \in Configured : GroupOf[s] = grp}
  <2>1. IsFiniteSet(T) /\ NetFilled(position, grp) = SumOver(f, T)
    BY ExposureAssumption, FS_Subset DEF NetFilled
  <2>2. \A s \in T : f[s] = 0
    <3> TAKE s \in T
    <3>1. position[s] = 0 /\ MicrosOf[s] \in Int /\ f[s] = position[s] * MicrosOf[s]
      BY <1>1, ExposureAssumption
    <3> HIDE DEF f
    <3> QED
      BY <3>1
  <2> HIDE DEF f, T
  <2>3. NetFilled(position, grp) = 0
    BY <2>1, <2>2, SumOfZeros
  <2>4. InGroup({}, grp) = {}
    BY DEF InGroup
  <2>5. GroupWorstCase(position, {}, grp) = WorstOf(0, 0, 0)
    BY <1>1, <1>4, <2>3, <2>4, NothingPending, GroupWorstCaseIs
  <2> QED
    BY <2>5, WorstOfIs, AbsIs
<1>6. TotalWorstCase(position, {}) = 0
  <2> DEFINE f == [grp \in Groups |-> GroupWorstCase(position, {}, grp)]
  <2>1. \A grp \in Groups : f[grp] = 0
    BY <1>5
  <2>2. TotalWorstCase(position, {}) = SumOver(f, Groups)
    BY DEF TotalWorstCase
  <2> HIDE DEF f
  <2> QED
    BY <2>1, <2>2, GroupsFinite, SumOfZeros
<1> QED
  BY <1>1, <1>2, <1>3, <1>4, <1>6, ExposureAssumption DEF ExposureFacts

LEMMA OrderIs ==
    ASSUME NEW i
    PROVE  /\ Order(i).sym = working[i].sym /\ Order(i).qty = working[i].qty
           /\ Order(i).oco = working[i].oco /\ Order(i).slot = i
BY Zenon DEF Order

LEMMA FillKeeps ==
    ASSUME ExposureFacts, NEW i \in Slots, Fill(i)
    PROVE  ExposureFacts'
<1> DEFINE o == Order(i)
<1>1. /\ position \in [Configured -> Int]
      /\ working \in [Slots -> [sym : Symbols \union {"none"}, qty : Int,
                                oco : OcoGroups \union {Alone}]]
      /\ OrdersAgree(WorkingOrders)
      /\ \A j \in Busy : working[j].sym \in Approved
      /\ \A s \in Configured : position[s] # 0 => s \in Approved
      /\ TotalWorstCase(position, WorkingOrders) <= CeilingMicros
  BY DEF ExposureFacts
<1>2. i \in Busy /\ o \in WorkingOrders
  BY DEF Fill, WorkingOrders
<1>3. /\ o.sym \in Configured /\ o.qty \in Int /\ o.sym \in Approved
      /\ o.sym = working[i].sym /\ o.qty = working[i].qty /\ o.oco = working[i].oco
  BY <1>1, <1>2, OrderIs DEF OrdersAgree
<1>4. position' = Moved(position, o.sym, o.qty)
  BY <1>3 DEF Fill, Moved
<1>5. position' \in [Configured -> Int]
  BY <1>1, <1>3, <1>4 DEF Moved
<1>6. \A s \in Configured : position'[s] # 0 => s \in Approved
  BY <1>1, <1>3, <1>4 DEF Moved
<1>7. working' \in [Slots -> [sym : Symbols \union {"none"}, qty : Int,
                              oco : OcoGroups \union {Alone}]]
  <2>1. NoOrderHere \in [sym : Symbols \union {"none"}, qty : Int,
                         oco : OcoGroups \union {Alone}]
    BY DEF NoOrderHere
  <2> QED
    BY <1>1, <2>1 DEF Fill
<1>8. ASSUME NEW j \in Busy'
      PROVE  /\ j \in Busy /\ j # i /\ working'[j] = working[j]
             /\ working[i].oco # Alone => working[j].oco # working[i].oco
             /\ Order(j)' = Order(j)
  <2>1. j \in Slots /\ working'[j] # NoOrderHere
    BY DEF Busy
  <2>2. working'[j] = IF j = i \/ (working[i].oco # Alone /\ working[j].oco = working[i].oco)
                      THEN NoOrderHere ELSE working[j]
    BY <2>1 DEF Fill
  <2>3. /\ j # i /\ working'[j] = working[j]
        /\ working[i].oco # Alone => working[j].oco # working[i].oco
    BY <2>1, <2>2
  <2> QED
    BY <2>1, <2>3 DEF Busy, Order
<1> DEFINE some == WorkingOrders'
<1>9. ASSUME NEW p \in some
      PROVE  p \in WorkingOrders /\ p # o /\ (o.oco # Alone => p.oco # o.oco)
  <2>1. PICK j \in Busy' : p = Order(j)'
    BY DEF WorkingOrders
  <2>2. p = Order(j) /\ j \in Busy /\ j # i /\ p.slot = j /\ o.slot = i
    BY <1>8, <2>1, OrderIs
  <2>3. p.oco = working[j].oco /\ (o.oco # Alone => working[j].oco # working[i].oco)
    BY <1>3, <1>8, <2>2, OrderIs
  <2> QED
    BY <1>3, <2>2, <2>3 DEF WorkingOrders
<1>10. some \in SUBSET WorkingOrders /\ Gone(o, WorkingOrders, some)
  BY <1>2, <1>9 DEF Gone
<1>11. \A j \in Busy' : working'[j].sym \in Approved
  BY <1>1, <1>8
<1> HIDE DEF o, some
<1>12. OrdersAgree(some)
  BY <1>1, <1>10, SubsetAgrees
<1>13. \A grp \in Groups :
          GroupWorstCase(position', some, grp) <= GroupWorstCase(position, WorkingOrders, grp)
  BY <1>1, <1>4, <1>10, GroupAfterFill
<1>14. /\ TotalWorstCase(position', some) \in Nat
       /\ TotalWorstCase(position, WorkingOrders) \in Nat
       /\ TotalWorstCase(position', some) <= TotalWorstCase(position, WorkingOrders)
  BY <1>1, <1>5, <1>12, <1>13, TotalFalls
<1>15. TotalWorstCase(position', some) <= CeilingMicros
  BY <1>1, <1>14, ExposureAssumption
<1>16. TotalWorstCase(position, WorkingOrders)' = TotalWorstCase(position', some)
  BY DEF TotalWorstCase, GroupWorstCase, NetFilled, some
<1> QED
  BY <1>5, <1>6, <1>7, <1>11, <1>12, <1>15, <1>16 DEF ExposureFacts, some, OrdersAgree

LEMMA CancelKeeps ==
    ASSUME ExposureFacts, NEW i \in Slots, CancelOrder(i)
    PROVE  ExposureFacts'
<1>1. /\ position \in [Configured -> Int]
      /\ working \in [Slots -> [sym : Symbols \union {"none"}, qty : Int,
                                oco : OcoGroups \union {Alone}]]
      /\ OrdersAgree(WorkingOrders)
      /\ \A j \in Busy : working[j].sym \in Approved
      /\ TotalWorstCase(position, WorkingOrders) <= CeilingMicros
  BY DEF ExposureFacts
<1>2. working' \in [Slots -> [sym : Symbols \union {"none"}, qty : Int,
                              oco : OcoGroups \union {Alone}]]
  <2>1. NoOrderHere \in [sym : Symbols \union {"none"}, qty : Int,
                         oco : OcoGroups \union {Alone}]
    BY DEF NoOrderHere
  <2> QED
    BY <1>1, <2>1 DEF CancelOrder
<1>3. ASSUME NEW j \in Busy'
      PROVE  j \in Busy /\ working'[j] = working[j] /\ Order(j)' = Order(j)
  BY <1>1 DEF Busy, CancelOrder, Order
<1> DEFINE some == WorkingOrders'
<1>4. some \in SUBSET WorkingOrders
  BY <1>3 DEF WorkingOrders
<1>5. \A j \in Busy' : working'[j].sym \in Approved
  BY <1>1, <1>3
<1>6. position' = position
  BY DEF CancelOrder
<1> HIDE DEF some
<1>7. OrdersAgree(some)
  BY <1>1, <1>4, SubsetAgrees
<1>8. \A grp \in Groups :
         GroupWorstCase(position, some, grp) <= GroupWorstCase(position, WorkingOrders, grp)
  BY <1>1, <1>4, GroupAfterCancel
<1>9. /\ TotalWorstCase(position, some) \in Nat
      /\ TotalWorstCase(position, WorkingOrders) \in Nat
      /\ TotalWorstCase(position, some) <= TotalWorstCase(position, WorkingOrders)
  BY <1>1, <1>7, <1>8, TotalFalls
<1>10. TotalWorstCase(position, some) <= CeilingMicros
  BY <1>1, <1>9, ExposureAssumption
<1> QED
  BY <1>1, <1>2, <1>5, <1>6, <1>7, <1>10
     DEF ExposureFacts, some, OrdersAgree, TotalWorstCase, GroupWorstCase, NetFilled

LEMMA SubmitKeeps ==
    ASSUME ExposureFacts, Submit
    PROVE  ExposureFacts'
<1>1. /\ position \in [Configured -> Int]
      /\ working \in [Slots -> [sym : Symbols \union {"none"}, qty : Int,
                                oco : OcoGroups \union {Alone}]]
      /\ OrdersAgree(WorkingOrders)
      /\ \A j \in Busy : working[j].sym \in Approved
  BY DEF ExposureFacts
<1>2. PICK i \in Slots \ Busy, s \in Symbols, q \in Quantities,
           x \in OcoGroups \union {Alone} :
         /\ x = Alone \/ \A o \in WorkingOrders : o.oco = x => o.sym = s /\ o.qty * q > 0
         /\ Allowed([sym |-> s, qty |-> q, oco |-> x, slot |-> i])
         /\ working' = [working EXCEPT ![i] = [sym |-> s, qty |-> q, oco |-> x]]
  BY DEF Submit
<1>3. position' = position
  BY DEF Submit
<1> DEFINE new == [sym |-> s, qty |-> q, oco |-> x, slot |-> i]
           after == WorkingOrders \union {new}
<1>4. /\ s \in Configured /\ s \in Approved /\ q \in Int \ {0}
      /\ \A t \in Configured : position[t] # 0 => t \in Approved
      /\ TotalWorstCase(position, after) <= CeilingMicros
  BY <1>2, ExposureAssumption DEF Allowed
<1>5. working' \in [Slots -> [sym : Symbols \union {"none"}, qty : Int,
                              oco : OcoGroups \union {Alone}]]
  BY <1>1, <1>2, <1>4
<1>6. /\ working'[i] = [sym |-> s, qty |-> q, oco |-> x]
      /\ \A j \in Slots : j # i => working'[j] = working[j]
  BY <1>1, <1>2
<1>7. working'[i] # NoOrderHere
  <2>1. working'[i].qty = q /\ NoOrderHere.qty = 0
    BY <1>6 DEF NoOrderHere
  <2> QED
    BY <1>4, <2>1
<1>8. Busy' = Busy \union {i}
  BY <1>6, <1>7 DEF Busy
<1>9. Order(i)' = new /\ \A j \in Busy : Order(j)' = Order(j)
  BY <1>6 DEF Order, Busy
<1>10. WorkingOrders' = after
  <2>1. WorkingOrders' = {Order(j)' : j \in Busy'}
    BY DEF WorkingOrders
  <2> QED
    BY <1>8, <1>9, <2>1 DEF WorkingOrders
<1>11. ASSUME NEW j \in Busy' PROVE working'[j].sym \in Approved
  <2>1. CASE j = i
    <3>1. working'[i].sym = s
      BY <1>6
    <3> QED
      BY <1>4, <2>1, <3>1
  <2>2. CASE j # i
    <3>1. j \in Busy /\ working'[j] = working[j]
      BY <1>6, <1>8, <2>2 DEF Busy
    <3> QED
      BY <1>1, <3>1
  <2> QED
    BY <2>1, <2>2
<1>12. new.sym = s /\ new.qty = q /\ new.oco = x
  OBVIOUS
<1> HIDE DEF new
<1>13. IsFiniteSet(after)
  BY <1>1, FS_AddElement DEF OrdersAgree
<1>14. \A o \in after : o.sym \in Configured /\ o.qty \in Int \ {0}
  BY <1>1, <1>4, <1>12 DEF OrdersAgree
<1>15. ASSUME NEW o \in WorkingOrders, x # Alone, o.oco = x
       PROVE  o.sym = s /\ (o.qty > 0 <=> q > 0)
  <2> DEFINE k == o.qty
  <2>1. o.sym = s /\ k * q > 0 /\ k \in Int
    BY <1>1, <1>2, <1>15 DEF OrdersAgree
  <2> HIDE DEF k
  <2>2. k > 0 <=> q > 0
    BY <1>4, <2>1
  <2> QED
    BY <2>1, <2>2 DEF k
<1>16. OrdersAgree(after)
  <2> SUFFICES ASSUME NEW o \in after, NEW p \in after, o.oco # Alone, o.oco = p.oco
               PROVE  o.sym = p.sym /\ (o.qty > 0 <=> p.qty > 0)
    BY <1>13, <1>14 DEF OrdersAgree
  <2>1. CASE o \in WorkingOrders /\ p \in WorkingOrders
    BY <1>1, <2>1 DEF OrdersAgree
  <2>2. CASE o = new /\ p \in WorkingOrders
    BY <1>12, <1>15, <2>2
  <2>3. CASE o \in WorkingOrders /\ p = new
    BY <1>12, <1>15, <2>3
  <2>4. CASE o = new /\ p = new
    BY <2>4
  <2> QED
    BY <2>1, <2>2, <2>3, <2>4
<1> HIDE DEF after
<1> QED
  BY <1>1, <1>3, <1>4, <1>5, <1>10, <1>11, <1>16
     DEF ExposureFacts, OrdersAgree, TotalWorstCase, GroupWorstCase, NetFilled

LEMMA ExposureStep ==
    ASSUME ExposureFacts, [BookNext]_bookVars
    PROVE  ExposureFacts'
<1>1. CASE UNCHANGED bookVars
  BY <1>1 DEF bookVars, ExposureFacts, OrdersAgree, TotalWorstCase, GroupWorstCase,
     NetFilled, WorkingOrders, Busy, Order
<1> QED
  BY <1>1, SubmitKeeps, FillKeeps, CancelKeeps DEF BookNext

-----------------------------------------------------------------------------
(* The four ledgers. *)

HasKey(k) == \E e \in entries : e.key = k

\* An entry as the builders make it.
EntrySound(e) ==
    e.ledger \in Ledgers /\ e.lines \in [AccountCodes -> Int] /\ Valid(e)
DraftSound(d) ==
    /\ d.ledger \in Ledgers /\ d.lines \in [AccountCodes -> Int]
    /\ d.reverses = <<>> /\ d.key # <<>>

BooksTyped ==
    /\ sale \in [Sales -> SaleTerms \union {NotSold}]
    /\ reward \in [Rewards -> [at : {"none", "owed", "paid"}, gross : Nat]]
    /\ refill \in [Refills -> [done : BOOLEAN, by : Int]]

\* What stands posted: sound entries under keys of their own, and corrections that
\* name what they reverse.
EntriesInv ==
    /\ IsFiniteSet(entries)
    /\ \A e \in entries : EntrySound(e)
    /\ \A e \in entries \ Corrections : e.key # <<>>
    /\ \A e, f \in entries : e.key = f.key => e = f
    /\ \A c \in Corrections :
          c.key = Append(c.reverses, "compensate") /\ HasKey(c.reverses)

StandingInv == \A a \in AccountCodes : Balance(a, entries) = Balance(a, Standing)

\* Which keys are taken follows from the rows, ...
KeysAgree ==
    /\ \A s \in Sales : /\ HasKey(<<s, "revenue">>) <=> sale[s] # NotSold
                        /\ HasKey(<<s, "cash">>) <=> sale[s] # NotSold
    /\ \A r \in Rewards : /\ HasKey(<<r, "accrue">>) <=> reward[r].at # "none"
                          /\ HasKey(<<r, "sim">>) <=> reward[r].at = "paid"
                          /\ HasKey(<<r, "cash">>) <=> reward[r].at = "paid"
                          /\ HasKey(<<r, "obligation">>) <=> reward[r].at = "paid"
    /\ \A x \in Refills : HasKey(<<x, "reset-sim">>) => refill[x].done

\* ... and what the accounts hold adds up from them.
RowsAgree ==
    /\ Balance("CASH_TRADER_REWARDS_PAID", entries) = OwedIn({"paid"})
    /\ -Balance("OBLIGATION_REWARDS_PAYABLE", entries) = OwedIn({"owed"})
    /\ Balance("SIM_PROGRAM_COUNTERPARTY", entries) = 2 * OwedIn({"paid"}) - Adjusted
    /\ Balance("REVENUE_RECEIVABLE", entries) = Receivable
    /\ \A e \in entries : e.lines["CASH_TRADER_REWARDS_PAID"] >= 0

AmountsInv == Corrections = {} => KeysAgree /\ RowsAgree

BooksInv == BooksTyped /\ EntriesInv /\ StandingInv /\ AmountsInv

LEMMA ChartFinite == IsFiniteSet(AccountCodes)
<1> DEFINE A1 == {"SIM_ACCOUNT_EQUITY"}
           A2 == A1 \union {"SIM_PROGRAM_COUNTERPARTY"}
           A3 == A2 \union {"CASH_PROCESSOR_HELD"}
           A4 == A3 \union {"CASH_AVAILABLE"}
           A5 == A4 \union {"CASH_RESERVES"}
           A6 == A5 \union {"CASH_TRADER_REWARDS_PAID"}
           A7 == A6 \union {"CASH_REFUNDS_PAID"}
           A8 == A7 \union {"CASH_CHARGEBACKS"}
           A9 == A8 \union {"CASH_PROCESSOR_FEES_PAID"}
           A10 == A9 \union {"CASH_VENDOR_COSTS_PAID"}
           A11 == A10 \union {"CASH_ACQUISITION_COSTS_PAID"}
           A12 == A11 \union {"OBLIGATION_REWARDS_PAYABLE"}
           A13 == A12 \union {"OBLIGATION_CAPACITY_RESERVED"}
           A14 == A13 \union {"OBLIGATION_EQUITY"}
           A15 == A14 \union {"REVENUE_ACCOUNT_FEES"}
           A16 == A15 \union {"REVENUE_ADDON_FEES"}
           A17 == A16 \union {"REVENUE_RECEIVABLE"}
           A18 == A17 \union {"CONTRA_REVENUE_DISCOUNTS"}
           A19 == A18 \union {"CONTRA_REVENUE_REFUNDS"}
           A20 == A19 \union {"COST_PROCESSOR_FEES"}
           A21 == A20 \union {"COST_ADDON_DELIVERY"}
           A22 == A21 \union {"COST_PROVIDER_FEES"}
<1>1. AccountCodes = A22
  BY DEF AccountCodes, Ledgers, Chart
<1>2. IsFiniteSet(A1)
  BY FS_Singleton
<1>3. \A S, x : IsFiniteSet(S) => IsFiniteSet(S \union {x})
  BY FS_AddElement
<1>4. IsFiniteSet(A6)
  BY <1>2, <1>3
<1> HIDE DEF A6
<1>5. IsFiniteSet(A11)
  BY <1>4, <1>3
<1> HIDE DEF A11
<1>6. IsFiniteSet(A16)
  BY <1>5, <1>3
<1> HIDE DEF A16
<1>7. IsFiniteSet(A22)
  BY <1>6, <1>3
<1> QED
  BY <1>1, <1>7

LEMMA ChartCodes ==
    /\ {"SIM_ACCOUNT_EQUITY", "SIM_PROGRAM_COUNTERPARTY", "CASH_PROCESSOR_HELD",
        "CASH_AVAILABLE", "CASH_TRADER_REWARDS_PAID", "CASH_PROCESSOR_FEES_PAID",
        "OBLIGATION_REWARDS_PAYABLE", "OBLIGATION_EQUITY", "REVENUE_ACCOUNT_FEES",
        "REVENUE_ADDON_FEES", "REVENUE_RECEIVABLE", "CONTRA_REVENUE_DISCOUNTS"}
           \subseteq AccountCodes
    /\ \A l \in Ledgers : Chart[l] \subseteq AccountCodes
BY DEF AccountCodes, Ledgers, Chart

LEMMA ChartIsolated ==
    ASSUME NEW l \in Ledgers, NEW m \in Ledgers, NEW a, a \in Chart[l], a \in Chart[m]
    PROVE  l = m
BY DEF Ledgers, Chart

-----------------------------------------------------------------------------
(* Balances of sets of entries. *)

LEMMA BalanceOfPart ==
    ASSUME NEW a, NEW P, IsFiniteSet(P), NEW Q \in SUBSET P
    PROVE  SumOver([e \in P |-> e.lines[a]], Q) = Balance(a, Q)
<1> DEFINE f == [e \in P |-> e.lines[a]]
           g == [e \in Q |-> e.lines[a]]
<1>1. \A e \in Q : f[e] = g[e]
  OBVIOUS
<1>2. IsFiniteSet(Q)
  BY FS_Subset
<1> HIDE DEF f, g
<1>3. SumOver(f, Q) = SumOver(g, Q)
  BY <1>1, <1>2, SumSame
<1> QED
  BY <1>3 DEF f, g, Balance

LEMMA BalanceUnion ==
    ASSUME NEW a, NEW P, IsFiniteSet(P), NEW Q, IsFiniteSet(Q), P \intersect Q = {},
           \A e \in P \union Q : e.lines[a] \in Int
    PROVE  /\ Balance(a, P) \in Int
           /\ Balance(a, Q) \in Int
           /\ Balance(a, P \union Q) = Balance(a, P) + Balance(a, Q)
<1> DEFINE R == P \union Q
           f == [e \in R |-> e.lines[a]]
<1>1. IsFiniteSet(R) /\ P \in SUBSET R /\ Q \in SUBSET R /\ R \in SUBSET R
  BY FS_Union
<1>2. \A e \in R : f[e] \in Int
  OBVIOUS
<1>3. /\ SumOver(f, R) = Balance(a, R)
      /\ SumOver(f, P) = Balance(a, P)
      /\ SumOver(f, Q) = Balance(a, Q)
  <2> HIDE DEF R
  <2> QED
    BY <1>1, BalanceOfPart
<1> HIDE DEF f
<1>4. SumOver(f, R) = SumOver(f, P) + SumOver(f, Q)
  BY <1>2, SumUnion
<1>5. SumOver(f, P) \in Int /\ SumOver(f, Q) \in Int
  BY <1>2, SumIsInt
<1> QED
  BY <1>3, <1>4, <1>5

LEMMA BalanceOne ==
    ASSUME NEW a, NEW e, e.lines[a] \in Int
    PROVE  Balance(a, {e}) = e.lines[a]
<1> DEFINE f == [x \in {e} |-> x.lines[a]]
<1>1. f[e] \in Int /\ f[e] = e.lines[a]
  OBVIOUS
<1> HIDE DEF f
<1>2. SumOver(f, {e}) = f[e]
  BY <1>1, SumSingle
<1> QED
  BY <1>1, <1>2 DEF f, Balance

LEMMA BalanceEmpty == ASSUME NEW a PROVE Balance(a, {}) = 0
BY SumEmpty DEF Balance

LEMMA BalanceWithout ==
    ASSUME NEW a, NEW P, IsFiniteSet(P), \A e \in P : e.lines[a] \in Int, NEW e \in P
    PROVE  /\ Balance(a, P \ {e}) \in Int
           /\ Balance(a, P) = Balance(a, P \ {e}) + e.lines[a]
<1> DEFINE Q == P \ {e}
<1>1. IsFiniteSet(Q) /\ IsFiniteSet({e}) /\ Q \intersect {e} = {} /\ Q \union {e} = P
  BY FS_Subset, FS_Singleton
<1>2. \A x \in Q \union {e} : x.lines[a] \in Int
  OBVIOUS
<1> HIDE DEF Q
<1>3. Balance(a, Q) \in Int /\ Balance(a, Q \union {e}) = Balance(a, Q) + Balance(a, {e})
  BY <1>1, <1>2, BalanceUnion
<1>4. Balance(a, {e}) = e.lines[a]
  BY BalanceOne
<1> QED
  BY <1>1, <1>3, <1>4 DEF Q

-----------------------------------------------------------------------------
(* Each ledger balances: an entry stays within one ledger and adds up to zero. *)

LEMMA LedgersBalance ==
    ASSUME EntriesInv, NEW l \in Ledgers
    PROVE  LedgerNet(l) = 0
<1> DEFINE A == Chart[l]
           h == [e \in entries |-> e.lines]
           c == Columns(h, entries, A)
           b == [a \in AccountCodes |-> Balance(a, entries)]
<1>1. IsFiniteSet(entries) /\ \A e \in entries : EntrySound(e)
  BY DEF EntriesInv
<1>2. IsFiniteSet(A) /\ A \subseteq AccountCodes
  BY ChartFinite, ChartCodes, FS_Subset
<1>3. ASSUME NEW e \in entries
      PROVE  (\A a \in A : h[e][a] \in Int) /\ SumOver(h[e], A) = 0
  <2> DEFINE f == e.lines
             R == AccountCodes \ A
  <2>1. f \in [AccountCodes -> Int] /\ SumOver(f, AccountCodes) = 0
        /\ \A a \in AccountCodes : f[a] # 0 => a \in Chart[e.ledger]
    BY <1>1 DEF EntrySound, Valid
  <2>2. IsFiniteSet(R) /\ A \union R = AccountCodes /\ A \intersect R = {}
    BY <1>2, ChartFinite, FS_Subset
  <2> HIDE DEF f, R, A
  <2>3. \A a \in A \union R : f[a] \in Int
    BY <2>1, <2>2
  <2>4. SumOver(f, A) + SumOver(f, R) = 0 /\ SumOver(f, A) \in Int
    BY <1>2, <2>1, <2>2, <2>3, SumUnion, SumIsInt
  <2>5. SumOver(f, A) = 0
    <3>1. CASE \A a \in A : f[a] = 0
      BY <1>2, <3>1, SumOfZeros
    <3>2. CASE \E a \in A : f[a] # 0
      <4>1. PICK a \in A : f[a] # 0
        BY <3>2
      <4>2. e.ledger = l
        <5>1. e.ledger \in Ledgers /\ a \in Chart[e.ledger] /\ a \in Chart[l]
          BY <1>1, <1>2, <2>1, <4>1 DEF EntrySound, A
        <5> QED
          BY <5>1, ChartIsolated
      <4>3. \A x \in R : f[x] = 0
        <5>1. SUFFICES ASSUME NEW x \in R, f[x] # 0 PROVE FALSE
          OBVIOUS
        <5>2. x \in Chart[l]
          BY <2>1, <2>2, <4>2, <5>1
        <5> QED
          BY <2>2, <5>2 DEF A
      <4>4. SumOver(f, R) = 0
        BY <2>2, <4>3, SumOfZeros
      <4> QED
        BY <2>4, <4>4
    <3> QED
      BY <3>1, <3>2
  <2>6. h[e] = f
    BY DEF f
  <2> QED
    BY <2>3, <2>5, <2>6
<1>4. SumOver(c, A) = 0
  <2> HIDE DEF h, A
  <2> QED
    BY <1>1, <1>2, <1>3, ColumnsCancel
<1>5. \A a \in A : c[a] = b[a]
  <2> SUFFICES ASSUME NEW a \in A PROVE c[a] = b[a]
    OBVIOUS
  <2>1. c[a] = SumOver([e \in entries |-> h[e][a]], entries)
    BY DEF Columns
  <2>2. [e \in entries |-> h[e][a]] = [e \in entries |-> e.lines[a]]
    OBVIOUS
  <2>3. b[a] = Balance(a, entries)
    BY <1>2
  <2> QED
    BY <2>1, <2>2, <2>3 DEF Balance
<1>6. SumOver(c, A) = SumOver(b, A)
  <2> HIDE DEF b, c, A
  <2> QED
    BY <1>2, <1>5, SumSame
<1> QED
  BY <1>4, <1>6 DEF LedgerNet
-----------------------------------------------------------------------------
(* Posting. *)

\* What is posted under fresh keys, or was posted before.
LEMMA PostingSound ==
    ASSUME EntriesInv, StandingInv, NEW D, IsFiniteSet(D), \A d \in D : DraftSound(d),
           \A d, e \in D : d.key = e.key => d = e, PostEntries(D)
    PROVE  /\ EntriesInv' /\ StandingInv' /\ Corrections' = Corrections
           /\ \A k : HasKey(k)' <=> HasKey(k) \/ \E d \in D : d.key = k
<1> DEFINE N == {d \in D : \A f \in entries : f.key # d.key}
           E == entries \union N
<1>1. entries' = E /\ \A d \in D : Valid(d)
  BY DEF PostEntries
<1>2. IsFiniteSet(entries) /\ IsFiniteSet(N) /\ IsFiniteSet(E)
  BY FS_Subset, FS_Union DEF EntriesInv
<1>3. Corrections' = Corrections
  BY <1>1 DEF Corrections, DraftSound
<1>4. \A k : HasKey(k)' <=> HasKey(k) \/ \E d \in D : d.key = k
  BY <1>1 DEF HasKey
<1>5. \A e \in E : EntrySound(e)
  BY <1>1 DEF EntriesInv, EntrySound, DraftSound
<1>6. EntriesInv'
  <2>1. \A e \in E \ Corrections : e.key # <<>>
    BY DEF EntriesInv, DraftSound
  <2>2. \A e, f \in E : e.key = f.key => e = f
    BY DEF EntriesInv
  <2>3. \A c \in Corrections :
          c.key = Append(c.reverses, "compensate") /\ HasKey(c.reverses)'
    BY <1>4 DEF EntriesInv
  <2>4. \A e \in E : EntrySound(e)'
    BY <1>5 DEF EntrySound, Valid
  <2> HIDE DEF E
  <2> QED
    BY <1>1, <1>2, <1>3, <2>1, <2>2, <2>3, <2>4 DEF EntriesInv
<1>7. Reversed' = Reversed
  BY <1>3 DEF Reversed
<1>8. Standing' = Standing \union N
  <2>1. \A n \in N : n.key \notin Reversed /\ n \notin Corrections
    BY DEF EntriesInv, Reversed, HasKey, Corrections
  <2> HIDE DEF N
  <2> QED
    BY <1>1, <1>3, <1>7, <2>1 DEF Standing
<1>9. ASSUME NEW a \in AccountCodes
      PROVE  Balance(a, entries') = Balance(a, Standing')
  <2>1. \A e \in E : e.lines[a] \in Int
    BY <1>5 DEF EntrySound
  <2>2. IsFiniteSet(Standing) /\ Standing \subseteq entries
    BY <1>2, FS_Subset DEF Standing
  <2>3. entries \intersect N = {} /\ Standing \intersect N = {}
    BY <2>2
  <2> HIDE DEF N
  <2>4. Balance(a, E) = Balance(a, entries) + Balance(a, N)
    BY <1>2, <2>1, <2>3, BalanceUnion
  <2>5. Balance(a, Standing \union N) = Balance(a, Standing) + Balance(a, N)
    BY <1>2, <2>1, <2>2, <2>3, BalanceUnion
  <2>6. Balance(a, entries) = Balance(a, Standing)
    BY DEF StandingInv
  <2> QED
    BY <1>1, <1>8, <2>4, <2>5, <2>6
<1>10. StandingInv'
  BY <1>9 DEF StandingInv, Balance
<1> QED
  BY <1>3, <1>4, <1>6, <1>10

\* A correction takes away what it reverses, from the entries and from what stands.
LEMMA CompensationSound ==
    ASSUME EntriesInv, StandingInv, Compensate
    PROVE  EntriesInv' /\ StandingInv' /\ (Corrections' = {} => entries' = entries)
<1>1. PICK e \in entries \ Corrections : PostEntries({CompensatingEntry(e)})
  BY DEF Compensate
<1> DEFINE c == CompensatingEntry(e)
<1>2. CASE \E f \in entries : f.key = c.key
  <2>1. {d \in {c} : \A f \in entries : f.key # d.key} = {}
    BY <1>2
  <2>2. entries' = entries
    BY <1>1, <2>1 DEF PostEntries
  <2> QED
    BY <2>2 DEF EntriesInv, StandingInv, Corrections, Standing, Reversed, HasKey, EntrySound,
       Valid, Balance
<1>3. CASE \A f \in entries : f.key # c.key
  <2>1. entries' = entries \union {c} /\ Valid(c)
    BY <1>1, <1>3 DEF PostEntries
  <2>2. EntrySound(e) /\ e.key # <<>> /\ IsFiniteSet(entries)
    BY <1>1 DEF EntriesInv
  <2>3. /\ c.key = Append(e.key, "compensate")
        /\ c.reverses = e.key
        /\ c.lines = [a \in AccountCodes |-> -e.lines[a]]
        /\ c.ledger = e.ledger
    BY DEF CompensatingEntry
  <2> HIDE DEF c
  <2>4. e.reverses = <<>> /\ c.reverses # <<>> /\ c \notin entries
    BY <1>1, <1>3, <2>2, <2>3 DEF Corrections
  <2>5. Corrections' = Corrections \union {c}
    BY <2>1, <2>4 DEF Corrections
  <2>6. HasKey(c.reverses) /\ \A k : HasKey(k) => HasKey(k)'
    BY <1>1, <2>1, <2>3 DEF HasKey
  <2>7. EntrySound(c)
    <3>1. c.lines \in [AccountCodes -> Int] /\ c.ledger \in Ledgers
      BY <2>2, <2>3 DEF EntrySound
    <3> QED
      BY <2>1, <3>1 DEF EntrySound
  <2>8. EntriesInv'
    <3>1. IsFiniteSet(entries')
      BY <2>1, <2>2, FS_AddElement
    <3>2. \A x \in entries' : EntrySound(x)'
      BY <2>1, <2>7 DEF EntriesInv, EntrySound, Valid
    <3>3. \A x \in entries' \ Corrections' : x.key # <<>>
      BY <2>1, <2>5 DEF EntriesInv
    <3>4. \A x, f \in entries' : x.key = f.key => x = f
      BY <1>3, <2>1 DEF EntriesInv
    <3>5. \A x \in Corrections' :
            x.key = Append(x.reverses, "compensate") /\ HasKey(x.reverses)'
      BY <2>3, <2>5, <2>6 DEF EntriesInv
    <3> QED
      BY <3>1, <3>2, <3>3, <3>4, <3>5 DEF EntriesInv
  <2>9. e \in Standing
    <3>1. SUFFICES ASSUME e.key \in Reversed PROVE FALSE
      BY <1>1 DEF Standing
    <3>2. PICK d \in Corrections : d.reverses = e.key
      BY <3>1 DEF Reversed
    <3>3. d.key = c.key /\ d \in entries
      BY <2>3, <3>2 DEF EntriesInv, Corrections
    <3> QED
      BY <1>3, <3>3
  <2>10. Reversed' = Reversed \union {e.key}
    BY <2>3, <2>5 DEF Reversed
  <2>11. Standing' = Standing \ {e}
    <3>1. entries' \ Corrections' = entries \ Corrections
      BY <2>1, <2>4, <2>5
    <3>2. \A f \in entries : f.key = e.key => f = e
      BY <1>1 DEF EntriesInv
    <3> QED
      BY <2>10, <3>1, <3>2 DEF Standing
  <2>12. ASSUME NEW a \in AccountCodes
         PROVE  Balance(a, entries') = Balance(a, Standing')
    <3>1. /\ \A x \in entries : x.lines[a] \in Int
          /\ e.lines[a] \in Int
          /\ c.lines[a] = -e.lines[a]
      BY <1>1, <2>2, <2>3 DEF EntriesInv, EntrySound
    <3>2. IsFiniteSet(Standing) /\ Standing \subseteq entries
      BY <2>2, FS_Subset DEF Standing
    <3>3. /\ Balance(a, Standing \ {e}) \in Int
          /\ Balance(a, Standing) = Balance(a, Standing \ {e}) + e.lines[a]
      BY <2>9, <3>1, <3>2, BalanceWithout
    <3>4. /\ Balance(a, entries) \in Int
          /\ Balance(a, entries \union {c}) = Balance(a, entries) + Balance(a, {c})
      <4>1. IsFiniteSet({c}) /\ entries \intersect {c} = {}
        BY <2>4, FS_Singleton
      <4>2. \A x \in entries \union {c} : x.lines[a] \in Int
        BY <3>1
      <4> QED
        BY <2>2, <4>1, <4>2, BalanceUnion
    <3>5. Balance(a, {c}) = -e.lines[a]
      <4>1. c.lines[a] \in Int
        BY <3>1
      <4>2. Balance(a, {c}) = c.lines[a]
        BY <4>1, BalanceOne
      <4> QED
        BY <3>1, <4>2
    <3>6. Balance(a, entries) = Balance(a, Standing)
      BY DEF StandingInv
    <3> QED
      BY <2>1, <2>11, <3>1, <3>3, <3>4, <3>5, <3>6
  <2>13. StandingInv'
    BY <2>12 DEF StandingInv, Balance
  <2> QED
    BY <2>5, <2>8, <2>13
<1> QED
  BY <1>2, <1>3
-----------------------------------------------------------------------------
(* The rows and their entries. *)

LEMMA PostedNew ==
    ASSUME EntriesInv, NEW D, IsFiniteSet(D), \A d \in D : DraftSound(d),
           PostEntries(D), \A d \in D : ~ HasKey(d.key)
    PROVE  /\ entries' = entries \union D
           /\ \A a \in AccountCodes :
                 /\ Balance(a, entries) \in Int
                 /\ Balance(a, D) \in Int
                 /\ Balance(a, entries') = Balance(a, entries) + Balance(a, D)
<1>1. entries' = entries \union D /\ entries \intersect D = {}
  BY DEF PostEntries, HasKey
<1>2. IsFiniteSet(entries)
  BY DEF EntriesInv
<1>3. \A e \in entries \union D : e.lines \in [AccountCodes -> Int]
  BY DEF EntriesInv, EntrySound, DraftSound
<1> QED
  BY <1>1, <1>2, <1>3, BalanceUnion

LEMMA PostedBefore ==
    ASSUME NEW D, PostEntries(D), \A d \in D : HasKey(d.key)
    PROVE  entries' = entries
BY DEF PostEntries, HasKey

LEMMA LinesAdd ==
    ASSUME NEW a \in AccountCodes, NEW b \in AccountCodes, NEW n \in Int, NEW m \in Int,
           a # b
    PROVE  (Debit(a, n) ++ Debit(b, m))
              = [c \in AccountCodes |-> IF c = a THEN n ELSE IF c = b THEN m ELSE 0]
BY DEF Debit, ++

LEMMA HalfIsExact ==
    \A n \in Nat : n \div 2 \in Nat /\ (n % 2 = 0 => n = 2 * (n \div 2))
OBVIOUS

LEMMA PairsAgree == \A a, b, c, d : <<a, b>> = <<c, d>> <=> a = c /\ b = d
OBVIOUS

\* A row changes, and what is owed by as much.
Share(row, S) == IF row.at \in S THEN row.gross \div 2 ELSE 0

LEMMA OwedChanges ==
    ASSUME BooksTyped, NEW r \in Rewards, NEW row \in [at : {"none", "owed", "paid"}, gross : Nat],
           reward' = [reward EXCEPT ![r] = row], NEW S
    PROVE  /\ OwedIn(S) \in Int
           /\ OwedIn(S)' = OwedIn(S) + Share(row, S) - Share(reward[r], S)
<1> DEFINE f == [x \in Rewards |-> Share(reward[x], S)]
           g == [x \in Rewards |-> Share(reward'[x], S)]
<1>1. IsFiniteSet(Rewards)
  BY BooksAssumption
<1>2. \A x \in Rewards : f[x] \in Int /\ g[x] \in Int
  <2>1. \A x \in Rewards : /\ reward[x] \in [at : {"none", "owed", "paid"}, gross : Nat]
                           /\ reward'[x] \in [at : {"none", "owed", "paid"}, gross : Nat]
    BY DEF BooksTyped
  <2>2. \A v \in [at : {"none", "owed", "paid"}, gross : Nat] : Share(v, S) \in Int
    BY HalfIsExact DEF Share
  <2> QED
    BY <2>1, <2>2
<1>3. f[r] = Share(reward[r], S) /\ g[r] = Share(row, S)
  BY DEF BooksTyped
<1>4. \A x \in Rewards \ {r} : g[x] = f[x]
  BY DEF BooksTyped
<1>5. OwedIn(S) = SumOver(f, Rewards) /\ OwedIn(S)' = SumOver(g, Rewards)
  BY DEF OwedIn, Share
<1> HIDE DEF f, g
<1>6. SumOver(f, Rewards) \in Int
  BY <1>1, <1>2, SumIsInt
<1>7. SumOver(g, Rewards) = SumOver(f, Rewards) + g[r] - f[r]
  BY <1>1, <1>2, <1>4, SumChanges
<1> QED
  BY <1>3, <1>5, <1>6, <1>7

LEMMA AdjustedChanges ==
    ASSUME BooksTyped, NEW x \in Refills, NEW n \in Int,
           refill' = [refill EXCEPT ![x] = [done |-> TRUE, by |-> n]], refill[x] = NotReset
    PROVE  Adjusted \in Int /\ Adjusted' = Adjusted + n
<1> DEFINE f == [y \in Refills |-> refill[y].by]
           g == [y \in Refills |-> refill'[y].by]
<1>1. IsFiniteSet(Refills)
  BY BooksAssumption
<1>2. \A y \in Refills : f[y] \in Int /\ g[y] \in Int
  BY DEF BooksTyped
<1>3. f[x] = 0 /\ g[x] = n
  BY DEF BooksTyped, NotReset
<1>4. \A y \in Refills \ {x} : g[y] = f[y]
  BY DEF BooksTyped, NotReset
<1>5. Adjusted = SumOver(f, Refills) /\ Adjusted' = SumOver(g, Refills)
  BY DEF Adjusted
<1> HIDE DEF f, g
<1>6. SumOver(f, Refills) \in Int
  BY <1>1, <1>2, SumIsInt
<1>7. SumOver(g, Refills) = SumOver(f, Refills) + g[x] - f[x]
  BY <1>1, <1>2, <1>4, SumChanges
<1> QED
  BY <1>3, <1>5, <1>6, <1>7

LEMMA ReceivableChanges ==
    ASSUME BooksTyped, NEW s \in Sales, NEW t \in SaleTerms,
           sale' = [sale EXCEPT ![s] = t], sale[s] = NotSold
    PROVE  Receivable \in Int /\ Receivable' = Receivable + (t.fee + t.addon - t.discount)
<1> DEFINE f == [y \in Sales |-> sale[y].fee + sale[y].addon - sale[y].discount]
           g == [y \in Sales |-> sale'[y].fee + sale'[y].addon - sale'[y].discount]
<1>1. IsFiniteSet(Sales)
  BY BooksAssumption
<1>2. \A v \in SaleTerms \union {NotSold} : v.fee + v.addon - v.discount \in Int
  BY BooksAssumption DEF NotSold
<1>3. \A y \in Sales : sale[y] \in SaleTerms \union {NotSold} /\ sale'[y] \in SaleTerms \union {NotSold}
  BY DEF BooksTyped
<1>4. \A y \in Sales : f[y] \in Int /\ g[y] \in Int
  BY <1>2, <1>3
<1>5. f[s] = 0 /\ g[s] = t.fee + t.addon - t.discount
  BY DEF BooksTyped, NotSold
<1>6. \A y \in Sales \ {s} : g[y] = f[y]
  BY DEF BooksTyped, NotSold
<1>7. Receivable = SumOver(f, Sales) /\ Receivable' = SumOver(g, Sales)
  BY DEF Receivable
<1> HIDE DEF f, g
<1>8. SumOver(f, Sales) \in Int
  BY <1>1, <1>4, SumIsInt
<1>9. SumOver(g, Sales) = SumOver(f, Sales) + g[s] - f[s]
  BY <1>1, <1>4, <1>6, SumChanges
<1> QED
  BY <1>4, <1>5, <1>7, <1>8, <1>9
LEMMA BalanceTwo ==
    ASSUME NEW a, NEW d, NEW e, d # e, d.lines[a] \in Int, e.lines[a] \in Int
    PROVE  Balance(a, {d, e}) = d.lines[a] + e.lines[a]
<1>1. IsFiniteSet({d}) /\ IsFiniteSet({e}) /\ {d} \intersect {e} = {}
  BY FS_Singleton
<1>2. Balance(a, {d} \union {e}) = Balance(a, {d}) + Balance(a, {e})
  BY <1>1, BalanceUnion
<1>3. Balance(a, {d}) = d.lines[a] /\ Balance(a, {e}) = e.lines[a]
  BY BalanceOne
<1>4. {d} \union {e} = {d, e}
  OBVIOUS
<1> QED
  BY <1>2, <1>3, <1>4

LEMMA PurchaseDrafts ==
    ASSUME NEW s, NEW t, t.fee \in Nat, t.addon \in Nat, t.discount \in Nat, t.tax \in Nat,
           t.charge \in Nat
    PROVE  \E d, e :
              /\ PurchaseEntries(s, t) = {d, e}
              /\ DraftSound(d) /\ DraftSound(e)
              /\ d.key = <<s, "revenue">> /\ e.key = <<s, "cash">>
              /\ \A a \in {"CASH_TRADER_REWARDS_PAID", "OBLIGATION_REWARDS_PAYABLE",
                           "SIM_PROGRAM_COUNTERPARTY"} : d.lines[a] = 0 /\ e.lines[a] = 0
              /\ d.lines["REVENUE_RECEIVABLE"] = t.fee + t.addon - t.discount
              /\ e.lines["REVENUE_RECEIVABLE"] = 0
              /\ Valid(d) => t # NotSold
<1> DEFINE n == t.fee + t.addon - t.discount
           m == t.fee + t.addon - t.discount + t.tax
           dl == Debit("REVENUE_RECEIVABLE", n) ++ Debit("CONTRA_REVENUE_DISCOUNTS", t.discount)
                 ++ Credit("REVENUE_ACCOUNT_FEES", t.fee) ++ Credit("REVENUE_ADDON_FEES", t.addon)
           el == Debit("CASH_PROCESSOR_HELD", m - t.charge)
                 ++ Debit("CASH_PROCESSOR_FEES_PAID", t.charge) ++ Credit("CASH_AVAILABLE", m)
           d == Draft(<<s, "revenue">>, "REVENUE", dl)
           e == Draft(<<s, "cash">>, "CASH", el)
<1>1. n \in Int /\ m \in Int
  OBVIOUS
<1>2. dl = [a \in AccountCodes |->
              (IF a = "REVENUE_RECEIVABLE" THEN n ELSE 0)
              + (IF a = "CONTRA_REVENUE_DISCOUNTS" THEN t.discount ELSE 0)
              + (IF a = "REVENUE_ACCOUNT_FEES" THEN -t.fee ELSE 0)
              + (IF a = "REVENUE_ADDON_FEES" THEN -t.addon ELSE 0)]
  <2> HIDE DEF n
  <2> QED
    BY DEF Debit, Credit, ++
<1>3. el = [a \in AccountCodes |->
              (IF a = "CASH_PROCESSOR_HELD" THEN m - t.charge ELSE 0)
              + (IF a = "CASH_PROCESSOR_FEES_PAID" THEN t.charge ELSE 0)
              + (IF a = "CASH_AVAILABLE" THEN -m ELSE 0)]
  <2> HIDE DEF m
  <2> QED
    BY DEF Debit, Credit, ++
<1>4. PurchaseEntries(s, t) = {d, e}
  BY DEF PurchaseEntries
<1>5. /\ d.key = <<s, "revenue">> /\ d.ledger = "REVENUE" /\ d.reverses = <<>> /\ d.lines = dl
      /\ e.key = <<s, "cash">> /\ e.ledger = "CASH" /\ e.reverses = <<>> /\ e.lines = el
  BY DEF Draft
<1> HIDE DEF d, e, dl, el
<1>6. dl \in [AccountCodes -> Int] /\ el \in [AccountCodes -> Int]
  <2> HIDE DEF n, m
  <2> QED
    BY <1>1, <1>2, <1>3
<1>7. DraftSound(d) /\ DraftSound(e)
  BY <1>5, <1>6 DEF DraftSound, Ledgers, Chart
<1>8. \A a \in {"CASH_TRADER_REWARDS_PAID", "OBLIGATION_REWARDS_PAYABLE",
               "SIM_PROGRAM_COUNTERPARTY"} : dl[a] = 0 /\ el[a] = 0
  <2> HIDE DEF n, m
  <2> QED
    BY <1>1, <1>2, <1>3, ChartCodes
<1>9. dl["REVENUE_RECEIVABLE"] = n /\ el["REVENUE_RECEIVABLE"] = 0
  <2> HIDE DEF n, m
  <2> QED
    BY <1>1, <1>2, <1>3, ChartCodes
<1>10. Valid(d) => t # NotSold
  <2>1. t = NotSold => n = 0 /\ t.fee = 0 /\ t.addon = 0 /\ t.discount = 0
    BY DEF NotSold
  <2>2. t = NotSold => \A a \in AccountCodes : dl[a] = 0
    <3> HIDE DEF n
    <3> QED
      BY <1>2, <2>1
  <2> QED
    BY <1>5, <2>2 DEF Valid
<1> QED
  BY <1>4, <1>5, <1>7, <1>8, <1>9, <1>10

LEMMA SellKeeps ==
    ASSUME BooksInv, NEW s \in Sales, Sell(s)
    PROVE  BooksInv'
<1>1. PICK t \in SaleTerms :
        /\ PostEntries(PurchaseEntries(s, t))
        /\ sale' = [sale EXCEPT ![s] = IF @ = NotSold THEN t ELSE @]
        /\ reward' = reward /\ refill' = refill
  BY DEF Sell
<1>2. /\ t.fee \in Nat /\ t.addon \in Nat /\ t.discount \in Nat /\ t.tax \in Nat
      /\ t.charge \in Nat
  BY BooksAssumption
<1>3. PICK d, e :
        /\ PurchaseEntries(s, t) = {d, e}
        /\ DraftSound(d) /\ DraftSound(e)
        /\ d.key = <<s, "revenue">> /\ e.key = <<s, "cash">>
        /\ \A a \in {"CASH_TRADER_REWARDS_PAID", "OBLIGATION_REWARDS_PAYABLE",
                     "SIM_PROGRAM_COUNTERPARTY"} : d.lines[a] = 0 /\ e.lines[a] = 0
        /\ d.lines["REVENUE_RECEIVABLE"] = t.fee + t.addon - t.discount
        /\ e.lines["REVENUE_RECEIVABLE"] = 0
        /\ Valid(d) => t # NotSold
  BY <1>2, PurchaseDrafts
<1> DEFINE D == {d, e}
<1>4. d.key # e.key /\ d # e
  BY <1>3, PairsAgree
<1>5. IsFiniteSet(D) /\ PostEntries(D) /\ \A x \in D : DraftSound(x)
  <2>1. {d} \union {e} = D
    OBVIOUS
  <2>2. IsFiniteSet({d} \union {e})
    BY FS_Singleton, FS_AddElement
  <2>3. PurchaseEntries(s, t) = D /\ \A x \in D : DraftSound(x)
    BY <1>3
  <2> HIDE DEF D
  <2> QED
    BY <1>1, <2>1, <2>2, <2>3
<1>6. t # NotSold
  BY <1>3, <1>5 DEF PostEntries
<1>7. /\ EntriesInv' /\ StandingInv' /\ Corrections' = Corrections
      /\ \A k : HasKey(k)' <=> HasKey(k) \/ k = <<s, "revenue">> \/ k = <<s, "cash">>
  <2>1. \A x, y \in D : x.key = y.key => x = y
    BY <1>4
  <2> HIDE DEF D
  <2>2. /\ EntriesInv' /\ StandingInv' /\ Corrections' = Corrections
        /\ \A k : HasKey(k)' <=> HasKey(k) \/ \E x \in D : x.key = k
    BY <1>5, <2>1, PostingSound DEF BooksInv
  <2> QED
    BY <1>3, <2>2 DEF D
<1>8. sale' \in [Sales -> SaleTerms \union {NotSold}]
  BY <1>1 DEF BooksInv, BooksTyped
<1>9. BooksTyped'
  BY <1>1, <1>8 DEF BooksInv, BooksTyped
<1>10. ASSUME Corrections = {}
       PROVE  KeysAgree' /\ RowsAgree'
  <2>1. KeysAgree /\ RowsAgree
    BY <1>10 DEF BooksInv, AmountsInv
  <2>2. sale[s] # NotSold <=> HasKey(d.key)
    BY <1>3, <2>1 DEF KeysAgree
  <2>3. sale[s] # NotSold <=> HasKey(e.key)
    BY <1>3, <2>1 DEF KeysAgree
  <2>4. KeysAgree'
    <3>1. \A x \in Sales : sale'[x] # NotSold <=> sale[x] # NotSold \/ x = s
      BY <1>1, <1>6 DEF BooksInv, BooksTyped
    <3>2. ASSUME NEW x \in Sales
          PROVE  /\ HasKey(<<x, "revenue">>)' <=> sale'[x] # NotSold
                 /\ HasKey(<<x, "cash">>)' <=> sale'[x] # NotSold
      BY <1>7, <2>1, <3>1, PairsAgree DEF KeysAgree
    <3>3. ASSUME NEW r \in Rewards
          PROVE  /\ HasKey(<<r, "accrue">>)' <=> reward'[r].at # "none"
                 /\ HasKey(<<r, "sim">>)' <=> reward'[r].at = "paid"
                 /\ HasKey(<<r, "cash">>)' <=> reward'[r].at = "paid"
                 /\ HasKey(<<r, "obligation">>)' <=> reward'[r].at = "paid"
      <4>1. r # s
        BY BooksAssumption
      <4> QED
        BY <1>1, <1>7, <2>1, <4>1, PairsAgree DEF KeysAgree
    <3>4. ASSUME NEW x \in Refills, HasKey(<<x, "reset-sim">>)'
          PROVE  refill'[x].done
      BY <1>1, <1>7, <2>1, <3>4, PairsAgree DEF KeysAgree
    <3> QED
      BY <3>2, <3>3, <3>4 DEF KeysAgree
  <2>5. OwedIn({"paid"})' = OwedIn({"paid"}) /\ OwedIn({"owed"})' = OwedIn({"owed"})
        /\ Adjusted' = Adjusted
    BY <1>1 DEF OwedIn, Adjusted
  <2>6. CASE sale[s] # NotSold
    <3>1. entries' = entries
      <4>1. \A x \in D : HasKey(x.key)
        BY <2>2, <2>3, <2>6
      <4> QED
        BY <1>5, <4>1, PostedBefore
    <3>2. sale' = sale
      BY <1>1, <2>6 DEF BooksInv, BooksTyped
    <3> QED
      BY <2>1, <2>4, <2>5, <3>1, <3>2 DEF RowsAgree, Balance, Receivable
  <2>7. CASE sale[s] = NotSold
    <3>1. /\ entries' = entries \union D
          /\ \A a \in AccountCodes :
                 /\ Balance(a, entries) \in Int
                 /\ Balance(a, D) \in Int
                 /\ Balance(a, entries') = Balance(a, entries) + Balance(a, D)
      <4>1. \A x \in D : ~ HasKey(x.key)
        BY <2>2, <2>3, <2>7
      <4> HIDE DEF D
      <4> QED
        BY <1>5, <4>1, PostedNew DEF BooksInv
    <3>2. \A a \in AccountCodes : Balance(a, D) = d.lines[a] + e.lines[a]
      <4>1. \A a \in AccountCodes : d.lines[a] \in Int /\ e.lines[a] \in Int
        BY <1>3 DEF DraftSound
      <4> QED
        BY <1>4, <4>1, BalanceTwo
    <3> HIDE DEF D
    <3>3. /\ Balance("CASH_TRADER_REWARDS_PAID", entries') = Balance("CASH_TRADER_REWARDS_PAID", entries)
          /\ Balance("OBLIGATION_REWARDS_PAYABLE", entries') = Balance("OBLIGATION_REWARDS_PAYABLE", entries)
          /\ Balance("SIM_PROGRAM_COUNTERPARTY", entries') = Balance("SIM_PROGRAM_COUNTERPARTY", entries)
          /\ Balance("REVENUE_RECEIVABLE", entries')
                = Balance("REVENUE_RECEIVABLE", entries) + (t.fee + t.addon - t.discount)
      <4>1. \A a \in AccountCodes : /\ Balance(a, entries) \in Int
                                   /\ Balance(a, entries')
                                         = Balance(a, entries) + (d.lines[a] + e.lines[a])
        BY <3>1, <3>2
      <4>2. t.fee + t.addon - t.discount \in Int
        BY <1>2
      <4>3. /\ d.lines["CASH_TRADER_REWARDS_PAID"] = 0 /\ e.lines["CASH_TRADER_REWARDS_PAID"] = 0
            /\ d.lines["OBLIGATION_REWARDS_PAYABLE"] = 0 /\ e.lines["OBLIGATION_REWARDS_PAYABLE"] = 0
            /\ d.lines["SIM_PROGRAM_COUNTERPARTY"] = 0 /\ e.lines["SIM_PROGRAM_COUNTERPARTY"] = 0
        BY <1>3
      <4>4. \A n, m \in Int : n + (0 + 0) = n /\ n + (m + 0) = n + m
        OBVIOUS
      <4> QED
        BY <1>3, <4>1, <4>2, <4>3, <4>4, ChartCodes
    <3>4. Receivable' = Receivable + (t.fee + t.addon - t.discount)
      BY <1>1, <2>7, ReceivableChanges DEF BooksInv, BooksTyped
    <3>5. \A x \in entries' : x.lines["CASH_TRADER_REWARDS_PAID"] >= 0
      BY <1>3, <2>1, <3>1 DEF RowsAgree, D
    <3> QED
      BY <2>1, <2>4, <2>5, <3>3, <3>4, <3>5 DEF RowsAgree, Balance
  <2> QED
    BY <2>6, <2>7
<1> QED
  BY <1>7, <1>9, <1>10 DEF BooksInv, AmountsInv
\* An entry of two lines.
LEMMA TransferDraft ==
    ASSUME NEW a \in AccountCodes, NEW b \in AccountCodes, a # b, NEW n \in Int,
           NEW l \in Ledgers, NEW k, k # <<>>,
           NEW d, d = Draft(k, l, Debit(a, n) ++ Credit(b, n))
    PROVE  /\ DraftSound(d) /\ d.key = k
           /\ d.lines = [c \in AccountCodes |-> IF c = a THEN n ELSE IF c = b THEN -n ELSE 0]
<1>1. d.key = k /\ d.ledger = l /\ d.reverses = <<>> /\ d.lines = Debit(a, n) ++ Debit(b, -n)
  BY DEF Draft, Credit
<1>2. -n \in Int
  OBVIOUS
<1>3. d.lines = [c \in AccountCodes |-> IF c = a THEN n ELSE IF c = b THEN -n ELSE 0]
  BY <1>1, <1>2, LinesAdd
<1>4. d.lines \in [AccountCodes -> Int]
  BY <1>2, <1>3
<1> QED
  BY <1>1, <1>3, <1>4 DEF DraftSound

LEMMA LedgerNames == {"SIMULATION", "CASH", "OBLIGATION", "REVENUE"} \subseteq Ledgers
BY DEF Ledgers, Chart

LEMMA OweKeeps ==
    ASSUME BooksInv, NEW r \in Rewards, Owe(r)
    PROVE  BooksInv'
<1>1. PICK g \in Grosses :
        /\ reward[r].at = "owed" => g = reward[r].gross
        /\ PostEntries({ObligationEntry(r, g)})
        /\ reward' = [reward EXCEPT ![r] = [at |-> "owed", gross |-> g]]
        /\ sale' = sale /\ refill' = refill
  BY DEF Owe
<1> DEFINE h == g \div 2
           row == [at |-> "owed", gross |-> g]
           d == ObligationEntry(r, g)
           D == {d}
<1>2. reward[r].at \in {"none", "owed"} /\ reward[r] \in [at : {"none", "owed", "paid"}, gross : Nat]
  BY DEF Owe, BooksInv, BooksTyped
<1>3. g \in Nat /\ h \in Nat /\ row \in [at : {"none", "owed", "paid"}, gross : Nat]
  BY BooksAssumption, HalfIsExact
<1>4. d = Draft(<<r, "accrue">>, "OBLIGATION", Debit("OBLIGATION_EQUITY", h)
              ++ Credit("OBLIGATION_REWARDS_PAYABLE", h))
  BY DEF ObligationEntry
<1> HIDE DEF d
<1>5. /\ DraftSound(d) /\ d.key = <<r, "accrue">>
      /\ d.lines = [c \in AccountCodes |-> IF c = "OBLIGATION_EQUITY" THEN h
                       ELSE IF c = "OBLIGATION_REWARDS_PAYABLE" THEN -h ELSE 0]
  <2>1. <<r, "accrue">> # <<>> /\ h \in Int /\ "OBLIGATION_EQUITY" # "OBLIGATION_REWARDS_PAYABLE"
    BY <1>3
  <2>2. /\ "OBLIGATION_EQUITY" \in AccountCodes /\ "OBLIGATION_REWARDS_PAYABLE" \in AccountCodes
        /\ "OBLIGATION" \in Ledgers
    BY ChartCodes, LedgerNames
  <2> DEFINE a == "OBLIGATION_EQUITY"
             b == "OBLIGATION_REWARDS_PAYABLE"
             l == "OBLIGATION"
             k == <<r, "accrue">>
  <2>3. /\ a \in AccountCodes /\ b \in AccountCodes /\ a # b /\ h \in Int /\ l \in Ledgers /\ k # <<>>
        /\ d = Draft(k, l, Debit(a, h) ++ Credit(b, h))
    BY <1>4, <2>1, <2>2
  <2> HIDE DEF h, a, b, l, k
  <2>4. /\ DraftSound(d) /\ d.key = k
        /\ d.lines = [c \in AccountCodes |-> IF c = a THEN h ELSE IF c = b THEN -h ELSE 0]
    BY <2>3, TransferDraft
  <2> QED
    BY <2>4 DEF a, b, k
<1> HIDE DEF h
<1>6. /\ d.lines["CASH_TRADER_REWARDS_PAID"] = 0
      /\ d.lines["OBLIGATION_REWARDS_PAYABLE"] = -h
      /\ d.lines["SIM_PROGRAM_COUNTERPARTY"] = 0
      /\ d.lines["REVENUE_RECEIVABLE"] = 0
  BY <1>5, ChartCodes
<1>7. IsFiniteSet(D) /\ PostEntries(D) /\ \A x \in D : DraftSound(x)
  BY <1>1, <1>5, FS_Singleton DEF d
<1>8. /\ EntriesInv' /\ StandingInv' /\ Corrections' = Corrections
      /\ \A k : HasKey(k)' <=> HasKey(k) \/ k = <<r, "accrue">>
  <2>1. \A x, y \in D : x.key = y.key => x = y
    OBVIOUS
  <2> HIDE DEF D
  <2>2. /\ EntriesInv' /\ StandingInv' /\ Corrections' = Corrections
        /\ \A k : HasKey(k)' <=> HasKey(k) \/ \E x \in D : x.key = k
    BY <1>7, <2>1, PostingSound DEF BooksInv
  <2> QED
    BY <1>5, <2>2 DEF D
<1>9. BooksTyped'
  BY <1>1, <1>3 DEF BooksInv, BooksTyped
<1>10. ASSUME Corrections = {}
       PROVE  KeysAgree' /\ RowsAgree'
  <2>1. KeysAgree /\ RowsAgree
    BY <1>10 DEF BooksInv, AmountsInv
  <2>2. KeysAgree'
    <3>1. ASSUME NEW x \in Sales
          PROVE  /\ HasKey(<<x, "revenue">>)' <=> sale'[x] # NotSold
                 /\ HasKey(<<x, "cash">>)' <=> sale'[x] # NotSold
      BY <1>1, <1>8, <2>1, PairsAgree DEF KeysAgree
    <3>2. ASSUME NEW x \in Rewards
          PROVE  /\ HasKey(<<x, "accrue">>)' <=> reward'[x].at # "none"
                 /\ HasKey(<<x, "sim">>)' <=> reward'[x].at = "paid"
                 /\ HasKey(<<x, "cash">>)' <=> reward'[x].at = "paid"
                 /\ HasKey(<<x, "obligation">>)' <=> reward'[x].at = "paid"
      <4>1. reward'[x].at # "none" <=> reward[x].at # "none" \/ x = r
        BY <1>1 DEF BooksInv, BooksTyped
      <4>2. reward'[x].at = "paid" <=> reward[x].at = "paid"
        BY <1>1, <1>2 DEF BooksInv, BooksTyped
      <4> QED
        BY <1>8, <2>1, <4>1, <4>2, PairsAgree DEF KeysAgree
    <3>3. ASSUME NEW x \in Refills, HasKey(<<x, "reset-sim">>)'
          PROVE  refill'[x].done
      BY <1>1, <1>8, <2>1, <3>3, PairsAgree DEF KeysAgree
    <3> QED
      BY <3>1, <3>2, <3>3 DEF KeysAgree
  <2>3. Receivable' = Receivable /\ Adjusted' = Adjusted
    BY <1>1 DEF Receivable, Adjusted
  <2>4. CASE reward[r].at = "owed"
    <3>1. entries' = entries
      <4>1. \A x \in D : HasKey(x.key)
        BY <1>5, <2>1, <2>4 DEF KeysAgree
      <4> QED
        BY <1>7, <4>1, PostedBefore
    <3>2. reward' = reward
      <4>1. reward[r] = row
        BY <1>1, <1>2, <2>4
      <4> QED
        BY <1>1, <4>1 DEF BooksInv, BooksTyped
    <3> QED
      BY <2>1, <2>2, <2>3, <3>1, <3>2 DEF RowsAgree, Balance, OwedIn
  <2>5. CASE reward[r].at = "none"
    <3>1. /\ entries' = entries \union D
          /\ \A a \in AccountCodes :
                 /\ Balance(a, entries) \in Int
                 /\ Balance(a, D) \in Int
                 /\ Balance(a, entries') = Balance(a, entries) + Balance(a, D)
      <4>1. \A x \in D : ~ HasKey(x.key)
        BY <1>5, <2>1, <2>5 DEF KeysAgree
      <4> HIDE DEF D
      <4> QED
        BY <1>7, <4>1, PostedNew DEF BooksInv
    <3>2. \A a \in AccountCodes : Balance(a, D) = d.lines[a]
      BY <1>5, BalanceOne DEF DraftSound
    <3> HIDE DEF D
    <3>3. \A a \in AccountCodes : /\ Balance(a, entries) \in Int
                                /\ Balance(a, entries') = Balance(a, entries) + d.lines[a]
      BY <3>1, <3>2
    <3>4. /\ Balance("CASH_TRADER_REWARDS_PAID", entries') = Balance("CASH_TRADER_REWARDS_PAID", entries)
          /\ Balance("OBLIGATION_REWARDS_PAYABLE", entries') = Balance("OBLIGATION_REWARDS_PAYABLE", entries) - h
          /\ Balance("OBLIGATION_REWARDS_PAYABLE", entries) \in Int
          /\ Balance("SIM_PROGRAM_COUNTERPARTY", entries') = Balance("SIM_PROGRAM_COUNTERPARTY", entries)
          /\ Balance("REVENUE_RECEIVABLE", entries') = Balance("REVENUE_RECEIVABLE", entries)
      <4>1. \A n \in Int : n + 0 = n /\ n + (-h) = n - h
        BY <1>3
      <4> QED
        BY <1>6, <3>3, <4>1, ChartCodes
    <3>5. /\ OwedIn({"paid"})' = OwedIn({"paid"})
          /\ OwedIn({"owed"})' = OwedIn({"owed"}) + h
          /\ OwedIn({"owed"}) \in Int
      <4>1. \A S : /\ OwedIn(S) \in Int
                   /\ OwedIn(S)' = OwedIn(S) + Share(row, S) - Share(reward[r], S)
        BY <1>1, <1>3, OwedChanges DEF BooksInv
      <4>2. /\ Share(row, {"paid"}) = 0 /\ Share(row, {"owed"}) = h
            /\ Share(reward[r], {"paid"}) = 0 /\ Share(reward[r], {"owed"}) = 0
        BY <2>5 DEF Share, h
      <4>3. \A n \in Int : n + 0 - 0 = n /\ n + h - 0 = n + h
        BY <1>3
      <4> QED
        BY <4>1, <4>2, <4>3
    <3>6. \A x \in entries' : x.lines["CASH_TRADER_REWARDS_PAID"] >= 0
      BY <1>6, <2>1, <3>1 DEF RowsAgree, D
    <3>7. -Balance("OBLIGATION_REWARDS_PAYABLE", entries') = OwedIn({"owed"})'
      <4>1. -Balance("OBLIGATION_REWARDS_PAYABLE", entries) = OwedIn({"owed"})
        BY <2>1 DEF RowsAgree
      <4> QED
        BY <1>3, <3>4, <3>5, <4>1
    <3> QED
      BY <2>1, <2>2, <2>3, <3>4, <3>5, <3>6, <3>7 DEF RowsAgree, Balance
  <2> QED
    BY <1>2, <2>4, <2>5
<1> QED
  BY <1>8, <1>9, <1>10 DEF BooksInv, AmountsInv
LEMMA AdjustedIsInt ==
    ASSUME BooksTyped
    PROVE  Adjusted \in Int
<1> DEFINE f == [y \in Refills |-> refill[y].by]
<1>1. IsFiniteSet(Refills) /\ \A y \in Refills : f[y] \in Int
  BY BooksAssumption DEF BooksTyped
<1> HIDE DEF f
<1>2. SumOver(f, Refills) \in Int
  BY <1>1, SumIsInt
<1> QED
  BY <1>2 DEF Adjusted, f

LEMMA OwedIsInt ==
    ASSUME BooksTyped, NEW S
    PROVE  OwedIn(S) \in Int
<1> DEFINE f == [y \in Rewards |-> IF reward[y].at \in S THEN reward[y].gross \div 2 ELSE 0]
<1>1. IsFiniteSet(Rewards) /\ \A y \in Rewards : f[y] \in Int
  BY BooksAssumption, HalfIsExact DEF BooksTyped
<1> HIDE DEF f
<1>2. SumOver(f, Rewards) \in Int
  BY <1>1, SumIsInt
<1> QED
  BY <1>2 DEF OwedIn, f

LEMMA PayKeeps ==
    ASSUME BooksInv, NEW r \in Rewards, PayReward(r)
    PROVE  BooksInv'
<1>1. PICK g : g = reward[r].gross
  OBVIOUS
<1> DEFINE h == g \div 2
           row == [at |-> "paid", gross |-> g]
           c == Draft(<<r, "sim">>, "SIMULATION",
                    Debit("SIM_PROGRAM_COUNTERPARTY", g) ++ Credit("SIM_ACCOUNT_EQUITY", g))
           d == Draft(<<r, "cash">>, "CASH",
                    Debit("CASH_TRADER_REWARDS_PAID", h) ++ Credit("CASH_AVAILABLE", h))
           e == Draft(<<r, "obligation">>, "OBLIGATION",
                    Debit("OBLIGATION_REWARDS_PAYABLE", h) ++ Credit("OBLIGATION_EQUITY", h))
           D == {c, d, e}
<1>2. /\ PostEntries(D) /\ sale' = sale /\ refill' = refill
      /\ reward' = [reward EXCEPT ![r].at = "paid"]
  BY <1>1 DEF PayReward, PayoutEntries
<1>3. /\ reward[r].at \in {"owed", "paid"} /\ g % 2 = 0
      /\ reward[r] \in [at : {"none", "owed", "paid"}, gross : Nat]
  BY <1>1 DEF PayReward, BooksInv, BooksTyped
<1>4. g \in Nat /\ h \in Nat /\ g = 2 * h /\ row \in [at : {"none", "owed", "paid"}, gross : Nat]
  <2>1. g \in Nat
    BY <1>1, <1>3
  <2> QED
    BY <1>3, <2>1, HalfIsExact
<1>5. reward' = [reward EXCEPT ![r] = row]
  <2>1. [reward[r] EXCEPT !.at = "paid"] = row
    BY <1>1, <1>3
  <2>2. reward' = [reward EXCEPT ![r] = [reward[r] EXCEPT !.at = "paid"]]
    BY <1>2
  <2> QED
    BY <2>1, <2>2
<1> HIDE DEF h
<1>6. /\ c = Draft(<<r, "sim">>, "SIMULATION",
                  Debit("SIM_PROGRAM_COUNTERPARTY", g) ++ Credit("SIM_ACCOUNT_EQUITY", g))
      /\ d = Draft(<<r, "cash">>, "CASH",
                  Debit("CASH_TRADER_REWARDS_PAID", h) ++ Credit("CASH_AVAILABLE", h))
      /\ e = Draft(<<r, "obligation">>, "OBLIGATION",
                  Debit("OBLIGATION_REWARDS_PAYABLE", h) ++ Credit("OBLIGATION_EQUITY", h))
  OBVIOUS
<1> HIDE DEF c, d, e
<1>7. /\ DraftSound(c) /\ c.key = <<r, "sim">>
      /\ c.lines = [z \in AccountCodes |-> IF z = "SIM_PROGRAM_COUNTERPARTY" THEN g
                       ELSE IF z = "SIM_ACCOUNT_EQUITY" THEN -g ELSE 0]
  <2>1. <<r, "sim">> # <<>> /\ g \in Int /\ "SIM_PROGRAM_COUNTERPARTY" # "SIM_ACCOUNT_EQUITY"
    BY <1>4
  <2>2. "SIM_PROGRAM_COUNTERPARTY" \in AccountCodes /\ "SIM_ACCOUNT_EQUITY" \in AccountCodes /\ "SIMULATION" \in Ledgers
    BY ChartCodes, LedgerNames
  <2> DEFINE a == "SIM_PROGRAM_COUNTERPARTY"
             b == "SIM_ACCOUNT_EQUITY"
             l == "SIMULATION"
             k == <<r, "sim">>
  <2>3. /\ a \in AccountCodes /\ b \in AccountCodes /\ a # b /\ g \in Int /\ l \in Ledgers /\ k # <<>>
        /\ c = Draft(k, l, Debit(a, g) ++ Credit(b, g))
    BY <1>6, <2>1, <2>2
  <2> HIDE DEF a, b, l, k
  <2>4. /\ DraftSound(c) /\ c.key = k
        /\ c.lines = [z \in AccountCodes |-> IF z = a THEN g ELSE IF z = b THEN -g ELSE 0]
    BY <2>3, TransferDraft
  <2> QED
    BY <2>4 DEF a, b, k
<1>8. /\ DraftSound(d) /\ d.key = <<r, "cash">>
      /\ d.lines = [z \in AccountCodes |-> IF z = "CASH_TRADER_REWARDS_PAID" THEN h
                       ELSE IF z = "CASH_AVAILABLE" THEN -h ELSE 0]
  <2>1. <<r, "cash">> # <<>> /\ h \in Int /\ "CASH_TRADER_REWARDS_PAID" # "CASH_AVAILABLE"
    BY <1>4
  <2>2. "CASH_TRADER_REWARDS_PAID" \in AccountCodes /\ "CASH_AVAILABLE" \in AccountCodes /\ "CASH" \in Ledgers
    BY ChartCodes, LedgerNames
  <2> DEFINE a == "CASH_TRADER_REWARDS_PAID"
             b == "CASH_AVAILABLE"
             l == "CASH"
             k == <<r, "cash">>
  <2>3. /\ a \in AccountCodes /\ b \in AccountCodes /\ a # b /\ h \in Int /\ l \in Ledgers /\ k # <<>>
        /\ d = Draft(k, l, Debit(a, h) ++ Credit(b, h))
    BY <1>6, <2>1, <2>2
  <2> HIDE DEF a, b, l, k
  <2>4. /\ DraftSound(d) /\ d.key = k
        /\ d.lines = [z \in AccountCodes |-> IF z = a THEN h ELSE IF z = b THEN -h ELSE 0]
    BY <2>3, TransferDraft
  <2> QED
    BY <2>4 DEF a, b, k
<1>9. /\ DraftSound(e) /\ e.key = <<r, "obligation">>
      /\ e.lines = [z \in AccountCodes |-> IF z = "OBLIGATION_REWARDS_PAYABLE" THEN h
                       ELSE IF z = "OBLIGATION_EQUITY" THEN -h ELSE 0]
  <2>1. <<r, "obligation">> # <<>> /\ h \in Int /\ "OBLIGATION_REWARDS_PAYABLE" # "OBLIGATION_EQUITY"
    BY <1>4
  <2>2. "OBLIGATION_REWARDS_PAYABLE" \in AccountCodes /\ "OBLIGATION_EQUITY" \in AccountCodes /\ "OBLIGATION" \in Ledgers
    BY ChartCodes, LedgerNames
  <2> DEFINE a == "OBLIGATION_REWARDS_PAYABLE"
             b == "OBLIGATION_EQUITY"
             l == "OBLIGATION"
             k == <<r, "obligation">>
  <2>3. /\ a \in AccountCodes /\ b \in AccountCodes /\ a # b /\ h \in Int /\ l \in Ledgers /\ k # <<>>
        /\ e = Draft(k, l, Debit(a, h) ++ Credit(b, h))
    BY <1>6, <2>1, <2>2
  <2> HIDE DEF a, b, l, k
  <2>4. /\ DraftSound(e) /\ e.key = k
        /\ e.lines = [z \in AccountCodes |-> IF z = a THEN h ELSE IF z = b THEN -h ELSE 0]
    BY <2>3, TransferDraft
  <2> QED
    BY <2>4 DEF a, b, k
<1>10. /\ c.lines["CASH_TRADER_REWARDS_PAID"] = 0 /\ d.lines["CASH_TRADER_REWARDS_PAID"] = h
      /\ e.lines["CASH_TRADER_REWARDS_PAID"] = 0
      /\ c.lines["OBLIGATION_REWARDS_PAYABLE"] = 0 /\ d.lines["OBLIGATION_REWARDS_PAYABLE"] = 0
      /\ e.lines["OBLIGATION_REWARDS_PAYABLE"] = h
      /\ c.lines["SIM_PROGRAM_COUNTERPARTY"] = g /\ d.lines["SIM_PROGRAM_COUNTERPARTY"] = 0
      /\ e.lines["SIM_PROGRAM_COUNTERPARTY"] = 0
      /\ c.lines["REVENUE_RECEIVABLE"] = 0 /\ d.lines["REVENUE_RECEIVABLE"] = 0
      /\ e.lines["REVENUE_RECEIVABLE"] = 0
  BY <1>7, <1>8, <1>9, ChartCodes
<1>11. c.key # d.key /\ c.key # e.key /\ d.key # e.key
  BY <1>7, <1>8, <1>9, PairsAgree
<1>12. IsFiniteSet(D) /\ \A x \in D : DraftSound(x)
  <2>1. D = ({c} \union {d}) \union {e}
    OBVIOUS
  <2>2. IsFiniteSet(({c} \union {d}) \union {e})
    BY FS_Singleton, FS_AddElement
  <2>3. \A x \in D : DraftSound(x)
    BY <1>7, <1>8, <1>9
  <2> HIDE DEF D
  <2> QED
    BY <2>1, <2>2, <2>3
<1>13. /\ EntriesInv' /\ StandingInv' /\ Corrections' = Corrections
       /\ \A k : HasKey(k)' <=> \/ HasKey(k) \/ k = <<r, "sim">> \/ k = <<r, "cash">>
                                \/ k = <<r, "obligation">>
  <2>1. \A x, y \in D : x.key = y.key => x = y
    BY <1>11
  <2> HIDE DEF D
  <2>2. /\ EntriesInv' /\ StandingInv' /\ Corrections' = Corrections
        /\ \A k : HasKey(k)' <=> HasKey(k) \/ \E x \in D : x.key = k
    BY <1>2, <1>12, <2>1, PostingSound DEF BooksInv
  <2> QED
    BY <1>7, <1>8, <1>9, <2>2 DEF D
<1>14. BooksTyped'
  BY <1>2, <1>5, <1>4 DEF BooksInv, BooksTyped
<1>15. ASSUME Corrections = {}
       PROVE  KeysAgree' /\ RowsAgree'
  <2>1. KeysAgree /\ RowsAgree
    BY <1>15 DEF BooksInv, AmountsInv
  <2>2. KeysAgree'
    <3>1. ASSUME NEW x \in Sales
          PROVE  /\ HasKey(<<x, "revenue">>)' <=> sale'[x] # NotSold
                 /\ HasKey(<<x, "cash">>)' <=> sale'[x] # NotSold
      <4>1. x # r
        BY BooksAssumption
      <4> QED
        BY <1>2, <1>13, <2>1, <4>1, PairsAgree DEF KeysAgree
    <3>2. ASSUME NEW x \in Rewards
          PROVE  /\ HasKey(<<x, "accrue">>)' <=> reward'[x].at # "none"
                 /\ HasKey(<<x, "sim">>)' <=> reward'[x].at = "paid"
                 /\ HasKey(<<x, "cash">>)' <=> reward'[x].at = "paid"
                 /\ HasKey(<<x, "obligation">>)' <=> reward'[x].at = "paid"
      <4>1. reward'[x].at # "none" <=> reward[x].at # "none"
        BY <1>5, <1>3 DEF BooksInv, BooksTyped
      <4>2. reward'[x].at = "paid" <=> reward[x].at = "paid" \/ x = r
        BY <1>5 DEF BooksInv, BooksTyped
      <4> QED
        BY <1>13, <2>1, <4>1, <4>2, PairsAgree DEF KeysAgree
    <3>3. ASSUME NEW x \in Refills, HasKey(<<x, "reset-sim">>)'
          PROVE  refill'[x].done
      BY <1>2, <1>13, <2>1, <3>3, PairsAgree DEF KeysAgree
    <3> QED
      BY <3>1, <3>2, <3>3 DEF KeysAgree
  <2>3. Receivable' = Receivable /\ Adjusted' = Adjusted
    BY <1>2 DEF Receivable, Adjusted
  <2>4. CASE reward[r].at = "paid"
    <3>1. entries' = entries
      <4>1. \A x \in D : HasKey(x.key)
        <5>1. /\ HasKey(<<r, "sim">>) /\ HasKey(<<r, "cash">>)
              /\ HasKey(<<r, "obligation">>)
          BY <2>1, <2>4 DEF KeysAgree
        <5>2. HasKey(c.key) /\ HasKey(d.key) /\ HasKey(e.key)
          BY <1>7, <1>8, <1>9, <5>1
        <5> QED
          BY <5>2
      <4> HIDE DEF D
      <4> QED
        BY <1>2, <4>1, PostedBefore
    <3>2. reward' = reward
      <4>1. reward[r] = row
        BY <1>1, <1>3, <2>4
      <4> QED
        BY <1>5, <4>1 DEF BooksInv, BooksTyped
    <3> QED
      BY <2>1, <2>2, <2>3, <3>1, <3>2 DEF RowsAgree, Balance, OwedIn
  <2>5. CASE reward[r].at = "owed"
    <3>1. /\ entries' = entries \union D
          /\ \A a \in AccountCodes :
                 /\ Balance(a, entries) \in Int
                 /\ Balance(a, D) \in Int
                 /\ Balance(a, entries') = Balance(a, entries) + Balance(a, D)
      <4>1. \A x \in D : ~ HasKey(x.key)
        <5>1. /\ ~ HasKey(<<r, "sim">>) /\ ~ HasKey(<<r, "cash">>)
              /\ ~ HasKey(<<r, "obligation">>)
          BY <2>1, <2>5 DEF KeysAgree
        <5>2. ~ HasKey(c.key) /\ ~ HasKey(d.key) /\ ~ HasKey(e.key)
          BY <1>7, <1>8, <1>9, <5>1
        <5> QED
          BY <5>2
      <4> HIDE DEF D
      <4> QED
        BY <1>2, <1>12, <4>1, PostedNew DEF BooksInv
    <3>2. \A a \in AccountCodes : Balance(a, D) = c.lines[a] + d.lines[a] + e.lines[a]
      <4>1. \A a \in AccountCodes : c.lines[a] \in Int /\ d.lines[a] \in Int /\ e.lines[a] \in Int
        BY <1>7, <1>8, <1>9 DEF DraftSound
      <4>2. c # d /\ c # e /\ d # e
        BY <1>11
      <4> SUFFICES ASSUME NEW a \in AccountCodes
                   PROVE  Balance(a, D) = c.lines[a] + d.lines[a] + e.lines[a]
        OBVIOUS
      <4> DEFINE P == {c, d}
                 Q == {e}
      <4>3. P \union Q = D /\ P \intersect Q = {}
        BY <4>2
      <4>4. IsFiniteSet(P) /\ IsFiniteSet(Q)
        <5>1. P = {c} \union {d}
          OBVIOUS
        <5>2. IsFiniteSet({c} \union {d}) /\ IsFiniteSet(Q)
          BY FS_Singleton, FS_AddElement
        <5> QED
          BY <5>1, <5>2
      <4>5. Balance(a, P) = c.lines[a] + d.lines[a]
        BY <4>1, <4>2, BalanceTwo
      <4>6. Balance(a, Q) = e.lines[a]
        BY <4>1, BalanceOne
      <4>7. \A x \in P \union Q : x.lines[a] \in Int
        BY <4>1
      <4> HIDE DEF P, Q, D
      <4>8. Balance(a, P \union Q) = Balance(a, P) + Balance(a, Q)
        BY <4>3, <4>4, <4>7, BalanceUnion
      <4> QED
        BY <4>3, <4>5, <4>6, <4>8
    <3> HIDE DEF D
    <3>3. \A a \in AccountCodes :
             /\ Balance(a, entries) \in Int
             /\ Balance(a, entries') = Balance(a, entries) + (c.lines[a] + d.lines[a] + e.lines[a])
      BY <3>1, <3>2
    <3>4. /\ Balance("CASH_TRADER_REWARDS_PAID", entries') = Balance("CASH_TRADER_REWARDS_PAID", entries) + h
          /\ Balance("OBLIGATION_REWARDS_PAYABLE", entries') = Balance("OBLIGATION_REWARDS_PAYABLE", entries) + h
          /\ Balance("OBLIGATION_REWARDS_PAYABLE", entries) \in Int
          /\ Balance("SIM_PROGRAM_COUNTERPARTY", entries') = Balance("SIM_PROGRAM_COUNTERPARTY", entries) + g
          /\ Balance("REVENUE_RECEIVABLE", entries') = Balance("REVENUE_RECEIVABLE", entries)
      <4>1. \A n \in Int : /\ n + (0 + 0 + 0) = n /\ n + (0 + h + 0) = n + h
                           /\ n + (0 + 0 + h) = n + h /\ n + (g + 0 + 0) = n + g
        BY <1>4
      <4> QED
        BY <1>10, <3>3, <4>1, ChartCodes
    <3>5. /\ OwedIn({"paid"})' = OwedIn({"paid"}) + h /\ OwedIn({"paid"}) \in Int
          /\ OwedIn({"owed"})' = OwedIn({"owed"}) - h
          /\ OwedIn({"owed"}) \in Int
      <4>1. \A S : /\ OwedIn(S) \in Int
                   /\ OwedIn(S)' = OwedIn(S) + Share(row, S) - Share(reward[r], S)
        BY <1>5, <1>4, OwedChanges DEF BooksInv
      <4>2. /\ Share(row, {"paid"}) = h /\ Share(row, {"owed"}) = 0
            /\ Share(reward[r], {"paid"}) = 0 /\ Share(reward[r], {"owed"}) = h
        BY <1>1, <2>5 DEF Share, h
      <4>3. \A n \in Int : n + h - 0 = n + h /\ n + 0 - h = n - h
        BY <1>4
      <4> QED
        BY <4>1, <4>2, <4>3
    <3>6. \A x \in entries' : x.lines["CASH_TRADER_REWARDS_PAID"] >= 0
      BY <1>4, <1>10, <2>1, <3>1 DEF RowsAgree, D
    <3>7. /\ Balance("CASH_TRADER_REWARDS_PAID", entries') = OwedIn({"paid"})'
          /\ -Balance("OBLIGATION_REWARDS_PAYABLE", entries') = OwedIn({"owed"})'
      <4>1. /\ Balance("CASH_TRADER_REWARDS_PAID", entries) = OwedIn({"paid"})
            /\ -Balance("OBLIGATION_REWARDS_PAYABLE", entries) = OwedIn({"owed"})
        BY <2>1 DEF RowsAgree
      <4> QED
        BY <1>4, <3>4, <3>5, <4>1
    <3>8. Balance("SIM_PROGRAM_COUNTERPARTY", entries') = 2 * OwedIn({"paid"})' - Adjusted'
      <4>1. Balance("SIM_PROGRAM_COUNTERPARTY", entries) = 2 * OwedIn({"paid"}) - Adjusted
        BY <2>1 DEF RowsAgree
      <4>2. Adjusted \in Int
        BY AdjustedIsInt DEF BooksInv
      <4> QED
        BY <1>4, <2>3, <3>4, <3>5, <4>1, <4>2
    <3> QED
      BY <2>1, <2>2, <2>3, <3>4, <3>6, <3>7, <3>8 DEF RowsAgree, Balance
  <2> QED
    BY <1>3, <2>4, <2>5
<1> QED
  BY <1>13, <1>14, <1>15 DEF BooksInv, AmountsInv

LEMMA RefillKeeps ==
    ASSUME BooksInv, NEW x \in Refills, Refill(x)
    PROVE  BooksInv'
<1>1. PICK n \in Deltas :
        /\ IF n = 0 THEN UNCHANGED entries ELSE PostEntries({AdjustmentEntry(x, n)})
        /\ refill' = [refill EXCEPT ![x] = [done |-> TRUE, by |-> n]]
        /\ sale' = sale /\ reward' = reward /\ refill[x] = NotReset
  BY DEF Refill
<1>2. n \in Int
  BY BooksAssumption
<1>3. BooksTyped'
  BY <1>1, <1>2 DEF BooksInv, BooksTyped
<1>4. Adjusted \in Int /\ Adjusted' = Adjusted + n
  BY <1>1, <1>2, AdjustedChanges DEF BooksInv
<1>5. /\ Receivable' = Receivable /\ OwedIn({"paid"})' = OwedIn({"paid"})
      /\ OwedIn({"owed"})' = OwedIn({"owed"})
  BY <1>1 DEF Receivable, OwedIn
<1>6. \A y \in Refills : refill'[y].done <=> refill[y].done \/ y = x
  BY <1>1 DEF BooksInv, BooksTyped
<1>7. CASE n = 0
  <2>1. entries' = entries
    BY <1>1, <1>7
  <2>2. EntriesInv' /\ StandingInv' /\ Corrections' = Corrections /\ \A k : HasKey(k)' <=> HasKey(k)
    BY <2>1 DEF BooksInv, EntriesInv, StandingInv, Corrections, Standing, Reversed, HasKey,
       EntrySound, Valid, Balance
  <2>3. Adjusted' = Adjusted
    BY <1>4, <1>7
  <2>4. ASSUME Corrections = {} PROVE KeysAgree' /\ RowsAgree'
    <3>1. KeysAgree /\ RowsAgree
      BY <2>4 DEF BooksInv, AmountsInv
    <3>2. KeysAgree'
      BY <1>1, <1>6, <2>2, <3>1 DEF KeysAgree
    <3> QED
      BY <1>5, <2>1, <2>3, <3>1, <3>2 DEF RowsAgree, Balance
  <2> QED
    BY <1>3, <2>2, <2>4 DEF BooksInv, AmountsInv
<1>8. CASE n # 0
  <2> DEFINE d == AdjustmentEntry(x, n)
             D == {d}
  <2>1. d = Draft(<<x, "reset-sim">>, "SIMULATION", Debit("SIM_ACCOUNT_EQUITY", n)
               ++ Credit("SIM_PROGRAM_COUNTERPARTY", n))
    BY DEF AdjustmentEntry
  <2> HIDE DEF d
  <2>2. /\ DraftSound(d) /\ d.key = <<x, "reset-sim">>
        /\ d.lines = [z \in AccountCodes |-> IF z = "SIM_ACCOUNT_EQUITY" THEN n
                         ELSE IF z = "SIM_PROGRAM_COUNTERPARTY" THEN -n ELSE 0]
    <3> DEFINE a == "SIM_ACCOUNT_EQUITY"
               b == "SIM_PROGRAM_COUNTERPARTY"
               l == "SIMULATION"
               k == <<x, "reset-sim">>
    <3>1. k # <<>> /\ a # b
      OBVIOUS
    <3>2. a \in AccountCodes /\ b \in AccountCodes /\ l \in Ledgers
      BY ChartCodes, LedgerNames
    <3> HIDE DEF a, b, l, k
    <3>3. /\ DraftSound(d) /\ d.key = k
          /\ d.lines = [z \in AccountCodes |-> IF z = a THEN n ELSE IF z = b THEN -n ELSE 0]
      <4>1. d = Draft(k, l, Debit(a, n) ++ Credit(b, n))
        BY <2>1 DEF a, b, l, k
      <4> QED
        BY <1>2, <3>1, <3>2, <4>1, TransferDraft
    <3> QED
      BY <3>3 DEF a, b, k
  <2>3. /\ d.lines["CASH_TRADER_REWARDS_PAID"] = 0
        /\ d.lines["OBLIGATION_REWARDS_PAYABLE"] = 0
        /\ d.lines["SIM_PROGRAM_COUNTERPARTY"] = -n
        /\ d.lines["REVENUE_RECEIVABLE"] = 0
    BY <2>2, ChartCodes
  <2>4. IsFiniteSet(D) /\ PostEntries(D) /\ \A y \in D : DraftSound(y)
    BY <1>1, <1>8, <2>2, FS_Singleton DEF d
  <2>5. /\ EntriesInv' /\ StandingInv' /\ Corrections' = Corrections
        /\ \A k : HasKey(k)' <=> HasKey(k) \/ k = <<x, "reset-sim">>
    <3>1. \A y, z \in D : y.key = z.key => y = z
      OBVIOUS
    <3> HIDE DEF D
    <3>2. /\ EntriesInv' /\ StandingInv' /\ Corrections' = Corrections
          /\ \A k : HasKey(k)' <=> HasKey(k) \/ \E y \in D : y.key = k
      BY <2>4, <3>1, PostingSound DEF BooksInv
    <3> QED
      BY <2>2, <3>2 DEF D
  <2>6. ASSUME Corrections = {} PROVE KeysAgree' /\ RowsAgree'
    <3>1. KeysAgree /\ RowsAgree
      BY <2>6 DEF BooksInv, AmountsInv
    <3>2. KeysAgree'
      <4>1. ASSUME NEW s \in Sales
            PROVE  /\ HasKey(<<s, "revenue">>)' <=> sale'[s] # NotSold
                   /\ HasKey(<<s, "cash">>)' <=> sale'[s] # NotSold
        BY <1>1, <2>5, <3>1, PairsAgree DEF KeysAgree
      <4>2. ASSUME NEW r \in Rewards
            PROVE  /\ HasKey(<<r, "accrue">>)' <=> reward'[r].at # "none"
                   /\ HasKey(<<r, "sim">>)' <=> reward'[r].at = "paid"
                   /\ HasKey(<<r, "cash">>)' <=> reward'[r].at = "paid"
                   /\ HasKey(<<r, "obligation">>)' <=> reward'[r].at = "paid"
        BY <1>1, <2>5, <3>1, PairsAgree DEF KeysAgree
      <4>3. ASSUME NEW y \in Refills, HasKey(<<y, "reset-sim">>)'
            PROVE  refill'[y].done
        BY <1>6, <2>5, <3>1, <4>3, PairsAgree DEF KeysAgree
      <4> QED
        BY <4>1, <4>2, <4>3 DEF KeysAgree
    <3>3. /\ entries' = entries \union D
          /\ \A a \in AccountCodes :
                 /\ Balance(a, entries) \in Int
                 /\ Balance(a, D) \in Int
                 /\ Balance(a, entries') = Balance(a, entries) + Balance(a, D)
      <4>1. \A y \in D : ~ HasKey(y.key)
        BY <1>1, <2>2, <3>1 DEF KeysAgree, NotReset
      <4> HIDE DEF D
      <4> QED
        BY <2>4, <4>1, PostedNew DEF BooksInv
    <3>4. \A a \in AccountCodes : Balance(a, D) = d.lines[a]
      BY <2>2, BalanceOne DEF DraftSound
    <3> HIDE DEF D
    <3>5. \A a \in AccountCodes : /\ Balance(a, entries) \in Int
                                /\ Balance(a, entries') = Balance(a, entries) + d.lines[a]
      BY <3>3, <3>4
    <3>6. /\ Balance("CASH_TRADER_REWARDS_PAID", entries') = Balance("CASH_TRADER_REWARDS_PAID", entries)
          /\ Balance("OBLIGATION_REWARDS_PAYABLE", entries') = Balance("OBLIGATION_REWARDS_PAYABLE", entries)
          /\ Balance("SIM_PROGRAM_COUNTERPARTY", entries') = Balance("SIM_PROGRAM_COUNTERPARTY", entries) - n
          /\ Balance("SIM_PROGRAM_COUNTERPARTY", entries) \in Int
          /\ Balance("REVENUE_RECEIVABLE", entries') = Balance("REVENUE_RECEIVABLE", entries)
      <4>1. \A m \in Int : m + 0 = m /\ m + (-n) = m - n
        BY <1>2
      <4> QED
        BY <2>3, <3>5, <4>1, ChartCodes
    <3>7. Balance("SIM_PROGRAM_COUNTERPARTY", entries') = 2 * OwedIn({"paid"})' - Adjusted'
      <4>1. Balance("SIM_PROGRAM_COUNTERPARTY", entries) = 2 * OwedIn({"paid"}) - Adjusted
        BY <3>1 DEF RowsAgree
      <4>2. OwedIn({"paid"}) \in Int
        BY OwedIsInt DEF BooksInv
      <4> QED
        BY <1>2, <1>4, <1>5, <3>6, <4>1, <4>2
    <3>8. \A y \in entries' : y.lines["CASH_TRADER_REWARDS_PAID"] >= 0
      BY <2>3, <3>1, <3>3 DEF RowsAgree, D
    <3> QED
      BY <1>5, <3>1, <3>2, <3>6, <3>7, <3>8 DEF RowsAgree, Balance
  <2> QED
    BY <1>3, <2>5, <2>6 DEF BooksInv, AmountsInv
<1> QED
  BY <1>7, <1>8

LEMMA CompensateKeeps ==
    ASSUME BooksInv, Compensate
    PROVE  BooksInv'
<1>1. EntriesInv' /\ StandingInv' /\ (Corrections' = {} => entries' = entries)
  BY CompensationSound DEF BooksInv
<1>2. sale' = sale /\ reward' = reward /\ refill' = refill
  BY DEF Compensate
<1>3. BooksTyped'
  BY <1>2 DEF BooksInv, BooksTyped
<1>4. ASSUME Corrections' = {} PROVE KeysAgree' /\ RowsAgree'
  <2>1. entries' = entries /\ Corrections = {}
    BY <1>1, <1>4 DEF Corrections
  <2>2. KeysAgree /\ RowsAgree
    BY <2>1 DEF BooksInv, AmountsInv
  <2>3. \A k : HasKey(k)' <=> HasKey(k)
    BY <2>1 DEF HasKey
  <2> QED
    BY <1>2, <2>1, <2>2, <2>3 DEF KeysAgree, RowsAgree, Balance, OwedIn, Adjusted, Receivable
<1> QED
  BY <1>1, <1>3, <1>4 DEF BooksInv, AmountsInv

LEMMA BooksStep ==
    ASSUME BooksInv, [BooksNext]_booksVars
    PROVE  BooksInv'
<1>1. CASE UNCHANGED booksVars
  <2>1. entries' = entries /\ sale' = sale /\ reward' = reward /\ refill' = refill
    BY <1>1 DEF booksVars
  <2>2. BooksTyped'
    BY <2>1 DEF BooksInv, BooksTyped
  <2>3. EntriesInv' /\ StandingInv' /\ Corrections' = Corrections /\ \A k : HasKey(k)' <=> HasKey(k)
    BY <2>1 DEF BooksInv, EntriesInv, StandingInv, Corrections, Standing, Reversed, HasKey,
       EntrySound, Valid, Balance
  <2>4. ASSUME Corrections = {} PROVE KeysAgree' /\ RowsAgree'
    <3>1. KeysAgree /\ RowsAgree
      BY <2>4 DEF BooksInv, AmountsInv
    <3> QED
      BY <2>1, <2>3, <3>1 DEF KeysAgree, RowsAgree, Balance, OwedIn, Adjusted, Receivable
  <2> QED
    BY <2>2, <2>3, <2>4 DEF BooksInv, AmountsInv
<1>2. ASSUME NEW s \in Sales, Sell(s) PROVE BooksInv'
  BY <1>2, SellKeeps
<1>3. ASSUME NEW r \in Rewards, Owe(r) PROVE BooksInv'
  BY <1>3, OweKeeps
<1>4. ASSUME NEW r \in Rewards, PayReward(r) PROVE BooksInv'
  BY <1>4, PayKeeps
<1>5. ASSUME NEW x \in Refills, Refill(x) PROVE BooksInv'
  BY <1>5, RefillKeeps
<1>6. CASE Compensate
  BY <1>6, CompensateKeeps
<1> QED
  BY <1>1, <1>2, <1>3, <1>4, <1>5, <1>6 DEF BooksNext

LEMMA BooksStart == BooksInit => BooksInv
<1> SUFFICES ASSUME BooksInit PROVE BooksInv
  OBVIOUS
<1>1. entries = {} /\ Corrections = {} /\ Standing = {}
  BY DEF BooksInit, Corrections, Standing
<1>2. BooksTyped
  BY DEF BooksInit, BooksTyped, NoReward, NotReset
<1>3. EntriesInv /\ StandingInv
  BY <1>1, FS_EmptySet DEF EntriesInv, StandingInv
<1>4. KeysAgree
  BY <1>1 DEF KeysAgree, HasKey, BooksInit, NoReward
<1>5. Adjusted = 0
  <2> DEFINE f == [y \in Refills |-> refill[y].by]
  <2>1. IsFiniteSet(Refills) /\ \A y \in Refills : f[y] = 0
    BY BooksAssumption DEF BooksInit, NotReset
  <2> HIDE DEF f
  <2>2. SumOver(f, Refills) = 0
    BY <2>1, SumOfZeros
  <2> QED
    BY <2>2 DEF f, Adjusted
<1>6. Receivable = 0
  <2> DEFINE f == [y \in Sales |-> sale[y].fee + sale[y].addon - sale[y].discount]
  <2>1. IsFiniteSet(Sales) /\ \A y \in Sales : f[y] = 0
    BY BooksAssumption DEF BooksInit, NotSold
  <2> HIDE DEF f
  <2>2. SumOver(f, Sales) = 0
    BY <2>1, SumOfZeros
  <2> QED
    BY <2>2 DEF f, Receivable
<1>7. \A S : S \in {{"paid"}, {"owed"}} => OwedIn(S) = 0
  <2> SUFFICES ASSUME NEW S \in {{"paid"}, {"owed"}} PROVE OwedIn(S) = 0
    OBVIOUS
  <2> DEFINE f == [y \in Rewards |-> IF reward[y].at \in S THEN reward[y].gross \div 2 ELSE 0]
  <2>1. IsFiniteSet(Rewards) /\ \A y \in Rewards : f[y] = 0
    BY BooksAssumption DEF BooksInit, NoReward
  <2> HIDE DEF f
  <2>2. SumOver(f, Rewards) = 0
    BY <2>1, SumOfZeros
  <2> QED
    BY <2>2 DEF f, OwedIn
<1>8. \A a : Balance(a, entries) = 0
  BY <1>1, BalanceEmpty
<1>9. RowsAgree
  <2>1. OwedIn({"paid"}) = 0 /\ OwedIn({"owed"}) = 0
    BY <1>7
  <2> QED
    BY <1>1, <1>5, <1>6, <1>8, <2>1 DEF RowsAgree
<1> QED
  BY <1>2, <1>3, <1>4, <1>9 DEF BooksInv, AmountsInv

LEMMA BooksSound == BooksInv => BooksAgree
<1> SUFFICES ASSUME BooksInv PROVE BooksAgree
  OBVIOUS
<1>1. \A l \in Ledgers : LedgerNet(l) = 0
  BY LedgersBalance DEF BooksInv
<1>2. \A a \in AccountCodes : Balance(a, entries) = Balance(a, Standing)
  BY DEF BooksInv, StandingInv
<1>3. ASSUME Corrections = {}
      PROVE  RowsAgree /\ NetPosition.paid = OwedIn({"paid"})
  <2>1. RowsAgree
    BY <1>3 DEF BooksInv, AmountsInv
  <2> DEFINE f == [e \in entries |-> IF e.lines["CASH_TRADER_REWARDS_PAID"] < 0
                      THEN -e.lines["CASH_TRADER_REWARDS_PAID"]
                      ELSE e.lines["CASH_TRADER_REWARDS_PAID"]]
             g == [e \in entries |-> e.lines["CASH_TRADER_REWARDS_PAID"]]
  <2>2. IsFiniteSet(entries) /\ \A e \in entries : e.lines \in [AccountCodes -> Int]
    BY DEF BooksInv, EntriesInv, EntrySound
  <2>3. \A e \in entries : f[e] = g[e]
    BY <2>1, <2>2, ChartCodes DEF RowsAgree
  <2>4. NetPosition.paid = SumOver(f, entries)
    BY DEF NetPosition, LedgerTotal
  <2>5. Balance("CASH_TRADER_REWARDS_PAID", entries) = SumOver(g, entries)
    BY DEF Balance
  <2> HIDE DEF f, g
  <2>6. SumOver(f, entries) = SumOver(g, entries)
    BY <2>2, <2>3, SumSame
  <2> QED
    BY <2>1, <2>4, <2>5, <2>6 DEF RowsAgree
<1> QED
  BY <1>1, <1>2, <1>3 DEF BooksAgree, RowsAgree

-----------------------------------------------------------------------------
(* What is shared out: prices, discounts and refunds. *)

\* ahead gives, for each member, those before it in a strict order.
OrdersStrictly(I, ahead) ==
    /\ ahead \in [I -> SUBSET I]
    /\ \A i \in I : i \notin ahead[i]
    /\ \A i, j \in I : i # j => i \in ahead[j] \/ j \in ahead[i]
    /\ \A i \in I : \A j \in ahead[i] : ahead[j] \subseteq ahead[i]

\* In a strict order of finitely many, as many have fewer than k ahead of them
\* as there are numbers below k.
LEMMA RanksFill ==
    ASSUME NEW I, IsFiniteSet(I), NEW ahead, OrdersStrictly(I, ahead),
           NEW k \in 0 .. Cardinality(I)
    PROVE  Cardinality({i \in I : Cardinality(ahead[i]) < k}) = k
<1> DEFINE n == Cardinality(I)
           rank == [i \in I |-> Cardinality(ahead[i])]
           first == {i \in I : rank[i] < k}
<1>1. n \in Nat
  BY FS_CardinalityType
<1> USE DEF OrdersStrictly
<1>2. \A i \in I : IsFiniteSet(ahead[i]) /\ Cardinality(ahead[i]) \in Nat
  BY FS_Subset, FS_CardinalityType
<1>3. ASSUME NEW i \in I, NEW j \in ahead[i]
      PROVE  j \in I /\ rank[j] < rank[i]
  <2>1. j \in I /\ ahead[j] \in SUBSET ahead[i] /\ ahead[j] # ahead[i]
    OBVIOUS
  <2>2. /\ IsFiniteSet(ahead[i])
        /\ Cardinality(ahead[j]) <= Cardinality(ahead[i])
        /\ Cardinality(ahead[j]) # Cardinality(ahead[i])
    BY <1>2, <2>1, FS_Subset
  <2>3. rank[i] \in Nat /\ rank[j] \in Nat /\ rank[j] <= rank[i] /\ rank[j] # rank[i]
    BY <1>2, <2>1, <2>2
  <2> QED
    BY <2>1, <2>3
<1>4. \A i, j \in I : i # j => rank[i] # rank[j]
  <2> TAKE i, j \in I
  <2>1. rank[i] \in Nat /\ rank[j] \in Nat
    BY <1>2
  <2>2. i \in ahead[j] => rank[i] < rank[j]
    BY <1>3
  <2>3. j \in ahead[i] => rank[j] < rank[i]
    BY <1>3
  <2> HIDE DEF rank
  <2> QED
    BY <2>1, <2>2, <2>3
<1>5. \A i \in I : rank[i] \in 0 .. n - 1
  <2> TAKE i \in I
  <2>1. ahead[i] \in SUBSET I /\ ahead[i] # I
    OBVIOUS
  <2>2. Cardinality(ahead[i]) <= n /\ Cardinality(ahead[i]) # n
    BY <2>1, FS_Subset
  <2> QED
    BY <1>1, <1>2, <2>2
<1>6. IsFiniteSet(0 .. n - 1) /\ Cardinality(0 .. n - 1) = n
  <2> HIDE DEF n
  <2>1. 0 \in Int /\ n - 1 \in Int
    BY <1>1
  <2>2. IsFiniteSet(0 .. n - 1) /\ Cardinality(0 .. n - 1) = IF 0 > n - 1 THEN 0 ELSE n - 1 - 0 + 1
    BY <2>1, FS_Interval
  <2> QED
    BY <1>1, <2>2
<1>7. rank \in Injection(I, 0 .. n - 1)
  <2>1. rank \in [I -> 0 .. n - 1]
    BY <1>5
  <2> HIDE DEF rank
  <2> QED
    BY <1>4, <2>1, Fun_IsInj
<1>8. rank \in Surjection(I, 0 .. n - 1)
  BY <1>6, <1>7, FS_Injection
<1> DEFINE low == [i \in first |-> rank[i]]
<1>9. low \in Bijection(first, 0 .. k - 1)
  <2>1. \A i \in first : low[i] \in 0 .. k - 1
    BY <1>5
  <2>2. \A i, j \in first : i # j => low[i] # low[j]
    BY <1>4
  <2>3. \A m \in 0 .. k - 1 : \E i \in first : low[i] = m
    <3> TAKE m \in 0 .. k - 1
    <3>1. m \in 0 .. n - 1 /\ m < k
      BY <1>1
    <3>2. \E i \in I : rank[i] = m
      <4> HIDE DEF rank, n
      <4>1. \A l \in 0 .. n - 1 : \E i \in I : rank[i] = l
        BY <1>8 DEF Surjection
      <4> QED
        BY <3>1, <4>1
    <3> QED
      BY <3>1, <3>2
  <2>4. low \in [first -> 0 .. k - 1]
    BY <2>1
  <2> HIDE DEF low, first
  <2> QED
    BY <2>2, <2>3, <2>4, Fun_IsBij
<1>10. Cardinality(first) = Cardinality(0 .. k - 1)
  <2>1. IsFiniteSet(first)
    BY FS_Subset
  <2>2. ExistsBijection(first, 0 .. k - 1)
    BY <1>9 DEF ExistsBijection
  <2> QED
    BY <2>1, <2>2, FS_Bijection
<1>11. k \in Nat /\ Cardinality(0 .. k - 1) = k
  <2>1. k \in Nat /\ 0 \in Int /\ k - 1 \in Int
    BY <1>1
  <2>2. Cardinality(0 .. k - 1) = IF 0 > k - 1 THEN 0 ELSE k - 1 - 0 + 1
    BY <2>1, FS_Interval
  <2> QED
    BY <2>1, <2>2
<1>12. first = {i \in I : Cardinality(ahead[i]) < k}
  OBVIOUS
<1> HIDE DEF first
<1> QED
  BY <1>10, <1>11, <1>12, Zenon

-----------------------------------------------------------------------------

\* b marks those with fewer than k ahead of them.
Favours(I, ahead, k, b) ==
    \A i \in I : b[i] = IF Cardinality(ahead[i]) < k THEN 1 ELSE 0

LEMMA RanksAddUp ==
    ASSUME NEW I, IsFiniteSet(I), NEW ahead, OrdersStrictly(I, ahead),
           NEW k \in 0 .. Cardinality(I), NEW b, Favours(I, ahead, k, b)
    PROVE  SumOver(b, I) = k
<1>1. \A i \in I : b[i] \in {0, 1}
  BY DEF Favours
<1>2. SumOver(b, I) = Cardinality({i \in I : b[i] = 1})
  BY <1>1, SumOfOnes
<1>3. {i \in I : b[i] = 1} = {i \in I : Cardinality(ahead[i]) < k}
  BY DEF Favours
<1>4. Cardinality({i \in I : Cardinality(ahead[i]) < k}) = k
  BY RanksFill
<1> QED
  BY <1>2, <1>3, <1>4

LEMMA Division ==
    ASSUME NEW n \in Nat, NEW d \in Nat \ {0}
    PROVE  n \div d \in Nat /\ n % d \in 0 .. d - 1 /\ n = d * (n \div d) + (n % d)
  OBVIOUS

\* Products grow with their factors.
LEMMA TimesGrows ==
    ASSUME NEW a \in Nat, NEW m \in Int, NEW n \in Int, m <= n
    PROVE  a * m <= a * n
  OBVIOUS

\* The share of a larger weight is not smaller; where it is no larger either,
\* more remains of it.
LEMMA LargerShare ==
    ASSUME NEW t \in Nat, NEW s \in Nat \ {0}, NEW w \in Nat, NEW v \in Nat, w > v
    PROVE  /\ (t * w) \div s >= (t * v) \div s
           /\ (t * w) \div s = (t * v) \div s =>
                  \/ t = 0
                  \/ (t * w) % s > (t * v) % s
<1> DEFINE m == t * w
           n == t * v
<1>1. m \in Nat /\ n \in Nat /\ n <= m
  BY TimesGrows
<1>2. t # 0 => n < m
  <2>1. SUFFICES ASSUME t \in Nat, t >= 1 PROVE n < m
    OBVIOUS
  <2>2. v + 1 <= w
    OBVIOUS
  <2>3. t * (v + 1) <= t * w
    BY <2>2, TimesGrows
  <2>4. t * (v + 1) = t * v + t
    OBVIOUS
  <2> QED
    BY <1>1, <2>1, <2>3, <2>4
<1> HIDE DEF m, n
<1>3. /\ m \div s \in Nat /\ m % s \in 0 .. s - 1 /\ m = s * (m \div s) + (m % s)
      /\ n \div s \in Nat /\ n % s \in 0 .. s - 1 /\ n = s * (n \div s) + (n % s)
  BY <1>1, Division
<1>4. PICK q \in Nat, x \in 0 .. s - 1, p \in Nat, y \in 0 .. s - 1 :
         /\ q = m \div s /\ x = m % s /\ p = n \div s /\ y = n % s
         /\ m = s * q + x /\ n = s * p + y
  BY <1>3
<1>5. q >= p
  <2>1. SUFFICES ASSUME q + 1 <= p PROVE FALSE
    BY <1>4
  <2>2. s * (q + 1) <= s * p
    BY <2>1, TimesGrows
  <2>3. s * (q + 1) = s * q + s
    OBVIOUS
  <2>4. s * q \in Nat /\ s * p \in Nat
    OBVIOUS
  <2> QED
    BY <1>1, <1>4, <2>2, <2>3, <2>4
<1>6. q = p /\ t # 0 => x > y
  <2>1. s * q \in Nat
    OBVIOUS
  <2> QED
    BY <1>2, <1>4, <2>1
<1> QED
  BY <1>4, <1>5, <1>6 DEF m, n

\* A share is at most the weight, and reaches it only if everything is shared.
LEMMA ShareWithinWeight ==
    ASSUME NEW t \in Nat, NEW s \in Nat \ {0}, NEW w \in Nat \ {0}, t <= s
    PROVE  /\ (t * w) \div s <= w
           /\ t # s => (t * w) \div s < w
           /\ t = s => (t * w) % s = 0
<1>1. t * w \in Nat /\ t * w <= s * w
  <2>1. w * t <= w * s
    BY TimesGrows
  <2> QED
    BY <2>1
<1>2. PICK q \in Nat, x \in 0 .. s - 1 :
         q = (t * w) \div s /\ x = (t * w) % s /\ t * w = s * q + x
  <2> DEFINE m == t * w
  <2>1. m \in Nat
    BY <1>1
  <2> HIDE DEF m
  <2>2. m \div s \in Nat /\ m % s \in 0 .. s - 1 /\ m = s * (m \div s) + (m % s)
    BY <2>1, Division
  <2> QED
    BY <2>2 DEF m
<1>3. q <= w
  <2>1. SUFFICES ASSUME w + 1 <= q PROVE FALSE
    BY <1>2
  <2>2. s * (w + 1) <= s * q
    BY <2>1, TimesGrows
  <2>3. s * (w + 1) = s * w + s /\ s * w \in Nat /\ s * q \in Nat
    OBVIOUS
  <2> QED
    BY <1>1, <1>2, <2>2, <2>3
<1>4. t # s => q < w
  <2>1. SUFFICES ASSUME t + 1 <= s, q = w PROVE FALSE
    BY <1>3
  <2>2. w * (t + 1) <= w * s
    BY <2>1, TimesGrows
  <2>3. w * (t + 1) = t * w + w /\ w * s = s * w /\ s * w \in Nat
    OBVIOUS
  <2> QED
    BY <1>1, <1>2, <2>1, <2>2, <2>3
<1>5. t = s => x = 0
  <2>1. SUFFICES ASSUME t = s, x # 0 PROVE FALSE
    BY <1>2
  <2>2. q + 1 <= w
    <3>1. SUFFICES ASSUME q = w PROVE FALSE
      BY <1>3
    <3>2. s * q \in Nat
      OBVIOUS
    <3> QED
      BY <1>2, <2>1, <3>1, <3>2
  <2>3. s * (q + 1) <= s * w
    BY <2>2, TimesGrows
  <2>4. s * (q + 1) = s * q + s /\ s * w \in Nat /\ s * q \in Nat
    OBVIOUS
  <2> QED
    BY <1>2, <2>1, <2>3, <2>4
<1> QED
  BY <1>2, <1>3, <1>4, <1>5

\* Each term of f, times t, is d times the term of g and that of h.
Splits(S, f, g, h, t, d) ==
    \A x \in S : /\ f[x] \in Int /\ g[x] \in Int /\ h[x] \in Int
                 /\ t * f[x] = d * g[x] + h[x]

LEMMA DividedSum ==
    ASSUME NEW S, IsFiniteSet(S), NEW f, NEW g, NEW h, NEW t \in Int, NEW d \in Int,
           Splits(S, f, g, h, t, d)
    PROVE  t * SumOver(f, S) = d * SumOver(g, S) + SumOver(h, S)
<1> DEFINE a == [x \in S |-> t * f[x]]
           b == [x \in S |-> d * g[x]]
<1>1. \A x \in S : f[x] \in Int /\ a[x] = t * f[x]
  BY DEF Splits
<1>2. \A x \in S : g[x] \in Int /\ b[x] = d * g[x]
  BY DEF Splits
<1>3. \A x \in S : a[x] \in Int /\ b[x] \in Int
  BY DEF Splits
<1>4. \A x \in S : b[x] \in Int /\ h[x] \in Int /\ a[x] = b[x] + h[x]
  BY DEF Splits
<1> HIDE DEF a, b
<1>5. SumOver(a, S) = t * SumOver(f, S)
  BY <1>1, SumTimes
<1>6. SumOver(b, S) = d * SumOver(g, S)
  BY <1>2, SumTimes
<1>7. SumOver(a, S) = SumOver(b, S) + SumOver(h, S)
  BY <1>4, SumPlus
<1> QED
  BY <1>5, <1>6, <1>7

\* What the floors leave over is given out one by one: nothing appears or
\* vanishes, nobody gets more than its weight, and a larger weight never less.
LEMMA AllocationIsExact ==
    ASSUME NEW I \in SUBSET Int, IsFiniteSet(I), I # {}, NEW w, DOMAIN w = I,
           \A i \in I : w[i] \in Nat \ {0},
           NEW t \in Nat, t <= SumOver(w, I)
    PROVE  LET a == AllocateByWeight(t, w) IN
           /\ SumOver(w, I) \in Nat \ {0}
           /\ SumOver(a, I) = t
           /\ \A i \in I : /\ a[i] \in 0 .. w[i]
                           /\ SumOver(w, I) * a[i] <= t * w[i] + SumOver(w, I)
           /\ \A i, j \in I : w[i] > w[j] => a[i] >= a[j]
<1> DEFINE all == SumOver(w, I)
           share == [i \in I |-> (t * w[i]) \div all]
           rest == [i \in I |-> (t * w[i]) % all]
           before(i) == {j \in I : rest[j] > rest[i] \/ (rest[j] = rest[i] /\ j < i)}
           ahead == [i \in I |-> before(i)]
           left == t - SumOver(share, I)
           a == AllocateByWeight(t, w)
<1>1. a = [i \in I |-> share[i] + (IF Cardinality(ahead[i]) < left THEN 1 ELSE 0)]
  BY DEF AllocateByWeight
<1>2. all \in Nat \ {0}
  <2>1. PICK e \in I : TRUE
    OBVIOUS
  <2>2. all = w[e] + SumOver(w, I \ {e})
    <3>1. \A i \in I : w[i] \in Int
      OBVIOUS
    <3> QED
      BY <3>1, SumRemove
  <2>3. SumOver(w, I \ {e}) \in Nat
    <3>1. \A i \in I : w[i] \in Nat
      OBVIOUS
    <3>2. I \ {e} \in SUBSET I
      OBVIOUS
    <3> QED
      BY <3>1, <3>2, SumGrows
  <2>4. w[e] \in Nat \ {0}
    OBVIOUS
  <2> HIDE DEF all
  <2> QED
    BY <2>2, <2>3, <2>4
<1> HIDE DEF all
<1>3. ASSUME NEW i \in I
      PROVE  /\ share[i] \in Nat /\ rest[i] \in 0 .. all - 1
             /\ t * w[i] = all * share[i] + rest[i]
  <2> DEFINE m == t * w[i]
  <2>1. m \in Nat
    OBVIOUS
  <2>2. share[i] = m \div all /\ rest[i] = m % all
    OBVIOUS
  <2> HIDE DEF m, share, rest
  <2>3. m \div all \in Nat /\ m % all \in 0 .. all - 1 /\ m = all * (m \div all) + (m % all)
    BY <1>2, <2>1, Division
  <2> QED
    BY <2>2, <2>3 DEF m
<1> DEFINE some == SumOver(share, I)
           over == SumOver(rest, I)
           n == Cardinality(I)
<1>4. some \in Nat /\ over \in Nat /\ n \in Nat /\ n # 0
  <2>1. \A i \in I : share[i] \in Nat /\ rest[i] \in Nat
    BY <1>2, <1>3
  <2> HIDE DEF share, rest
  <2>2. some \in Nat /\ over \in Nat
    BY <2>1, SumGrows
  <2> QED
    BY <2>2, FS_CardinalityType, FS_EmptySet
\* Everything is what the floors took and what they left over.
<1>5. t * all = all * some + over
  <2>1. \A i \in I : w[i] \in Int /\ share[i] \in Int /\ rest[i] \in Int
    BY <1>2, <1>3
  <2>2. \A i \in I : t * w[i] = all * share[i] + rest[i]
    BY <1>3
  <2>3. t \in Int /\ all \in Int
    BY <1>2
  <2>4. Splits(I, w, share, rest, t, all)
    <3> HIDE DEF share, rest
    <3> QED
      BY <2>1, <2>2 DEF Splits
  <2> HIDE DEF share, rest
  <2>5. t * SumOver(w, I) = all * SumOver(share, I) + SumOver(rest, I)
    BY <2>3, <2>4, DividedSum
  <2> QED
    BY <2>5 DEF all
<1>6. over <= (all - 1) * n
  <2> DEFINE most == [i \in I |-> all - 1]
  <2>1. \A i \in I : rest[i] \in Int /\ most[i] \in Int /\ rest[i] <= most[i]
    BY <1>2, <1>3
  <2>2. all - 1 \in Int /\ \A i \in I : most[i] = all - 1
    BY <1>2
  <2> HIDE DEF most, rest
  <2>3. over <= SumOver(most, I)
    BY <2>1, SumMonotone
  <2>4. SumOver(most, I) = (all - 1) * n
    BY <2>2, SumOfSame
  <2> QED
    BY <2>3, <2>4
<1>7. left \in 0 .. n /\ (over = 0 => left = 0)
  <2> HIDE DEF share, rest, n, some, over
  <2>1. left = t - some
    BY DEF some
  <2> HIDE DEF left
  <2>2. left \in Int
    BY <1>4, <2>1
  <2>3. all * left = over
    <3>1. all * left = all * t - all * some
      BY <1>2, <1>4, <2>1
    <3>2. all * t = t * all /\ all * some \in Nat
      BY <1>2, <1>4
    <3> QED
      BY <1>4, <1>5, <3>1, <3>2
  <2>4. ~ (left < 0)
    <3>1. SUFFICES ASSUME left <= -1 PROVE FALSE
      BY <2>2
    <3>2. all * left <= all * (-1)
      BY <1>2, <2>2, <3>1, TimesGrows
    <3>3. all * (-1) = -all
      BY <1>2
    <3> QED
      BY <1>2, <1>4, <2>3, <3>2, <3>3
  <2>5. ~ (left > n)
    <3>1. SUFFICES ASSUME n <= left PROVE FALSE
      BY <1>4, <2>2
    <3>2. all * n <= all * left
      BY <1>2, <1>4, <2>2, <3>1, TimesGrows
    <3>3. (all - 1) * n = all * n - n /\ all * n \in Nat
      BY <1>2, <1>4
    <3> QED
      BY <1>4, <1>6, <2>3, <3>2, <3>3
  <2>6. over = 0 => left = 0
    <3>1. SUFFICES ASSUME over = 0, 1 <= left PROVE FALSE
      BY <2>2, <2>4
    <3>2. all * 1 <= all * left
      BY <1>2, <2>2, <3>1, TimesGrows
    <3> QED
      BY <1>2, <2>3, <3>1, <3>2
  <2> QED
    BY <1>4, <2>2, <2>4, <2>5, <2>6
<1> DEFINE bonus == [i \in I |-> IF Cardinality(ahead[i]) < left THEN 1 ELSE 0]
<1>8. SumOver(bonus, I) = left
  <2>1. ahead \in [I -> SUBSET I]
    OBVIOUS
  <2>2. /\ \A i \in I : i \notin ahead[i]
        /\ \A i, j \in I : i # j => i \in ahead[j] \/ j \in ahead[i]
        /\ \A i \in I : \A j \in ahead[i] : ahead[j] \subseteq ahead[i]
    <3>1. \A i \in I : i \in Int /\ rest[i] \in Int
      BY <1>2, <1>3
    <3>2. \A i \in I : /\ ahead[i] \subseteq I
                       /\ \A j \in I : j \in ahead[i] <=>
                             rest[j] > rest[i] \/ (rest[j] = rest[i] /\ j < i)
      <4> HIDE DEF rest
      <4> QED
        OBVIOUS
    <3> HIDE DEF rest, ahead
    <3>3. \A i, j \in I : i # j => i \in ahead[j] \/ j \in ahead[i]
      BY <3>1, <3>2
    <3>4. ASSUME NEW i \in I, NEW j \in ahead[i], NEW l \in ahead[j]
          PROVE  l \in ahead[i]
      <4>1. j \in I /\ l \in I
        BY <3>2
      <4>2. /\ rest[j] > rest[i] \/ (rest[j] = rest[i] /\ j < i)
            /\ rest[l] > rest[j] \/ (rest[l] = rest[j] /\ l < j)
        BY <3>2, <4>1
      <4>3. rest[l] > rest[i] \/ (rest[l] = rest[i] /\ l < i)
        <5>1. i \in Int /\ j \in Int /\ l \in Int
          BY <4>1
        <5>2. rest[i] \in Int /\ rest[j] \in Int /\ rest[l] \in Int
          BY <3>1, <4>1
        <5> QED
          BY <4>2, <5>1, <5>2
      <4> QED
        BY <3>2, <4>1, <4>3
    <3> QED
      BY <3>1, <3>2, <3>3, <3>4
  <2>3. Favours(I, ahead, left, bonus)
    BY DEF Favours
  <2>4. OrdersStrictly(I, ahead)
    <3> HIDE DEF ahead
    <3> QED
      BY <2>1, <2>2 DEF OrdersStrictly
  <2> HIDE DEF ahead, bonus, share, rest, left
  <2> QED
    BY <1>7, <2>3, <2>4, RanksAddUp
<1>9. \A i \in I : share[i] \in Nat /\ bonus[i] \in {0, 1} /\ a[i] = share[i] + bonus[i]
  BY <1>1, <1>3
<1>10. SumOver(a, I) = t
  <2> HIDE DEF share, bonus, a
  <2>1. SumOver(a, I) = SumOver(share, I) + SumOver(bonus, I)
    <3>1. \A i \in I : share[i] \in Int /\ bonus[i] \in Int /\ a[i] = share[i] + bonus[i]
      BY <1>9
    <3> QED
      BY <3>1, SumPlus
  <2> QED
    BY <1>4, <1>8, <2>1
<1>11. ASSUME NEW i \in I PROVE a[i] \in 0 .. w[i]
  <2>1. w[i] \in Nat \ {0}
    OBVIOUS
  <2>2. /\ share[i] <= w[i]
        /\ t # all => share[i] < w[i]
    <3>1. t <= all
      BY DEF all
    <3>2. /\ (t * w[i]) \div all <= w[i]
          /\ t # all => (t * w[i]) \div all < w[i]
      BY <1>2, <2>1, <3>1, ShareWithinWeight
    <3> QED
      BY <3>2
  <2>3. CASE t = all
    <3>1. \A j \in I : rest[j] = 0
      <4> TAKE j \in I
      <4>1. w[j] \in Nat \ {0} /\ t <= all
        BY <2>3
      <4>2. (t * w[j]) % all = 0
        BY <1>2, <2>3, <4>1, ShareWithinWeight
      <4> QED
        BY <4>2
    <3>2. left = 0
      <4> HIDE DEF rest, left
      <4>1. over = 0
        BY <3>1, SumOfZeros
      <4> QED
        BY <1>7, <4>1
    <3>3. bonus[i] = 0
      <4>1. Cardinality(ahead[i]) \in Nat
        BY FS_Subset, FS_CardinalityType
      <4> HIDE DEF left, ahead
      <4> QED
        BY <3>2, <4>1
    <3> HIDE DEF share, bonus, a
    <3> QED
      BY <1>9, <2>1, <2>2, <3>3
  <2>4. CASE t # all
    <3> HIDE DEF share, bonus, a
    <3> QED
      BY <1>9, <2>1, <2>2, <2>4
  <2> QED
    BY <2>3, <2>4
<1>12. ASSUME NEW i \in I PROVE all * a[i] <= t * w[i] + all
  <2>1. a[i] = share[i] + bonus[i] /\ bonus[i] \in {0, 1} /\ share[i] \in Nat
    BY <1>9
  <2>2. rest[i] \in 0 .. all - 1 /\ t * w[i] = all * share[i] + rest[i]
    BY <1>3
  <2> HIDE DEF share, rest, bonus, a
  <2>3. all * a[i] <= all * (share[i] + 1)
    BY <1>2, <2>1, TimesGrows
  <2>4. all * (share[i] + 1) = all * share[i] + all /\ all * share[i] \in Nat
    BY <1>2, <2>1
  <2>5. all * a[i] \in Nat
    BY <1>2, <2>1
  <2> QED
    BY <1>2, <2>2, <2>3, <2>4, <2>5
<1>13. ASSUME NEW i \in I, NEW j \in I, w[i] > w[j] PROVE a[i] >= a[j]
  <2>1. /\ share[i] >= share[j]
        /\ share[i] = share[j] => t = 0 \/ rest[i] > rest[j]
    <3>1. w[i] \in Nat /\ w[j] \in Nat
      OBVIOUS
    <3>2. /\ (t * w[i]) \div all >= (t * w[j]) \div all
          /\ (t * w[i]) \div all = (t * w[j]) \div all =>
                 \/ t = 0
                 \/ (t * w[i]) % all > (t * w[j]) % all
      BY <1>2, <1>13, <3>1, LargerShare
    <3> QED
      BY <3>2
  <2>2. /\ a[i] = share[i] + bonus[i] /\ bonus[i] \in {0, 1} /\ share[i] \in Nat
        /\ a[j] = share[j] + bonus[j] /\ bonus[j] \in {0, 1} /\ share[j] \in Nat
    BY <1>9
  <2>3. CASE share[i] # share[j]
    <3> HIDE DEF share, bonus, a
    <3> QED
      BY <2>1, <2>2, <2>3
  <2>4. CASE rest[i] > rest[j]
    <3>1. ahead[i] \subseteq ahead[j]
      <4>1. \A l \in I : rest[l] \in Int
        BY <1>2, <1>3
      <4>2. /\ ahead[i] = {l \in I : rest[l] > rest[i] \/ (rest[l] = rest[i] /\ l < i)}
            /\ ahead[j] = {l \in I : rest[l] > rest[j] \/ (rest[l] = rest[j] /\ l < j)}
        <5> HIDE DEF rest
        <5> QED
          OBVIOUS
      <4> HIDE DEF ahead
      <4>3. ASSUME NEW l \in ahead[i] PROVE l \in ahead[j]
        <5>1. l \in I /\ (rest[l] > rest[i] \/ (rest[l] = rest[i] /\ l < i))
          <6> HIDE DEF rest
          <6> QED
            BY <4>2
        <5>2. rest[i] \in Int /\ rest[j] \in Int /\ rest[l] \in Int
          BY <4>1, <5>1
        <5> HIDE DEF rest
        <5>3. rest[l] > rest[j]
          BY <2>4, <5>1, <5>2
        <5> QED
          BY <4>2, <5>1, <5>3
      <4> QED
        BY <4>3
    <3>2. /\ Cardinality(ahead[i]) \in Nat /\ Cardinality(ahead[j]) \in Nat
          /\ Cardinality(ahead[i]) <= Cardinality(ahead[j])
      <4>1. IsFiniteSet(ahead[i]) /\ IsFiniteSet(ahead[j])
        BY FS_Subset
      <4> HIDE DEF ahead
      <4> QED
        BY <3>1, <4>1, FS_Subset, FS_CardinalityType
    <3>3. bonus[j] = 1 => bonus[i] = 1
      <4>1. /\ bonus[i] = IF Cardinality(ahead[i]) < left THEN 1 ELSE 0
            /\ bonus[j] = IF Cardinality(ahead[j]) < left THEN 1 ELSE 0
        OBVIOUS
      <4> HIDE DEF bonus, ahead, left
      <4> QED
        BY <1>7, <1>4, <3>2, <4>1
    <3> HIDE DEF share, bonus, a
    <3> QED
      BY <2>1, <2>2, <3>3
  <2>5. CASE t = 0
    <3>1. left = 0
      <4> HIDE DEF share
      <4> QED
        BY <1>4, <1>7, <2>5
    <3>2. bonus[i] = 0 /\ bonus[j] = 0
      <4>1. Cardinality(ahead[i]) \in Nat /\ Cardinality(ahead[j]) \in Nat
        BY FS_Subset, FS_CardinalityType
      <4> HIDE DEF left, ahead
      <4> QED
        BY <3>1, <4>1
    <3> HIDE DEF share, bonus, a
    <3> QED
      BY <2>1, <2>2, <3>2
  <2> QED
    BY <2>1, <2>3, <2>4, <2>5
<1> HIDE DEF a
<1> QED
  BY <1>2, <1>10, <1>11, <1>12, <1>13 DEF all, a

LEMMA PlanTermsAre ==
    ASSUME NEW p \in PlanKeys
    PROVE  /\ Plans[p].listPrice \in Nat /\ Plans[p].listPrice >= 349
           /\ Plans[p].dailyLoss \in Nat /\ Plans[p].minis \in Nat
           /\ Plans[p].micros = 10 * Plans[p].minis
           /\ Plans[p].startingBalance \in Nat /\ Plans[p].drawdown \in Nat
           /\ 3 * Plans[p].dailyLoss + 3 <= 2 * Plans[p].drawdown
           /\ Plans[p].lifetimeCash \in Nat
<1>1. p \in {"SIM_25K", "SIM_50K", "SIM_100K", "SIM_150K", "SIM_300K"}
  BY PricingAssumption DEF Plans
<1>2. CASE p = "SIM_25K"
  BY <1>2 DEF Plans, Terms5
<1>3. CASE p = "SIM_50K"
  BY <1>3 DEF Plans, Terms5
<1>4. CASE p = "SIM_100K"
  BY <1>4 DEF Plans, Terms5
<1>5. CASE p = "SIM_150K"
  BY <1>5 DEF Plans, Terms5
<1>6. CASE p = "SIM_300K"
  BY <1>6 DEF Plans, Terms5
<1> QED
  BY <1>1, <1>2, <1>3, <1>4, <1>5, <1>6

LEMMA AddOnTermsAre ==
    ASSUME NEW a \in AddOnKeys
    PROVE  /\ AddOns[a].listPrice \in Nat \ {0}
           /\ AddOns[a].uplift \in {0, 50} /\ AddOns[a].minis \in Nat
           /\ AddOns[a].uplift = 50 <=> a = "DAILY_LOSS_UPLIFT"
<1>1. a = "DAILY_LOSS_UPLIFT" \/ a = "EXTRA_CONTRACTS"
  BY DEF AddOnKeys, AddOns
<1> QED
  BY <1>1 DEF AddOns

\* A selection is a list of different add-ons.
LEMMA SelectionsAre ==
    ASSUME NEW e \in Selections
    PROVE  /\ e \in Seq(AddOnKeys) /\ Len(e) \in 0 .. 2
           /\ Len(e) = 2 => e[1] # e[2]
<1>1. CASE e = <<>>
  BY <1>1
<1>2. CASE e \in {<<a>> : a \in AddOnKeys}
  <2>1. PICK a \in AddOnKeys : e = <<a>>
    BY <1>2
  <2> QED
    BY <2>1
<1>3. CASE e \in {p \in AddOnKeys \X AddOnKeys : p[1] # p[2]}
  <2>1. PICK a \in AddOnKeys, b \in AddOnKeys : e = <<a, b>> /\ a # b
    BY <1>3
  <2> QED
    BY <2>1
<1> QED
  BY <1>1, <1>2, <1>3 DEF Selections

\* The price of each line is positive.
LEMMA PricesAre ==
    ASSUME NEW p \in PlanKeys, NEW e \in Selections, NEW c
    PROVE  LET price == BuildQuote(p, e, c).price IN
           /\ DOMAIN price = 1 .. Len(e) + 1 /\ Len(price) = Len(e) + 1 /\ Len(e) \in Nat
           /\ price[1] = Plans[p].listPrice
           /\ \A i \in DOMAIN price : price[i] \in Nat \ {0}
<1> DEFINE extra == [i \in DOMAIN e |-> AddOns[e[i]].listPrice]
           price == BuildQuote(p, e, c).price
<1>1. price = <<Plans[p].listPrice>> \o extra
  BY DEF BuildQuote
<1>2. e \in Seq(AddOnKeys) /\ Len(e) \in Nat
  BY SelectionsAre
<1>3. extra \in Seq(Nat) /\ Len(extra) = Len(e) /\ \A i \in 1 .. Len(e) : extra[i] \in Nat \ {0}
  <2>1. \A i \in 1 .. Len(e) : AddOns[e[i]].listPrice \in Nat \ {0}
    BY <1>2, AddOnTermsAre
  <2>2. DOMAIN e = 1 .. Len(e)
    BY <1>2
  <2> QED
    BY <1>2, <2>1, <2>2
<1>4. Plans[p].listPrice \in Nat \ {0}
  <2>1. Plans[p].listPrice \in Nat /\ Plans[p].listPrice >= 349
    BY PlanTermsAre
  <2> HIDE DEF price, extra
  <2> QED
    BY <2>1
<1> HIDE DEF extra, price
<1>5. <<Plans[p].listPrice>> \in Seq(Nat)
  BY <1>4
<1>6. price \in Seq(Nat) /\ Len(price) = Len(e) + 1
  BY <1>1, <1>2, <1>3, <1>5
<1>7. price[1] = Plans[p].listPrice
  BY <1>1, <1>2, <1>3, <1>5
<1>8. ASSUME NEW i \in 2 .. Len(e) + 1 PROVE price[i] = extra[i - 1]
  BY <1>1, <1>2, <1>3, <1>5
<1>9. \A i \in 1 .. Len(e) + 1 : price[i] \in Nat \ {0}
  <2> TAKE i \in 1 .. Len(e) + 1
  <2>1. CASE i = 1
    BY <1>4, <1>7, <2>1
  <2>2. CASE i \in 2 .. Len(e) + 1
    BY <1>2, <1>3, <1>8, <2>2
  <2> QED
    BY <1>2, <2>1, <2>2
<1> QED
  BY <1>2, <1>6, <1>7, <1>9 DEF price

LEMMA CouponsAre ==
    ASSUME NEW c \in Coupons \union {NoCoupon}, NEW n \in Nat
    PROVE  /\ c.percentOff \in 0 .. 100
           /\ Eligible(n + 1, c) \in SUBSET (1 .. n + 1)
           /\ Eligible(n + 1, c) \in SUBSET Int
           /\ IsFiniteSet(Eligible(n + 1, c))
<1>1. c.percentOff \in 0 .. 100
  <2>1. CASE c = NoCoupon
    BY <2>1 DEF NoCoupon
  <2>2. CASE c \in Coupons
    <3>1. c.percentOff \in Percents
      BY <2>2 DEF Coupons
    <3> QED
      BY <3>1, PricingAssumption
  <2> QED
    BY <2>1, <2>2
<1>2. Eligible(n + 1, c) \in SUBSET (1 .. n + 1)
  BY DEF Eligible
<1>3. IsFiniteSet(1 .. n + 1)
  <2>1. n + 1 \in Int /\ 1 \in Int
    OBVIOUS
  <2> QED
    BY <2>1, FS_Interval
<1> QED
  BY <1>1, <1>2, <1>3, FS_Subset

\* Rounding half-up.
LEMMA RoundedIs ==
    ASSUME NEW n \in Nat
    PROVE  DivideRounded(n, 100) \in Nat /\ IsRounded(DivideRounded(n, 100), n)
<1> DEFINE m == 2 * n + 100
<1>1. m \in Nat /\ 200 \in Nat \ {0}
  OBVIOUS
<1> HIDE DEF m
<1>2. m \div 200 \in Nat /\ m % 200 \in 0 .. 199 /\ m = 200 * (m \div 200) + (m % 200)
  BY <1>1
<1>3. DivideRounded(n, 100) = m \div 200
  BY DEF DivideRounded, m
<1>4. PICK q \in Nat, x \in 0 .. 199 : q = DivideRounded(n, 100) /\ 2 * n + 100 = 200 * q + x
  BY <1>2, <1>3 DEF m
<1> QED
  BY <1>4 DEF IsRounded

\* A percentage of an amount, rounded, is not more than the amount.
LEMMA PercentIs ==
    ASSUME NEW n \in Nat, NEW k \in 0 .. 100
    PROVE  /\ MulRatio(n, k, 100) \in 0 .. n
           /\ IsRounded(MulRatio(n, k, 100), k * n)
<1> DEFINE m == n * k
           r == MulRatio(n, k, 100)
<1>1. m \in Nat /\ m = k * n /\ m <= n * 100
  <2>1. n * k <= n * 100
    BY TimesGrows
  <2> QED
    BY <2>1
<1>2. r = DivideRounded(m, 100)
  BY DEF MulRatio
<1> HIDE DEF m, r
<1>3. r \in Nat /\ IsRounded(r, m)
  BY <1>1, <1>2, RoundedIs
<1>4. r <= n
  BY <1>1, <1>3 DEF IsRounded
<1> QED
  BY <1>1, <1>3, <1>4 DEF r

LEMMA QuoteParts ==
    ASSUME NEW p, NEW e, NEW c
    PROVE  LET q == BuildQuote(p, e, c)
               chosen == Eligible(Len(q.price), c)
               discount == MulRatio(SumOver(q.price, chosen), c.percentOff, 100) IN
           /\ q.plan = p /\ q.extras = e /\ q.coupon = c
           /\ q.off = [i \in DOMAIN q.price |->
                  IF i \in chosen
                  THEN AllocateByWeight(discount, [j \in chosen |-> q.price[j]])[i] ELSE 0]
           /\ q.taxable = SumOver(q.price, DOMAIN q.price) - discount
           /\ q.tax = MulRatio(q.taxable, TaxPercent, 100)
           /\ q.total = q.taxable + q.tax
  BY DEF BuildQuote

\* The discount is spread over the chosen lines as off says, fairly.
Discounted(price, off, chosen, discount) ==
    LET lines == DOMAIN price
        all == SumOver(price, chosen) IN
    /\ SumOver(off, lines) = discount
    /\ \A i \in lines : off[i] \in 0 .. price[i]
    /\ \A i \in lines \ chosen : off[i] = 0
    /\ \A i, j \in chosen : price[i] > price[j] => off[i] >= off[j]
    /\ \A i \in chosen : all * off[i] <= discount * price[i] + all

LEMMA DiscountIsSpread ==
    ASSUME NEW n \in Nat, NEW price, DOMAIN price = 1 .. n, \A i \in 1 .. n : price[i] \in Nat \ {0},
           NEW chosen \in SUBSET (1 .. n), NEW t \in Nat, t <= SumOver(price, chosen), NEW off,
           off = [i \in 1 .. n |->
                     IF i \in chosen
                     THEN AllocateByWeight(t, [j \in chosen |-> price[j]])[i] ELSE 0]
    PROVE  Discounted(price, off, chosen, t)
<1> DEFINE lines == 1 .. n
           w == [j \in chosen |-> price[j]]
           a == AllocateByWeight(t, w)
           all == SumOver(price, chosen)
<1>1. IsFiniteSet(lines) /\ IsFiniteSet(chosen) /\ IsFiniteSet(lines \ chosen)
  <2>1. IsFiniteSet(lines)
    <3>1. 1 \in Int /\ n \in Int
      OBVIOUS
    <3> QED
      BY <3>1, FS_Interval
  <2> QED
    BY <2>1, FS_Subset
<1>2. SumOver(w, chosen) = all
  <2>1. \A j \in chosen : w[j] = price[j]
    OBVIOUS
  <2> HIDE DEF w
  <2> QED
    BY <1>1, <2>1, SumSame
<1>3. /\ \A i \in chosen : off[i] = a[i]
      /\ \A i \in lines \ chosen : off[i] = 0
  <2> HIDE DEF a
  <2> QED
    BY DEF a
<1>4. CASE chosen = {}
  <2>1. all = 0
    BY <1>4, SumEmpty
  <2>2. t = 0
    BY <2>1
  <2>3. \A i \in lines : off[i] = 0
    BY <1>3, <1>4
  <2>4. SumOver(off, lines) = 0
    <3> HIDE DEF lines
    <3> QED
      BY <1>1, <2>3, SumOfZeros
  <2>5. \A i \in lines : 0 \in 0 .. price[i]
    OBVIOUS
  <2> QED
    BY <1>4, <2>2, <2>3, <2>4, <2>5 DEF Discounted
<1>5. CASE chosen # {}
  <2>1. chosen \in SUBSET Int
    OBVIOUS
  <2>2. DOMAIN w = chosen /\ \A i \in chosen : w[i] = price[i] /\ w[i] \in Nat \ {0}
    OBVIOUS
  <2>3. t <= SumOver(w, chosen)
    BY <1>2
  <2> HIDE DEF w
  <2>4. /\ SumOver(a, chosen) = t
        /\ \A i \in chosen : /\ a[i] \in 0 .. w[i]
                             /\ SumOver(w, chosen) * a[i] <= t * w[i] + SumOver(w, chosen)
        /\ \A i, j \in chosen : w[i] > w[j] => a[i] >= a[j]
    BY <1>1, <1>5, <2>1, <2>2, <2>3, AllocationIsExact
  <2> HIDE DEF a, lines
  <2>5. SumOver(off, chosen) = t
    <3>1. SumOver(off, chosen) = SumOver(a, chosen)
      BY <1>1, <1>3, SumSame
    <3> QED
      BY <2>4, <3>1
  <2>6. SumOver(off, lines \ chosen) = 0
    BY <1>1, <1>3, SumOfZeros
  <2>7. \A i \in lines : off[i] \in 0 .. price[i]
    <3> TAKE i \in lines
    <3>1. CASE i \in chosen
      BY <1>3, <2>2, <2>4, <3>1
    <3>2. CASE i \notin chosen
      <4>1. price[i] \in Nat
        BY DEF lines
      <4>2. off[i] = 0
        BY <1>3, <3>2
      <4> QED
        BY <4>1, <4>2
    <3> QED
      BY <3>1, <3>2
  <2>8. SumOver(off, lines) = t
    <3>1. chosen \union (lines \ chosen) = lines
      BY DEF lines
    <3>2. chosen \intersect (lines \ chosen) = {}
      OBVIOUS
    <3>3. \A i \in chosen \union (lines \ chosen) : off[i] \in Int
      <4>1. \A i \in lines : price[i] \in Nat
        BY DEF lines
      <4>2. \A i \in lines : off[i] \in Int
        <5> TAKE i \in lines
        <5>1. off[i] \in 0 .. price[i]
          BY <2>7
        <5> QED
          BY <5>1
      <4> QED
        BY <3>1, <4>2
    <3>4. SumOver(off, chosen \union (lines \ chosen))
              = SumOver(off, chosen) + SumOver(off, lines \ chosen)
      BY <1>1, <3>2, <3>3, SumUnion
    <3>5. SumOver(off, lines) = t + 0
      BY <2>5, <2>6, <3>1, <3>4
    <3> QED
      BY <3>5
  <2>9. \A i, j \in chosen : price[i] > price[j] => off[i] >= off[j]
    BY <1>3, <2>2, <2>4
  <2>10. \A i \in chosen : all * off[i] <= t * price[i] + all
    BY <1>2, <1>3, <2>2, <2>4
  <2>11. DOMAIN price = lines
    BY DEF lines
  <2> QED
    BY <1>3, <2>7, <2>8, <2>9, <2>10, <2>11 DEF Discounted
<1> QED
  BY <1>4, <1>5

\* The quote q of the plan p has n add-ons and a discount of d under the coupon c.
Promises(q, p, c, n, d) ==
    LET lines == DOMAIN q.price
        chosen == Eligible(Len(q.price), c)
        all == SumOver(q.price, chosen) IN
    /\ lines = 1 .. n + 1 /\ IsFiniteSet(lines) /\ Len(q.price) = n + 1
    /\ chosen \in SUBSET lines /\ IsFiniteSet(chosen)
    /\ q.price[1] = Plans[p].listPrice
    /\ \A i \in lines : q.price[i] \in Nat \ {0}
    /\ Discounted(q.price, q.off, chosen, d)
    /\ all \in Nat /\ IsRounded(d, c.percentOff * all)
    /\ q.taxable \in Nat /\ q.taxable = SumOver(q.price, lines) - d
    /\ IsRounded(q.tax, TaxPercent * q.taxable) /\ q.tax \in Nat
    /\ q.total = q.taxable + q.tax

\* A quote is what its parts promise.
LEMMA QuoteIsSound ==
    ASSUME NEW p \in PlanKeys, NEW e \in Selections, NEW c \in Coupons \union {NoCoupon}
    PROVE  \E n \in Nat, d \in Nat : Promises(BuildQuote(p, e, c), p, c, n, d)
<1> DEFINE q == BuildQuote(p, e, c)
           price == q.price
           off == q.off
           n == Len(e)
           lines == 1 .. n + 1
           chosen == Eligible(n + 1, c)
           all == SumOver(price, chosen)
           d == MulRatio(all, c.percentOff, 100)
<1>1. /\ DOMAIN price = lines /\ Len(price) = n + 1 /\ n \in Nat
      /\ price[1] = Plans[p].listPrice
      /\ \A i \in lines : price[i] \in Nat \ {0}
  BY PricesAre
<1>2. /\ off = [i \in lines |-> IF i \in chosen
                    THEN AllocateByWeight(d, [j \in chosen |-> price[j]])[i] ELSE 0]
      /\ q.taxable = SumOver(price, lines) - d
      /\ q.tax = MulRatio(q.taxable, TaxPercent, 100)
      /\ q.total = q.taxable + q.tax
  <2> DEFINE some == Eligible(Len(q.price), c)
             less == MulRatio(SumOver(q.price, some), c.percentOff, 100)
  <2>1. /\ q.off = [i \in DOMAIN q.price |-> IF i \in some
                       THEN AllocateByWeight(less, [j \in some |-> q.price[j]])[i] ELSE 0]
        /\ q.taxable = SumOver(q.price, DOMAIN q.price) - less
        /\ q.tax = MulRatio(q.taxable, TaxPercent, 100)
        /\ q.total = q.taxable + q.tax
    BY QuoteParts
  <2> HIDE DEF q
  <2>2. some = chosen /\ DOMAIN q.price = lines
    BY <1>1
  <2> HIDE DEF some, chosen, lines
  <2>3. less = d
    BY <2>2
  <2> HIDE DEF less, d
  <2> QED
    BY <2>1, <2>2, <2>3
<1> HIDE DEF q, price, off, n
<1>3. /\ c.percentOff \in 0 .. 100 /\ chosen \in SUBSET lines /\ IsFiniteSet(chosen)
  BY <1>1, CouponsAre
<1> HIDE DEF chosen
<1>4. IsFiniteSet(lines)
  <2>1. 1 \in Int /\ n + 1 \in Int
    BY <1>1
  <2> QED
    BY <2>1, FS_Interval
<1>5. /\ all \in Nat /\ SumOver(price, lines) \in Nat
      /\ all <= SumOver(price, lines)
  <2>1. \A i \in lines : price[i] \in Nat
    BY <1>1
  <2> HIDE DEF lines
  <2>2. lines \in SUBSET lines
    OBVIOUS
  <2> QED
    BY <1>3, <1>4, <2>1, <2>2, SumGrows
<1> HIDE DEF all
<1>6. d \in 0 .. all /\ IsRounded(d, c.percentOff * all)
  BY <1>3, <1>5, PercentIs
<1> HIDE DEF d
<1>7. Discounted(price, off, chosen, d)
  <2>1. d \in Nat /\ d <= SumOver(price, chosen)
    BY <1>5, <1>6 DEF all
  <2>2. n + 1 \in Nat
    BY <1>1
  <2> QED
    BY <1>1, <1>2, <1>3, <2>1, <2>2, DiscountIsSpread
<1>8. q.taxable \in Nat
  BY <1>2, <1>5, <1>6
<1>9. IsRounded(q.tax, TaxPercent * q.taxable) /\ q.tax \in Nat
  <2>1. TaxPercent \in 0 .. 100
    BY DEF TaxPercent
  <2>2. MulRatio(q.taxable, TaxPercent, 100) \in 0 .. q.taxable
        /\ IsRounded(MulRatio(q.taxable, TaxPercent, 100), TaxPercent * q.taxable)
    BY <1>8, <2>1, PercentIs
  <2> QED
    BY <1>2, <1>8, <2>2
<1>10. chosen = Eligible(Len(price), c)
  BY <1>1 DEF chosen
<1>11. Promises(q, p, c, n, d) /\ d \in Nat
  <2>1. d \in Nat
    BY <1>5, <1>6
  <2> QED
    BY <1>1, <1>2, <1>3, <1>4, <1>5, <1>6, <1>7, <1>8, <1>9, <1>10, <2>1
       DEF Promises, all, price, off
<1> QED
  BY <1>1, <1>11 DEF q

\* In whatever order lines are refunded, they give back what was paid but the tax.
LEMMA RefundsAre ==
    ASSUME NEW q, NEW p, NEW c, NEW n \in Nat, NEW d \in Nat, Promises(q, p, c, n, d),
           NEW back, back = [i \in DOMAIN q.price |-> RefundAllocation(q, i)],
           NEW R \in SUBSET DOMAIN q.price
    PROVE  /\ SumOver(back, R) <= q.total - q.tax
           /\ R = DOMAIN q.price => SumOver(back, R) = q.total - q.tax
           /\ SumOver(q.price, DOMAIN q.price) - SumOver(q.off, DOMAIN q.price) = q.taxable
<1> DEFINE lines == DOMAIN q.price
           price == q.price
           off == q.off
<1>1. /\ IsFiniteSet(lines) /\ \A i \in lines : price[i] \in Nat \ {0} /\ off[i] \in 0 .. price[i]
      /\ SumOver(off, lines) = d /\ q.taxable = SumOver(price, lines) - d
      /\ q.taxable \in Nat /\ q.total = q.taxable + q.tax /\ q.tax \in Nat
  BY DEF Promises, Discounted
<1>2. \A i \in lines : back[i] = price[i] - off[i]
  BY DEF RefundAllocation, LineTotal
<1> HIDE DEF price, off, lines
<1>3. \A i \in lines : price[i] \in Int /\ off[i] \in Int /\ back[i] \in Nat /\ back[i] \in Int
                       /\ price[i] = back[i] + off[i]
  <2> TAKE i \in lines
  <2>1. price[i] \in Nat /\ off[i] \in 0 .. price[i] /\ back[i] = price[i] - off[i]
    BY <1>1, <1>2
  <2> QED
    BY <2>1
<1>4. SumOver(price, lines) = SumOver(back, lines) + SumOver(off, lines)
  <2>1. \A i \in lines : back[i] \in Int /\ off[i] \in Int /\ price[i] = back[i] + off[i]
    BY <1>3
  <2> QED
    BY <1>1, <2>1, SumPlus
<1>5. /\ SumOver(back, R) \in Nat /\ SumOver(back, lines) \in Nat
      /\ SumOver(back, R) <= SumOver(back, lines)
  <2>1. \A i \in lines : back[i] \in Nat
    BY <1>3
  <2>2. R \in SUBSET lines /\ lines \in SUBSET lines
    BY DEF lines
  <2> QED
    BY <1>1, <2>1, <2>2, SumGrows
<1>6. SumOver(back, lines) = q.taxable
  BY <1>1, <1>4, <1>5
<1>7. q.total - q.tax = q.taxable
  BY <1>1
<1>8. SumOver(price, lines) - SumOver(off, lines) = q.taxable
  BY <1>1
<1> QED
  BY <1>5, <1>6, <1>7, <1>8 DEF lines, price, off

\* A reset undercuts a new account under the standing coupon.
LEMMA ResetsUndercut ==
    ASSUME NEW q, NEW p \in PlanKeys, NEW n \in Nat, NEW d \in Nat,
           Promises(q, p, DefaultCoupon, n, d)
    PROVE  ResetPrice(p) \in 1 .. LineTotal(q, 1) - 1
<1> DEFINE list == Plans[p].listPrice
           all == SumOver(q.price, DOMAIN q.price)
           a == q.off[1]
           r == MulRatio(list, 25, 100)
<1>1. list \in Nat /\ list >= 349 /\ q.price[1] = list
  BY PlanTermsAre DEF Promises
<1>2. /\ all \in Nat /\ IsRounded(d, 25 * all) /\ 1 \in DOMAIN q.price
      /\ a \in 0 .. list /\ all * a <= d * list + all
  <2>1. Eligible(Len(q.price), DefaultCoupon) = DOMAIN q.price /\ DefaultCoupon.percentOff = 25
    <3>1. DOMAIN q.price = 1 .. n + 1 /\ Len(q.price) = n + 1
      BY DEF Promises
    <3> QED
      BY <3>1 DEF Eligible, DefaultCoupon
  <2>2. 1 \in DOMAIN q.price
    BY DEF Promises
  <2> QED
    BY <1>1, <2>1, <2>2 DEF Promises, Discounted
<1>3. list <= all
  <2>1. IsFiniteSet(DOMAIN q.price) /\ \A i \in DOMAIN q.price : q.price[i] \in Nat /\ q.price[i] \in Int
    BY DEF Promises
  <2> DEFINE R == DOMAIN q.price \ {1}
  <2>2. R \in SUBSET DOMAIN q.price
    OBVIOUS
  <2>3. SumOver(q.price, R) \in Nat
    BY <2>1, <2>2, SumGrows
  <2>4. all = q.price[1] + SumOver(q.price, R)
    BY <1>2, <2>1, SumRemove
  <2> HIDE DEF all, R, list
  <2> QED
    BY <1>1, <1>2, <2>3, <2>4
<1>4. /\ ResetPrice(p) = list - r - 10
      /\ LineTotal(q, 1) = list - a
  BY <1>1 DEF ResetPrice, CouponPrice, LineTotal, DefaultCoupon, ResetDiscount
<1>5. r \in 0 .. list /\ IsRounded(r, 25 * list)
  <2>1. 25 \in 0 .. 100
    OBVIOUS
  <2> HIDE DEF list
  <2> QED
    BY <1>1, <2>1, PercentIs
<1> HIDE DEF list, all, a, r
\* The line pays its part of the discount and at most one more.
<1>6. 4 * a <= list + 6
  <2>1. 4 * d <= all + 2
    BY <1>2 DEF IsRounded
  <2>2. 4 * a \in Nat /\ all * (4 * a) = 4 * (all * a)
    BY <1>1, <1>2
  <2>3. d * list \in Nat /\ list * (4 * d) = 4 * (d * list)
    BY <1>1
  <2>4. list * (4 * d) <= list * (all + 2)
    BY <1>1, <1>2, <2>1, TimesGrows
  <2>5. list * (all + 2) = all * list + 2 * list /\ all * list \in Nat
    BY <1>1, <1>2
  <2>6. SUFFICES ASSUME list + 7 <= 4 * a PROVE FALSE
    BY <1>1, <1>2, <2>2
  <2>7. all * (list + 7) <= all * (4 * a)
    BY <1>1, <1>2, <2>2, <2>6, TimesGrows
  <2>8. all * (list + 7) = all * list + 7 * all
    BY <1>1, <1>2
  <2>9. all * a \in Nat
    BY <1>1, <1>2
  <2>10. all * list + 7 * all <= all * list + 2 * list + 4 * all
    <3>1. 4 * (all * a) <= 4 * (d * list) + 4 * all
      BY <1>2, <2>3, <2>9
    <3> QED
      BY <1>1, <1>2, <2>2, <2>3, <2>4, <2>5, <2>7, <2>8, <2>9, <3>1
  <2> QED
    BY <1>1, <1>2, <1>3, <2>5, <2>10
<1>7. 4 * r >= list - 2 /\ 4 * r <= list + 2
  BY <1>1, <1>5 DEF IsRounded
<1> QED
  BY <1>1, <1>2, <1>4, <1>5, <1>6, <1>7

\* At most one uplift is in a selection.
LEMMA DeltasAre ==
    ASSUME NEW e \in Selections
    PROVE  RiskDeltas(e).uplift \in {0, 50} /\ RiskDeltas(e).minis \in Nat
<1> DEFINE lines == DOMAIN e
           up == [i \in lines |-> AddOns[e[i]].uplift]
           mini == [i \in lines |-> AddOns[e[i]].minis]
<1>1. e \in Seq(AddOnKeys) /\ Len(e) \in 0 .. 2 /\ (Len(e) = 2 => e[1] # e[2])
  BY SelectionsAre
<1>2. lines = 1 .. Len(e) /\ \A i \in lines : e[i] \in AddOnKeys
  BY <1>1
<1>3. \A i \in lines : up[i] \in {0, 50} /\ mini[i] \in Nat
  BY <1>2, AddOnTermsAre
<1>4. RiskDeltas(e).uplift = SumOver(up, lines) /\ RiskDeltas(e).minis = SumOver(mini, lines)
  BY DEF RiskDeltas
<1>5. IsFiniteSet(lines)
  <2>1. 1 \in Int /\ Len(e) \in Int
    BY <1>1
  <2> QED
    BY <1>2, <2>1, FS_Interval
<1>6. Len(e) = 2 => ~ (up[1] = 50 /\ up[2] = 50)
  <2>1. SUFFICES ASSUME Len(e) = 2, up[1] = 50, up[2] = 50 PROVE FALSE
    OBVIOUS
  <2>2. 1 \in lines /\ 2 \in lines
    BY <1>2, <2>1
  <2>3. AddOns[e[1]].uplift = 50 /\ AddOns[e[2]].uplift = 50
    BY <2>1, <2>2
  <2>4. e[1] = "DAILY_LOSS_UPLIFT" /\ e[2] = "DAILY_LOSS_UPLIFT"
    BY <1>2, <2>2, <2>3, AddOnTermsAre
  <2> QED
    BY <1>1, <2>1, <2>4
<1>7. SumOver(mini, lines) \in Nat
  <2>1. \A i \in lines : mini[i] \in Nat
    BY <1>3
  <2>2. lines \in SUBSET lines
    OBVIOUS
  <2> HIDE DEF mini, lines
  <2> QED
    BY <1>5, <2>1, <2>2, SumGrows
<1>8. SumOver(up, lines) \in {0, 50}
  <2>1. CASE Len(e) = 0
    <3>1. lines = {}
      BY <1>2, <2>1
    <3> QED
      BY <3>1, SumEmpty
  <2>2. CASE Len(e) = 1
    <3>1. lines = {1}
      BY <1>2, <2>2
    <3>2. up[1] \in {0, 50} /\ up[1] \in Int
      BY <1>3, <3>1
    <3> HIDE DEF up, lines
    <3> QED
      BY <3>1, <3>2, SumSingle
  <2>3. CASE Len(e) = 2
    <3>1. lines = {1, 2}
      BY <1>2, <2>3
    <3>2. up[1] \in {0, 50} /\ up[2] \in {0, 50} /\ ~ (up[1] = 50 /\ up[2] = 50)
      BY <1>3, <1>6, <2>3, <3>1
    <3>3. \A i \in lines : up[i] \in Int
      BY <1>3
    <3> HIDE DEF up, lines
    <3>4. SumOver(up, lines) = up[1] + SumOver(up, lines \ {1})
      BY <1>5, <3>1, <3>3, SumRemove
    <3>5. lines \ {1} = {2}
      BY <3>1
    <3>6. SumOver(up, {2}) = up[2]
      BY <3>2, SumSingle
    <3> QED
      BY <3>2, <3>4, <3>5, <3>6
  <2> QED
    BY <1>1, <2>1, <2>2, <2>3
<1> QED
  BY <1>4, <1>7, <1>8

\* With any add-ons, ten micros to a mini and a daily loss below the drawdown.
LEMMA LimitsAre ==
    ASSUME NEW p \in PlanKeys, NEW e \in Selections
    PROVE  LET l == EffectiveLimits(p, RiskDeltas(e)) IN
           /\ l.micros = 10 * l.minis
           /\ l.dailyLoss < Plans[p].startingBalance - l.threshold
<1> DEFINE t == Plans[p]
           k == RiskDeltas(e)
           r == MulRatio(t.dailyLoss, k.uplift, 100)
           l == EffectiveLimits(p, k)
<1>1. k.uplift \in {0, 50} /\ k.minis \in Nat
  BY DeltasAre
<1>2. /\ t.dailyLoss \in Nat /\ t.minis \in Nat /\ t.micros = 10 * t.minis
      /\ t.startingBalance \in Nat /\ t.drawdown \in Nat
      /\ 3 * t.dailyLoss + 3 <= 2 * t.drawdown
  BY PlanTermsAre
<1>3. r \in 0 .. t.dailyLoss /\ IsRounded(r, k.uplift * t.dailyLoss)
  <2>1. k.uplift \in 0 .. 100
    BY <1>1
  <2> HIDE DEF t, k
  <2> QED
    BY <1>2, <2>1, PercentIs
<1>4. /\ l.dailyLoss = t.dailyLoss + r /\ l.minis = t.minis + k.minis
      /\ l.micros = t.micros + k.minis * 10 /\ l.threshold = t.startingBalance - t.drawdown
  BY DEF EffectiveLimits
<1> HIDE DEF t, k, r, l
<1>5. 2 * r <= t.dailyLoss + 1
  <2>1. CASE k.uplift = 0
    BY <1>2, <1>3, <2>1 DEF IsRounded
  <2>2. CASE k.uplift = 50
    BY <1>2, <1>3, <2>2 DEF IsRounded
  <2> QED
    BY <1>1, <2>1, <2>2
<1>6. l.dailyLoss < t.startingBalance - l.threshold
  BY <1>2, <1>3, <1>4, <1>5
<1>7. l.micros = 10 * l.minis
  BY <1>1, <1>2, <1>4
<1> QED
  BY <1>6, <1>7 DEF t, k, l

\* What is quoted was built from a selection, what was bought has its limits.
PricesInv ==
    /\ quote # NoQuote =>
          \E p \in PlanKeys, e \in Selections, c \in Coupons \union {NoCoupon} :
             quote = BuildQuote(p, e, c)
    /\ refunded \subseteq DOMAIN quote.price
    /\ bought => /\ quote # NoQuote
                 /\ limits = EffectiveLimits(quote.plan, RiskDeltas(quote.extras))
    /\ ~ bought => refunded = {}

\* What was not overridden was approved.
PromotionsInv ==
    /\ live \subseteq Drafts
    /\ \A d \in live : Approvable(d) \/ d.code \in overridden
    /\ RatioStaysBelowCeiling

\* A quote that was asked for adds up, whatever of it was refunded.
LEMMA QuotesAddUp ==
    ASSUME PricesInv
    PROVE  QuoteAddsUp
<1>1. SUFFICES ASSUME quote # NoQuote PROVE QuoteAddsUp
  BY DEF QuoteAddsUp
<1>2. PICK p \in PlanKeys, e \in Selections, c \in Coupons \union {NoCoupon} :
         quote = BuildQuote(p, e, c)
  BY <1>1 DEF PricesInv
<1>3. quote.plan = p /\ quote.extras = e /\ quote.coupon = c
  <2>1. /\ BuildQuote(p, e, c).plan = p /\ BuildQuote(p, e, c).extras = e
        /\ BuildQuote(p, e, c).coupon = c
    BY DEF BuildQuote
  <2> QED
    BY <1>2, <2>1
<1>4. PICK n \in Nat, d \in Nat : Promises(quote, p, c, n, d)
  BY <1>2, QuoteIsSound
<1> DEFINE lines == DOMAIN quote.price
           chosen == Eligible(Len(quote.price), c)
           back == [i \in lines |-> RefundAllocation(quote, i)]
<1>5. /\ SumOver(back, refunded) <= quote.total - quote.tax
      /\ refunded = lines => SumOver(back, refunded) = quote.total - quote.tax
      /\ SumOver(quote.price, lines) - SumOver(quote.off, lines) = quote.taxable
  BY <1>4, RefundsAre DEF PricesInv
<1>6. /\ IsRounded(SumOver(quote.off, lines), c.percentOff * SumOver(quote.price, chosen))
      /\ \A i \in lines : quote.off[i] \in 0 .. quote.price[i]
      /\ \A i \in lines \ chosen : quote.off[i] = 0
      /\ \A i, j \in chosen : quote.price[i] > quote.price[j] => quote.off[i] >= quote.off[j]
      /\ IsRounded(quote.tax, TaxPercent * quote.taxable)
  BY <1>4 DEF Promises, Discounted
<1>7. c = DefaultCoupon => ResetPrice(p) \in 1 .. LineTotal(quote, 1) - 1
  BY <1>4, ResetsUndercut
<1>8. bought => /\ limits.micros = 10 * limits.minis
                /\ limits.dailyLoss < Plans[p].startingBalance - limits.threshold
  BY <1>3, LimitsAre DEF PricesInv
<1> HIDE DEF back
<1>9. QuoteAddsUp <=>
        /\ IsRounded(SumOver(quote.off, lines), c.percentOff * SumOver(quote.price, chosen))
        /\ \A i \in lines : quote.off[i] \in 0 .. quote.price[i]
        /\ \A i \in lines \ chosen : quote.off[i] = 0
        /\ \A i, j \in chosen : quote.price[i] > quote.price[j] => quote.off[i] >= quote.off[j]
        /\ IsRounded(quote.tax, TaxPercent * (SumOver(quote.price, lines) - SumOver(quote.off, lines)))
        /\ SumOver(back, refunded) <= quote.total - quote.tax
        /\ refunded = lines => SumOver(back, refunded) = quote.total - quote.tax
        /\ c = DefaultCoupon => ResetPrice(p) \in 1 .. LineTotal(quote, 1) - 1
        /\ bought => /\ limits.micros = 10 * limits.minis
                     /\ limits.dailyLoss < Plans[p].startingBalance - limits.threshold
  BY <1>1, <1>3 DEF QuoteAddsUp, back
<1> HIDE DEF lines, chosen
<1> QED
  BY <1>5, <1>6, <1>7, <1>8, <1>9

LEMMA PricesStart == PricingInit => PricesInv
<1> SUFFICES ASSUME PricingInit PROVE PricesInv
  OBVIOUS
<1>1. quote = NoQuote /\ ~ bought /\ refunded = {}
  BY DEF PricingInit
<1> QED
  BY <1>1 DEF PricesInv

LEMMA PricesStep == PricesInv /\ [PricingNext]_priceVars => PricesInv'
<1> SUFFICES ASSUME PricesInv, [PricingNext]_priceVars PROVE PricesInv'
  OBVIOUS
<1>1. CASE ConfirmPolicies
  BY <1>1 DEF ConfirmPolicies, PricesInv
<1>2. CASE Ask
  <2>1. ~ bought /\ ~ bought' /\ refunded' = {} /\ limits' = limits
    BY <1>2 DEF Ask, PricesInv
  <2>2. \E p \in PlanKeys, e \in Selections, c \in Coupons \union {NoCoupon} :
           quote' = BuildQuote(p, e, c)
    BY <1>2 DEF Ask
  <2> QED
    BY <2>1, <2>2 DEF PricesInv
<1>3. CASE Buy
  BY <1>3 DEF Buy, PricesInv
<1>4. CASE RefundLine
  <2>1. PICK i \in DOMAIN quote.price \ refunded : refunded' = refunded \union {i}
    BY <1>4 DEF RefundLine
  <2> QED
    BY <1>4, <2>1 DEF RefundLine, PricesInv
<1>5. CASE UNCHANGED priceVars
  BY <1>5 DEF priceVars, PricesInv
<1> QED
  BY <1>1, <1>2, <1>3, <1>4, <1>5 DEF PricingNext

-----------------------------------------------------------------------------

\* Of a set that is not empty, something has the smallest rank.
LEMMA LeastExists ==
    ASSUME NEW S, S # {}, NEW f, \A x \in S : f[x] \in Nat
    PROVE  \E x \in S : \A y \in S : f[x] <= f[y]
<1> DEFINE T == {f[x] : x \in S}
<1>1. T \in SUBSET Nat /\ T # {}
  OBVIOUS
<1>2. \E n \in T : \A m \in T : ~ (m < n)
  <2> DEFINE R == OpToRel(<, Nat)
  <2>1. IsWellFoundedOn(R, Nat)
    BY NatLessThanWellFounded
  <2>2. \A m, n \in Nat : <<m, n>> \in R <=> m < n
    BY DEF OpToRel
  <2> HIDE DEF R, T
  <2>3. \E n \in T : \A m \in T : ~ (<<m, n>> \in R)
    BY <1>1, <2>1, WFMin
  <2> QED
    BY <1>1, <2>2, <2>3
<1>3. PICK n \in T : \A m \in T : ~ (m < n)
  BY <1>2
<1>4. PICK x \in S : n = f[x]
  BY <1>3
<1>5. ASSUME NEW y \in S PROVE f[x] <= f[y]
  <2>1. f[y] \in T /\ f[y] \in Nat /\ f[x] \in Nat
    BY <1>4
  <2>2. ~ (f[y] < n)
    BY <1>3, <2>1
  <2> HIDE DEF T
  <2> QED
    BY <1>4, <2>1, <2>2
<1> QED
  BY <1>4, <1>5

\* A price is between nothing and the list price, unless the code is of a kind
\* that no evaluation approves.
LEMMA DiscountedPriceIs ==
    ASSUME NEW d \in Drafts, NEW list \in Nat
    PROVE  /\ DiscountedPrice(d, list) \in Nat
           /\ d.kind # "TIER_UPGRADE" => DiscountedPrice(d, list) <= list
<1>1. d.bps \in 0 .. 10000 /\ d.fixed \in Nat
  BY PromotionsAssumption
<1>2. ApplyPercentOffBps(list, d.bps) \in 0 .. list
  <2> DEFINE k == d.bps
             m == list * k
             r == MulRatio(list, k, 10000)
  <2>1. m \in Nat /\ m <= list * 10000
    <3>1. k \in Nat /\ k <= 10000
      <4>1. k \in 0 .. 10000
        BY <1>1
      <4> HIDE DEF k
      <4> QED
        BY <4>1
    <3> HIDE DEF k
    <3>2. list * k <= list * 10000
      BY <3>1, TimesGrows
    <3> QED
      BY <3>1, <3>2
  <2>2. r = (2 * m + 10000) \div (2 * 10000)
    BY DEF MulRatio, DivideRounded
  <2> HIDE DEF m, k, r
  <2> DEFINE j == 2 * m + 10000
  <2>3. j \in Nat /\ j <= 20000 * list + 10000
    BY <2>1
  <2>4. r = j \div 20000
    BY <2>2
  <2> HIDE DEF j
  <2>5. r \in 0 .. list
    BY <2>3, <2>4
  <2> QED
    BY <2>5 DEF ApplyPercentOffBps, r, k
<1> QED
  BY <1>1, <1>2 DEF DiscountedPrice

\* chooseBestPromotion takes no promotion, or one in force and its price.
LEMMA BestIsInForce ==
    ASSUME NEW p \in PlanKeys, live \subseteq Drafts
    PROVE  LET best == ChooseBestPromotion(p) IN
           /\ best.plan = p
           /\ \/ best.code = 0 /\ best.price = Plans[p].listPrice
              \/ \E d \in InForce(p) : /\ best.code = d.code
                                       /\ best.price = DiscountedPrice(d, Plans[p].listPrice)
<1> DEFINE list == Plans[p].listPrice
           some == InForce(p)
           price == [d \in some |-> DiscountedPrice(d, list)]
           best == {d \in some : \A e \in some : price[d] <= price[e]}
           code == [d \in best |-> d.code]
<1>1. list \in Nat
  BY PlanTermsAre
<1>2. some \subseteq Drafts
  BY DEF InForce
<1>3. CASE some = {}
  BY <1>3 DEF ChooseBestPromotion
<1>4. CASE some # {}
  <2>1. \A d \in some : price[d] \in Nat
    BY <1>1, <1>2, DiscountedPriceIs
  <2>2. best # {}
    <3>1. \E d \in some : \A e \in some : price[d] <= price[e]
      <4> HIDE DEF price, some
      <4> QED
        BY <1>4, <2>1, LeastExists
    <3> QED
      BY <3>1
  <2>3. \A d \in best : code[d] \in Nat
    <3> TAKE d \in best
    <3>1. d \in Drafts
      BY <1>2
    <3>2. d.code \in Nat
      BY <3>1, PromotionsAssumption
    <3> QED
      BY <3>2
  <2>4. \E b \in best : \A e \in best : code[b] <= code[e]
    <3> HIDE DEF best, code
    <3> QED
      BY <2>2, <2>3, LeastExists
  <2>5. \E b \in best : \A e \in best : b.code <= e.code
    BY <2>4
  <2> DEFINE d == CHOOSE b \in best : \A e \in best : b.code <= e.code
  <2>6. d \in best
    <3> HIDE DEF best
    <3> QED
      BY <2>5
  <2>7. d \in some /\ price[d] = DiscountedPrice(d, list)
    BY <2>6
  <2>8. ChooseBestPromotion(p) = [plan |-> p, code |-> d.code, price |-> price[d]]
    BY <1>4 DEF ChooseBestPromotion
  <2> HIDE DEF d, price, some, best
  <2> QED
    BY <2>7, <2>8 DEF some
<1> QED
  BY <1>3, <1>4

LEMMA PromotionsStart == PromotionsInit => PromotionsInv
  BY DEF PromotionsInit, PromotionsInv, RatioStaysBelowCeiling

LEMMA PromotionsStep == PromotionsInv /\ [PromotionsNext]_promotionVars => PromotionsInv'
<1> SUFFICES ASSUME PromotionsInv, [PromotionsNext]_promotionVars PROVE PromotionsInv'
  OBVIOUS
<1>1. CASE SavePromotion
  <2>1. PICK d \in Drafts : /\ live' = live \union {d}
                            /\ overridden' = IF Approvable(d) THEN overridden
                                             ELSE overridden \union {d.code}
    BY <1>1 DEF SavePromotion
  <2>2. sold' = sold /\ overridden \subseteq overridden'
    BY <1>1, <2>1 DEF SavePromotion
  <2>3. RatioStaysBelowCeiling'
    BY <2>2 DEF PromotionsInv, RatioStaysBelowCeiling
  <2> QED
    BY <2>1, <2>2, <2>3 DEF PromotionsInv
<1>2. CASE SellAccount
  <2>1. PICK p \in PlanKeys : sold' = ChooseBestPromotion(p)
    BY <1>2 DEF SellAccount
  <2>2. UNCHANGED <<live, overridden>>
    BY <1>2 DEF SellAccount
  <2> DEFINE list == Plans[p].listPrice
  <2>3. list \in Nat /\ list >= 349
    BY PlanTermsAre
  <2>4. sold'.plan = p
    BY <2>1, BestIsInForce DEF PromotionsInv
  <2>5. CASE sold'.code = 0 /\ sold'.price = list
    <3>1. ~ ExceedsCeiling(p, list)
      <4>1. Plans[p].lifetimeCash \in Nat /\ Plans[p].lifetimeCash <= RatioCeiling * list
        BY PlanTermsAre, PromotionsAssumption
      <4> DEFINE cash == Plans[p].lifetimeCash
                 most == RatioCeiling * list
      <4>2. most \in Nat
        BY <2>3, PromotionsAssumption
      <4> HIDE DEF list
      <4>3. ExceedsCeiling(p, list) <=> list > 0 /\ cash > most
        BY DEF ExceedsCeiling
      <4> HIDE DEF cash, most
      <4> QED
        BY <4>1, <4>2, <4>3 DEF cash, most
    <3>2. sold'.price \in 1 .. list
      BY <2>3, <2>5
    <3> QED
      BY <2>2, <2>4, <2>5, <3>1, <3>2 DEF PromotionsInv, RatioStaysBelowCeiling
  <2>6. CASE \E d \in InForce(p) : /\ sold'.code = d.code
                                   /\ sold'.price = DiscountedPrice(d, list)
    <3>1. PICK d \in InForce(p) : /\ sold'.code = d.code
                                  /\ sold'.price = DiscountedPrice(d, list)
      BY <2>6
    <3>2. d \in live /\ d \in Drafts /\ p \in TiersOf(d) /\ d.kind \notin ResetKinds
      BY DEF InForce, PromotionsInv
    <3>3. CASE d.code \in overridden
      BY <2>2, <3>1, <3>3 DEF PromotionsInv, RatioStaysBelowCeiling
    <3>4. CASE Approvable(d)
      <4>1. /\ ~ ExceedsCeiling(p, sold'.price)
            /\ sold'.price > 0
            /\ d.kind # "TIER_UPGRADE"
        BY <3>1, <3>2, <3>4 DEF Approvable, ResetKinds, GatedKinds
      <4>2. sold'.price \in Nat /\ sold'.price <= list
        BY <2>3, <3>1, <3>2, <4>1, DiscountedPriceIs
      <4>3. sold'.price \in 1 .. list
        BY <2>3, <4>1, <4>2
      <4> QED
        BY <2>2, <2>4, <4>1, <4>3 DEF PromotionsInv, RatioStaysBelowCeiling
    <3> QED
      BY <3>2, <3>3, <3>4 DEF PromotionsInv
  <2> QED
    BY <2>1, <2>5, <2>6, BestIsInForce DEF PromotionsInv
<1>3. CASE DayPasses
  BY <1>3 DEF DayPasses, PromotionsInv, RatioStaysBelowCeiling
<1>4. CASE UNCHANGED promotionVars
  BY <1>4 DEF promotionVars, PromotionsInv, RatioStaysBelowCeiling
<1> QED
  BY <1>1, <1>2, <1>3, <1>4 DEF PromotionsNext

-----------------------------------------------------------------------------
(* What an owner is told a sale may bring. *)

LEMMA DivisionOfInt ==
    ASSUME NEW n \in Int, NEW d \in Nat \ {0}
    PROVE  /\ n \div d \in Int /\ n % d \in 0 .. d - 1 /\ n = d * (n \div d) + (n % d)
           /\ n >= 0 => n \div d \in Nat
  OBVIOUS

\* A quotient is the only number whose multiple lies so close.
LEMMA QuotientIs ==
    ASSUME NEW n \in Int, NEW d \in Nat \ {0}, NEW q \in Int,
           d * q <= n, n < d * q + d
    PROVE  n \div d = q
<1>1. PICK p \in Int, r \in 0 .. d - 1 : p = n \div d /\ n = d * p + r
  BY DivisionOfInt
<1>2. d * p \in Int /\ d * q \in Int
  BY <1>1
<1>3. ~ (p + 1 <= q)
  <2>1. SUFFICES ASSUME p + 1 <= q PROVE FALSE
    OBVIOUS
  <2>2. d * (p + 1) <= d * q
    BY <1>1, <2>1, TimesGrows
  <2>3. d * (p + 1) = d * p + d
    BY <1>1
  <2> QED
    BY <1>1, <1>2, <2>2, <2>3
<1>4. ~ (q + 1 <= p)
  <2>1. SUFFICES ASSUME q + 1 <= p PROVE FALSE
    OBVIOUS
  <2>2. d * (q + 1) <= d * p
    BY <1>1, <2>1, TimesGrows
  <2>3. d * (q + 1) = d * q + d
    OBVIOUS
  <2> QED
    BY <1>1, <1>2, <2>2, <2>3
<1> QED
  BY <1>1, <1>3, <1>4

LEMMA HalfUpIs ==
    ASSUME NEW n \in Nat, NEW d \in Nat \ {0}
    PROVE  /\ HalfUp(n, d) \in Nat
           /\ 2 * (d * HalfUp(n, d)) <= 2 * n + d
           /\ 2 * n < 2 * (d * HalfUp(n, d)) + d
<1> DEFINE q == HalfUp(n, d)
<1>1. 2 * n + d \in Nat /\ 2 * d \in Nat \ {0}
  OBVIOUS
<1>2. PICK p \in Nat, r \in 0 .. 2 * d - 1 : p = q /\ 2 * n + d = (2 * d) * p + r
  <2> DEFINE m == 2 * n + d
             e == 2 * d
  <2>1. m \in Nat /\ e \in Nat \ {0} /\ q = m \div e
    BY DEF HalfUp
  <2> HIDE DEF m, e, q
  <2>2. m \div e \in Nat /\ m % e \in 0 .. e - 1 /\ m = e * (m \div e) + (m % e)
    BY <2>1, Division
  <2> QED
    BY <2>1, <2>2 DEF m, e
<1>3. (2 * d) * p = 2 * (d * p) /\ d * p \in Nat
  OBVIOUS
<1> HIDE DEF q
<1>4. 2 * (d * p) <= 2 * n + d /\ 2 * n < 2 * (d * p) + d
  BY <1>2, <1>3
<1> QED
  BY <1>2, <1>4 DEF q

\* Rounding a multiple changes nothing, and keeps to a bound that is one.
LEMMA HalfUpKeeps ==
    ASSUME NEW n \in Nat, NEW d \in Nat \ {0}, NEW m \in Int
    PROVE  /\ n = d * m => HalfUp(n, d) = m
           /\ n <= d * m => HalfUp(n, d) <= m
<1>1. PICK q \in Nat : q = HalfUp(n, d) /\ 2 * (d * q) <= 2 * n + d /\ 2 * n < 2 * (d * q) + d
  BY HalfUpIs
<1>2. d * q \in Int /\ d * m \in Int
  OBVIOUS
<1>3. m + 1 <= q => d * m + d <= d * q
  <2>1. d * (m + 1) = d * m + d
    OBVIOUS
  <2> QED
    BY <2>1, TimesGrows
<1>4. q + 1 <= m => d * q + d <= d * m
  <2>1. d * (q + 1) = d * q + d
    OBVIOUS
  <2> QED
    BY <2>1, TimesGrows
<1> HIDE DEF HalfUp
<1>5. n <= d * m => ~ (m + 1 <= q)
  BY <1>1, <1>2, <1>3
<1>6. n = d * m => ~ (q + 1 <= m)
  BY <1>1, <1>2, <1>4
<1> QED
  BY <1>1, <1>5, <1>6, <1>2

LEMMA NegativeDivided ==
    ASSUME NEW n \in Int, NEW d \in Nat \ {0}
    PROVE  \E p \in Int, r \in 0 .. d - 1 : p = (-n) \div d /\ -n = d * p + r
<1> DEFINE m == -n
<1>1. m \in Int
  OBVIOUS
<1> HIDE DEF m
<1>2. m \div d \in Int /\ m % d \in 0 .. d - 1 /\ m = d * (m \div d) + (m % d)
  BY <1>1, DivisionOfInt
<1> QED
  BY <1>2 DEF m

LEMMA CeilingIs ==
    ASSUME NEW n \in Int, NEW d \in Nat \ {0}
    PROVE  /\ CeilingOf(n, d) \in Int
           /\ d * CeilingOf(n, d) >= n
           /\ d * (CeilingOf(n, d) - 1) < n
<1>1. PICK p \in Int, r \in 0 .. d - 1 : p = (-n) \div d /\ -n = d * p + r
  BY NegativeDivided
<1>2. CeilingOf(n, d) = -p
  BY <1>1 DEF CeilingOf
<1>3. d * (-p) = -(d * p) /\ d * (-p - 1) = -(d * p) - d /\ d * p \in Int
  OBVIOUS
<1> QED
  BY <1>1, <1>2, <1>3

\* A fraction of a fraction: what both sides are multiplied by does not matter.
LEMMA CeilingScales ==
    ASSUME NEW n \in Nat, NEW d \in Nat \ {0}, NEW k \in Nat \ {0}
    PROVE  CeilingOf(n * k, k * d) = CeilingOf(n, d)
<1>0. n \in Int
  OBVIOUS
<1>1. PICK p \in Int, r \in 0 .. d - 1 : p = (-n) \div d /\ -n = d * p + r
  BY <1>0, NegativeDivided
<1>2. -(n * k) = (k * d) * p + k * r
  <2>1. k * (-n) = k * (d * p + r)
    BY <1>1
  <2>2. k * (d * p + r) = k * (d * p) + k * r
    BY <1>1
  <2>3. k * (d * p) = (k * d) * p /\ k * (-n) = -(n * k)
    BY <1>1
  <2> QED
    BY <2>1, <2>2, <2>3
<1>3. k * r \in Nat /\ k * r < k * d
  <2>1. r + 1 <= d
    BY <1>1
  <2>2. k * (r + 1) <= k * d
    BY <1>1, <2>1, TimesGrows
  <2>3. k * (r + 1) = k * r + k /\ k * r \in Nat /\ k * d \in Nat
    BY <1>1
  <2> QED
    BY <2>2, <2>3
<1>4. k * d \in Nat \ {0} /\ -(n * k) \in Int /\ (k * d) * p \in Int
  BY <1>1
<1>5. (-(n * k)) \div (k * d) = p
  BY <1>1, <1>2, <1>3, <1>4, QuotientIs
<1> QED
  BY <1>1, <1>5 DEF CeilingOf

-----------------------------------------------------------------------------

EntryRows ==
    [price : Nat, costs : Nat, acquisition : Nat, bps : 0 .. Whole, payout : Nat,
     overhead : Nat, active : Nat, sales : Nat, reserves : Nat]
ForecastFacts == forecast \in EntryRows

LEMMA ForecastStart == ForecastInit => ForecastFacts
BY ForecastAssumption DEF ForecastInit, NoForecast, ForecastFacts, EntryRows

LEMMA ForecastStep == ForecastFacts /\ [ForecastNext]_forecast => ForecastFacts'
<1>1. ForecastFacts /\ UNCHANGED forecast => ForecastFacts'
  BY DEF ForecastFacts
<1>2. ASSUME Enter PROVE ForecastFacts'
  <2>1. PICK x \in Assumptions : x.bps \in 0 .. Whole /\ forecast' = x
    BY <1>2 DEF Enter
  <2>2. x \in [price : Nat, costs : Nat, acquisition : Nat, bps : Int, payout : Nat,
            overhead : Nat, active : Nat, sales : Nat, reserves : Nat]
    BY ForecastAssumption
  <2>3. x \in EntryRows
    BY <2>1, <2>2 DEF EntryRows
  <2> QED
    BY <2>1, <2>3 DEF ForecastFacts
<1> QED
  BY <1>1, <1>2 DEF ForecastNext

LEMMA SensitivityIs ==
    ASSUME NEW x
    PROVE  LET r == ComputeSensitivity(x)
               cost == HalfUp(x.payout * x.bps, Whole)
               margin == x.price - x.costs
               after == margin - cost - x.acquisition
               available == margin - x.acquisition IN
           /\ r.expectedPayoutCost = cost
           /\ r.afterAcquisition = after
           /\ r.profit = after * x.sales - x.overhead
           /\ r.breakEvenSales = IF after > 0 THEN CeilingOf(x.overhead, after) ELSE None
           /\ r.breakEvenBps = IF available > 0 /\ x.payout > 0
                               THEN (available * Whole) \div x.payout ELSE None
           /\ r.runoff = IF x.overhead > 0 THEN x.reserves \div x.overhead ELSE None
           /\ "loses" \in r.warnings <=> margin - cost <= 0
           /\ "thin" \in r.warnings <=>
                  r.breakEvenBps # None /\ r.breakEvenBps - x.bps < Margin
           /\ "short" \in r.warnings <=> cost * x.active > x.reserves
BY DEF ComputeSensitivity

LEMMA CalculateIs ==
    ASSUME NEW x
    PROVE  LET c == Calculate(x)
               cost == x.payout * x.bps
               margin == (x.price - x.costs) * Whole
               after == margin - cost - x.acquisition * Whole
               available == x.price - x.costs - x.acquisition IN
           /\ c.breakEvenSales = IF after > 0 THEN CeilingOf(x.overhead * Whole, after)
                                 ELSE None
           /\ "loses" \in c.warnings <=> margin - cost <= 0
           /\ "thin" \in c.warnings <=>
                  /\ available > 0 /\ x.payout > 0
                  /\ available * Whole - x.bps * x.payout < Margin * x.payout
           /\ "short" \in c.warnings <=> cost * x.active > x.reserves * Whole
BY DEF Calculate

LEMMA CostIs ==
    ASSUME NEW p \in Nat, NEW b \in 0 .. Whole
    PROVE  /\ p * b \in Nat
           /\ HalfUp(p * b, Whole) \in Nat
           /\ 2 * (Whole * HalfUp(p * b, Whole)) <= 2 * (p * b) + Whole
           /\ 2 * (p * b) < 2 * (Whole * HalfUp(p * b, Whole)) + Whole
<1> DEFINE n == p * b
<1>1. n \in Nat
  OBVIOUS
<1> HIDE DEF n
<1> QED
  BY <1>1, HalfUpIs, ForecastAssumption DEF n

\* What is left after the payouts of the break-even probability is not negative,
\* and one point more takes more than there is.
LEMMA EvenAtIs ==
    ASSUME NEW a \in Nat \ {0}, NEW p \in Nat \ {0}
    PROVE  LET e == (a * Whole) \div p IN
           /\ e \in Nat
           /\ p * e <= a * Whole
           /\ (e + 1) * p > Whole * a
           /\ e <= Whole => HalfUp(p * e, Whole) <= a
<1> DEFINE n == a * Whole
           e == n \div p
<1>1. n \in Nat /\ Whole \in Nat \ {0} /\ n = Whole * a
  BY ForecastAssumption
<1> HIDE DEF n
<1>2. e \in Nat /\ n % p \in 0 .. p - 1 /\ n = p * e + (n % p)
  BY <1>1, Division
<1>3. PICK r \in 0 .. p - 1 : n = p * e + r
  BY <1>2
<1> HIDE DEF e
<1>4. p * e \in Nat /\ (e + 1) * p = p * e + p
  BY <1>2
<1>5. p * e <= n /\ n < (e + 1) * p
  BY <1>3, <1>4, <1>1
<1>6. HalfUp(p * e, Whole) <= a
  BY <1>1, <1>4, <1>5, HalfUpKeeps
<1> QED
  BY <1>1, <1>2, <1>4, <1>5, <1>6 DEF n, e

LEMMA BreakEvenHolds == ForecastFacts => BreakEvenIsTight
<1> SUFFICES ASSUME ForecastFacts PROVE BreakEvenIsTight
  OBVIOUS
<1> DEFINE y == forecast
           r == ComputeSensitivity(y)
<1>1. y \in EntryRows
  BY DEF ForecastFacts
<1>2. PICK cost : cost = HalfUp(y.payout * y.bps, Whole)
  OBVIOUS
<1>3. cost \in Nat
  BY <1>1, <1>2, CostIs DEF EntryRows
<1>4. PICK after : after = y.price - y.costs - cost - y.acquisition
  OBVIOUS
<1>5. after \in Int
  BY <1>1, <1>3, <1>4 DEF EntryRows
<1>6. PICK available : available = y.price - y.costs - y.acquisition
  OBVIOUS
<1>7. available \in Int
  BY <1>1, <1>6 DEF EntryRows
<1>8. /\ r.afterAcquisition = after
      /\ r.breakEvenSales = IF after > 0 THEN CeilingOf(y.overhead, after) ELSE None
      /\ r.breakEvenBps = IF available > 0 /\ y.payout > 0
                          THEN (available * Whole) \div y.payout ELSE None
      /\ r.runoff = IF y.overhead > 0 THEN y.reserves \div y.overhead ELSE None
      /\ "loses" \in r.warnings <=> y.price - y.costs - cost <= 0
  BY <1>2, <1>4, <1>6, SensitivityIs
<1> HIDE DEF r
<1>9. ASSUME r.breakEvenSales # None
      PROVE  /\ r.breakEvenSales * r.afterAcquisition >= y.overhead
             /\ y.overhead > 0 => (r.breakEvenSales - 1) * r.afterAcquisition < y.overhead
             /\ ComputeSensitivity([y EXCEPT !.sales = r.breakEvenSales]).profit >= 0
  <2>1. after \in Nat \ {0} /\ r.breakEvenSales = CeilingOf(y.overhead, after)
    BY <1>5, <1>8, <1>9
  <2>2. y.overhead \in Nat
    BY <1>1 DEF EntryRows
  <2>3. PICK c \in Int : c = r.breakEvenSales /\ after * c >= y.overhead
                         /\ after * (c - 1) < y.overhead
    <3>1. PICK n \in Int : n = y.overhead
      BY <2>2
    <3>2. /\ CeilingOf(n, after) \in Int
          /\ after * CeilingOf(n, after) >= n
          /\ after * (CeilingOf(n, after) - 1) < n
      BY <2>1, CeilingIs
    <3> QED
      BY <2>1, <3>1, <3>2
  <2>4. after * c = c * after /\ after * (c - 1) = (c - 1) * after
    BY <2>1
  <2>5. PICK z : z = [y EXCEPT !.sales = r.breakEvenSales]
    OBVIOUS
  <2>6. z.sales = c /\ z.payout = y.payout /\ z.bps = y.bps /\ z.price = y.price
        /\ z.costs = y.costs /\ z.acquisition = y.acquisition /\ z.overhead = y.overhead
    BY <1>1, <2>3, <2>5 DEF EntryRows
  <2>7. ComputeSensitivity(z).profit = after * c - y.overhead
    <3>1. ComputeSensitivity(z).profit =
             (z.price - z.costs - HalfUp(z.payout * z.bps, Whole) - z.acquisition) * z.sales
             - z.overhead
      BY SensitivityIs
    <3> QED
      BY <1>2, <1>4, <2>6, <3>1
  <2>8. after * c - y.overhead >= 0
    BY <2>1, <2>2, <2>3
  <2> QED
    BY <1>8, <2>2, <2>3, <2>4, <2>5, <2>7, <2>8
<1>10. ASSUME r.breakEvenBps \in 0 .. Whole
       PROVE  /\ ComputeSensitivity([y EXCEPT !.bps = r.breakEvenBps]).afterAcquisition >= 0
              /\ (r.breakEvenBps + 1) * y.payout
                     > Whole * (y.price - y.costs - y.acquisition)
  <2>1. available \in Nat \ {0} /\ y.payout \in Nat \ {0}
        /\ r.breakEvenBps = (available * Whole) \div y.payout
    <3>1. r.breakEvenBps # None
      BY <1>10, ForecastAssumption DEF None
    <3> QED
      BY <1>1, <1>7, <1>8, <3>1 DEF EntryRows
  <2>2. PICK e \in Nat : /\ e = r.breakEvenBps /\ e <= Whole
                         /\ (e + 1) * y.payout > Whole * available
                         /\ HalfUp(y.payout * e, Whole) <= available
    <3>1. LET e == (available * Whole) \div y.payout IN
           /\ e \in Nat
           /\ (e + 1) * y.payout > Whole * available
           /\ e <= Whole => HalfUp(y.payout * e, Whole) <= available
      BY <2>1, EvenAtIs
    <3> QED
      BY <1>10, <2>1, <3>1, ForecastAssumption
  <2>3. PICK z : z = [y EXCEPT !.bps = r.breakEvenBps]
    OBVIOUS
  <2>4. z.bps = e /\ z.payout = y.payout /\ z.price = y.price
        /\ z.costs = y.costs /\ z.acquisition = y.acquisition
    BY <1>1, <2>2, <2>3 DEF EntryRows
  <2>5. ComputeSensitivity(z).afterAcquisition
           = z.price - z.costs - HalfUp(z.payout * z.bps, Whole) - z.acquisition
    BY SensitivityIs
  <2>6. PICK h \in Nat : h = HalfUp(y.payout * e, Whole)
    <3>1. y.payout * e \in Nat /\ Whole \in Nat \ {0}
      BY <2>1, ForecastAssumption
    <3> QED
      BY <3>1, HalfUpIs
  <2>7. ComputeSensitivity(z).afterAcquisition = y.price - y.costs - h - y.acquisition
    BY <2>4, <2>5, <2>6
  <2>8. y.price - y.costs - h - y.acquisition >= 0
    BY <1>1, <1>6, <2>2, <2>6 DEF EntryRows
  <2> QED
    BY <1>6, <2>2, <2>3, <2>7, <2>8
<1>11. r.runoff # None => r.runoff * y.overhead <= y.reserves
  <2>1. SUFFICES ASSUME r.runoff # None PROVE r.runoff * y.overhead <= y.reserves
    OBVIOUS
  <2>2. y.overhead \in Nat \ {0} /\ y.reserves \in Nat /\ r.runoff = y.reserves \div y.overhead
    BY <1>1, <1>8, <2>1 DEF EntryRows
  <2>3. PICK p \in Nat, n \in Nat, d \in Nat \ {0}, m \in Nat :
           p = r.runoff /\ n = y.reserves /\ d = y.overhead /\ n = d * p + m
    <3>1. PICK n \in Nat, d \in Nat \ {0} : n = y.reserves /\ d = y.overhead
      BY <2>2
    <3>2. n \div d \in Nat /\ n % d \in 0 .. d - 1 /\ n = d * (n \div d) + (n % d)
      BY <3>1, Division
    <3> QED
      BY <2>2, <3>1, <3>2
  <2>4. d * p = p * d /\ d * p \in Nat
    OBVIOUS
  <2> QED
    BY <2>3, <2>4
<1>12. "loses" \in r.warnings => r.breakEvenSales = None
  BY <1>1, <1>3, <1>4, <1>8 DEF EntryRows
<1> QED
  BY <1>9, <1>10, <1>11, <1>12 DEF BreakEvenIsTight, r

\* The margin is thin by the one reckoning when it is by the other.
LEMMA ThinAgrees ==
    ASSUME NEW a \in Nat \ {0}, NEW p \in Nat \ {0}, NEW b \in Int
    PROVE  (a * Whole) \div p - b < Margin <=> a * Whole - b * p < Margin * p
<1> DEFINE n == a * Whole
           e == n \div p
<1>1. n \in Nat /\ Margin \in Nat
  BY ForecastAssumption
<1> HIDE DEF n
<1>2. e \in Nat /\ n % p \in 0 .. p - 1 /\ n = p * e + (n % p)
  BY <1>1, Division
<1>3. PICK r \in 0 .. p - 1 : n = p * e + r
  BY <1>2
<1> HIDE DEF e
<1>4. PICK m \in Int : m = Margin + b
  BY <1>1
<1>5. e - b < Margin <=> e + 1 <= m
  BY <1>1, <1>2, <1>4
<1>6. n - b * p < Margin * p <=> n < p * m
  <2>1. p * m = Margin * p + b * p
    BY <1>1, <1>4
  <2>2. Margin * p \in Int /\ b * p \in Int
    BY <1>1
  <2> QED
    BY <1>1, <2>1, <2>2
<1>7. p * e \in Int /\ p * m \in Int
  BY <1>2, <1>4
<1>8. e + 1 <= m => n < p * m
  <2>1. SUFFICES ASSUME e + 1 <= m PROVE n < p * m
    OBVIOUS
  <2>2. p * (e + 1) <= p * m
    BY <1>2, <1>4, <2>1, TimesGrows
  <2>3. p * (e + 1) = p * e + p
    BY <1>2
  <2> QED
    BY <1>3, <1>7, <2>2, <2>3
<1>9. m <= e => ~ (n < p * m)
  <2>1. SUFFICES ASSUME m <= e PROVE ~ (n < p * m)
    OBVIOUS
  <2>2. p * m <= p * e
    BY <1>2, <1>4, <2>1, TimesGrows
  <2> QED
    BY <1>1, <1>3, <1>7, <2>2
<1>10. e + 1 <= m \/ m <= e
  BY <1>2, <1>4
<1> QED
  BY <1>5, <1>6, <1>8, <1>9, <1>10 DEF e, n

LEMMA SignScales ==
    ASSUME NEW k \in Nat \ {0}, NEW n \in Int
    PROVE  /\ k * n \in Int
           /\ k * n > 0 <=> n > 0
           /\ k * n <= 0 <=> n <= 0
  OBVIOUS

LEMMA CalculatorHolds == ForecastFacts => CalculatorAgrees
<1> SUFFICES ASSUME ForecastFacts PROVE CalculatorAgrees
  OBVIOUS
<1> DEFINE y == forecast
           r == ComputeSensitivity(y)
           c == Calculate(y)
<1>1. y \in EntryRows
  BY DEF ForecastFacts
<1>2. PICK price \in Nat, costs \in Nat, acquisition \in Nat, bps \in 0 .. Whole,
           payout \in Nat, overhead \in Nat, active \in Nat, reserves \in Nat :
         /\ price = y.price /\ costs = y.costs /\ acquisition = y.acquisition
         /\ bps = y.bps /\ payout = y.payout /\ overhead = y.overhead
         /\ active = y.active /\ reserves = y.reserves
  BY <1>1 DEF EntryRows
<1>3. PICK n \in Nat, cost \in Nat :
         /\ n = payout * bps /\ cost = HalfUp(payout * bps, Whole)
         /\ 2 * (Whole * cost) <= 2 * n + Whole /\ 2 * n < 2 * (Whole * cost) + Whole
  BY CostIs
<1>4. PICK margin \in Int, after \in Int, available \in Int :
         /\ margin = price - costs /\ after = price - costs - cost - acquisition
         /\ available = price - costs - acquisition
  OBVIOUS
<1>5. /\ r.expectedPayoutCost = cost
      /\ r.breakEvenSales = IF after > 0 THEN CeilingOf(overhead, after) ELSE None
      /\ r.breakEvenBps = IF available > 0 /\ payout > 0
                          THEN (available * Whole) \div payout ELSE None
      /\ "loses" \in r.warnings <=> margin - cost <= 0
      /\ "thin" \in r.warnings <=>
             r.breakEvenBps # None /\ r.breakEvenBps - bps < Margin
      /\ "short" \in r.warnings <=> cost * active > reserves
  BY <1>2, <1>3, <1>4, SensitivityIs
<1>6. LET left == margin * Whole - n - acquisition * Whole IN
      /\ c.breakEvenSales = IF left > 0 THEN CeilingOf(overhead * Whole, left) ELSE None
      /\ "loses" \in c.warnings <=> margin * Whole - n <= 0
      /\ "thin" \in c.warnings <=>
             /\ available > 0 /\ payout > 0
             /\ available * Whole - bps * payout < Margin * payout
      /\ "short" \in c.warnings <=> n * active > reserves * Whole
  BY <1>2, <1>3, <1>4, CalculateIs
<1> HIDE DEF r, c
<1>7. Whole \in Nat \ {0}
  BY ForecastAssumption
<1>8. ASSUME n % Whole = 0
      PROVE  /\ c.breakEvenSales = r.breakEvenSales
             /\ "loses" \in c.warnings <=> "loses" \in r.warnings
             /\ "short" \in c.warnings <=> "short" \in r.warnings
  <2>1. n = Whole * cost
    <3>1. n \div Whole \in Nat /\ n = Whole * (n \div Whole) + (n % Whole)
      BY <1>7, Division
    <3>2. PICK k \in Nat : n = Whole * k
      BY <1>7, <1>8, <3>1
    <3>3. HalfUp(n, Whole) = k
      BY <1>7, <3>2, HalfUpKeeps
    <3> QED
      BY <1>3, <3>2, <3>3
  <2>2. margin * Whole - n = Whole * (margin - cost)
    <3>1. Whole * (margin - cost) = margin * Whole - Whole * cost
      BY <1>7
    <3> QED
      BY <2>1, <3>1
  <2>3. margin * Whole - n - acquisition * Whole = Whole * after
    <3>1. after = margin - cost - acquisition
      BY <1>4
    <3>2. Whole * (margin - cost - acquisition)
             = margin * Whole - Whole * cost - acquisition * Whole
      BY <1>7
    <3> QED
      BY <2>1, <3>1, <3>2
  <2>4. Whole * after > 0 <=> after > 0
    BY <1>7, SignScales
  <2>5. after > 0 => CeilingOf(overhead * Whole, Whole * after) = CeilingOf(overhead, after)
    BY <1>7, CeilingScales
  <2>6. c.breakEvenSales = r.breakEvenSales
    BY <1>5, <1>6, <2>3, <2>4, <2>5
  <2>7. "loses" \in c.warnings <=> "loses" \in r.warnings
    <3>1. margin - cost \in Int
      OBVIOUS
    <3>2. Whole * (margin - cost) <= 0 <=> margin - cost <= 0
      BY <1>7, <3>1, SignScales
    <3> QED
      BY <1>5, <1>6, <2>2, <3>2
  <2>8. "short" \in c.warnings <=> "short" \in r.warnings
    <3>1. n * active - reserves * Whole = Whole * (cost * active - reserves)
      <4>1. (Whole * cost) * active = Whole * (cost * active)
        BY <1>7
      <4>2. Whole * (cost * active - reserves) = Whole * (cost * active) - reserves * Whole
        BY <1>7
      <4> QED
        BY <2>1, <4>1, <4>2
    <3>2. cost * active - reserves \in Int /\ n * active \in Int /\ reserves * Whole \in Int
          /\ cost * active \in Int
      BY <1>7
    <3>3. Whole * (cost * active - reserves) > 0 <=> cost * active - reserves > 0
      BY <1>7, <3>2, SignScales
    <3>4. n * active > reserves * Whole <=> cost * active > reserves
      BY <3>1, <3>2, <3>3
    <3> QED
      BY <1>5, <1>6, <3>4
  <2> QED
    BY <2>6, <2>7, <2>8
<1>9. "thin" \in c.warnings <=> "thin" \in r.warnings
  <2>1. CASE available > 0 /\ payout > 0
    <3>1. available \in Nat \ {0} /\ payout \in Nat \ {0} /\ bps \in Int
      BY <1>7, <2>1
    <3>2. (available * Whole) \div payout - bps < Margin
             <=> available * Whole - bps * payout < Margin * payout
      BY <3>1, ThinAgrees
    <3>3. (available * Whole) \div payout # None
      <4>1. LET e == (available * Whole) \div payout IN e \in Nat
        BY <3>1, EvenAtIs
      <4> QED
        BY <4>1 DEF None
    <3> QED
      BY <1>5, <1>6, <2>1, <3>2, <3>3
  <2>2. CASE ~ (available > 0 /\ payout > 0)
    BY <1>5, <1>6, <2>2
  <2> QED
    BY <2>1, <2>2
<1>10. 2 * (cost * Whole - n) \in -Whole .. Whole
  <2>1. cost * Whole = Whole * cost /\ Whole * cost \in Int
    BY <1>7
  <2> QED
    BY <1>3, <1>7, <2>1
<1>11. y.payout * y.bps = n
  BY <1>2, <1>3
<1>12. (y.payout * y.bps) % Whole = 0 =>
        /\ c.breakEvenSales = r.breakEvenSales
        /\ {"loses", "short"} \cap c.warnings = {"loses", "short"} \cap r.warnings
  BY <1>8, <1>11
<1>13. 2 * (r.expectedPayoutCost * Whole - y.payout * y.bps) \in -Whole .. Whole
  BY <1>5, <1>10, <1>11
<1> QED
  BY <1>9, <1>12, <1>13 DEF CalculatorAgrees, r, c

\* A cohort that takes the whole cap pays out a cap for each payer.
LEMMA ScenarioIs ==
    ASSUME NEW p \in Nat, NEW k \in Nat, NEW s \in Nat, NEW b \in 0 .. Whole
    PROVE  LET m == HalfUp(s * b, Whole)
               t == RunScenario(p, k, s, b, Whole)
               h == RunScenario(p, k, s, b, Whole \div 2) IN
           /\ m \in Nat /\ m <= s /\ (b = Whole => m = s)
           /\ t.payers = m /\ t.out = k * m /\ t.net = p * s - k * m
           /\ h.net >= t.net
<1>1. Whole \in Nat \ {0} /\ b \in Nat /\ b <= Whole
  BY ForecastAssumption
<1>2. PICK m \in Nat : m = HalfUp(s * b, Whole)
  BY CostIs
<1>3. m <= s /\ (b = Whole => m = s)
  <2>1. s * b \in Nat /\ s * b <= s * Whole /\ s * Whole = Whole * s
    BY <1>1, TimesGrows
  <2>2. b = Whole => s * b = Whole * s
    BY <1>1
  <2> QED
    BY <1>1, <1>2, <2>1, <2>2, HalfUpKeeps
<1>4. (k * Whole) \div Whole = k
  <2>1. Whole * k <= k * Whole /\ k * Whole < Whole * k + Whole /\ k * Whole \in Int
    BY <1>1
  <2> QED
    BY <1>1, <2>1, QuotientIs
<1>5. PICK u \in Nat : u = (k * (Whole \div 2)) \div Whole /\ u <= k
  <2>1. PICK w \in Nat : w = Whole \div 2 /\ w <= Whole
    BY <1>1
  <2>2. k * w \in Nat /\ k * w <= k * Whole /\ k * Whole = Whole * k
    BY <1>1, <2>1, TimesGrows
  <2>3. PICK n \in Nat : n = k * w
    BY <2>2
  <2>4. n \div Whole \in Nat /\ n % Whole \in 0 .. Whole - 1
        /\ n = Whole * (n \div Whole) + (n % Whole)
    BY <1>1, <2>3, Division
  <2>5. PICK q \in Nat, x \in 0 .. Whole - 1 : q = n \div Whole /\ n = Whole * q + x
    BY <2>4
  <2>6. q <= k
    <3>1. SUFFICES ASSUME k + 1 <= q PROVE FALSE
      BY <2>5
    <3>2. Whole * (k + 1) <= Whole * q
      BY <1>1, <3>1, TimesGrows
    <3>3. Whole * (k + 1) = Whole * k + Whole /\ Whole * k \in Nat /\ Whole * q \in Nat
      BY <1>1
    <3> QED
      BY <1>1, <2>2, <2>3, <2>5, <3>2, <3>3
  <2> QED
    BY <2>1, <2>3, <2>5, <2>6
<1>6. m * u <= m * k /\ m * u = u * m /\ m * k = k * m
  BY <1>5, TimesGrows
<1>7. p * s \in Int /\ u * m \in Int /\ k * m \in Int
  OBVIOUS
<1>8. /\ RunScenario(p, k, s, b, Whole).payers = m
      /\ RunScenario(p, k, s, b, Whole).out = k * m
      /\ RunScenario(p, k, s, b, Whole).net = p * s - k * m
  BY <1>2, <1>4 DEF RunScenario
<1>9. RunScenario(p, k, s, b, Whole \div 2).net = p * s - u * m
  BY <1>2, <1>5 DEF RunScenario
<1>10. p * s - u * m >= p * s - k * m
  BY <1>6, <1>7
<1> QED
  BY <1>2, <1>3, <1>8, <1>9, <1>10

LEMMA ScenariosHold == ForecastFacts => ScenariosAreBounded
<1> SUFFICES ASSUME ForecastFacts PROVE ScenariosAreBounded
  OBVIOUS
<1>1. PICK p \in Nat, k \in Nat, s \in Nat, b \in 0 .. Whole :
         p = forecast.price /\ k = forecast.payout /\ s = forecast.sales /\ b = forecast.bps
  BY DEF ForecastFacts, EntryRows
<1>2. PICK t : t = RunScenario(p, k, s, b, Whole)
  OBVIOUS
<1>3. PICK h : h = RunScenario(p, k, s, b, Whole \div 2)
  OBVIOUS
<1>4. PICK m \in Nat : /\ m <= s /\ (b = Whole => m = s)
                       /\ t.payers = m /\ t.out = k * m /\ t.net = p * s - k * m
                       /\ h.net >= t.net
  <2>1. LET m == HalfUp(s * b, Whole)
            u == RunScenario(p, k, s, b, Whole)
            v == RunScenario(p, k, s, b, Whole \div 2) IN
        /\ m \in Nat /\ m <= s /\ (b = Whole => m = s)
        /\ u.payers = m /\ u.out = k * m /\ u.net = p * s - k * m
        /\ v.net >= u.net
    BY ScenarioIs
  <2> HIDE DEF HalfUp, RunScenario
  <2> QED
    BY <1>2, <1>3, <2>1
<1>5. /\ ClusterWorstCase(p, k, s).out = k * s
      /\ ClusterWorstCase(p, k, s).net = p * s - k * s
  BY DEF ClusterWorstCase
<1>6. k * m <= k * s /\ k * m \in Int /\ k * s \in Int /\ p * s \in Int
  BY <1>4, TimesGrows
<1>7. /\ t.payers <= s /\ t.out <= k * s /\ t.net >= p * s - k * s
      /\ b = Whole => t.net = p * s - k * s
      /\ h.net >= t.net
  BY <1>4, <1>6
<1> QED
  BY <1>1, <1>2, <1>3, <1>5, <1>7 DEF ScenariosAreBounded

-----------------------------------------------------------------------------
(* What the owner and the traders are shown. *)

\* The rows of an account, and what the pages rely on.
BookRows ==
    [standing : {"ACTIVE", "DAILY_PAUSED", "BREACHED", "CLOSED"},
     equity : Int, high : Int, threshold : Int, start : Int, withdrawn : Int,
     stage : {"none", "reserved", "deducted", "paid"},
     consumed : Nat, paid : Nat, asked : Nat, resets : Nat]

BookIsSound(a, b) ==
    /\ b \in BookRows
    /\ b.paid = b.consumed + (IF b.stage = "paid" THEN CashUnit ELSE 0)
    /\ b.stage # "none" \/ b.paid > 0 => b.asked > 0
    /\ b.standing = "CLOSED" =>
           PolicyOf[a].kind = "APPROVED_AMOUNT" /\ b.consumed >= PolicyOf[a].cap

BooksAreSound ==
    /\ books = [a \in Booked |-> books[a]]
    /\ \A a \in Booked : BookIsSound(a, books[a])

\* What has been paid, asked for and bought is never less again.
BookGrows(b, c) ==
    /\ c.paid >= b.paid /\ c.consumed >= b.consumed
    /\ c.asked >= b.asked /\ c.resets >= b.resets

BooksGrow == \A a \in Booked : BookGrows(books[a], books'[a])

LEMMA PolicyIs ==
    ASSUME NEW a \in Booked
    PROVE  PolicyOf[a].cap \in Nat /\ PricePaid[a] \in Nat
BY OverviewAssumption

LEMMA ThresholdIsInt ==
    /\ \A h \in Int : ComputeThreshold(h) \in Int
    /\ \A t, h, e \in Int : NextHighWater(h, e) \in Int /\ NextThreshold(t, h, e) \in Int
<1>1. \A h \in Int : ComputeThreshold(h) \in Int
  BY RiskAssumption DEF ComputeThreshold
<1>2. \A h, e \in Int : NextHighWater(h, e) \in Int
  BY DEF NextHighWater, Larger
<1>3. \A t, h, e \in Int : NextThreshold(t, h, e) \in Int
  BY <1>1, <1>2 DEF NextThreshold, Larger
<1> QED
  BY <1>1, <1>2, <1>3

LEMMA FreshIsSound ==
    /\ FreshBook \in BookRows
    /\ FreshBook.paid = 0 /\ FreshBook.consumed = 0 /\ FreshBook.stage = "none"
    /\ FreshBook.asked = 0 /\ FreshBook.standing = "ACTIVE" /\ FreshBook.resets = 0
<1>1. StartBalance \in Int /\ ComputeThreshold(StartBalance) \in Int
  BY RulesAssumption, ThresholdIsInt
<1> QED
  BY <1>1 DEF FreshBook, BookRows

\* An account changes to a sound one that has not lost what it counts.
LEMMA ChangeKeeps ==
    ASSUME NEW a \in Booked, NEW b, Change(a, b), BooksAreSound,
           BookIsSound(a, b), BookGrows(books[a], b)
    PROVE  BooksAreSound' /\ BooksGrow /\ page' = page
<1>1. books' = [books EXCEPT ![a] = b] /\ page' = page
  BY DEF Change
<1>2. books' = [x \in Booked |-> IF x = a THEN b ELSE books[x]]
  BY <1>1 DEF BooksAreSound
<1>3. \A x \in Booked : books'[x] = IF x = a THEN b ELSE books[x]
  BY <1>2
<1>4. \A x \in Booked : BookIsSound(x, books'[x])
  BY <1>3 DEF BooksAreSound
<1>5. \A x \in Booked : books[x].paid \in Nat /\ books[x].consumed \in Nat
                        /\ books[x].asked \in Nat /\ books[x].resets \in Nat
  BY DEF BooksAreSound, BookIsSound, BookRows
<1>6. \A x \in Booked : BookGrows(books[x], books'[x])
  BY <1>3, <1>5 DEF BookGrows
<1>7. books' = [x \in Booked |-> books'[x]]
  BY <1>2
<1> QED
  BY <1>1, <1>4, <1>6, <1>7 DEF BooksAreSound, BooksGrow

LEMMA ObserveKeeps ==
    ASSUME NEW a \in Booked, Observe(a), BooksAreSound
    PROVE  BooksAreSound' /\ BooksGrow /\ page' = page
<1>1. PICK b \in BookRows : b = books[a] /\ BookIsSound(a, b)
  BY DEF BooksAreSound, BookIsSound
<1>2. PICK d \in Moves :
        LET equity == b.equity + d
            high == NextHighWater(b.high, equity)
            threshold == NextThreshold(b.threshold, b.high, equity) IN
        Change(a, [b EXCEPT
            !.equity = equity, !.high = high, !.threshold = threshold,
            !.standing =
                IF IsTrailingBreached(threshold, equity) THEN "BREACHED"
                ELSE IF IsDailyLossBreached(b.start, b.withdrawn, equity)
                     THEN "DAILY_PAUSED" ELSE b.standing])
  BY <1>1 DEF Observe
<1>3. b.standing \in LiveStatuses
  BY <1>1 DEF Observe
<1>4. PICK equity \in Int : equity = b.equity + d
  <2>1. d \in Int /\ b.equity \in Int
    BY <1>1, OverviewAssumption DEF BookRows
  <2> QED
    BY <2>1
<1>5. PICK high \in Int, threshold \in Int :
        high = NextHighWater(b.high, equity)
        /\ threshold = NextThreshold(b.threshold, b.high, equity)
  <2>1. b.high \in Int /\ b.threshold \in Int
    BY <1>1 DEF BookRows
  <2> QED
    BY <2>1, ThresholdIsInt
<1>6. PICK standing \in {"ACTIVE", "DAILY_PAUSED", "BREACHED"} :
        standing = IF IsTrailingBreached(threshold, equity) THEN "BREACHED"
                   ELSE IF IsDailyLossBreached(b.start, b.withdrawn, equity)
                        THEN "DAILY_PAUSED" ELSE b.standing
  BY <1>3 DEF LiveStatuses
<1>7. PICK c : c = [b EXCEPT !.equity = equity, !.high = high, !.threshold = threshold,
                            !.standing = standing]
  OBVIOUS
<1>8. Change(a, c)
  BY <1>2, <1>4, <1>5, <1>6, <1>7
<1>9. c \in BookRows /\ c.paid = b.paid /\ c.consumed = b.consumed /\ c.stage = b.stage
      /\ c.asked = b.asked /\ c.resets = b.resets /\ c.standing # "CLOSED"
  BY <1>1, <1>6, <1>7 DEF BookRows
<1>10. BookIsSound(a, c)
  BY <1>1, <1>9 DEF BookIsSound
<1>11. BookGrows(b, c)
  BY <1>1, <1>9 DEF BookGrows, BookRows
<1> QED
  BY <1>1, <1>8, <1>10, <1>11, ChangeKeeps

LEMMA PayoutKeeps ==
    ASSUME NEW a \in Booked, BooksAreSound,
           AskPayout(a) \/ Decline(a) \/ Deduct(a) \/ MarkPaid(a)
    PROVE  BooksAreSound' /\ BooksGrow /\ page' = page
<1>1. PICK b \in BookRows : b = books[a] /\ BookIsSound(a, b)
  BY DEF BooksAreSound, BookIsSound
<1>2. CashUnit \in Nat \ {0}
  BY OverviewAssumption
<1>3. CASE AskPayout(a)
  <2>0. PICK n \in Nat : n = b.asked + 1
    BY <1>1 DEF BookRows
  <2>1. PICK c : c = [b EXCEPT !.stage = "reserved", !.asked = n]
    OBVIOUS
  <2>2. Change(a, c) /\ b.stage = "none"
    BY <1>1, <1>3, <2>0, <2>1 DEF AskPayout
  <2>3. c \in BookRows /\ c.paid = b.paid /\ c.consumed = b.consumed /\ c.stage = "reserved"
        /\ c.asked = b.asked + 1 /\ c.resets = b.resets /\ c.standing = b.standing
    BY <1>1, <2>0, <2>1 DEF BookRows
  <2>4. BookIsSound(a, c) /\ BookGrows(b, c)
    BY <1>1, <2>2, <2>3 DEF BookIsSound, BookGrows, BookRows
  <2> QED
    BY <1>1, <2>2, <2>4, ChangeKeeps
<1>4. CASE Decline(a)
  <2>1. PICK c : c = [b EXCEPT !.stage = "none"]
    OBVIOUS
  <2>2. Change(a, c) /\ b.stage = "reserved"
    BY <1>1, <1>4, <2>1 DEF Decline
  <2>3. c \in BookRows /\ c.paid = b.paid /\ c.consumed = b.consumed /\ c.stage = "none"
        /\ c.asked = b.asked /\ c.resets = b.resets /\ c.standing = b.standing
    BY <1>1, <2>1 DEF BookRows
  <2>4. BookIsSound(a, c) /\ BookGrows(b, c)
    BY <1>1, <2>2, <2>3 DEF BookIsSound, BookGrows, BookRows
  <2> QED
    BY <1>1, <2>2, <2>4, ChangeKeeps
<1>5. CASE Deduct(a)
  <2>0. PICK e \in Int, w \in Int : e = b.equity - 2 * CashUnit
                                  /\ w = b.withdrawn + 2 * CashUnit
    BY <1>1, <1>2 DEF BookRows
  <2>1. PICK c : c = [b EXCEPT !.stage = "deducted", !.equity = e, !.withdrawn = w]
    OBVIOUS
  <2>2. Change(a, c) /\ b.stage = "reserved"
    BY <1>1, <1>5, <2>0, <2>1 DEF Deduct
  <2>3. c \in BookRows /\ c.paid = b.paid /\ c.consumed = b.consumed /\ c.stage = "deducted"
        /\ c.asked = b.asked /\ c.resets = b.resets /\ c.standing = b.standing
    BY <1>1, <2>0, <2>1 DEF BookRows
  <2>4. BookIsSound(a, c) /\ BookGrows(b, c)
    BY <1>1, <2>2, <2>3 DEF BookIsSound, BookGrows, BookRows
  <2> QED
    BY <1>1, <2>2, <2>4, ChangeKeeps
<1>6. CASE MarkPaid(a)
  <2>0. PICK n \in Nat : n = b.paid + CashUnit
    BY <1>1, <1>2 DEF BookRows
  <2>1. PICK c : c = [b EXCEPT !.stage = "paid", !.paid = n]
    OBVIOUS
  <2>2. Change(a, c) /\ b.stage = "deducted"
    BY <1>1, <1>6, <2>0, <2>1 DEF MarkPaid
  <2>3. c \in BookRows /\ c.paid = b.paid + CashUnit /\ c.consumed = b.consumed
        /\ c.stage = "paid"
        /\ c.asked = b.asked /\ c.resets = b.resets /\ c.standing = b.standing
    BY <1>1, <2>0, <2>1 DEF BookRows
  <2>4. BookIsSound(a, c) /\ BookGrows(b, c)
    BY <1>1, <1>2, <2>2, <2>3 DEF BookIsSound, BookGrows, BookRows
  <2> QED
    BY <1>1, <2>2, <2>4, ChangeKeeps
<1> QED
  BY <1>3, <1>4, <1>5, <1>6

LEMMA ConsumeKeeps ==
    ASSUME NEW a \in Booked, BooksAreSound, ConsumeCash(a)
    PROVE  BooksAreSound' /\ BooksGrow /\ page' = page
<1>1. PICK b \in BookRows : b = books[a] /\ BookIsSound(a, b)
  BY DEF BooksAreSound, BookIsSound
<1>2. CashUnit \in Nat \ {0}
  BY OverviewAssumption
<1>0. PICK n \in Nat : n = b.consumed + CashUnit
  BY <1>1, <1>2 DEF BookRows
<1>3. PICK c : c = [b EXCEPT !.stage = "none", !.consumed = n]
  OBVIOUS
<1>4. b.stage = "paid" /\
      Change(a, IF /\ CheckLifetimeCapReached(LifetimeCapMinorFor(a), 0, c.consumed)
                   /\ c.standing # "BREACHED"
                THEN [c EXCEPT !.standing = "CLOSED"] ELSE c)
  BY <1>0, <1>1, <1>3 DEF ConsumeCash
<1>5. c \in BookRows /\ c.paid = b.paid /\ c.consumed = b.consumed + CashUnit
      /\ c.stage = "none"
      /\ c.asked = b.asked /\ c.resets = b.resets /\ c.standing = b.standing
  BY <1>0, <1>1, <1>3 DEF BookRows
<1>6. BookIsSound(a, c) /\ BookGrows(b, c)
  <2>1. PolicyOf[a].cap \in Nat
    BY PolicyIs
  <2> QED
    BY <1>1, <1>2, <1>4, <1>5, <2>1 DEF BookIsSound, BookGrows, BookRows
<1>7. CASE CheckLifetimeCapReached(LifetimeCapMinorFor(a), 0, c.consumed)
           /\ c.standing # "BREACHED"
  <2>1. PICK e : e = [c EXCEPT !.standing = "CLOSED"]
    OBVIOUS
  <2>2. e \in BookRows /\ e.paid = c.paid /\ e.consumed = c.consumed /\ e.stage = c.stage
        /\ e.asked = c.asked /\ e.resets = c.resets
    BY <1>5, <2>1 DEF BookRows
  <2>3. PolicyOf[a].kind = "APPROVED_AMOUNT" /\ c.consumed >= PolicyOf[a].cap
    BY <1>5, <1>7, PolicyIs DEF CheckLifetimeCapReached, LifetimeCapMinorFor, Null, BookRows
  <2>4. BookIsSound(a, e) /\ BookGrows(b, e)
    BY <1>6, <2>2, <2>3 DEF BookIsSound, BookGrows
  <2> QED
    BY <1>1, <1>4, <1>7, <2>1, <2>4, ChangeKeeps
<1>8. CASE ~ (CheckLifetimeCapReached(LifetimeCapMinorFor(a), 0, c.consumed)
              /\ c.standing # "BREACHED")
  BY <1>1, <1>4, <1>6, <1>8, ChangeKeeps
<1> QED
  BY <1>7, <1>8

LEMMA ResetKeeps ==
    ASSUME NEW a \in Booked, BooksAreSound, BuyReset(a)
    PROVE  BooksAreSound' /\ BooksGrow /\ page' = page
<1>1. PICK b \in BookRows : b = books[a] /\ BookIsSound(a, b)
  BY DEF BooksAreSound, BookIsSound
<1>0. PICK n \in Nat : n = b.resets + 1
  BY <1>1 DEF BookRows
<1>2. PICK c : c = [FreshBook EXCEPT !.consumed = b.consumed, !.paid = b.paid,
                         !.asked = b.asked, !.resets = n]
  OBVIOUS
<1>3. Change(a, c) /\ b.stage = "none"
  BY <1>0, <1>1, <1>2 DEF BuyReset
<1>4. c \in BookRows /\ c.paid = b.paid /\ c.consumed = b.consumed /\ c.stage = "none"
      /\ c.asked = b.asked /\ c.resets = b.resets + 1 /\ c.standing = "ACTIVE"
  BY <1>0, <1>1, <1>2, FreshIsSound DEF BookRows
<1>5. BookIsSound(a, c) /\ BookGrows(b, c)
  BY <1>1, <1>3, <1>4 DEF BookIsSound, BookGrows, BookRows
<1> QED
  BY <1>1, <1>3, <1>5, ChangeKeeps

\* How far a page has been read, and how the rows it holds compare with those of
\* now.
AccountsRead == "accounts" \in DOMAIN page /\ \A a \in Booked : page.accounts[a] \in BookRows
ReservedRead ==
    /\ {"reserved", "consumed"} \subseteq DOMAIN page
    /\ \A a \in Booked : page.reserved[a] \in Nat /\ page.consumed[a] \in Nat
PaidRead ==
    /\ "paid" \in DOMAIN page
    /\ \A a \in Booked : page.paid[a] \in Nat /\ page.consumed[a] <= page.paid[a]
RequestedRead ==
    /\ "requested" \in DOMAIN page
    /\ \A a \in Booked : page.paid[a] > 0 => a \in page.requested

OverviewPage ==
    /\ page.at \in {"reservations", "paid", "requested", "resets", "done"}
    /\ AccountsRead
    /\ page.at # "reservations" => ReservedRead
    /\ page.at = "paid" => \A a \in Booked : page.consumed[a] <= books[a].paid
    /\ page.at \in {"requested", "resets", "done"} => PaidRead
    /\ page.at = "requested" => \A a \in Booked : page.paid[a] > 0 => books[a].asked > 0
    /\ page.at \in {"resets", "done"} => RequestedRead

DetailPage ==
    /\ page.at \in {"rows", "done"}
    /\ {"account", "row"} \subseteq DOMAIN page /\ page.account \in Booked
    /\ page.row.paid \in Int /\ page.row.cashPaid \in Int
    /\ page.at = "rows" =>
           /\ page.row.paid <= PricePaid[page.account] + ResetFee * books[page.account].resets
           /\ page.row.cashPaid <= books[page.account].paid
    /\ page.at = "done" => DetailNeverFlatters

DashboardPage ==
    /\ page.at \in {"view", "done"}
    /\ {"account", "row"} \subseteq DOMAIN page
    /\ page.account \in Booked /\ page.row \in BookRows
    /\ page.at = "done" =>
           /\ page.progress = FirstWithdrawal(page.row.equity)
           /\ page.eligible /\ ~page.moved => Capacity(page.account, page.row) >= MinGross

PageIsSound ==
    /\ {"of", "at"} \subseteq DOMAIN page
    /\ page.of \in {"none", "overview", "detail", "dashboard"}
    /\ page.of = "none" => page.at = "start"
    /\ page.of = "overview" => OverviewPage
    /\ page.of = "detail" => DetailPage
    /\ page.of = "dashboard" => DashboardPage

OverviewFacts == BooksAreSound /\ PageIsSound

LEMMA OverviewStart == OverviewInit => OverviewFacts
<1> SUFFICES ASSUME OverviewInit PROVE OverviewFacts
  OBVIOUS
<1>1. books = [a \in Booked |-> FreshBook] /\ page = NotRead
  BY DEF OverviewInit
<1>2. \A a \in Booked : BookIsSound(a, FreshBook)
  BY FreshIsSound DEF BookIsSound
<1>3. BooksAreSound
  BY <1>1, <1>2 DEF BooksAreSound
<1>4. PageIsSound
  BY <1>1 DEF NotRead, PageIsSound
<1> QED
  BY <1>3, <1>4 DEF OverviewFacts

\* While the books change, a page that is being read stays behind them.
LEMMA PageStays ==
    ASSUME OverviewFacts, BooksGrow, BooksAreSound', page' = page
    PROVE  PageIsSound'
<1>1. \A a \in Booked : /\ books[a].paid \in Nat /\ books'[a].paid \in Nat
                         /\ books[a].asked \in Nat /\ books'[a].asked \in Nat
                         /\ books[a].resets \in Nat /\ books'[a].resets \in Nat
                         /\ books'[a].paid >= books[a].paid
                         /\ books'[a].asked >= books[a].asked
                         /\ books'[a].resets >= books[a].resets
  BY DEF OverviewFacts, BooksAreSound, BookIsSound, BookRows, BooksGrow, BookGrows
<1>2. PageIsSound
  BY DEF OverviewFacts
<1>3. ASSUME page.of = "overview" PROVE OverviewPage'
  <2>1. OverviewPage
    BY <1>2, <1>3 DEF PageIsSound
  <2>2. AccountsRead' = AccountsRead /\ ReservedRead' = ReservedRead
        /\ PaidRead' = PaidRead /\ RequestedRead' = RequestedRead
    BY DEF AccountsRead, ReservedRead, PaidRead, RequestedRead
  <2>3. page.at = "paid" => \A a \in Booked : page.consumed[a] <= books'[a].paid
    BY <1>1, <2>1 DEF OverviewPage, ReservedRead
  <2>4. page.at = "requested" => \A a \in Booked : page.paid[a] > 0 => books'[a].asked > 0
    BY <1>1, <2>1 DEF OverviewPage
  <2> QED
    BY <2>1, <2>2, <2>3, <2>4 DEF OverviewPage
<1>4. ASSUME page.of = "detail" PROVE DetailPage'
  <2>1. DetailPage
    BY <1>2, <1>4 DEF PageIsSound
  <2>2. PICK a \in Booked : a = page.account
    BY <2>1 DEF DetailPage
  <2>3. PICK n \in Nat, m \in Nat, price \in Nat :
           n = books[a].resets /\ m = books'[a].resets /\ price = PricePaid[a] /\ n <= m
    BY <1>1, PolicyIs
  <2>4. ResetFee * n <= ResetFee * m /\ ResetFee * n \in Nat /\ ResetFee * m \in Nat
    <3>1. ResetFee \in Nat
      BY OverviewAssumption
    <3> QED
      BY <2>3, <3>1, TimesGrows
  <2>5. page.at = "rows" =>
           /\ page.row.paid <= price + ResetFee * m
           /\ page.row.cashPaid <= books'[a].paid
    BY <1>1, <2>1, <2>2, <2>3, <2>4 DEF DetailPage
  <2>6. DetailNeverFlatters' = DetailNeverFlatters
    BY DEF DetailNeverFlatters
  <2> QED
    BY <2>1, <2>2, <2>3, <2>5, <2>6 DEF DetailPage
<1>5. ASSUME page.of = "dashboard" PROVE DashboardPage'
  BY <1>2, <1>5 DEF PageIsSound, DashboardPage
<1> QED
  BY <1>2, <1>3, <1>4, <1>5 DEF PageIsSound

LEMMA ReadOverviewKeeps ==
    ASSUME OverviewFacts, ReadOverview
    PROVE  OverviewFacts'
<1>1. PageIsSound /\ BooksAreSound
  BY DEF OverviewFacts
<1>2. books' = books /\ page.of \in {"none", "overview"}
  BY DEF ReadOverview, ReadAccounts, ReadReservations, ReadPaid, ReadRequested, ReadResets,
         Turn
<1>3. BooksAreSound'
  BY <1>1, <1>2 DEF BooksAreSound
<1>4. {"of", "at"} \subseteq DOMAIN page' /\ page'.of = "overview"
  <2>1. CASE ReadAccounts
    BY <2>1 DEF ReadAccounts, Turn, Adding
  <2>2. CASE ReadReservations
    BY <2>2 DEF ReadReservations, Turn, Adding
  <2>3. CASE ReadPaid
    BY <2>3 DEF ReadPaid, Turn, Adding
  <2>4. CASE ReadRequested
    BY <2>4 DEF ReadRequested, Turn, Adding
  <2>5. CASE ReadResets
    BY <2>5 DEF ReadResets, Turn, Adding
  <2> QED
    BY <2>1, <2>2, <2>3, <2>4, <2>5 DEF ReadOverview
<1>5. OverviewPage'
  <2>1. CASE ReadAccounts
    <3>1. page'.at = "reservations" /\ "accounts" \in DOMAIN page' /\ page'.accounts = books
      BY <2>1 DEF ReadAccounts, Turn, Adding
    <3>2. AccountsRead'
      BY <1>1, <3>1 DEF AccountsRead, BooksAreSound, BookIsSound
    <3> QED
      BY <3>1, <3>2 DEF OverviewPage
  <2>2. CASE ReadReservations
    <3>1. page.at = "reservations" /\ OverviewPage
      BY <1>1, <2>2 DEF ReadReservations, Turn, PageIsSound
    <3>2. "accounts" \in DOMAIN page /\ AccountsRead
      BY <3>1 DEF OverviewPage, AccountsRead
    <3>3. /\ page'.at = "paid" /\ {"accounts", "reserved", "consumed"} \subseteq DOMAIN page'
          /\ page'.accounts = page.accounts
          /\ page'.reserved = [a \in Booked |-> Reserved(books[a])]
          /\ page'.consumed = [a \in Booked |-> books[a].consumed]
      BY <2>2, <3>2 DEF ReadReservations, Turn, Adding
    <3>4. AccountsRead'
      BY <3>2, <3>3 DEF AccountsRead
    <3>5. \A a \in Booked : /\ page'.reserved[a] \in Nat /\ page'.consumed[a] \in Nat
                             /\ page'.consumed[a] <= books[a].paid
      BY <1>1, <3>3, OverviewAssumption DEF BooksAreSound, BookIsSound, BookRows, Reserved
    <3>6. ReservedRead'
      BY <3>3, <3>5 DEF ReservedRead
    <3> QED
      BY <1>2, <3>3, <3>4, <3>5, <3>6 DEF OverviewPage
  <2>3. CASE ReadPaid
    <3>1. page.at = "paid" /\ OverviewPage
      BY <1>1, <2>3 DEF ReadPaid, Turn, PageIsSound
    <3>2. {"accounts", "reserved", "consumed"} \subseteq DOMAIN page
          /\ AccountsRead /\ ReservedRead
      BY <3>1 DEF OverviewPage, AccountsRead, ReservedRead
    <3>3. /\ page'.at = "requested"
          /\ {"accounts", "reserved", "consumed", "paid"} \subseteq DOMAIN page'
          /\ page'.accounts = page.accounts /\ page'.reserved = page.reserved
          /\ page'.consumed = page.consumed
          /\ page'.paid = [a \in Booked |-> books[a].paid]
      BY <2>3, <3>2 DEF ReadPaid, Turn, Adding
    <3>4. AccountsRead' /\ ReservedRead'
      BY <3>2, <3>3 DEF AccountsRead, ReservedRead
    <3>5. PaidRead'
      BY <1>1, <3>1, <3>3 DEF OverviewPage, PaidRead, BooksAreSound, BookIsSound, BookRows
    <3>6. \A a \in Booked : page'.paid[a] > 0 => books[a].asked > 0
      BY <1>1, <3>3 DEF BooksAreSound, BookIsSound
    <3> QED
      BY <1>2, <3>3, <3>4, <3>5, <3>6 DEF OverviewPage
  <2>4. CASE ReadRequested
    <3>1. page.at = "requested" /\ OverviewPage
      BY <1>1, <2>4 DEF ReadRequested, Turn, PageIsSound
    <3>2. {"accounts", "reserved", "consumed", "paid"} \subseteq DOMAIN page
          /\ AccountsRead /\ ReservedRead /\ PaidRead
      BY <3>1 DEF OverviewPage, AccountsRead, ReservedRead, PaidRead
    <3>3. /\ page'.at = "resets"
          /\ {"accounts", "reserved", "consumed", "paid", "requested"} \subseteq DOMAIN page'
          /\ page'.accounts = page.accounts /\ page'.reserved = page.reserved
          /\ page'.consumed = page.consumed /\ page'.paid = page.paid
          /\ page'.requested = {a \in Booked : books[a].asked > 0}
      BY <2>4, <3>2 DEF ReadRequested, Turn, Adding
    <3>4. AccountsRead' /\ ReservedRead' /\ PaidRead'
      BY <3>2, <3>3 DEF AccountsRead, ReservedRead, PaidRead
    <3>5. RequestedRead'
      BY <3>1, <3>3 DEF OverviewPage, RequestedRead
    <3> QED
      BY <3>3, <3>4, <3>5 DEF OverviewPage
  <2>5. CASE ReadResets
    <3>1. page.at = "resets" /\ OverviewPage
      BY <1>1, <2>5 DEF ReadResets, Turn, PageIsSound
    <3>2. {"accounts", "reserved", "consumed", "paid", "requested"} \subseteq DOMAIN page
          /\ AccountsRead /\ ReservedRead /\ PaidRead /\ RequestedRead
      BY <3>1 DEF OverviewPage, AccountsRead, ReservedRead, PaidRead, RequestedRead
    <3>3. /\ page'.at = "done"
          /\ {"accounts", "reserved", "consumed", "paid", "requested"} \subseteq DOMAIN page'
          /\ page'.accounts = page.accounts /\ page'.reserved = page.reserved
          /\ page'.consumed = page.consumed /\ page'.paid = page.paid
          /\ page'.requested = page.requested
      BY <2>5, <3>2 DEF ReadResets, Turn, Adding
    <3>4. AccountsRead' /\ ReservedRead' /\ PaidRead' /\ RequestedRead'
      BY <3>2, <3>3 DEF AccountsRead, ReservedRead, PaidRead, RequestedRead
    <3> QED
      BY <3>3, <3>4 DEF OverviewPage
  <2> QED
    BY <2>1, <2>2, <2>3, <2>4, <2>5 DEF ReadOverview
<1>6. PageIsSound'
  BY <1>4, <1>5 DEF PageIsSound
<1> QED
  BY <1>3, <1>6 DEF OverviewFacts

LEMMA ReadRowKeeps ==
    ASSUME OverviewFacts, NEW a \in Booked, ReadRow(a)
    PROVE  OverviewFacts'
<1>1. PageIsSound /\ BooksAreSound /\ books' = books
  BY DEF OverviewFacts, ReadRow, Turn
<1>2. BooksAreSound'
  BY <1>1 DEF BooksAreSound
<1>3. PICK r : r = RowOf(a)
  OBVIOUS
<1>4. r.paid = PricePaid[a] + ResetFee * books[a].resets /\ r.cashPaid = books[a].paid
  BY <1>3 DEF RowOf
<1>5. /\ page'.of = "detail" /\ page'.at = "rows" /\ page'.account = a /\ page'.row = r
      /\ {"of", "at", "account", "row"} \subseteq DOMAIN page'
  BY <1>3 DEF ReadRow, Turn, Adding
<1>6. r.paid \in Int /\ r.cashPaid \in Int
  <2>1. books[a].resets \in Nat /\ books[a].paid \in Nat
    BY <1>1 DEF BooksAreSound, BookIsSound, BookRows
  <2> QED
    BY <1>4, <2>1, PolicyIs, OverviewAssumption
<1>7. DetailPage'
  BY <1>1, <1>4, <1>5, <1>6 DEF DetailPage
<1>8. PageIsSound'
  BY <1>5, <1>7 DEF PageIsSound
<1> QED
  BY <1>2, <1>8 DEF OverviewFacts

LEMMA ReadDetailKeeps ==
    ASSUME OverviewFacts, ReadDetail
    PROVE  OverviewFacts'
<1>1. PageIsSound /\ BooksAreSound
  BY DEF OverviewFacts
<1>2. page.of = "detail" /\ page.at = "rows" /\ books' = books
  BY <1>1 DEF ReadDetail, Turn, PageIsSound
<1>3. DetailPage
  BY <1>1, <1>2 DEF PageIsSound
<1>4. PICK a \in Booked : a = page.account
  BY <1>3 DEF DetailPage
<1>5. PICK n \in Nat, price \in Nat, paid \in Nat :
        n = books[a].resets /\ price = PricePaid[a] /\ paid = books[a].paid
  BY <1>1, PolicyIs DEF BooksAreSound, BookIsSound, BookRows
<1>6. PICK cost \in Int : cost = ResetFee * n
  BY OverviewAssumption
<1>7. PICK p \in Int, c \in Int : /\ p = page.row.paid /\ c = page.row.cashPaid
                                 /\ p <= price + cost /\ c <= paid
  BY <1>2, <1>3, <1>4, <1>5, <1>6 DEF DetailPage
<1>8. RowOf(a).paid = price + cost /\ RowOf(a).cashPaid = paid
  BY <1>5, <1>6 DEF RowOf
<1>9. PICK spent \in Int : spent = RowOf(a).paid - PricePaid[a] /\ spent = cost
  BY <1>5, <1>8
<1>10. Turn("detail", "rows", "done",
            [resetSpend |-> spent, initialPaid |-> p - spent,
             cashPaidOut |-> paid, net |-> p - paid])
  BY <1>4, <1>7, <1>8, <1>9 DEF ReadDetail
<1>11. {"of", "at", "account", "row"} \subseteq DOMAIN page
  BY <1>1, <1>3 DEF PageIsSound, DetailPage
<1>12. /\ page'.of = "detail" /\ page'.at = "done" /\ page'.account = a
       /\ page'.row = page.row
       /\ page'.resetSpend = spent /\ page'.initialPaid = p - spent /\ page'.net = p - paid
       /\ {"of", "at", "account", "row"} \subseteq DOMAIN page'
  BY <1>4, <1>10, <1>11 DEF Turn, Adding
<1>13. DetailNeverFlatters'
  BY <1>5, <1>7, <1>9, <1>12 DEF DetailNeverFlatters
<1>14. DetailPage'
  BY <1>3, <1>12, <1>13 DEF DetailPage
<1>15. BooksAreSound'
  BY <1>1, <1>2 DEF BooksAreSound
<1>16. PageIsSound'
  BY <1>12, <1>14 DEF PageIsSound
<1> QED
  BY <1>15, <1>16 DEF OverviewFacts

LEMMA DashboardKeeps ==
    ASSUME OverviewFacts, (\E a \in Booked : OpenDashboard(a)) \/ ReadPayoutView
    PROVE  OverviewFacts'
<1>1. PageIsSound /\ BooksAreSound
  BY DEF OverviewFacts
<1>2. books' = books
  BY DEF OpenDashboard, ReadPayoutView, Turn
<1>3. BooksAreSound'
  BY <1>1, <1>2 DEF BooksAreSound
<1>4. CASE \E a \in Booked : OpenDashboard(a)
  <2>1. PICK a \in Booked : OpenDashboard(a)
    BY <1>4
  <2>2. /\ page'.of = "dashboard" /\ page'.at = "view"
        /\ page'.account = a /\ page'.row = books[a]
        /\ {"of", "at", "account", "row"} \subseteq DOMAIN page'
    BY <2>1 DEF OpenDashboard, Turn, Adding
  <2>3. DashboardPage'
    BY <1>1, <2>2 DEF DashboardPage, BooksAreSound, BookIsSound
  <2>4. PageIsSound'
    BY <2>2, <2>3 DEF PageIsSound
  <2> QED
    BY <1>3, <2>4 DEF OverviewFacts
<1>5. CASE ReadPayoutView
  <2>1. page.of = "dashboard" /\ page.at = "view"
    BY <1>1, <1>5 DEF ReadPayoutView, Turn, PageIsSound
  <2>2. DashboardPage
    BY <1>1, <2>1 DEF PageIsSound
  <2>3. PICK a \in Booked : a = page.account
    BY <2>2 DEF DashboardPage
  <2>4. PICK yes : yes = (Capacity(a, books[a]) >= MinGross
                          /\ PolicyOf[a].kind # "UNRESOLVED")
    OBVIOUS
  <2>5. PICK moved : moved = (books[a] # page.row)
    OBVIOUS
  <2>6. PICK bar : bar = FirstWithdrawal(page.row.equity)
    OBVIOUS
  <2>7. Turn("dashboard", "view", "done", [eligible |-> yes, progress |-> bar, moved |-> moved])
    BY <1>5, <2>3, <2>4, <2>5, <2>6 DEF ReadPayoutView
  <2>8. {"of", "at", "account", "row"} \subseteq DOMAIN page
    BY <1>1, <2>2 DEF PageIsSound, DashboardPage
  <2>9. /\ page'.of = "dashboard" /\ page'.at = "done" /\ page'.account = a
        /\ page'.row = page.row
        /\ page'.eligible = yes /\ page'.progress = bar /\ page'.moved = moved
        /\ {"of", "at", "account", "row"} \subseteq DOMAIN page'
    BY <2>3, <2>7, <2>8 DEF Turn, Adding
  <2>10. yes /\ ~moved => Capacity(a, page.row) >= MinGross
    BY <2>4, <2>5
  <2>11. DashboardPage'
    BY <2>2, <2>6, <2>9, <2>10 DEF DashboardPage
  <2>12. PageIsSound'
    BY <2>9, <2>11 DEF PageIsSound
  <2> QED
    BY <1>3, <2>12 DEF OverviewFacts
<1> QED
  BY <1>4, <1>5

LEMMA OverviewStep == OverviewFacts /\ [OverviewNext]_overviewVars => OverviewFacts'
<1> SUFFICES ASSUME OverviewFacts, [OverviewNext]_overviewVars PROVE OverviewFacts'
  OBVIOUS
<1>1. CASE UNCHANGED overviewVars
  <2>1. books' = books /\ page' = page
    BY <1>1 DEF overviewVars
  <2>2. BooksAreSound' /\ BooksGrow
    BY <2>1 DEF OverviewFacts, BooksAreSound, BooksGrow, BookGrows, BookIsSound, BookRows
  <2> QED
    BY <2>1, <2>2, PageStays DEF OverviewFacts
<1>2. ASSUME NEW a \in Booked,
             \/ Observe(a) \/ AskPayout(a) \/ Decline(a) \/ Deduct(a)
             \/ MarkPaid(a) \/ ConsumeCash(a) \/ BuyReset(a)
      PROVE  OverviewFacts'
  <2>1. BooksAreSound
    BY DEF OverviewFacts
  <2>2. BooksAreSound' /\ BooksGrow /\ page' = page
    BY <1>2, <2>1, ObserveKeeps, PayoutKeeps, ConsumeKeeps, ResetKeeps
  <2> QED
    BY <2>2, PageStays DEF OverviewFacts
<1> QED
  BY <1>1, <1>2, ReadOverviewKeeps, ReadRowKeeps, ReadDetailKeeps, DashboardKeeps
     DEF OverviewNext

-----------------------------------------------------------------------------

LEMMA HeadroomHolds == OverviewFacts => HeadroomIsExact
<1> SUFFICES ASSUME OverviewFacts, NEW a \in Booked
             PROVE  LET b == books[a]
                        cap == LifetimeCapMinorFor(a)
                        left == RemainingLifetimeCap(cap, Reserved(b), b.consumed) IN
                    /\ DrawdownHeadroom(b).remaining = 0
                           <=> IsTrailingBreached(b.threshold, b.equity)
                    /\ DailyLossHeadroom(b).remaining = 0
                           <=> IsDailyLossBreached(b.start, b.withdrawn, b.equity)
                    /\ IsTrailingBreached(b.threshold, b.equity) /\ Drawdown > 0
                           => DrawdownHeadroom(b).band = "CRITICAL"
                    /\ left = 0 <=> CheckLifetimeCapReached(cap, Reserved(b), b.consumed)
                    /\ b.standing = "CLOSED" => left = 0
  BY DEF HeadroomIsExact
<1>1. PICK b \in BookRows : b = books[a] /\ BookIsSound(a, b)
  BY DEF OverviewFacts, BooksAreSound, BookIsSound
<1>2. b.equity \in Int /\ b.threshold \in Int /\ b.start \in Int /\ b.withdrawn \in Int
      /\ b.consumed \in Nat /\ Reserved(b) \in Nat
  BY <1>1, OverviewAssumption DEF BookRows, Reserved
<1>3. DrawdownHeadroom(b).remaining = NonNegative(b.equity - b.threshold)
  BY DEF DrawdownHeadroom, Headroom
<1>4. DrawdownHeadroom(b).remaining = 0 <=> IsTrailingBreached(b.threshold, b.equity)
  BY <1>2, <1>3 DEF NonNegative, IsTrailingBreached
<1>5. DailyLossHeadroom(b).remaining = 0
         <=> IsDailyLossBreached(b.start, b.withdrawn, b.equity)
  <2>1. PICK pnl \in Int : pnl = b.equity + b.withdrawn - b.start
    BY <1>2
  <2>2. DailyLossHeadroom(b).remaining = NonNegative(DailyLossLimit - NonNegative(-pnl))
    BY <2>1 DEF DailyLossHeadroom, Headroom
  <2>3. SessionPnl(b.start, b.withdrawn, b.equity) = pnl
    BY <1>2, <2>1 DEF SessionPnl
  <2>4. DailyLossUsed(b.start, b.withdrawn, b.equity) = NonNegative(-pnl)
    BY <2>1, <2>3 DEF DailyLossUsed, NonNegative
  <2>5. NonNegative(DailyLossLimit - NonNegative(-pnl)) = 0
           <=> NonNegative(-pnl) >= DailyLossLimit
    BY <2>1, RiskAssumption DEF NonNegative
  <2> QED
    BY <2>2, <2>4, <2>5 DEF IsDailyLossBreached
<1>6. IsTrailingBreached(b.threshold, b.equity) /\ Drawdown > 0
         => DrawdownHeadroom(b).band = "CRITICAL"
  <2>1. SUFFICES ASSUME IsTrailingBreached(b.threshold, b.equity), Drawdown > 0
                 PROVE  DrawdownHeadroom(b).band = "CRITICAL"
    OBVIOUS
  <2>2. NonNegative(b.equity - b.threshold) = 0
    BY <1>2, <2>1 DEF NonNegative, IsTrailingBreached
  <2>3. DrawdownHeadroom(b).band =
           CASE Drawdown <= 0 -> "COMFORTABLE"
             [] Drawdown > 0 /\ 10 * 0 <= Drawdown -> "CRITICAL"
             [] Drawdown > 0 /\ 10 * 0 > Drawdown /\ 4 * 0 <= Drawdown -> "TIGHT"
             [] OTHER -> "COMFORTABLE"
    BY <2>2 DEF DrawdownHeadroom, Headroom
  <2>4. ~ (Drawdown <= 0) /\ 10 * 0 <= Drawdown /\ ~ (10 * 0 > Drawdown)
    BY <2>1, RiskAssumption
  <2> QED
    BY <2>1, <2>3, <2>4
<1>7. PICK held \in Nat : held = Reserved(b) + b.consumed
  BY <1>2
<1>8. LET cap == LifetimeCapMinorFor(a)
          left == RemainingLifetimeCap(cap, Reserved(b), b.consumed) IN
      /\ left = 0 <=> CheckLifetimeCapReached(cap, Reserved(b), b.consumed)
      /\ b.standing = "CLOSED" => left = 0
  <2>1. CASE PolicyOf[a].kind = "APPROVED_AMOUNT"
    <3>1. PICK cap \in Nat : cap = PolicyOf[a].cap /\ LifetimeCapMinorFor(a) = cap
      BY <2>1, PolicyIs DEF LifetimeCapMinorFor
    <3>2. RemainingLifetimeCap(cap, Reserved(b), b.consumed)
             = NonNegative(cap - Reserved(b) - b.consumed)
      BY <3>1 DEF RemainingLifetimeCap, Null
    <3>3. CheckLifetimeCapReached(cap, Reserved(b), b.consumed)
             <=> Reserved(b) + b.consumed >= cap
      BY <3>1 DEF CheckLifetimeCapReached, Null
    <3>4. NonNegative(cap - Reserved(b) - b.consumed) = 0 <=> Reserved(b) + b.consumed >= cap
      BY <1>2, <3>1 DEF NonNegative
    <3>5. b.standing = "CLOSED" => Reserved(b) + b.consumed >= cap
      BY <1>1, <1>2, <3>1 DEF BookIsSound
    <3> QED
      BY <3>1, <3>2, <3>3, <3>4, <3>5
  <2>2. CASE PolicyOf[a].kind # "APPROVED_AMOUNT"
    <3>1. LifetimeCapMinorFor(a) = Null
      BY <2>2 DEF LifetimeCapMinorFor
    <3> QED
      BY <1>1, <2>2, <3>1
         DEF RemainingLifetimeCap, CheckLifetimeCapReached, Null, BookIsSound
  <2> QED
    BY <2>1, <2>2
<1> QED
  BY <1>1, <1>4, <1>5, <1>6, <1>8

LEMMA DetailHolds == OverviewFacts => DetailNeverFlatters
BY DEF OverviewFacts, PageIsSound, DetailPage, DetailNeverFlatters

LEMMA FloorIsBelow ==
    ASSUME NEW v \in Int
    PROVE  FloorToIncrement(v) \in Int /\ FloorToIncrement(v) <= v
<1>1. Increment \in Nat \ {0}
  BY RulesAssumption
<1>2. v % Increment \in 0 .. Increment - 1
  BY <1>1
<1> QED
  BY <1>1, <1>2 DEF FloorToIncrement

\* What may be withdrawn is there, and the buffer stays.
LEMMA CapacityIs ==
    ASSUME NEW a \in Booked, NEW b \in BookRows, Capacity(a, b) >= MinGross
    PROVE  Available(b) >= Capacity(a, b) /\ Available(b) >= MinGross
<1>1. b.equity \in Int /\ b.threshold \in Int /\ b.consumed \in Nat /\ Reserved(b) \in Nat
  BY OverviewAssumption DEF BookRows, Reserved
<1>2. PICK left : left = RemainingLifetimeCap(LifetimeCapMinorFor(a), Reserved(b), b.consumed)
  OBVIOUS
<1>3. left \in Int
  <2>1. LifetimeCapMinorFor(a) \in Int
    BY PolicyIs DEF LifetimeCapMinorFor, Null
  <2> QED
    BY <1>1, <1>2, <2>1 DEF RemainingLifetimeCap, NonNegative, Null
<1>4. PICK room \in Int : room = b.equity - StartBalance - Buffer /\ Available(b) = room
  BY <1>1, RulesAssumption DEF Available
<1>5. PICK limit \in Int : limit = AccountLimit(b.equity, b.threshold)
                           /\ limit <= NonNegative(room)
  <2>1. NonNegative(room) \in Int /\ NonNegative(b.equity - b.threshold - MinRoom) \in Int
    BY <1>1, RulesAssumption DEF NonNegative
  <2>2. AccountLimit(b.equity, b.threshold)
           = Least(NonNegative(room), NonNegative(b.equity - b.threshold - MinRoom))
    BY <1>4 DEF AccountLimit
  <2> QED
    BY <2>1, <2>2 DEF Least
<1>6. PICK v \in Int : /\ v = IF left = Null THEN limit ELSE Least(limit, 2 * left)
                       /\ v <= limit
  <2>1. Least(limit, 2 * left) \in Int /\ Least(limit, 2 * left) <= limit
    BY <1>3 DEF Least
  <2> QED
    BY <2>1
<1>7. Capacity(a, b) = FloorToIncrement(v)
  <2>1. v = IF left = Null THEN limit ELSE Least(limit, 2 * left)
    BY <1>6
  <2> QED
    BY <1>2, <1>5, <2>1 DEF Capacity
<1>8. Capacity(a, b) \in Int /\ Capacity(a, b) <= v
  BY <1>7, FloorIsBelow
<1>9. Capacity(a, b) <= NonNegative(room) /\ MinGross >= 1 /\ MinGross \in Nat
  BY <1>5, <1>6, <1>8, RulesAssumption DEF NonNegative
<1>10. NonNegative(room) = room
  BY <1>8, <1>9 DEF NonNegative
<1> QED
  BY <1>4, <1>8, <1>9, <1>10

LEMMA CoversHolds == OverviewFacts => OverviewCoversCaps
<1> SUFFICES ASSUME OverviewFacts, page.of = "overview", page.at = "done"
             PROVE  OverviewCoversCaps
  BY DEF OverviewCoversCaps
<1>1. AccountsRead /\ ReservedRead /\ PaidRead /\ RequestedRead
  BY DEF OverviewFacts, PageIsSound, OverviewPage
<1>2. PICK f : f = FirmOverview(page)
  OBVIOUS
<1>3. PICK shown : shown = LiveIn(page) /\ shown \subseteq Booked
  BY DEF LiveIn
<1>4. PICK left : left = LeftIn(page)
  OBVIOUS
<1>5. /\ f.exposure = FirmExposure(left, shown)
      /\ f.eligible = {a \in shown : Available(page.accounts[a]) >= MinGross}
      /\ f.requested = page.requested
      /\ f.payers = {a \in Booked : page.paid[a] > 0}
  BY <1>2, <1>3, <1>4 DEF FirmOverview, Entitled
<1>6. \A a \in shown :
        /\ left[a] = Null <=> PolicyOf[a].kind # "APPROVED_AMOUNT"
        /\ NonNegative(left[a]) \in Nat
        /\ left[a] # Null =>
               NonNegative(left[a]) + (page.paid[a] + page.reserved[a]) >= PolicyOf[a].cap
  <2> SUFFICES ASSUME NEW a \in shown
               PROVE  /\ left[a] = Null <=> PolicyOf[a].kind # "APPROVED_AMOUNT"
                      /\ NonNegative(left[a]) \in Nat
                      /\ left[a] # Null =>
                            NonNegative(left[a]) + (page.paid[a] + page.reserved[a])
                               >= PolicyOf[a].cap
    OBVIOUS
  <2>1. left[a] = RemainingLifetimeCap(LifetimeCapMinorFor(a), page.reserved[a],
                                       page.consumed[a])
    BY <1>3, <1>4 DEF LeftIn
  <2>2. PICK r \in Nat, c \in Nat, p \in Nat :
           r = page.reserved[a] /\ c = page.consumed[a] /\ p = page.paid[a] /\ c <= p
    BY <1>1, <1>3 DEF ReservedRead, PaidRead
  <2>3. PICK cap \in Nat : cap = PolicyOf[a].cap
    BY <1>3, PolicyIs
  <2>4. CASE PolicyOf[a].kind = "APPROVED_AMOUNT"
    <3>1. left[a] = NonNegative(cap - r - c)
      BY <2>1, <2>2, <2>3, <2>4 DEF RemainingLifetimeCap, LifetimeCapMinorFor, Null
    <3> QED
      BY <2>2, <2>3, <2>4, <3>1 DEF NonNegative, Null
  <2>5. CASE PolicyOf[a].kind # "APPROVED_AMOUNT"
    <3>1. left[a] = Null
      BY <2>1, <2>5 DEF RemainingLifetimeCap, LifetimeCapMinorFor
    <3> QED
      BY <2>5, <3>1 DEF NonNegative, Null
  <2> QED
    BY <2>4, <2>5
<1>7. PICK bounded : bounded = shown \ f.exposure.uncapped
  OBVIOUS
<1>8. f.exposure.uncapped = {a \in shown : PolicyOf[a].kind # "APPROVED_AMOUNT"}
  BY <1>5, <1>6 DEF FirmExposure
<1>9. bounded \subseteq shown /\ \A a \in bounded : left[a] # Null
  BY <1>6, <1>7, <1>8
<1>10. IsFiniteSet(shown) /\ IsFiniteSet(bounded)
  <2>1. IsFiniteSet(shown)
    BY <1>3, OverviewAssumption, FS_Subset
  <2> QED
    BY <1>9, <2>1, FS_Subset
<1>11. f.exposure.open
         + SumOver([a \in bounded |-> page.paid[a] + page.reserved[a]], bounded)
           >= SumOver([a \in bounded |-> PolicyOf[a].cap], bounded)
  <2> DEFINE room == [a \in shown |-> NonNegative(left[a])]
             held == [a \in bounded |-> page.paid[a] + page.reserved[a]]
             both == [a \in bounded |-> room[a] + held[a]]
             caps == [a \in bounded |-> PolicyOf[a].cap]
  <2>1. f.exposure.open = SumOver(room, shown)
    BY <1>5 DEF FirmExposure
  <2>2. \A a \in shown : room[a] \in Nat
    BY <1>6
  <2>3. \A a \in bounded : held[a] \in Nat
    BY <1>1, <1>3, <1>9 DEF ReservedRead, PaidRead
  <2>4. \A a \in bounded : caps[a] \in Nat
    BY <1>3, <1>9, PolicyIs
  <2>5. \A a \in bounded : both[a] = room[a] + held[a]
    OBVIOUS
  <2>6. \A a \in bounded : caps[a] <= both[a]
    BY <1>6, <1>9
  <2> HIDE DEF room, held, both, caps
  <2>7. SumOver(room, bounded) <= SumOver(room, shown) /\ SumOver(room, bounded) \in Nat
    BY <1>9, <1>10, <2>2, SumGrows
  <2>8. \A a \in bounded : room[a] \in Int /\ held[a] \in Int /\ both[a] = room[a] + held[a]
    BY <1>9, <2>2, <2>3, <2>5
  <2>9. SumOver(both, bounded) = SumOver(room, bounded) + SumOver(held, bounded)
    BY <1>10, <2>8, SumPlus
  <2>10. \A a \in bounded : caps[a] \in Int /\ both[a] \in Int /\ caps[a] <= both[a]
    BY <2>4, <2>6, <2>8
  <2>11. SumOver(caps, bounded) <= SumOver(both, bounded)
    BY <1>10, <2>10, SumMonotone
  <2>12. SumOver(caps, bounded) \in Int /\ SumOver(held, bounded) \in Int
         /\ SumOver(room, shown) \in Int
    <3>1. \A a \in shown : room[a] \in Int
      BY <2>2
    <3> QED
      BY <1>10, <2>8, <2>10, <3>1, SumIsInt
  <2>13. SumOver(room, shown) + SumOver(held, bounded) >= SumOver(caps, bounded)
    BY <2>7, <2>9, <2>11, <2>12
  <2> QED
    BY <2>1, <2>13 DEF held, caps
<1>12. f.payers \subseteq f.requested
  BY <1>1, <1>5 DEF RequestedRead
<1>13. \A a \in shown : Capacity(a, page.accounts[a]) >= MinGross =>
            /\ a \in f.eligible
            /\ Available(page.accounts[a]) >= Capacity(a, page.accounts[a])
  BY <1>1, <1>3, <1>5, CapacityIs DEF AccountsRead
<1> QED
  BY <1>2, <1>3, <1>7, <1>8, <1>11, <1>12, <1>13 DEF OverviewCoversCaps

LEMMA ProgressIs ==
    ASSUME NEW balance \in Int
    PROVE  LET p == FirstWithdrawal(balance) IN
           /\ p.percent = 100 <=> p.reached
           /\ p.remaining = 0 <=> p.reached
           /\ p.reached <=> balance >= StartBalance + Buffer + MinGross
           /\ p.reached => p.bufferMet
<1>1. PICK d \in Nat \ {0} : d = Buffer + MinGross
  BY RulesAssumption
<1>2. PICK t \in Nat : t = StartBalance + Buffer + MinGross /\ Target = t
  BY RulesAssumption DEF Target
<1>3. PICK s \in Nat : s = StartBalance + Buffer /\ s <= t
  BY <1>2, RulesAssumption
<1>4. PICK n \in Int : n = (balance - StartBalance) * 100
  BY RulesAssumption
<1>5. n \div d \in Int /\ n % d \in 0 .. d - 1 /\ n = d * (n \div d) + (n % d)
  BY DivisionOfInt
<1>6. PICK q \in Int, r \in 0 .. d - 1 : q = n \div d /\ n = d * q + r
  BY <1>5
<1>7. n >= 100 * d <=> balance >= t
  BY <1>1, <1>2, <1>4, RulesAssumption
<1>8. 100 <= q => 100 * d <= n
  <2>1. SUFFICES ASSUME 100 <= q PROVE 100 * d <= n
    OBVIOUS
  <2>2. d * 100 <= d * q
    BY <2>1, TimesGrows
  <2> QED
    BY <1>6, <2>2
<1>9. q <= 99 => n < 100 * d
  <2>1. SUFFICES ASSUME q <= 99 PROVE n < 100 * d
    OBVIOUS
  <2>2. d * q <= d * 99
    BY <2>1, TimesGrows
  <2> QED
    BY <1>6, <2>2
<1>10. Least(100, NonNegative(q)) = 100 <=> balance >= t
  <2>1. Least(100, NonNegative(q)) = 100 <=> 100 <= q
    BY DEF Least, NonNegative
  <2> QED
    BY <1>7, <1>8, <1>9, <2>1
<1>11. PICK p : p = FirstWithdrawal(balance)
  OBVIOUS
<1>12. /\ p.bufferMet = (balance >= s) /\ p.reached = (balance >= t)
       /\ p.remaining = NonNegative(t - balance)
       /\ p.percent = Least(100, NonNegative(q))
  BY <1>1, <1>2, <1>3, <1>4, <1>6, <1>11 DEF FirstWithdrawal
<1>13. NonNegative(t - balance) = 0 <=> balance >= t
  BY DEF NonNegative
<1>14. balance >= t => balance >= s
  BY <1>3
<1> QED
  BY <1>2, <1>10, <1>11, <1>12, <1>13, <1>14

LEMMA ProgressHolds == OverviewFacts => ProgressIsTrue
<1> SUFFICES ASSUME OverviewFacts, page.of = "dashboard", page.at = "done"
             PROVE  ProgressIsTrue
  BY DEF ProgressIsTrue
<1>1. /\ page.account \in Booked /\ page.row \in BookRows
      /\ page.progress = FirstWithdrawal(page.row.equity)
      /\ page.eligible /\ ~page.moved => Capacity(page.account, page.row) >= MinGross
  BY DEF OverviewFacts, PageIsSound, DashboardPage
<1>2. PICK e \in Int : e = page.row.equity
  BY <1>1 DEF BookRows
<1>3. PICK p : p = FirstWithdrawal(e)
  OBVIOUS
<1>4. /\ p.percent = 100 <=> p.reached
      /\ p.remaining = 0 <=> p.reached
      /\ p.reached <=> e >= StartBalance + Buffer + MinGross
      /\ p.reached => p.bufferMet
  BY <1>3, ProgressIs
<1>5. ASSUME page.eligible, ~page.moved
      PROVE  e >= StartBalance + Buffer + MinGross
  <2>1. Available(page.row) >= MinGross
    BY <1>1, <1>5, CapacityIs
  <2> QED
    BY <1>2, <2>1, RulesAssumption DEF Available
<1> QED
  BY <1>1, <1>2, <1>3, <1>4, <1>5 DEF ProgressIsTrue

-----------------------------------------------------------------------------
(* Trading statistics. *)

\* P divides S among the members of K, and g adds f up over each part.
SplitsInto(K, S, P, f, g) ==
    /\ IsFiniteSet(K) /\ IsFiniteSet(S)
    /\ \A x \in S : f[x] \in Int /\ \E k \in K : x \in P[k]
    /\ \A k \in K : P[k] \subseteq S /\ g[k] = SumOver(f, P[k])
    /\ \A k, l \in K : k # l => P[k] \intersect P[l] = {}

LEMMA SplitAddsUp ==
    ASSUME NEW K, NEW S, NEW P, NEW f, NEW g, SplitsInto(K, S, P, f, g)
    PROVE  SumOver(g, K) = SumOver(f, S)
<1> DEFINE Parts(s) == UNION {P[k] : k \in s}
           a == [s \in SUBSET K |-> SumOver(f, Parts(s))]
<1>1. Parts({}) = {}
  OBVIOUS
<1>2. Parts(K) = S
  BY DEF SplitsInto
<1>3. ASSUME NEW s \in SUBSET K, NEW k \in s
      PROVE  a[s] = g[k] + a[s \ {k}]
  <2> DEFINE rest == Parts(s \ {k})
  <2>1. Parts(s) = P[k] \union rest
    BY <1>3
  <2>2. P[k] \subseteq S /\ rest \subseteq S /\ P[k] \intersect rest = {}
    BY <1>3 DEF SplitsInto
  <2>3. \A x \in S : f[x] \in Int
    BY DEF SplitsInto
  <2>4. a[s] = SumOver(f, Parts(s)) /\ a[s \ {k}] = SumOver(f, rest) /\ g[k] = SumOver(f, P[k])
    BY <1>3 DEF SplitsInto
  <2>5. IsFiniteSet(P[k]) /\ IsFiniteSet(rest)
    <3> HIDE DEF rest
    <3> QED
      BY <2>2, FS_Subset DEF SplitsInto
  <2> HIDE DEF rest, a, Parts
  <2>6. SumOver(f, P[k] \union rest) = SumOver(f, P[k]) + SumOver(f, rest)
    <3>1. \A x \in P[k] \union rest : f[x] \in Int
      BY <2>2, <2>3
    <3> QED
      BY <2>2, <2>5, <3>1, SumUnion
  <2> QED
    BY <2>1, <2>4, <2>6
<1>4. a = [s \in SUBSET K |-> a[s]] /\ a[{}] = 0 /\ a[K] = SumOver(f, S)
  <2>1. a[{}] = SumOver(f, {}) /\ a[K] = SumOver(f, S)
    BY <1>1, <1>2
  <2> QED
    BY <2>1, SumEmpty
<1> HIDE DEF a
<1>5. FoldsOver(a, g, K)
  BY <1>3, <1>4, PickIn DEF FoldsOver
<1>6. SumOver(g, K) = a[K]
  BY <1>5, FoldsAreSums DEF SplitsInto
<1> QED
  BY <1>4, <1>6

\* What the statistics of a set of trades are made of.
LEMMA TradeIs ==
    ASSUME NEW S \in SUBSET Blotter
    PROVE  \A t \in S : /\ t.pnl \in Int /\ t.fee \in Nat /\ t.opened \in Nat /\ t.hold \in Nat
                        /\ t.price \in Int
                        /\ t.account \in OwnedAccounts /\ t.side \in Sides
                        /\ Pnl[t] = t.pnl /\ Fee[t] = t.fee
BY AnalyticsAssumption DEF Pnl, Fee

Ones == [t \in Blotter |-> 1]
Wins == [t \in Blotter |-> IF t.pnl > 0 THEN 1 ELSE 0]
Losses == [t \in Blotter |-> IF t.pnl < 0 THEN 1 ELSE 0]

\* What a figure of the statistics adds up, trade by trade.
FigureColumn ==
    [trades |-> Ones, wins |-> Wins, losses |-> Losses, net |-> Pnl, commission |-> Fee]

LEMMA FiguresAreSums ==
    ASSUME NEW S \in SUBSET Blotter, IsFiniteSet(S),
           NEW figure \in {"trades", "wins", "losses", "net", "commission"}
    PROVE  /\ ComputeTradeStats(S)[figure] = SumOver(FigureColumn[figure], S)
           /\ \A t \in S : FigureColumn[figure][t] \in Int
<1>1. CASE figure = "trades"
  <2>1. \A t \in S : Ones[t] = 1
    BY DEF Ones
  <2>2. SumOver(Ones, S) = 1 * Cardinality(S)
    BY <2>1, SumOfSame
  <2>3. Cardinality(S) \in Nat
    BY FS_CardinalityType
  <2> QED
    BY <1>1, <2>1, <2>2, <2>3 DEF ComputeTradeStats, FigureColumn
<1>2. CASE figure = "wins"
  <2>1. \A t \in S : Wins[t] \in {0, 1} /\ (Wins[t] = 1 <=> t.pnl > 0)
    BY DEF Wins
  <2>2. SumOver(Wins, S) = Cardinality({t \in S : Wins[t] = 1})
    BY <2>1, SumOfOnes
  <2>3. {t \in S : Wins[t] = 1} = {t \in S : t.pnl > 0}
    BY <2>1
  <2>4. FigureColumn[figure] = Wins
    BY <1>2 DEF FigureColumn
  <2>5. ComputeTradeStats(S)[figure] = Cardinality({t \in S : t.pnl > 0})
    BY <1>2 DEF ComputeTradeStats
  <2>6. \A t \in S : Wins[t] \in Int
    BY <2>1
  <2> QED
    BY <2>2, <2>3, <2>4, <2>5, <2>6
<1>3. CASE figure = "losses"
  <2>1. \A t \in S : Losses[t] \in {0, 1} /\ (Losses[t] = 1 <=> t.pnl < 0)
    BY DEF Losses
  <2>2. SumOver(Losses, S) = Cardinality({t \in S : Losses[t] = 1})
    BY <2>1, SumOfOnes
  <2>3. {t \in S : Losses[t] = 1} = {t \in S : t.pnl < 0}
    BY <2>1
  <2>4. FigureColumn[figure] = Losses
    BY <1>3 DEF FigureColumn
  <2>5. ComputeTradeStats(S)[figure] = Cardinality({t \in S : t.pnl < 0})
    BY <1>3 DEF ComputeTradeStats
  <2>6. \A t \in S : Losses[t] \in Int
    BY <2>1
  <2> QED
    BY <2>2, <2>3, <2>4, <2>5, <2>6
<1>4. CASE figure = "net"
  BY <1>4, TradeIs DEF ComputeTradeStats, FigureColumn
<1>5. CASE figure = "commission"
  BY <1>5, TradeIs DEF ComputeTradeStats, FigureColumn
<1> QED
  BY <1>1, <1>2, <1>3, <1>4, <1>5

\* A report that draws its statistics from disjoint parts adds up to the whole.
LEMMA PartsMakeTheWhole ==
    ASSUME NEW S \in SUBSET Blotter, IsFiniteSet(S), NEW K, IsFiniteSet(K),
           NEW P, \A k \in K : P[k] \in SUBSET S,
           \A t \in S : \E k \in K : t \in P[k],
           \A k, l \in K : k # l => P[k] \intersect P[l] = {}
    PROVE  Partition([k \in K |-> ComputeTradeStats(P[k])], ComputeTradeStats(S))
<1> DEFINE parts == [k \in K |-> ComputeTradeStats(P[k])]
<1>1. SUFFICES ASSUME NEW figure \in {"trades", "wins", "losses", "net", "commission"}
               PROVE  SumOver([k \in DOMAIN parts |-> parts[k][figure]], DOMAIN parts)
                          = ComputeTradeStats(S)[figure]
  BY DEF Partition
<1> DEFINE f == FigureColumn[figure]
           g == [k \in K |-> parts[k][figure]]
<1>2. DOMAIN parts = K /\ [k \in DOMAIN parts |-> parts[k][figure]] = g
  OBVIOUS
<1>3. \A k \in K : g[k] = SumOver(f, P[k])
  <2> TAKE k \in K
  <2>1. P[k] \in SUBSET Blotter /\ IsFiniteSet(P[k])
    BY FS_Subset
  <2>2. ComputeTradeStats(P[k])[figure] = SumOver(f, P[k])
    BY <2>1, FiguresAreSums
  <2> HIDE DEF f
  <2> QED
    BY <2>2
<1>4. SplitsInto(K, S, P, f, g)
  <2>1. \A t \in S : f[t] \in Int
    BY FiguresAreSums
  <2> HIDE DEF f, g
  <2> QED
    BY <1>3, <2>1 DEF SplitsInto
<1>5. SumOver(g, K) = SumOver(f, S)
  BY <1>4, SplitAddsUp
<1>6. ComputeTradeStats(S)[figure] = SumOver(f, S)
  BY FiguresAreSums
<1> HIDE DEF f, g, parts
<1> QED
  BY <1>2, <1>5, <1>6
LEMMA StatsOf ==
    ASSUME NEW S \in SUBSET Blotter
    PROVE  LET won == {t \in S : t.pnl > 0}
               lost == {t \in S : t.pnl < 0}
               whole == ComputeTradeStats(S) IN
           /\ whole.trades = Cardinality(S) /\ whole.wins = Cardinality(won)
           /\ whole.losses = Cardinality(lost)
           /\ whole.scratches = Cardinality({t \in S : t.pnl = 0})
           /\ whole.net = SumOver(Pnl, S) /\ whole.grossProfit = SumOver(Pnl, won)
           /\ whole.grossLoss = -SumOver(Pnl, lost)
           /\ whole.averageWin = MeanMinor(won) /\ whole.averageLoss = MeanMinor(lost)
           /\ won # {} => whole.largestWin = Max({t.pnl : t \in won})
           /\ lost # {} => whole.largestLoss = Min({t.pnl : t \in lost})
BY DEF ComputeTradeStats

LEMMA DisjointCount ==
    ASSUME NEW S, IsFiniteSet(S), NEW T, IsFiniteSet(T), S \intersect T = {}
    PROVE  Cardinality(S \union T) = Cardinality(S) + Cardinality(T)
<1>1. Cardinality(S \union T) = Cardinality(S) + Cardinality(T) - Cardinality(S \intersect T)
  BY FS_Union
<1>2. Cardinality(S \intersect T) = 0
  BY FS_EmptySet
<1>3. Cardinality(S) \in Nat /\ Cardinality(T) \in Nat
  BY FS_CardinalityType
<1> QED
  BY <1>1, <1>2, <1>3

\* A trade is won, lost or neither.
LEMMA OutcomesAddUp ==
    ASSUME NEW S \in SUBSET Blotter, IsFiniteSet(S)
    PROVE  LET whole == ComputeTradeStats(S) IN
           /\ whole.wins + whole.losses + whole.scratches = whole.trades
           /\ whole.net = whole.grossProfit - whole.grossLoss
<1> DEFINE won == {t \in S : t.pnl > 0}
           lost == {t \in S : t.pnl < 0}
           even == {t \in S : t.pnl = 0}
<1>1. \A t \in S : t.pnl \in Int /\ Pnl[t] = t.pnl
  BY TradeIs
<1>2. /\ won \in SUBSET S /\ lost \in SUBSET S /\ even \in SUBSET S
      /\ won \intersect lost = {} /\ (won \union lost) \intersect even = {}
      /\ (won \union lost) \union even = S
  BY <1>1
<1>3. \A t \in even : Pnl[t] = 0
  BY <1>1
<1>4. /\ ComputeTradeStats(S).trades = Cardinality(S)
      /\ ComputeTradeStats(S).wins = Cardinality(won)
      /\ ComputeTradeStats(S).losses = Cardinality(lost)
      /\ ComputeTradeStats(S).scratches = Cardinality(even)
      /\ ComputeTradeStats(S).net = SumOver(Pnl, S)
      /\ ComputeTradeStats(S).grossProfit = SumOver(Pnl, won)
      /\ ComputeTradeStats(S).grossLoss = -SumOver(Pnl, lost)
  BY StatsOf
<1> HIDE DEF won, lost, even
<1>5. IsFiniteSet(won) /\ IsFiniteSet(lost) /\ IsFiniteSet(even) /\ IsFiniteSet(won \union lost)
  BY <1>2, FS_Subset, FS_Union
<1>6. Cardinality(won) \in Nat /\ Cardinality(lost) \in Nat /\ Cardinality(even) \in Nat
  BY <1>5, FS_CardinalityType
<1>7. Cardinality(won \union lost) = Cardinality(won) + Cardinality(lost)
  BY <1>2, <1>5, <1>6, DisjointCount
<1>8. Cardinality(S) = Cardinality(won \union lost) + Cardinality(even)
  BY <1>2, <1>5, DisjointCount
<1>9. SumOver(Pnl, won) \in Int /\ SumOver(Pnl, lost) \in Int
  BY <1>1, <1>2, <1>5, SumIsInt
<1>10. SumOver(Pnl, won \union lost) = SumOver(Pnl, won) + SumOver(Pnl, lost)
  <2>1. \A t \in won \union lost : Pnl[t] \in Int
    BY <1>1, <1>2
  <2> QED
    BY <1>2, <1>5, <2>1, SumUnion
<1>11. SumOver(Pnl, S) = SumOver(Pnl, won \union lost) + SumOver(Pnl, even)
  <2>1. \A t \in (won \union lost) \union even : Pnl[t] \in Int
    BY <1>1, <1>2
  <2> QED
    BY <1>2, <1>5, <2>1, SumUnion
<1>12. SumOver(Pnl, even) = 0
  BY <1>3, <1>5, SumOfZeros
<1> QED
  BY <1>4, <1>6, <1>7, <1>8, <1>9, <1>10, <1>11, <1>12

\* Largest and least of finitely many integers.
LEMMA ExtremesAre ==
    ASSUME NEW S, IsFiniteSet(S), S # {}, \A n \in S : n \in Int
    PROVE  /\ Max(S) \in S /\ \A n \in S : n <= Max(S)
           /\ Min(S) \in S /\ \A n \in S : Min(S) <= n
<1>1. \E n \in S : \A m \in S : m <= n
  BY LargestExists
<1>2. \E n \in S : \A m \in S : n <= m
  <2> DEFINE minus == [n \in S |-> -n]
             T == {minus[n] : n \in S}
  <2>1. IsFiniteSet(T)
    <3> HIDE DEF minus
    <3> QED
      BY ImageFinite
  <2>2. T # {} /\ \A m \in T : m \in Int /\ -m \in S
    OBVIOUS
  <2>3. \A n \in S : -n \in T
    OBVIOUS
  <2> HIDE DEF T
  <2>4. PICK m \in T : \A k \in T : k <= m
    BY <2>1, <2>2, LargestExists
  <2>5. \A n \in S : -m <= n
    <3> TAKE n \in S
    <3>1. n \in Int /\ -n \in T /\ m \in Int /\ -n <= m
      BY <2>2, <2>3, <2>4
    <3> QED
      BY <3>1
  <2> QED
    BY <2>2, <2>4, <2>5
<1> QED
  BY <1>1, <1>2 DEF Max, Min

\* The mean of figures of one sign has that sign, and lies among them.
LEMMA MeanOfWins ==
    ASSUME NEW S \in SUBSET Blotter, IsFiniteSet(S), S # {}, \A t \in S : t.pnl > 0
    PROVE  0 < MeanMinor(S) /\ MeanMinor(S) <= Max({t.pnl : t \in S})
<1>1. \A t \in S : t.pnl \in Int /\ Pnl[t] = t.pnl
  BY TradeIs
<1>2. PICK n \in Nat \ {0} : n = Cardinality(S)
  BY FS_CardinalityType, FS_EmptySet
<1> DEFINE V == {t.pnl : t \in S}
           one == [t \in S |-> 1]
           most == [t \in S |-> Max(V)]
<1>3. V = {Pnl[t] : t \in S}
  BY <1>1
<1>4. IsFiniteSet(V) /\ V # {} /\ \A v \in V : v \in Int /\ v > 0
  BY <1>1, <1>3, ImageFinite
<1>5. \A t \in S : t.pnl \in V
  OBVIOUS
<1> HIDE DEF V
<1>6. PICK x \in Int : x = Max(V) /\ x > 0 /\ \A v \in V : v <= x
  BY <1>4, ExtremesAre
<1>7. SumOver(one, S) <= SumOver(Pnl, S) /\ SumOver(Pnl, S) <= SumOver(most, S)
  <2>1. \A t \in S : /\ one[t] \in Int /\ Pnl[t] \in Int /\ most[t] \in Int
                      /\ one[t] <= Pnl[t] /\ Pnl[t] <= most[t]
    BY <1>1, <1>5, <1>6
  <2> HIDE DEF one, most
  <2> QED
    BY <2>1, SumMonotone
<1>8. SumOver(one, S) = 1 * n /\ SumOver(most, S) = x * n
  <2>1. \A t \in S : one[t] = 1 /\ most[t] = x
    BY <1>6
  <2> HIDE DEF one, most
  <2> QED
    BY <1>2, <2>1, SumOfSame
<1>9. PICK s \in Int : s = SumOver(Pnl, S)
  BY <1>1, SumIsInt
<1> HIDE DEF one, most
<1>10. n <= s /\ s <= x * n
  BY <1>2, <1>7, <1>8, <1>9
<1>11. PICK q \in Nat, r \in 0 .. n - 1 : q = s \div n /\ s = n * q + r
  <2>1. s \in Nat
    BY <1>2, <1>9, <1>10
  <2>2. /\ s \div n \in Nat /\ s % n \in 0 .. n - 1
        /\ s = n * (s \div n) + (s % n)
    BY <1>2, <2>1, Division
  <2> QED
    BY <2>2
<1>12. MeanMinor(S) = q
  <2>1. MeanMinor(S) = Quotient(s, n)
    BY <1>2, <1>9 DEF MeanMinor
  <2> QED
    BY <1>2, <1>9, <1>10, <1>11, <2>1 DEF Quotient
<1>13. q > 0
  BY <1>2, <1>10, <1>11
<1>14. q <= x
  <2>1. SUFFICES ASSUME x + 1 <= q PROVE FALSE
    BY <1>6, <1>11
  <2>2. n * (x + 1) <= n * q
    BY <1>2, <1>6, <1>11, <2>1, TimesGrows
  <2>3. n * (x + 1) = x * n + n
    BY <1>2, <1>6
  <2>4. n * q \in Int /\ x * n \in Int
    BY <1>2, <1>6, <1>11
  <2> QED
    BY <1>2, <1>9, <1>10, <1>11, <2>2, <2>3, <2>4
<1> QED
  BY <1>6, <1>11, <1>12, <1>13, <1>14 DEF V

LEMMA MeanOfLosses ==
    ASSUME NEW S \in SUBSET Blotter, IsFiniteSet(S), S # {}, \A t \in S : t.pnl < 0
    PROVE  0 > MeanMinor(S) /\ MeanMinor(S) >= Min({t.pnl : t \in S})
<1>1. \A t \in S : t.pnl \in Int /\ Pnl[t] = t.pnl
  BY TradeIs
<1>2. PICK n \in Nat \ {0} : n = Cardinality(S)
  BY FS_CardinalityType, FS_EmptySet
<1> DEFINE V == {t.pnl : t \in S}
           one == [t \in S |-> -1]
           most == [t \in S |-> Min(V)]
<1>3. V = {Pnl[t] : t \in S}
  BY <1>1
<1>4. IsFiniteSet(V) /\ V # {} /\ \A v \in V : v \in Int /\ v < 0
  BY <1>1, <1>3, ImageFinite
<1>5. \A t \in S : t.pnl \in V
  OBVIOUS
<1> HIDE DEF V
<1>6. PICK x \in Int : x = Min(V) /\ x < 0 /\ \A v \in V : x <= v
  BY <1>4, ExtremesAre
<1>7. SumOver(Pnl, S) <= SumOver(one, S) /\ SumOver(most, S) <= SumOver(Pnl, S)
  <2>1. \A t \in S : /\ one[t] \in Int /\ Pnl[t] \in Int /\ most[t] \in Int
                      /\ Pnl[t] <= one[t] /\ most[t] <= Pnl[t]
    BY <1>1, <1>5, <1>6
  <2> HIDE DEF one, most
  <2> QED
    BY <2>1, SumMonotone
<1>8. SumOver(one, S) = (-1) * n /\ SumOver(most, S) = x * n
  <2>1. \A t \in S : one[t] = -1 /\ most[t] = x
    BY <1>6
  <2>2. -1 \in Int
    OBVIOUS
  <2> HIDE DEF one, most
  <2> QED
    BY <1>2, <2>1, <2>2, SumOfSame
<1>9. PICK s \in Int : s = SumOver(Pnl, S)
  BY <1>1, SumIsInt
<1> HIDE DEF one, most
<1>10. s <= -n /\ x * n <= s /\ x * n = -((-x) * n)
  BY <1>2, <1>6, <1>7, <1>8, <1>9
<1>11. PICK m \in Nat, z \in Nat : m = -s /\ z = -x /\ m >= n /\ m <= z * n
  BY <1>2, <1>6, <1>9, <1>10
<1>12. PICK q \in Nat, r \in 0 .. n - 1 : q = m \div n /\ m = n * q + r
  <2>1. m \in Nat
    BY <1>2, <1>11
  <2>2. /\ m \div n \in Nat /\ m % n \in 0 .. n - 1
        /\ m = n * (m \div n) + (m % n)
    BY <1>2, <2>1, Division
  <2> QED
    BY <2>2
<1>13. MeanMinor(S) = -q
  <2>1. MeanMinor(S) = Quotient(s, n)
    BY <1>2, <1>9 DEF MeanMinor
  <2>2. ~ (s >= 0)
    BY <1>2, <1>9, <1>10
  <2> QED
    BY <1>9, <1>11, <1>12, <2>1, <2>2 DEF Quotient
<1>14. q > 0
  BY <1>2, <1>11, <1>12
<1>15. q <= z
  <2>1. SUFFICES ASSUME z + 1 <= q PROVE FALSE
    BY <1>11, <1>12
  <2>2. n * (z + 1) <= n * q
    BY <1>2, <1>11, <1>12, <2>1, TimesGrows
  <2>3. n * (z + 1) = z * n + n
    BY <1>2, <1>11
  <2>4. n * q \in Int /\ z * n \in Int
    BY <1>2, <1>11, <1>12
  <2> QED
    BY <1>2, <1>11, <1>12, <2>2, <2>3, <2>4
<1> QED
  BY <1>6, <1>11, <1>12, <1>13, <1>14, <1>15 DEF V

LEMMA SplitIsWhole ==
    ASSUME NEW S \in SUBSET Blotter, IsFiniteSet(S), NEW key, DOMAIN key = S
    PROVE  Partition(SplitBy(key, S), ComputeTradeStats(S))
<1> DEFINE K == {key[t] : t \in S}
           P == [k \in K |-> {t \in S : key[t] = k}]
<1>1. IsFiniteSet(K)
  BY ImageFinite
<1>2. /\ \A k \in K : P[k] \in SUBSET S
      /\ \A t \in S : \E k \in K : t \in P[k]
      /\ \A k, l \in K : k # l => P[k] \intersect P[l] = {}
  OBVIOUS
<1>3. SplitBy(key, S) = [k \in K |-> ComputeTradeStats(P[k])]
  BY DEF SplitBy
<1> HIDE DEF P, K
<1>4. Partition([k \in K |-> ComputeTradeStats(P[k])], ComputeTradeStats(S))
  BY <1>1, <1>2, PartsMakeTheWhole
<1> QED
  BY <1>3, <1>4

LEMMA SidesAreTheWhole ==
    ASSUME NEW S \in SUBSET Blotter, IsFiniteSet(S)
    PROVE  Partition(BySide(S), ComputeTradeStats(S))
<1> DEFINE P == [k \in Sides |-> {t \in S : t.side = k}]
<1>1. IsFiniteSet(Sides)
  <2>1. IsFiniteSet({"LONG"}) /\ IsFiniteSet({"SHORT"})
    BY FS_Singleton
  <2>2. Sides = {"LONG"} \union {"SHORT"}
    BY DEF Sides
  <2> QED
    BY <2>1, <2>2, FS_Union
<1>2. /\ \A k \in Sides : P[k] \in SUBSET S
      /\ \A t \in S : \E k \in Sides : t \in P[k]
      /\ \A k, l \in Sides : k # l => P[k] \intersect P[l] = {}
  BY TradeIs
<1>3. BySide(S) = [k \in Sides |-> ComputeTradeStats(P[k])]
  BY DEF BySide
<1> HIDE DEF P
<1>4. Partition([k \in Sides |-> ComputeTradeStats(P[k])], ComputeTradeStats(S))
  BY <1>1, <1>2, PartsMakeTheWhole
<1> QED
  BY <1>3, <1>4

LEMMA HourIs ==
    ASSUME NEW S \in SUBSET Blotter
    PROVE  \A t \in S : Hour(t) \in 0 .. 23
<1> TAKE t \in S
<1>1. t.opened \in Nat /\ ReportZone \in Int
  BY TradeIs, AnalyticsAssumption
<1>2. PICK n \in Int : n = t.opened \div 3600 + ReportZone
  BY <1>1
<1>3. n % 24 \in 0 .. 23
  BY <1>2
<1> QED
  BY <1>2, <1>3 DEF Hour

\* Every lasting trade is in one bucket, and in no other.
LEMMA DurationsAddUp ==
    ASSUME NEW S \in SUBSET Blotter, IsFiniteSet(S)
    PROVE  SumOver(DurationDistribution(S), 1 .. 5) = Cardinality({t \in S : t.hold > 0})
<1> DEFINE L == {t \in S : t.hold > 0}
           P == [b \in 1 .. 5 |->
                   {t \in S : /\ t.hold > IF b = 1 THEN 0 ELSE DurationBounds[b - 1]
                              /\ b < 5 => t.hold <= DurationBounds[b]}]
           D == DurationDistribution(S)
<1>1. /\ DurationBounds[1] = 60 /\ DurationBounds[2] = 300
      /\ DurationBounds[3] = 1800 /\ DurationBounds[4] = 7200
  BY DEF DurationBounds
<1>2. \A t \in S : t.hold \in Nat
  BY TradeIs
<1>3. /\ P[1] = {t \in S : t.hold > 0 /\ t.hold <= 60}
      /\ P[2] = {t \in S : t.hold > 60 /\ t.hold <= 300}
      /\ P[3] = {t \in S : t.hold > 300 /\ t.hold <= 1800}
      /\ P[4] = {t \in S : t.hold > 1800 /\ t.hold <= 7200}
      /\ P[5] = {t \in S : t.hold > 7200}
  BY <1>1
<1>4. \A b \in 1 .. 5 : D[b] = Cardinality(P[b])
  BY DEF DurationDistribution
<1>5. L \in SUBSET S
  OBVIOUS
<1>6. \A t \in L : \E b \in 1 .. 5 : t \in P[b]
  <2> TAKE t \in L
  <2>1. t \in S /\ t.hold \in Nat /\ t.hold > 0
    BY <1>2
  <2>2. t \in P[1] \/ t \in P[2] \/ t \in P[3] \/ t \in P[4] \/ t \in P[5]
    <3> HIDE DEF P
    <3> QED
      BY <1>3, <2>1
  <2> HIDE DEF P
  <2> QED
    BY <2>2
<1>7. \A b \in 1 .. 5 : b = 1 \/ b = 2 \/ b = 3 \/ b = 4 \/ b = 5
  OBVIOUS
<1>8. \A b \in 1 .. 5 : P[b] \in SUBSET L
  <2>1. P[1] \subseteq L /\ P[2] \subseteq L /\ P[3] \subseteq L /\ P[4] \subseteq L /\ P[5] \subseteq L
    <3> HIDE DEF P
    <3> QED
      BY <1>2, <1>3
  <2> HIDE DEF P, L
  <2> QED
    BY <1>7, <2>1
<1>9. \A b, c \in 1 .. 5 : b < c => P[b] \intersect P[c] = {}
  <2> HIDE DEF P
  <2>1. \A t \in S : t \notin P[1] \intersect P[2] /\ t \notin P[1] \intersect P[3]
                     /\ t \notin P[1] \intersect P[4] /\ t \notin P[1] \intersect P[5]
    BY <1>2, <1>3
  <2>2. \A t \in S : t \notin P[2] \intersect P[3] /\ t \notin P[2] \intersect P[4]
                     /\ t \notin P[2] \intersect P[5]
    BY <1>2, <1>3
  <2>3. \A t \in S : t \notin P[3] \intersect P[4] /\ t \notin P[3] \intersect P[5]
                     /\ t \notin P[4] \intersect P[5]
    BY <1>2, <1>3
  <2>4. \A b \in 1 .. 5 : P[b] \subseteq S
    BY <1>5, <1>8
  <2> SUFFICES ASSUME NEW b \in 1 .. 5, NEW c \in 1 .. 5, b < c
               PROVE  \A t \in S : t \notin P[b] \intersect P[c]
    BY <2>4
  <2>5. CASE b = 1
    BY <2>1, <2>5, <1>7
  <2>6. CASE b = 2
    BY <2>2, <2>6, <1>7
  <2>7. CASE b = 3 \/ b = 4
    BY <2>3, <2>7, <1>7
  <2> QED
    BY <1>7, <2>5, <2>6, <2>7
<1>10. \A b, c \in 1 .. 5 : b # c => P[b] \intersect P[c] = {}
  <2> HIDE DEF P
  <2> TAKE b, c \in 1 .. 5
  <2>1. b # c => b < c \/ c < b
    OBVIOUS
  <2> QED
    BY <1>9, <2>1
<1> HIDE DEF P, L
<1>11. IsFiniteSet(L) /\ IsFiniteSet(1 .. 5)
  <2>1. 1 \in Int /\ 5 \in Int
    OBVIOUS
  <2> QED
    BY <1>5, <2>1, FS_Subset, FS_Interval
<1>12. \A T \in SUBSET L : IsFiniteSet(T) /\ SumOver(Ones, T) = Cardinality(T)
  <2> TAKE T \in SUBSET L
  <2>1. IsFiniteSet(T) /\ T \in SUBSET Blotter
    BY <1>5, <1>11, FS_Subset
  <2>2. \A t \in T : Ones[t] = 1
    BY <2>1 DEF Ones
  <2>3. SumOver(Ones, T) = 1 * Cardinality(T)
    BY <2>1, <2>2, SumOfSame
  <2> QED
    BY <2>1, <2>3, FS_CardinalityType
<1>13. SplitsInto(1 .. 5, L, P, Ones, D)
  <2>1. \A t \in L : Ones[t] \in Int
    BY <1>5 DEF Ones
  <2>2. \A b \in 1 .. 5 : P[b] \subseteq L /\ D[b] = SumOver(Ones, P[b])
    BY <1>4, <1>8, <1>12
  <2> HIDE DEF D
  <2> QED
    BY <1>6, <1>10, <1>11, <2>1, <2>2 DEF SplitsInto
<1>14. SumOver(D, 1 .. 5) = SumOver(Ones, L)
  BY <1>13, SplitAddsUp
<1> QED
  BY <1>12, <1>14 DEF L

LEMMA StatsAgree ==
    ASSUME IsFiniteSet(ToSet(tape)), ToSet(tape) \subseteq Blotter
    PROVE  StatsAddUp
<1> DEFINE S == ToSet(tape)
           won == {t \in S : t.pnl > 0}
           lost == {t \in S : t.pnl < 0}
           whole == ComputeTradeStats(S)
<1>1. /\ whole.wins + whole.losses + whole.scratches = whole.trades
      /\ whole.net = whole.grossProfit - whole.grossLoss
  BY OutcomesAddUp
<1>2. Partition(BySide(S), whole)
  BY SidesAreTheWhole
<1>3. Partition(BySymbol(S), whole) /\ Partition(ByHour(S), whole)
  <2>1. DOMAIN [t \in S |-> t.symbol] = S /\ DOMAIN [t \in S |-> Hour(t)] = S
    OBVIOUS
  <2> HIDE DEF S
  <2> QED
    BY <2>1, SplitIsWhole DEF BySymbol, ByHour, S
<1>4. DOMAIN ByHour(S) \subseteq 0 .. 23
  <2>1. DOMAIN ByHour(S) = {[t \in S |-> Hour(t)][u] : u \in S}
    BY DEF ByHour, SplitBy
  <2> QED
    BY <2>1, HourIs
<1>5. SumOver(DurationDistribution(S), 1 .. 5) = Cardinality({t \in S : t.hold > 0})
  BY DurationsAddUp
<1>6. IsFiniteSet(won) /\ IsFiniteSet(lost) /\ won \in SUBSET Blotter /\ lost \in SUBSET Blotter
  BY FS_Subset
<1>7. /\ whole.wins = Cardinality(won) /\ whole.losses = Cardinality(lost)
      /\ whole.averageWin = MeanMinor(won) /\ whole.averageLoss = MeanMinor(lost)
      /\ won # {} => whole.largestWin = Max({t.pnl : t \in won})
      /\ lost # {} => whole.largestLoss = Min({t.pnl : t \in lost})
  BY StatsOf
<1>8. whole.wins > 0 => 0 < whole.averageWin /\ whole.averageWin <= whole.largestWin
  <2>1. SUFFICES ASSUME Cardinality(won) > 0
                 PROVE  0 < whole.averageWin /\ whole.averageWin <= whole.largestWin
    BY <1>7
  <2>2. won # {} /\ \A t \in won : t.pnl > 0
    BY <2>1, FS_EmptySet
  <2> HIDE DEF won, whole
  <2>3. 0 < MeanMinor(won) /\ MeanMinor(won) <= Max({t.pnl : t \in won})
    BY <1>6, <2>2, MeanOfWins
  <2> QED
    BY <1>7, <2>2, <2>3
<1>9. whole.losses > 0 => 0 > whole.averageLoss /\ whole.averageLoss >= whole.largestLoss
  <2>1. SUFFICES ASSUME Cardinality(lost) > 0
                 PROVE  0 > whole.averageLoss /\ whole.averageLoss >= whole.largestLoss
    BY <1>7
  <2>2. lost # {} /\ \A t \in lost : t.pnl < 0
    BY <2>1, FS_EmptySet
  <2> HIDE DEF lost, whole
  <2>3. 0 > MeanMinor(lost) /\ MeanMinor(lost) >= Min({t.pnl : t \in lost})
    BY <1>6, <2>2, MeanOfLosses
  <2> QED
    BY <1>7, <2>2, <2>3
<1> QED
  BY <1>1, <1>2, <1>3, <1>4, <1>5, <1>8, <1>9 DEF StatsAddUp

-----------------------------------------------------------------------------
(* The rows of the console, and shared addresses. *)

\* Each trade has one row.  What a profile holds is of any kind: only the text
\* of its first three parts is looked at.
AnalyticsFacts ==
    /\ tape \in Seq(Blotter)
    /\ \A i, j \in DOMAIN tape : tape[i] = tape[j] => i = j

LEMMA AnalyticsStart == AnalyticsInit => AnalyticsFacts
BY DEF AnalyticsInit, AnalyticsFacts

LEMMA AnalyticsStep ==
    AnalyticsFacts /\ [AnalyticsNext]_analyticsVars => AnalyticsFacts'
<1> SUFFICES ASSUME AnalyticsFacts, [AnalyticsNext]_analyticsVars
             PROVE  AnalyticsFacts'
  OBVIOUS
<1>1. CASE CloseTrade
  <2>1. PICK t \in Blotter \ ToSet(tape) : tape' = Append(tape, t)
    BY <1>1 DEF CloseTrade
  <2>2. /\ tape \in Seq(Blotter) /\ DOMAIN tape = 1 .. Len(tape) /\ Len(tape) \in Nat
        /\ \A i, j \in DOMAIN tape : tape[i] = tape[j] => i = j
    BY DEF AnalyticsFacts
  <2>3. /\ tape' \in Seq(Blotter) /\ DOMAIN tape' = 1 .. Len(tape) + 1
        /\ tape'[Len(tape) + 1] = t
        /\ \A i \in DOMAIN tape : tape'[i] = tape[i]
    BY <2>1, <2>2, AppendProperties
  <2>4. \A i \in DOMAIN tape : tape[i] # t
    BY <2>1 DEF ToSet
  <2>5. \A i \in DOMAIN tape' : i \in DOMAIN tape \/ i = Len(tape) + 1
    BY <2>2, <2>3
  <2> QED
    BY <2>2, <2>3, <2>4, <2>5 DEF AnalyticsFacts
<1>2. CASE CorrectAddress \/ UNCHANGED analyticsVars
  BY <1>2 DEF CorrectAddress, analyticsVars, AnalyticsFacts
<1> QED
  BY <1>1, <1>2 DEF AnalyticsNext

LEMMA TapeIs ==
    ASSUME AnalyticsFacts
    PROVE  /\ Len(tape) \in Nat /\ DOMAIN tape = 1 .. Len(tape)
           /\ IsFiniteSet(DOMAIN tape)
           /\ \A i \in DOMAIN tape : tape[i] \in Blotter
           /\ ToSet(tape) = {tape[i] : i \in DOMAIN tape}
           /\ IsFiniteSet(ToSet(tape)) /\ ToSet(tape) \subseteq Blotter
<1>1. tape \in Seq(Blotter)
  BY DEF AnalyticsFacts
<1>2. Len(tape) \in Nat /\ DOMAIN tape = 1 .. Len(tape) /\ \A i \in DOMAIN tape : tape[i] \in Blotter
  BY <1>1
<1>3. IsFiniteSet(DOMAIN tape)
  <2>1. 1 \in Int /\ Len(tape) \in Int
    BY <1>2
  <2> QED
    BY <1>2, <2>1, FS_Interval
<1>4. ToSet(tape) = {tape[i] : i \in DOMAIN tape}
  BY DEF ToSet
<1> QED
  BY <1>2, <1>3, <1>4, ImageFinite

\* Two members make a group of more than one.
LEMMA PairCounts ==
    ASSUME NEW S, IsFiniteSet(S), NEW a \in S, NEW b \in S, a # b
    PROVE  Cardinality(S) > 1
<1>1. IsFiniteSet({a}) /\ Cardinality({a}) = 1
  BY FS_Singleton
<1>2. Cardinality({a}) <= Cardinality(S) /\ (Cardinality(S) = Cardinality({a}) => S = {a})
  BY FS_Subset
<1> QED
  BY <1>1, <1>2, FS_CardinalityType

\* A part of an address comes to one word, or to none when it is empty.
LEMMA WordsIs ==
    ASSUME NEW part, NEW S, part[1] \in S
    PROVE  Words(part) \in Seq(S) /\ (Words(part) = <<>> <=> part[1] = "")
<1>1. CASE part[1] = ""
  <2>1. <<>> \in Seq(S)
    BY EmptySeq
  <2> QED
    BY <1>1, <2>1 DEF Words
<1>2. CASE part[1] # ""
  <2>1. PICK w \in S : w = part[1]
    OBVIOUS
  <2>2. Words(part) = <<w>>
    BY <1>2, <2>1 DEF Words
  <2>3. <<w>> \in Seq(S) /\ <<w>> # <<>>
    BY <2>1
  <2> QED
    BY <1>2, <2>2, <2>3
<1> QED
  BY <1>1, <1>2

LEMMA NothingFromNothing ==
    ASSUME NEW S, NEW x \in Seq(S), NEW y \in Seq(S), NEW z \in Seq(S)
    PROVE  x \o y \o z = <<>> <=> (x = <<>> /\ y = <<>> /\ z = <<>>)
<1>1. x \o y \in Seq(S)
  BY ConcatProperties
<1>2. (x \o y) \o z \in Seq(S)
  BY <1>1, ConcatProperties
<1>3. Len(x \o y) = Len(x) + Len(y) /\ Len((x \o y) \o z) = Len(x \o y) + Len(z)
  BY <1>1, ConcatProperties
<1>4. \A s \in Seq(S) : Len(s) \in Nat /\ (s = <<>> <=> Len(s) = 0)
  BY EmptySeq, LenProperties
<1> QED
  BY <1>1, <1>2, <1>3, <1>4

LEMMA AddressesAreSeen == SharedAddressIsSeen
<1> DEFINE key == [a \in OwnedAccounts |-> NormaliseAddress(address[Owners[a]])]
<1>1. \A p : (\A i \in 1 .. 3 : p[i][1] = "") <=> NormaliseAddress(p) = <<>>
  <2> TAKE p
  <2> DEFINE S == {p[1][1], p[2][1], p[3][1]}
  <2>1. p[1][1] \in S /\ p[2][1] \in S /\ p[3][1] \in S
    OBVIOUS
  <2> HIDE DEF S
  <2>2. PICK x \in Seq(S) : x = Words(p[1]) /\ (x = <<>> <=> p[1][1] = "")
    BY <2>1, WordsIs
  <2>3. PICK y \in Seq(S) : y = Words(p[2]) /\ (y = <<>> <=> p[2][1] = "")
    BY <2>1, WordsIs
  <2>4. PICK z \in Seq(S) : z = Words(p[3]) /\ (z = <<>> <=> p[3][1] = "")
    BY <2>1, WordsIs
  <2>5. NormaliseAddress(p) = x \o y \o z
    BY <2>2, <2>3, <2>4 DEF NormaliseAddress
  <2>6. x \o y \o z = <<>> <=> (x = <<>> /\ y = <<>> /\ z = <<>>)
    BY NothingFromNothing
  <2>7. (\A i \in 1 .. 3 : p[i][1] = "") <=> (p[1][1] = "" /\ p[2][1] = "" /\ p[3][1] = "")
    <3>1. \A i \in 1 .. 3 : i = 1 \/ i = 2 \/ i = 3
      OBVIOUS
    <3>2. 1 \in 1 .. 3 /\ 2 \in 1 .. 3 /\ 3 \in 1 .. 3
      OBVIOUS
    <3> QED
      BY <3>1, <3>2, Zenon
  <2> QED
    BY <2>2, <2>3, <2>4, <2>5, <2>6, <2>7
<1>2. \A p, q : (\A i \in 1 .. 3 : p[i][1] = q[i][1]) => NormaliseAddress(p) = NormaliseAddress(q)
  <2> TAKE p, q
  <2> HAVE \A i \in 1 .. 3 : p[i][1] = q[i][1]
  <2>1. p[1][1] = q[1][1] /\ p[2][1] = q[2][1] /\ p[3][1] = q[3][1]
    OBVIOUS
  <2> QED
    BY <2>1 DEF NormaliseAddress, Words
<1>3. /\ \A a \in OwnedAccounts : key[a] = NormaliseAddress(address[Owners[a]])
      /\ FindOwnerSignals =
             {s \in SharedBy(Owners, {}) \union SharedBy(key, {<<>>}) : Cardinality(s) > 1}
  BY DEF FindOwnerSignals
<1> HIDE DEF key
<1>4. IsFiniteSet(OwnedAccounts)
  BY AnalyticsAssumption
<1> SUFFICES ASSUME NEW a \in OwnedAccounts, NEW b \in OwnedAccounts
             PROVE  LET here == address[Owners[a]]
                        there == address[Owners[b]]
                        empty == \A i \in 1 .. 3 : here[i][1] = ""
                        linked == \E s \in FindOwnerSignals : {a, b} \subseteq s IN
                    /\ (/\ a # b /\ ~empty
                        /\ \A i \in 1 .. 3 : here[i][1] = there[i][1]) => linked
                    /\ (empty /\ Owners[a] # Owners[b]) => ~linked
  BY DEF SharedAddressIsSeen
<1> DEFINE here == address[Owners[a]]
           there == address[Owners[b]]
<1>5. ASSUME a # b, ~ \A i \in 1 .. 3 : here[i][1] = "",
             \A i \in 1 .. 3 : here[i][1] = there[i][1]
      PROVE  \E s \in FindOwnerSignals : {a, b} \subseteq s
  <2> DEFINE s == {c \in OwnedAccounts : key[c] = key[a]}
  <2>1. key[a] = key[b] /\ key[a] # <<>>
    BY <1>1, <1>2, <1>3, <1>5
  <2>2. s \in SharedBy(key, {<<>>})
    BY <2>1 DEF SharedBy
  <2>3. a \in s /\ b \in s /\ s \in SUBSET OwnedAccounts
    BY <2>1
  <2> HIDE DEF s
  <2>4. Cardinality(s) > 1
    BY <1>4, <1>5, <2>3, FS_Subset, PairCounts
  <2> QED
    BY <1>3, <2>2, <2>3, <2>4
<1>6. ASSUME \A i \in 1 .. 3 : here[i][1] = "", Owners[a] # Owners[b],
             NEW s \in FindOwnerSignals, {a, b} \subseteq s
      PROVE  FALSE
  <2>1. key[a] = <<>>
    BY <1>1, <1>3, <1>6
  <2>2. s \notin SharedBy(key, {<<>>})
    BY <1>6, <2>1 DEF SharedBy
  <2>3. s \notin SharedBy(Owners, {})
    BY <1>6 DEF SharedBy
  <2> QED
    BY <1>3, <1>6, <2>2, <2>3
<1> QED
  BY <1>5, <1>6

-----------------------------------------------------------------------------
(* The rows in the order they were opened. *)

\* In a strict order of finitely many, each rank is held by one of them.
LEMMA RanksAreHeld ==
    ASSUME NEW I, IsFiniteSet(I), NEW ahead, OrdersStrictly(I, ahead)
    PROVE  /\ \A i \in I : Cardinality(ahead[i]) \in 0 .. Cardinality(I) - 1
           /\ \A i \in I : \A j \in ahead[i] : Cardinality(ahead[j]) < Cardinality(ahead[i])
           /\ \A k \in 0 .. Cardinality(I) - 1 : \E i \in I : Cardinality(ahead[i]) = k
<1>1. PICK n \in Nat : n = Cardinality(I)
  BY FS_CardinalityType
<1>2. \A i \in I : /\ ahead[i] \in SUBSET I /\ i \notin ahead[i]
                   /\ \A j \in ahead[i] : ahead[j] \subseteq ahead[i]
  BY DEF OrdersStrictly
<1>3. \A i \in I : IsFiniteSet(ahead[i]) /\ Cardinality(ahead[i]) \in Nat
  BY <1>2, FS_Subset, FS_CardinalityType
<1>4. ASSUME NEW i \in I
      PROVE  Cardinality(ahead[i]) \in 0 .. n - 1
  <2>1. ahead[i] \in SUBSET I /\ ahead[i] # I
    BY <1>2
  <2>2. Cardinality(ahead[i]) <= n /\ Cardinality(ahead[i]) # n
    BY <1>1, <2>1, FS_Subset
  <2> QED
    BY <1>1, <1>3, <2>2
<1>5. ASSUME NEW i \in I, NEW j \in ahead[i]
      PROVE  Cardinality(ahead[j]) < Cardinality(ahead[i])
  <2>1. j \in I /\ ahead[j] \in SUBSET ahead[i] /\ ahead[j] # ahead[i]
    BY <1>2
  <2>2. Cardinality(ahead[j]) <= Cardinality(ahead[i])
        /\ Cardinality(ahead[j]) # Cardinality(ahead[i])
    BY <1>3, <2>1, FS_Subset
  <2> QED
    BY <1>3, <2>1, <2>2
<1>6. ASSUME NEW k \in 0 .. n - 1
      PROVE  \E i \in I : Cardinality(ahead[i]) = k
  <2> DEFINE Below(m) == {i \in I : Cardinality(ahead[i]) < m}
  <2>1. k \in 0 .. n /\ k + 1 \in 0 .. n
    BY <1>1
  <2>2. Cardinality(Below(k)) = k /\ Cardinality(Below(k + 1)) = k + 1
    BY <1>1, <2>1, RanksFill
  <2>3. Below(k) # Below(k + 1)
    <3> HIDE DEF Below
    <3> QED
      BY <1>1, <2>2
  <2>4. PICK i \in I : i \in Below(k + 1) /\ i \notin Below(k)
    <3>1. \A i \in I : i \in Below(k) => i \in Below(k + 1)
      BY <1>1, <1>3
    <3> QED
      BY <2>3, <3>1
  <2> QED
    BY <1>1, <1>3, <2>4
<1> QED
  BY <1>1, <1>4, <1>5, <1>6

LEMMA OpeningsAreOrdered ==
    ASSUME AnalyticsFacts
    PROVE  OrdersStrictly(DOMAIN tape, [i \in DOMAIN tape |-> Ahead(tape, i)])
<1> DEFINE I == DOMAIN tape
           ahead == [i \in I |-> Ahead(tape, i)]
<1>1. \A i \in I : i \in Nat /\ tape[i].opened \in Nat
  BY TapeIs, TradeIs
<1>2. \A i, j \in I : j \in ahead[i] <=> \/ tape[j].opened < tape[i].opened
                                         \/ tape[j].opened = tape[i].opened /\ j < i
  BY DEF Ahead
<1>3. ahead \in [I -> SUBSET I]
  BY DEF Ahead
<1> HIDE DEF ahead, I
<1>4. \A i \in I : i \notin ahead[i]
  BY <1>1, <1>2
<1>5. \A i, j \in I : i # j => i \in ahead[j] \/ j \in ahead[i]
  BY <1>1, <1>2
<1>6. \A i \in I : \A j \in ahead[i] : ahead[j] \subseteq ahead[i]
  <2> TAKE i \in I
  <2> TAKE j \in ahead[i]
  <2>1. j \in I /\ ahead[j] \subseteq I
    BY <1>3
  <2>2. \A k \in ahead[j] : k \in ahead[i]
    BY <1>1, <1>2, <2>1
  <2> QED
    BY <2>2
<1> QED
  BY <1>3, <1>4, <1>5, <1>6 DEF OrdersStrictly, ahead, I

\* The sort loses no row and repeats none.
LEMMA SortedIs ==
    ASSUME AnalyticsFacts
    PROVE  LET sorted == ByOpening(tape) IN
           /\ DOMAIN sorted = DOMAIN tape
           /\ \A k \in DOMAIN tape : sorted[k] \in ToSet(tape)
           /\ \A t \in ToSet(tape) : \E k \in DOMAIN tape : sorted[k] = t
           /\ \A k, l \in DOMAIN tape : sorted[k] = sorted[l] => k = l
           /\ \A k, l \in DOMAIN tape : k < l => sorted[k].opened <= sorted[l].opened
<1> DEFINE I == DOMAIN tape
           ahead == [i \in I |-> Ahead(tape, i)]
           sorted == ByOpening(tape)
           Place(k) == CHOOSE i \in I : Cardinality(Ahead(tape, i)) = k - 1
<1>1. PICK n \in Nat : n = Len(tape) /\ I = 1 .. n
  BY TapeIs
<1>2. IsFiniteSet(I) /\ Cardinality(I) = n
  <2>1. IsFiniteSet(1 .. n) /\ Cardinality(1 .. n) = IF 1 > n THEN 0 ELSE n - 1 + 1
    <3>1. 1 \in Int /\ n \in Int
      BY <1>1
    <3> QED
      BY <3>1, FS_Interval
  <2> QED
    BY <1>1, <2>1
<1>3. OrdersStrictly(I, ahead)
  BY OpeningsAreOrdered
<1>4. \A i \in I : ahead[i] = Ahead(tape, i)
  OBVIOUS
<1> HIDE DEF ahead
<1>5. /\ \A i \in I : Cardinality(ahead[i]) \in 0 .. n - 1
      /\ \A i \in I : \A j \in ahead[i] : Cardinality(ahead[j]) < Cardinality(ahead[i])
      /\ \A k \in 0 .. n - 1 : \E i \in I : Cardinality(ahead[i]) = k
  <2> HIDE DEF ahead, I
  <2> QED
    BY <1>2, <1>3, RanksAreHeld
<1>6. /\ DOMAIN sorted = I
      /\ \A k \in I : sorted[k] = tape[Place(k)]
  BY DEF ByOpening
<1> HIDE DEF sorted
<1>7. ASSUME NEW k \in I
      PROVE  Place(k) \in I /\ Cardinality(ahead[Place(k)]) = k - 1
  <2>1. k - 1 \in 0 .. n - 1
    BY <1>1
  <2>2. \E i \in I : Cardinality(Ahead(tape, i)) = k - 1
    BY <1>4, <1>5, <2>1
  <2>3. Place(k) \in I /\ Cardinality(Ahead(tape, Place(k))) = k - 1
    BY <2>2
  <2> HIDE DEF Place
  <2> QED
    BY <1>4, <2>3
<1> HIDE DEF Place
<1>8. \A i, j \in I : i # j => Cardinality(ahead[i]) # Cardinality(ahead[j])
  <2> TAKE i, j \in I
  <2> HAVE i # j
  <2>1. i \in ahead[j] \/ j \in ahead[i]
    BY <1>3 DEF OrdersStrictly
  <2> HIDE DEF ahead, I
  <2>2. Cardinality(ahead[i]) \in 0 .. n - 1 /\ Cardinality(ahead[j]) \in 0 .. n - 1
    BY <1>5
  <2> QED
    BY <1>5, <2>1, <2>2
<1>9. \A i \in I : tape[i] \in ToSet(tape) /\ tape[i].opened \in Nat
  BY TapeIs, TradeIs
<1>10. \A k \in I : sorted[k] \in ToSet(tape)
  BY <1>6, <1>7, <1>9
<1>11. \A t \in ToSet(tape) : \E k \in I : sorted[k] = t
  <2> TAKE t \in ToSet(tape)
  <2>1. PICK i \in I : tape[i] = t
    BY TapeIs
  <2>2. PICK r \in 0 .. n - 1 : r = Cardinality(ahead[i])
    BY <1>5
  <2>3. PICK k \in I : k = r + 1
    BY <1>1, <2>2
  <2>4. Cardinality(ahead[Place(k)]) = r /\ Place(k) \in I
    <3>1. Cardinality(ahead[Place(k)]) = k - 1 /\ Place(k) \in I
      BY <1>7
    <3> QED
      BY <2>2, <2>3, <3>1
  <2>5. Place(k) = i
    BY <1>8, <2>2, <2>4
  <2> QED
    BY <1>6, <2>1, <2>5
<1>12. \A k, l \in I : sorted[k] = sorted[l] => k = l
  <2> TAKE k, l \in I
  <2> HAVE sorted[k] = sorted[l]
  <2>1. tape[Place(k)] = tape[Place(l)] /\ Place(k) \in I /\ Place(l) \in I
    BY <1>6, <1>7
  <2>2. Place(k) = Place(l)
    BY <2>1 DEF AnalyticsFacts
  <2>3. k - 1 = l - 1
    BY <1>7, <2>2
  <2> QED
    BY <1>1, <2>3
<1>13. \A k, l \in I : k < l => sorted[k].opened <= sorted[l].opened
  <2> TAKE k, l \in I
  <2> HAVE k < l
  <2>1. PICK i \in I : i = Place(k) /\ Cardinality(ahead[i]) = k - 1
    BY <1>7
  <2>2. PICK j \in I : j = Place(l) /\ Cardinality(ahead[j]) = l - 1
    BY <1>7
  <2>3. k \in Nat /\ l \in Nat
    BY <1>1
  <2>4. i # j /\ j \notin ahead[i]
    <3>1. i # j
      BY <2>1, <2>2, <2>3
    <3>2. j \in ahead[i] => l - 1 < k - 1
      BY <1>5, <2>1, <2>2
    <3> QED
      BY <2>3, <3>1, <3>2
  <2>5. i \in ahead[j]
    BY <1>3, <2>4 DEF OrdersStrictly
  <2>6. tape[i].opened <= tape[j].opened
    <3>1. i \in Ahead(tape, j)
      BY <1>4, <2>5
    <3>2. tape[i].opened \in Nat /\ tape[j].opened \in Nat
      BY <1>9
    <3> QED
      BY <3>1, <3>2 DEF Ahead
  <2> QED
    BY <1>6, <2>1, <2>2, <2>6
<1> QED
  BY <1>6, <1>10, <1>11, <1>12, <1>13 DEF sorted

-----------------------------------------------------------------------------
(* Correlated accounts. *)

LEMMA LeastNumber ==
    ASSUME NEW S \in SUBSET Nat, S # {}
    PROVE  \E m \in S : \A l \in Nat : l < m => l \notin S
<1> DEFINE id == [m \in S |-> m]
<1>1. \A m \in S : id[m] \in Nat /\ id[m] = m
  OBVIOUS
<1> HIDE DEF id
<1>2. PICK m \in S : \A l \in S : id[m] <= id[l]
  BY <1>1, LeastExists
<1>3. \A l \in S : m <= l
  BY <1>1, <1>2
<1> QED
  BY <1>3

\* f follows the steps from b through n of them.
FollowsSteps(f, b, step, n) ==
    f[0] = b /\ \A k \in 1 .. n : f[k] = step[k][f[k - 1]]

LEMMA StepsCanBeFollowed ==
    ASSUME NEW n \in Nat, NEW X, NEW b \in X, NEW step \in [1 .. n -> [X -> X]]
    PROVE  \E f \in [0 .. n -> X] : FollowsSteps(f, b, step, n)
<1> DEFINE Fails == {m \in 0 .. n : \A f \in [0 .. m -> X] : ~ FollowsSteps(f, b, step, m)}
<1>1. Fails = {}
  <2>1. SUFFICES ASSUME Fails # {} PROVE FALSE
    OBVIOUS
  <2>2. Fails \in SUBSET Nat
    OBVIOUS
  <2>3. PICK m \in Fails : \A l \in Nat : l < m => l \notin Fails
    <3> HIDE DEF Fails
    <3> QED
      BY <2>1, <2>2, LeastNumber
  <2>4. m \in 0 .. n /\ \A f \in [0 .. m -> X] : ~ FollowsSteps(f, b, step, m)
    OBVIOUS
  <2>5. \A l \in 0 .. n : l < m => l \notin Fails
    <3> HIDE DEF Fails
    <3> QED
      BY <2>3
  <2>6. CASE m = 0
    <3> DEFINE f == [k \in 0 .. m |-> b]
    <3>1. f \in [0 .. m -> X] /\ f[0] = b
      BY <2>6
    <3>2. 1 .. m = {}
      BY <2>6
    <3> HIDE DEF f
    <3> QED
      BY <2>4, <3>1, <3>2 DEF FollowsSteps
  <2>7. CASE m # 0
    <3>1. m - 1 \in 0 .. n /\ m - 1 < m /\ m \in 1 .. n
      BY <2>4, <2>7
    <3>2. PICK g \in [0 .. m - 1 -> X] : FollowsSteps(g, b, step, m - 1)
      BY <2>5, <3>1
    <3> DEFINE f == [k \in 0 .. m |-> IF k = m THEN step[m][g[m - 1]] ELSE g[k]]
    <3>3. g[m - 1] \in X /\ step[m] \in [X -> X]
      BY <3>1, <3>2
    <3>4. f \in [0 .. m -> X]
      BY <2>4, <3>2, <3>3
    <3>5. /\ f[m] = step[m][g[m - 1]]
          /\ \A k \in 0 .. m - 1 : f[k] = g[k]
      BY <2>4, <3>1
    <3> HIDE DEF f
    <3>6. f[0] = b
      BY <2>4, <2>7, <3>2, <3>5 DEF FollowsSteps
    <3>7. \A k \in 1 .. m : f[k] = step[k][f[k - 1]]
      <4> TAKE k \in 1 .. m
      <4>1. CASE k = m
        BY <3>1, <3>5, <4>1
      <4>2. CASE k # m
        <5>1. k \in 1 .. m - 1 /\ k \in 0 .. m - 1 /\ k - 1 \in 0 .. m - 1
          BY <2>4, <4>2
        <5> QED
          BY <3>2, <3>5, <5>1 DEF FollowsSteps
      <4> QED
        BY <4>1, <4>2
    <3> QED
      BY <2>4, <3>4, <3>6, <3>7 DEF FollowsSteps
  <2> QED
    BY <2>6, <2>7
<1>2. n \in 0 .. n
  OBVIOUS
<1> QED
  BY <1>1, <1>2

\* A step of the search: what is claimed once the row at place k has been an anchor.
ClaimsOver(it, sorted, n) ==
    it = [k \in 0 .. n |->
            IF k = 0 THEN {}
            ELSE LET claimed == it[k - 1] IN claimed \union Gathered(sorted, claimed, k)]

LEMMA FindIs ==
    ASSUME NEW rows
    PROVE  FindMatchedTrades(rows) =
               LET sorted == ByOpening(rows)
                   claims == CHOOSE it : ClaimsOver(it, sorted, Len(rows))
                   At(k) == Gathered(sorted, claims[k - 1], k) IN
               [k \in {i \in DOMAIN rows : At(i) # {}} |->
                   [anchor |-> sorted[k], members |-> At(k)]]
BY DEF FindMatchedTrades, ClaimsOver

\* How the search goes over the rows in the order they were opened.
SweepIs(sorted, claims, n) ==
    /\ claims \in [0 .. n -> SUBSET ToSet(tape)]
    /\ claims[0] = {}
    /\ \A k \in 1 .. n : claims[k] = claims[k - 1] \union Gathered(sorted, claims[k - 1], k)

LEMMA GatheredIs ==
    ASSUME AnalyticsFacts, NEW k \in DOMAIN tape, NEW claimed
    PROVE  Gathered(ByOpening(tape), claimed, k) \subseteq ToSet(tape)
BY SortedIs DEF Gathered

LEMMA SweepExists ==
    ASSUME AnalyticsFacts
    PROVE  SweepIs(ByOpening(tape),
                   CHOOSE it : ClaimsOver(it, ByOpening(tape), Len(tape)), Len(tape))
<1> DEFINE sorted == ByOpening(tape)
           X == SUBSET ToSet(tape)
<1>1. PICK n \in Nat : n = Len(tape) /\ DOMAIN tape = 1 .. n
  BY TapeIs
<1> DEFINE step == [k \in 1 .. n |-> [c \in X |-> c \union Gathered(sorted, c, k)]]
<1>2. step \in [1 .. n -> [X -> X]]
  BY <1>1, GatheredIs
<1>3. {} \in X
  OBVIOUS
<1>4. \A k \in 1 .. n, c \in X : step[k][c] = c \union Gathered(sorted, c, k)
  OBVIOUS
<1> HIDE DEF step, X
<1>5. PICK f \in [0 .. n -> X] : FollowsSteps(f, {}, step, n)
  BY <1>2, <1>3, StepsCanBeFollowed
<1> HIDE DEF sorted
<1>6. ClaimsOver(f, sorted, n)
  <2>1. \A k \in 0 .. n : f[k] = IF k = 0 THEN {}
                                  ELSE f[k - 1] \union Gathered(sorted, f[k - 1], k)
    <3> TAKE k \in 0 .. n
    <3>1. CASE k = 0
      BY <1>5, <3>1 DEF FollowsSteps
    <3>2. CASE k # 0
      <4>1. k \in 1 .. n /\ k - 1 \in 0 .. n
        BY <3>2
      <4>2. f[k - 1] \in X /\ f[k] = step[k][f[k - 1]]
        BY <1>5, <4>1 DEF FollowsSteps
      <4> QED
        BY <1>4, <3>2, <4>1, <4>2
    <3> QED
      BY <3>1, <3>2
  <2>2. f = [k \in 0 .. n |-> f[k]]
    BY <1>5
  <2> QED
    BY <2>1, <2>2 DEF ClaimsOver
<1> DEFINE claims == CHOOSE it : ClaimsOver(it, sorted, n)
<1>7. ClaimsOver(claims, sorted, n)
  BY <1>6
<1> HIDE DEF claims
<1>8. /\ DOMAIN claims = 0 .. n /\ claims = [k \in 0 .. n |-> claims[k]] /\ claims[0] = {}
      /\ \A k \in 1 .. n : claims[k] = claims[k - 1] \union Gathered(sorted, claims[k - 1], k)
  <2> DEFINE next(k) == IF k = 0 THEN {}
                        ELSE claims[k - 1] \union Gathered(sorted, claims[k - 1], k)
  <2>1. claims = [k \in 0 .. n |-> next(k)]
    BY <1>7 DEF ClaimsOver
  <2>2. \A k \in 1 .. n : next(k) = claims[k - 1] \union Gathered(sorted, claims[k - 1], k)
    OBVIOUS
  <2>3. next(0) = {} /\ 0 \in 0 .. n /\ \A k \in 1 .. n : k \in 0 .. n
    OBVIOUS
  <2> HIDE DEF next
  <2>4. DOMAIN claims = 0 .. n /\ \A k \in 0 .. n : claims[k] = next(k)
    BY <2>1
  <2>5. claims = [k \in 0 .. n |-> claims[k]]
    BY <2>1
  <2> QED
    BY <2>2, <2>3, <2>4, <2>5
<1>9. \A k \in 0 .. n : claims[k] \in X
  <2> DEFINE Bad == {k \in 0 .. n : claims[k] \notin X}
  <2>1. SUFFICES ASSUME Bad # {} PROVE FALSE
    OBVIOUS
  <2>2. Bad \in SUBSET Nat
    OBVIOUS
  <2>3. PICK k \in Bad : \A l \in Nat : l < k => l \notin Bad
    <3> HIDE DEF Bad
    <3> QED
      BY <2>1, <2>2, LeastNumber
  <2>4. k \in 1 .. n /\ k - 1 \in 0 .. n
    <3>1. k # 0
      BY <1>3, <1>8, <2>3
    <3>2. k \in 0 .. n
      OBVIOUS
    <3> QED
      BY <3>1, <3>2
  <2>5. claims[k - 1] \in X
    <3>1. k - 1 \notin Bad
      <4> HIDE DEF Bad
      <4> QED
        BY <2>3, <2>4
    <3> QED
      BY <2>4, <3>1
  <2>6. claims[k] = claims[k - 1] \union Gathered(sorted, claims[k - 1], k)
    BY <1>8, <2>4
  <2>7. Gathered(sorted, claims[k - 1], k) \subseteq ToSet(tape)
    BY <1>1, <2>4, GatheredIs DEF sorted
  <2> QED
    BY <2>3, <2>5, <2>6, <2>7 DEF X
<1> QED
  BY <1>1, <1>8, <1>9 DEF SweepIs, claims, sorted, X

SortedRows == ByOpening(tape)
ClaimedAt == CHOOSE it : ClaimsOver(it, SortedRows, Len(tape))
Found(k) == Gathered(SortedRows, ClaimedAt[k - 1], k)
Evidence == FindMatchedTrades(tape)

LEMMA EvidenceIs ==
    /\ DOMAIN Evidence = {k \in DOMAIN tape : Found(k) # {}}
    /\ \A k \in DOMAIN Evidence :
           Evidence[k].anchor = SortedRows[k] /\ Evidence[k].members = Found(k)
<1>1. Evidence = [k \in {i \in DOMAIN tape : Found(i) # {}} |->
                    [anchor |-> SortedRows[k], members |-> Found(k)]]
  BY FindIs DEF Evidence, SortedRows, ClaimedAt, Found
<1> QED
  BY <1>1

LEMMA SweepFacts ==
    ASSUME AnalyticsFacts
    PROVE  /\ Len(tape) \in Nat /\ DOMAIN tape = 1 .. Len(tape)
           /\ ClaimedAt \in [0 .. Len(tape) -> SUBSET ToSet(tape)]
           /\ ClaimedAt[0] = {}
           /\ \A k \in DOMAIN tape : ClaimedAt[k] = ClaimedAt[k - 1] \union Found(k)
           /\ \A k \in DOMAIN tape : SortedRows[k] \in ToSet(tape)
           /\ \A k, l \in DOMAIN tape : SortedRows[k] = SortedRows[l] => k = l
<1>1. SweepIs(SortedRows, ClaimedAt, Len(tape))
  BY SweepExists DEF SortedRows, ClaimedAt
<1>2. Len(tape) \in Nat /\ DOMAIN tape = 1 .. Len(tape)
  BY TapeIs
<1> QED
  BY <1>1, <1>2, SortedIs DEF SweepIs, Found, SortedRows

LEMMA FoundIs ==
    ASSUME AnalyticsFacts, NEW k \in DOMAIN tape, Found(k) # {}
    PROVE  /\ SortedRows[k] \in Found(k)
           /\ Found(k) \subseteq ToSet(tape)
           /\ Found(k) \intersect ClaimedAt[k - 1] = {}
           /\ \A t \in Found(k) \ {SortedRows[k]} :
                  /\ Matches(SortedRows[k], t)
                  /\ \E j \in DOMAIN tape : j > k /\ SortedRows[j] = t
           /\ \A j \in DOMAIN tape :
                  (/\ j > k /\ SortedRows[j] \notin ClaimedAt[k - 1]
                   /\ Matches(SortedRows[k], SortedRows[j])) => SortedRows[j] \in Found(k)
           /\ Cardinality(Accounts(Found(k))) >= MinimumAccounts
<1> DEFINE anchor == SortedRows[k]
           claimed == ClaimedAt[k - 1]
           later == {SortedRows[j] : j \in {j \in DOMAIN SortedRows : j > k}}
           members == {anchor} \union {t \in later \ claimed : Matches(anchor, t)}
           short == anchor \in claimed \/ Cardinality(Accounts(members)) < MinimumAccounts
<1>1. DOMAIN SortedRows = DOMAIN tape
  BY SortedIs DEF SortedRows
<1>2. Found(k) = IF short THEN {} ELSE members
  BY DEF Found, Gathered
<1>3. ~ short /\ Found(k) = members
  <2> HIDE DEF short, members
  <2> QED
    BY <1>2
<1>4. Found(k) \subseteq ToSet(tape)
  BY GatheredIs DEF Found, SortedRows
<1>5. IsFiniteSet(Accounts(members)) /\ Cardinality(Accounts(members)) \in Nat
  <2>1. IsFiniteSet(members)
    <3> HIDE DEF members
    <3> QED
      BY <1>3, <1>4, TapeIs, FS_Subset
  <2> DEFINE acct == [t \in members |-> t.account]
  <2>2. Accounts(members) = {acct[t] : t \in members}
    BY DEF Accounts
  <2> HIDE DEF acct, members
  <2> QED
    BY <2>1, <2>2, ImageFinite, FS_CardinalityType
<1>6. Cardinality(Accounts(Found(k))) >= MinimumAccounts
  <2>1. MinimumAccounts \in Nat
    BY AnalyticsAssumption
  <2> HIDE DEF members
  <2> QED
    BY <1>3, <1>5, <2>1
<1>7. anchor \in members /\ members \intersect claimed = {}
  BY <1>3
<1>8. \A t \in members \ {anchor} :
          Matches(anchor, t) /\ \E j \in DOMAIN tape : j > k /\ SortedRows[j] = t
  BY <1>1
<1>9. \A j \in DOMAIN tape :
          (j > k /\ SortedRows[j] \notin claimed /\ Matches(anchor, SortedRows[j]))
              => SortedRows[j] \in members
  BY <1>1
<1> HIDE DEF members
<1> QED
  BY <1>3, <1>4, <1>6, <1>7, <1>8, <1>9

\* With two accounts enough, a pair that nothing has claimed makes a group.
LEMMA PairIsFound ==
    ASSUME AnalyticsFacts, MinimumAccounts = 2,
           NEW k \in DOMAIN tape, NEW j \in DOMAIN tape, j > k,
           SortedRows[k] \notin ClaimedAt[k - 1], SortedRows[j] \notin ClaimedAt[k - 1],
           Matches(SortedRows[k], SortedRows[j])
    PROVE  Found(k) # {}
<1> DEFINE anchor == SortedRows[k]
           claimed == ClaimedAt[k - 1]
           later == {SortedRows[i] : i \in {i \in DOMAIN SortedRows : i > k}}
           members == {anchor} \union {t \in later \ claimed : Matches(anchor, t)}
<1>1. DOMAIN SortedRows = DOMAIN tape /\ \A i \in DOMAIN tape : SortedRows[i] \in ToSet(tape)
  BY SortedIs DEF SortedRows
<1>2. anchor \in members /\ SortedRows[j] \in members
  BY <1>1
<1>3. members \subseteq ToSet(tape)
  BY <1>1
<1> DEFINE acct == [t \in members |-> t.account]
<1>4. Accounts(members) = {acct[t] : t \in members}
  BY DEF Accounts
<1>5. IsFiniteSet(Accounts(members)) /\ Cardinality(Accounts(members)) \in Nat
  <2>1. IsFiniteSet(members)
    <3> HIDE DEF members
    <3> QED
      BY <1>3, TapeIs, FS_Subset
  <2> HIDE DEF acct, members
  <2> QED
    BY <2>1, <1>4, ImageFinite, FS_CardinalityType
<1>6. /\ anchor.account \in Accounts(members)
      /\ SortedRows[j].account \in Accounts(members)
      /\ anchor.account # SortedRows[j].account
  <2> HIDE DEF members
  <2> QED
    BY <1>2 DEF Accounts, Matches
<1>7. Cardinality(Accounts(members)) > 1
  <2> HIDE DEF members
  <2> QED
    BY <1>5, <1>6, PairCounts
<1>8. Found(k) = IF anchor \in claimed \/ Cardinality(Accounts(members)) < MinimumAccounts
                 THEN {} ELSE members
  BY DEF Found, Gathered
<1> HIDE DEF members
<1> QED
  BY <1>2, <1>5, <1>7, <1>8

LEMMA ClaimsGrow ==
    ASSUME AnalyticsFacts, NEW j \in 0 .. Len(tape), NEW i \in 0 .. j
    PROVE  ClaimedAt[i] \subseteq ClaimedAt[j]
<1>1. PICK n \in Nat : n = Len(tape) /\ DOMAIN tape = 1 .. n
  BY SweepFacts
<1> DEFINE Bad == {l \in i .. n : ~ ClaimedAt[i] \subseteq ClaimedAt[l]}
<1>2. Bad = {}
  <2>1. SUFFICES ASSUME Bad # {} PROVE FALSE
    OBVIOUS
  <2>2. Bad \in SUBSET Nat
    BY <1>1
  <2>3. PICK l \in Bad : \A m \in Nat : m < l => m \notin Bad
    <3> HIDE DEF Bad
    <3> QED
      BY <2>1, <2>2, LeastNumber
  <2>4. l \in i .. n /\ l # i /\ ~ ClaimedAt[i] \subseteq ClaimedAt[l]
    BY <2>3
  <2>5. l - 1 \in i .. n /\ l - 1 \in Nat /\ l - 1 < l /\ l \in 1 .. n
    BY <1>1, <2>4
  <2>6. ClaimedAt[i] \subseteq ClaimedAt[l - 1]
    <3>1. l - 1 \notin Bad
      <4> HIDE DEF Bad
      <4> QED
        BY <2>3, <2>5
    <3> QED
      BY <2>5, <3>1
  <2>7. ClaimedAt[l] = ClaimedAt[l - 1] \union Found(l)
    BY <1>1, <2>5, SweepFacts
  <2> QED
    BY <2>4, <2>6, <2>7
<1>3. j \in i .. n
  BY <1>1
<1> QED
  BY <1>2, <1>3

LEMMA ClaimsComeFrom ==
    ASSUME AnalyticsFacts, NEW k \in 0 .. Len(tape), NEW t \in ClaimedAt[k]
    PROVE  \E i \in DOMAIN Evidence : i <= k /\ t \in Found(i)
<1>1. PICK n \in Nat : n = Len(tape) /\ DOMAIN tape = 1 .. n
  BY SweepFacts
<1> DEFINE Has == {l \in 0 .. k : t \in ClaimedAt[l]}
<1>2. PICK i \in Has : \A m \in Nat : m < i => m \notin Has
  <2>1. k \in Has /\ Has \in SUBSET Nat
    OBVIOUS
  <2> HIDE DEF Has
  <2> QED
    BY <2>1, LeastNumber
<1>3. i \in 0 .. k /\ t \in ClaimedAt[i] /\ i # 0
  BY <1>2, SweepFacts
<1>4. i \in 1 .. n /\ i - 1 \in 0 .. k /\ i - 1 \in Nat /\ i - 1 < i
  BY <1>1, <1>3
<1>5. t \notin ClaimedAt[i - 1]
  <2>1. i - 1 \notin Has
    <3> HIDE DEF Has
    <3> QED
      BY <1>2, <1>4
  <2> QED
    BY <1>4, <2>1
<1>6. ClaimedAt[i] = ClaimedAt[i - 1] \union Found(i)
  BY <1>1, <1>4, SweepFacts
<1>7. t \in Found(i)
  BY <1>3, <1>5, <1>6
<1>8. i \in DOMAIN Evidence
  BY <1>1, <1>4, <1>7, EvidenceIs
<1> QED
  BY <1>3, <1>7, <1>8

LEMMA EvidenceHolds == AnalyticsFacts => EvidenceIsSound
<1> SUFFICES ASSUME AnalyticsFacts PROVE EvidenceIsSound
  OBVIOUS
<1>1. PICK n \in Nat : n = Len(tape) /\ DOMAIN tape = 1 .. n
  BY SweepFacts
<1>2. ASSUME NEW i \in DOMAIN Evidence
      PROVE  i \in 1 .. n /\ Found(i) # {}
  BY <1>1, <1>2, EvidenceIs
<1>3. ASSUME NEW i \in DOMAIN Evidence, NEW j \in DOMAIN Evidence, i < j
      PROVE  Found(i) \intersect Found(j) = {}
  <2>1. i \in 1 .. n /\ j \in 1 .. n /\ Found(j) # {}
    BY <1>2
  <2>2. Found(j) \intersect ClaimedAt[j - 1] = {}
    BY <1>1, <2>1, FoundIs
  <2>3. Found(i) \subseteq ClaimedAt[i]
    BY <1>1, <2>1, SweepFacts
  <2>4. j - 1 \in 0 .. n /\ i \in 0 .. j - 1
    BY <1>3, <2>1
  <2>5. ClaimedAt[i] \subseteq ClaimedAt[j - 1]
    BY <1>1, <2>4, ClaimsGrow
  <2> QED
    BY <2>2, <2>3, <2>5
<1>4. ASSUME NEW i \in DOMAIN Evidence
      PROVE  /\ \A t \in Evidence[i].members \ {Evidence[i].anchor} :
                    Matches(Evidence[i].anchor, t) /\ t.opened >= Evidence[i].anchor.opened
             /\ \A j \in DOMAIN Evidence \ {i} :
                    Evidence[i].members \intersect Evidence[j].members = {}
             /\ Cardinality(Accounts(Evidence[i].members)) >= MinimumAccounts
  <2>1. i \in DOMAIN tape /\ Found(i) # {}
    BY <1>1, <1>2
  <2>2. Evidence[i].anchor = SortedRows[i] /\ Evidence[i].members = Found(i)
    BY EvidenceIs
  <2>3. \A t \in Found(i) \ {SortedRows[i]} :
            Matches(SortedRows[i], t) /\ t.opened >= SortedRows[i].opened
    <3> TAKE t \in Found(i) \ {SortedRows[i]}
    <3>1. PICK j \in DOMAIN tape : j > i /\ SortedRows[j] = t
      BY <2>1, FoundIs
    <3>2. Matches(SortedRows[i], t)
      BY <2>1, FoundIs
    <3>3. i < j
      BY <1>1, <2>1, <3>1
    <3>4. SortedRows[i].opened <= SortedRows[j].opened
      BY <2>1, <3>3, SortedIs DEF SortedRows
    <3>5. SortedRows[i].opened \in Nat /\ SortedRows[j].opened \in Nat
      BY <2>1, SweepFacts, TapeIs, TradeIs
    <3> QED
      BY <3>1, <3>2, <3>4, <3>5
  <2>4. \A j \in DOMAIN Evidence \ {i} : Found(i) \intersect Evidence[j].members = {}
    <3> TAKE j \in DOMAIN Evidence \ {i}
    <3>1. Evidence[j].members = Found(j)
      BY EvidenceIs
    <3>2. i \in 1 .. n /\ j \in 1 .. n
      BY <1>2
    <3>3. CASE i < j
      BY <1>3, <3>1, <3>3
    <3>4. CASE j < i
      BY <1>3, <3>1, <3>4
    <3> QED
      BY <3>2, <3>3, <3>4
  <2>5. Cardinality(Accounts(Found(i))) >= MinimumAccounts
    BY <2>1, FoundIs
  <2> QED
    BY <2>2, <2>3, <2>4, <2>5
<1> QED
  BY <1>4 DEF EvidenceIsSound, Evidence

\* The same position, opened in the same second.
Copies(t, u) ==
    /\ t.opened = u.opened /\ t.price = u.price
    /\ t.symbol = u.symbol /\ t.side = u.side

\* A group that claims one copy has the account of every other that was free.
LEMMA CopyJoins ==
    ASSUME AnalyticsFacts, NEW q \in DOMAIN tape, Found(q) # {},
           NEW x \in Found(q), x # SortedRows[q],
           NEW j \in DOMAIN tape, j > q, SortedRows[j] \notin ClaimedAt[q - 1],
           Copies(x, SortedRows[j])
    PROVE  /\ {x.account, SortedRows[j].account} \subseteq Accounts(Found(q))
           /\ SortedRows[j] \in Found(q) \/ SortedRows[j].account = SortedRows[q].account
<1>1. Matches(SortedRows[q], x)
  BY FoundIs
<1>2. SortedRows[j].account # SortedRows[q].account => Matches(SortedRows[q], SortedRows[j])
  BY <1>1 DEF Matches, Copies
<1>3. SortedRows[j] \in Found(q) \/ SortedRows[j].account = SortedRows[q].account
  BY <1>2, FoundIs
<1>4. SortedRows[q] \in Found(q)
  BY FoundIs
<1> QED
  BY <1>3, <1>4 DEF Accounts

LEMMA PairIsTogether ==
    ASSUME AnalyticsFacts, MinimumAccounts = 2,
           NEW i \in DOMAIN tape, NEW j \in DOMAIN tape, i < j,
           Matches(SortedRows[i], SortedRows[j]), Copies(SortedRows[i], SortedRows[j])
    PROVE  \E q \in DOMAIN Evidence :
               {SortedRows[i].account, SortedRows[j].account} \subseteq Accounts(Found(q))
<1> DEFINE e == SortedRows[i]
           l == SortedRows[j]
<1>1. PICK n \in Nat : n = Len(tape) /\ DOMAIN tape = 1 .. n
  BY SweepFacts
<1>2. \A k, m \in DOMAIN tape : SortedRows[k] = SortedRows[m] => k = m
  BY SweepFacts
<1>3. /\ i \in 1 .. n /\ j \in 1 .. n /\ i - 1 \in 0 .. n /\ e \in ToSet(tape) /\ l \in ToSet(tape)
      /\ Copies(l, e)
  BY <1>1, SweepFacts DEF Copies
<1>4. \A m \in DOMAIN Evidence : m \in 1 .. n /\ m \in DOMAIN tape /\ Found(m) # {}
  BY <1>1, EvidenceIs
<1>5. \A m \in DOMAIN Evidence : Found(m) \intersect ClaimedAt[m - 1] = {}
  BY <1>4, FoundIs
\* What one group claims, earlier ones did not.
<1>6. \A m \in 1 .. n, k \in 1 .. n : m <= k => ClaimedAt[m - 1] \subseteq ClaimedAt[k - 1]
  <2> TAKE m \in 1 .. n, k \in 1 .. n
  <2> HAVE m <= k
  <2>1. k - 1 \in 0 .. n /\ m - 1 \in 0 .. k - 1
    BY <1>1
  <2> QED
    BY <1>1, <2>1, ClaimsGrow
<1>7. CASE e \notin ClaimedAt[i - 1] /\ l \notin ClaimedAt[i - 1]
  <2>1. Found(i) # {}
    BY <1>1, <1>3, <1>7, PairIsFound
  <2>2. e \in Found(i) /\ l \in Found(i)
    BY <1>1, <1>3, <1>7, <2>1, FoundIs
  <2>3. i \in DOMAIN Evidence
    BY <2>1, EvidenceIs
  <2> QED
    BY <2>2, <2>3 DEF Accounts
<1>8. CASE e \notin ClaimedAt[i - 1] /\ l \in ClaimedAt[i - 1]
  <2>1. PICK m \in DOMAIN Evidence : m <= i - 1 /\ l \in Found(m)
    BY <1>1, <1>3, <1>8, ClaimsComeFrom
  <2>2. m \in 1 .. n /\ m < i /\ m < j /\ m # j
    BY <1>3, <1>4, <2>1
  <2>3. e \notin ClaimedAt[m - 1]
    BY <1>3, <1>6, <1>8, <2>2
  <2>4. l # SortedRows[m]
    BY <1>1, <1>2, <2>2
  <2>5. {l.account, e.account} \subseteq Accounts(Found(m))
    BY <1>1, <1>3, <1>4, <2>1, <2>2, <2>3, <2>4, CopyJoins
  <2> QED
    BY <2>5
<1>9. CASE e \in ClaimedAt[i - 1]
  <2>1. PICK m \in DOMAIN Evidence : m <= i - 1 /\ e \in Found(m)
    BY <1>1, <1>3, <1>9, ClaimsComeFrom
  <2>2. m \in 1 .. n /\ m < i /\ m < j /\ m # i
    BY <1>3, <1>4, <2>1
  <2>3. e \notin ClaimedAt[m - 1] /\ e # SortedRows[m]
    BY <1>1, <1>2, <1>5, <2>1, <2>2
  <2>4. CASE l \notin ClaimedAt[m - 1]
    <3>1. {e.account, l.account} \subseteq Accounts(Found(m))
      BY <1>1, <1>3, <1>4, <2>1, <2>2, <2>3, <2>4, CopyJoins
    <3> QED
      BY <3>1
  <2>5. CASE l \in ClaimedAt[m - 1]
    <3>1. m - 1 \in 0 .. n
      BY <2>2
    <3>2. PICK q \in DOMAIN Evidence : q <= m - 1 /\ l \in Found(q)
      BY <1>1, <2>5, <3>1, ClaimsComeFrom
    <3>3. q \in 1 .. n /\ q < m /\ q < i /\ q < j /\ q # j
      <4>1. q \in 1 .. n
        BY <1>4
      <4> QED
        BY <1>3, <2>2, <3>2, <4>1
    <3>4. e \notin ClaimedAt[q - 1]
      BY <1>6, <2>2, <2>3, <3>3
    <3>5. l # SortedRows[q]
      BY <1>1, <1>2, <3>3
    <3>6. {l.account, e.account} \subseteq Accounts(Found(q))
      BY <1>1, <1>3, <1>4, <3>2, <3>3, <3>4, <3>5, CopyJoins
    <3> QED
      BY <3>6
  <2> QED
    BY <2>4, <2>5
<1> QED
  BY <1>7, <1>8, <1>9

-----------------------------------------------------------------------------
(* Clusters of groups. *)

\* Union-find over the groups, as far as place n.
RootsOver(it, groups, n) ==
    it = [k \in 0 .. n |->
            IF k = 0 THEN [a \in OwnedAccounts |-> a]
            ELSE IF k \in DOMAIN groups THEN Joined(it[k - 1], groups[k])
            ELSE it[k - 1]]

LastGroup == Max({0} \union DOMAIN Evidence)
RootAt == CHOOSE it : RootsOver(it, Evidence, LastGroup)
RootOfGroup(k) == RootAt[LastGroup][Evidence[k].anchor.account]
ClusterOf(r) == [k \in {i \in DOMAIN Evidence : RootOfGroup(i) = r} |-> Evidence[k]]

LEMMA ClustersAre ==
    BuildClusters(Evidence) = {ClusterOf(r) : r \in {RootOfGroup(k) : k \in DOMAIN Evidence}}
BY DEF BuildClusters, RootsOver, LastGroup, RootAt, RootOfGroup, ClusterOf

\* The accounts a group ties together, and its anchor's.
Tied(k) == Accounts(Evidence[k].members)
Anchored(k) == Evidence[k].anchor.account

LEMMA TiedAre ==
    ASSUME AnalyticsFacts, NEW k \in DOMAIN Evidence
    PROVE  /\ Tied(k) \subseteq OwnedAccounts /\ Anchored(k) \in Tied(k)
           /\ IsFiniteSet(Evidence[k].members)
           /\ k \in DOMAIN tape
<1>1. k \in DOMAIN tape /\ Found(k) # {}
      /\ Evidence[k].anchor = SortedRows[k] /\ Evidence[k].members = Found(k)
  BY EvidenceIs
<1>2. SortedRows[k] \in Found(k) /\ Found(k) \subseteq ToSet(tape)
  BY <1>1, FoundIs
<1>3. IsFiniteSet(Found(k))
  BY <1>2, TapeIs, FS_Subset
<1>4. \A t \in Found(k) : t.account \in OwnedAccounts
  BY <1>2, TapeIs, TradeIs
<1> QED
  BY <1>1, <1>2, <1>3, <1>4 DEF Tied, Anchored, Accounts

LEMMA LastGroupIs ==
    ASSUME AnalyticsFacts
    PROVE  LastGroup \in Nat /\ \A k \in DOMAIN Evidence : k \in 1 .. LastGroup
<1> DEFINE S == {0} \union DOMAIN Evidence
<1>1. \A k \in DOMAIN Evidence : k \in DOMAIN tape /\ k \in Nat /\ k >= 1
  BY TiedAre, TapeIs
<1>2. IsFiniteSet(S)
  <2>1. IsFiniteSet(DOMAIN Evidence)
    BY <1>1, TapeIs, FS_Subset
  <2> QED
    BY <2>1, FS_Singleton, FS_Union
<1>3. S # {} /\ \A k \in S : k \in Int
  BY <1>1
<1> HIDE DEF S
<1>4. Max(S) \in S /\ \A k \in S : k <= Max(S)
  BY <1>2, <1>3, ExtremesAre
<1>5. Max(S) \in Nat
  BY <1>1, <1>4 DEF S
<1>6. \A k \in DOMAIN Evidence : k \in S
  BY DEF S
<1> QED
  BY <1>1, <1>4, <1>5, <1>6 DEF LastGroup, S

\* root after a group: those tied take the root of its anchor.
LEMMA JoinedIs ==
    ASSUME AnalyticsFacts, NEW root \in [OwnedAccounts -> OwnedAccounts],
           NEW k \in DOMAIN Evidence
    PROVE  /\ Joined(root, Evidence[k]) \in [OwnedAccounts -> OwnedAccounts]
           /\ \A a \in OwnedAccounts :
                  Joined(root, Evidence[k])[a] =
                      IF \E b \in Tied(k) : root[a] = root[b] THEN root[Anchored(k)] ELSE root[a]
<1> DEFINE old == {root[a] : a \in Accounts(Evidence[k].members)}
<1>1. Joined(root, Evidence[k]) =
          [a \in OwnedAccounts |-> IF root[a] \in old THEN root[Anchored(k)] ELSE root[a]]
  BY DEF Joined, Anchored
<1>2. \A a \in OwnedAccounts : root[a] \in old <=> \E b \in Tied(k) : root[a] = root[b]
  BY DEF Tied
<1>3. Anchored(k) \in OwnedAccounts
  BY TiedAre
<1> HIDE DEF old
<1> QED
  BY <1>1, <1>2, <1>3

RootsAre(roots, n) ==
    /\ roots \in [0 .. n -> [OwnedAccounts -> OwnedAccounts]]
    /\ roots[0] = [a \in OwnedAccounts |-> a]
    /\ \A k \in 1 .. n :
           roots[k] = IF k \in DOMAIN Evidence THEN Joined(roots[k - 1], Evidence[k])
                      ELSE roots[k - 1]

LEMMA RootsExist ==
    ASSUME AnalyticsFacts
    PROVE  RootsAre(RootAt, LastGroup)
<1> DEFINE X == [OwnedAccounts -> OwnedAccounts]
           b == [a \in OwnedAccounts |-> a]
<1>1. PICK n \in Nat : n = LastGroup /\ \A k \in DOMAIN Evidence : k \in 1 .. n
  BY LastGroupIs
<1> DEFINE next(r, k) == IF k \in DOMAIN Evidence THEN Joined(r, Evidence[k]) ELSE r
           step == [k \in 1 .. n |-> [r \in X |-> next(r, k)]]
<1>2. \A k \in 1 .. n, r \in X : next(r, k) \in X
  BY JoinedIs
<1>3. \A r, k : next(r, k) = IF k \in DOMAIN Evidence THEN Joined(r, Evidence[k]) ELSE r
  OBVIOUS
<1>4. b \in X
  OBVIOUS
<1> HIDE DEF next, X
<1>5. /\ step \in [1 .. n -> [X -> X]]
      /\ \A k \in 1 .. n, r \in X : step[k][r] = next(r, k)
  BY <1>2
<1> HIDE DEF step
<1>6. PICK f \in [0 .. n -> X] : FollowsSteps(f, b, step, n)
  <2> HIDE DEF b
  <2> QED
    BY <1>4, <1>5, StepsCanBeFollowed
<1>7. RootsOver(f, Evidence, n)
  <2>1. \A k \in 0 .. n : f[k] = IF k = 0 THEN b ELSE next(f[k - 1], k)
    <3> TAKE k \in 0 .. n
    <3>1. CASE k = 0
      BY <1>6, <3>1 DEF FollowsSteps
    <3>2. CASE k # 0
      <4>1. k \in 1 .. n /\ k - 1 \in 0 .. n
        BY <3>2
      <4>2. f[k - 1] \in X /\ f[k] = step[k][f[k - 1]]
        BY <1>6, <4>1 DEF FollowsSteps
      <4> HIDE DEF b
      <4> QED
        BY <1>5, <3>2, <4>1, <4>2
    <3> QED
      BY <3>1, <3>2
  <2>2. f = [k \in 0 .. n |-> f[k]]
    BY <1>6
  <2>3. f = [k \in 0 .. n |-> IF k = 0 THEN b ELSE next(f[k - 1], k)]
    <3> HIDE DEF b
    <3> QED
      BY <2>1, <2>2
  <2> QED
    BY <2>3 DEF RootsOver, next
<1> DEFINE roots == CHOOSE it : RootsOver(it, Evidence, n)
<1>8. RootsOver(roots, Evidence, n)
  BY <1>7
<1> HIDE DEF roots
<1>9. /\ roots = [k \in 0 .. n |-> roots[k]] /\ roots[0] = b
      /\ \A k \in 1 .. n : roots[k] = next(roots[k - 1], k)
  <2> DEFINE here(k) == IF k = 0 THEN b ELSE next(roots[k - 1], k)
  <2>1. roots = [k \in 0 .. n |-> here(k)]
    BY <1>8 DEF RootsOver, next
  <2>2. \A k \in 1 .. n : here(k) = next(roots[k - 1], k)
    OBVIOUS
  <2>3. here(0) = b /\ 0 \in 0 .. n /\ \A k \in 1 .. n : k \in 0 .. n
    OBVIOUS
  <2> HIDE DEF here, b
  <2>4. \A k \in 0 .. n : roots[k] = here(k)
    BY <2>1
  <2>5. roots = [k \in 0 .. n |-> roots[k]]
    BY <2>1
  <2> QED
    BY <2>2, <2>3, <2>4, <2>5
<1> HIDE DEF b
<1>10. \A k \in 0 .. n : roots[k] \in X
  <2> DEFINE Bad == {k \in 0 .. n : roots[k] \notin X}
  <2>1. SUFFICES ASSUME Bad # {} PROVE FALSE
    OBVIOUS
  <2>2. Bad \in SUBSET Nat
    OBVIOUS
  <2>3. PICK k \in Bad : \A l \in Nat : l < k => l \notin Bad
    <3> HIDE DEF Bad
    <3> QED
      BY <2>1, <2>2, LeastNumber
  <2>4. k \in 1 .. n /\ k - 1 \in 0 .. n
    <3>1. k # 0
      BY <1>4, <1>9, <2>3
    <3>2. k \in 0 .. n
      OBVIOUS
    <3> QED
      BY <3>1, <3>2
  <2>5. roots[k - 1] \in X
    <3>1. k - 1 \notin Bad
      <4> HIDE DEF Bad
      <4> QED
        BY <2>3, <2>4
    <3> QED
      BY <2>4, <3>1
  <2> QED
    BY <1>2, <1>9, <2>3, <2>4, <2>5
<1>11. roots \in [0 .. n -> X]
  BY <1>9, <1>10
<1>12. \A k \in 1 .. n : roots[k] = IF k \in DOMAIN Evidence THEN Joined(roots[k - 1], Evidence[k])
                                    ELSE roots[k - 1]
  BY <1>3, <1>9
<1>13. roots = RootAt
  BY <1>1 DEF roots, RootAt
<1> HIDE DEF roots
<1> QED
  BY <1>1, <1>9, <1>11, <1>12, <1>13 DEF RootsAre, X, b

\* What a group ties keeps one root.
LEMMA TiedShareRoots ==
    ASSUME AnalyticsFacts, NEW i \in DOMAIN Evidence, NEW a \in Tied(i)
    PROVE  RootAt[LastGroup][a] = RootAt[LastGroup][Anchored(i)]
<1>1. PICK n \in Nat : n = LastGroup /\ i \in 1 .. n
  BY LastGroupIs
<1>2. RootsAre(RootAt, n)
  BY <1>1, RootsExist
<1>3. a \in OwnedAccounts /\ Anchored(i) \in OwnedAccounts /\ Anchored(i) \in Tied(i)
  BY TiedAre
<1>4. \A k \in 1 .. n : k - 1 \in 0 .. n /\ RootAt[k - 1] \in [OwnedAccounts -> OwnedAccounts]
  BY <1>2 DEF RootsAre
<1> DEFINE Bad == {k \in i .. n : RootAt[k][a] # RootAt[k][Anchored(i)]}
<1>5. Bad = {}
  <2>1. SUFFICES ASSUME Bad # {} PROVE FALSE
    OBVIOUS
  <2>2. Bad \in SUBSET Nat
    BY <1>1
  <2>3. PICK k \in Bad : \A l \in Nat : l < k => l \notin Bad
    <3> HIDE DEF Bad
    <3> QED
      BY <2>1, <2>2, LeastNumber
  <2>4. k \in i .. n /\ k \in 1 .. n /\ RootAt[k][a] # RootAt[k][Anchored(i)]
    BY <1>1
  <2> DEFINE root == RootAt[k - 1]
  <2>5. root \in [OwnedAccounts -> OwnedAccounts]
    BY <1>4, <2>4
  <2>6. CASE k = i
    <3>1. RootAt[k] = Joined(root, Evidence[k])
      BY <1>2, <2>4, <2>6 DEF RootsAre
    <3> HIDE DEF root
    <3>2. \A c \in Tied(k) : Joined(root, Evidence[k])[c] = root[Anchored(k)]
      BY <2>5, <2>6, TiedAre, JoinedIs
    <3> QED
      BY <1>3, <2>4, <2>6, <3>1, <3>2
  <2>7. CASE k # i
    <3>1. k - 1 \in i .. n /\ k - 1 \in Nat /\ k - 1 < k
      BY <1>1, <2>4, <2>7
    <3>2. root[a] = root[Anchored(i)]
      <4>1. k - 1 \notin Bad
        <5> HIDE DEF Bad
        <5> QED
          BY <2>3, <3>1
      <4> QED
        BY <3>1, <4>1
    <3>3. CASE k \in DOMAIN Evidence
      <4>1. RootAt[k] = Joined(root, Evidence[k])
        BY <1>2, <2>4, <3>3 DEF RootsAre
      <4> HIDE DEF root
      <4>2. \A c \in OwnedAccounts :
                Joined(root, Evidence[k])[c] =
                    IF \E d \in Tied(k) : root[c] = root[d] THEN root[Anchored(k)] ELSE root[c]
        BY <2>5, <3>3, JoinedIs
      <4> QED
        BY <1>3, <2>4, <3>2, <4>1, <4>2
    <3>4. CASE k \notin DOMAIN Evidence
      <4>1. RootAt[k] = root
        BY <1>2, <2>4, <3>4 DEF RootsAre
      <4> HIDE DEF root
      <4> QED
        BY <2>4, <3>2, <4>1
    <3> QED
      BY <3>3, <3>4
  <2> QED
    BY <2>6, <2>7
<1>6. n \in i .. n
  BY <1>1
<1> QED
  BY <1>1, <1>5, <1>6

\* No group ties an account inside P to one outside it.
Untied(P) == \A i \in DOMAIN Evidence : Tied(i) \subseteq P \/ Tied(i) \intersect P = {}

\* So no root is shared across it.
LEMMA RootsStayApart ==
    ASSUME AnalyticsFacts, NEW P, Untied(P),
           NEW a \in OwnedAccounts, NEW b \in OwnedAccounts,
           RootAt[LastGroup][a] = RootAt[LastGroup][b]
    PROVE  a \in P <=> b \in P
<1>1. PICK n \in Nat : n = LastGroup
  BY LastGroupIs
<1>2. RootsAre(RootAt, n)
  BY <1>1, RootsExist
<1>3. \A k \in 1 .. n : k - 1 \in 0 .. n /\ RootAt[k - 1] \in [OwnedAccounts -> OwnedAccounts]
  BY <1>2 DEF RootsAre
<1> DEFINE Apart(root) == \A c, d \in OwnedAccounts : root[c] = root[d] => (c \in P <=> d \in P)
           Bad == {k \in 0 .. n : ~ Apart(RootAt[k])}
<1>4. Bad = {}
  <2>1. SUFFICES ASSUME Bad # {} PROVE FALSE
    OBVIOUS
  <2>2. Bad \in SUBSET Nat
    OBVIOUS
  <2>3. PICK k \in Bad : \A l \in Nat : l < k => l \notin Bad
    <3> HIDE DEF Bad
    <3> QED
      BY <2>1, <2>2, LeastNumber
  <2>4. k \in 0 .. n /\ ~ Apart(RootAt[k])
    OBVIOUS
  <2>5. k # 0
    <3>1. Apart([c \in OwnedAccounts |-> c])
      OBVIOUS
    <3>2. RootAt[0] = [c \in OwnedAccounts |-> c]
      BY <1>2 DEF RootsAre
    <3> HIDE DEF Apart
    <3> QED
      BY <2>4, <3>1, <3>2
  <2>6. k \in 1 .. n /\ k - 1 \in 0 .. n /\ k - 1 \in Nat /\ k - 1 < k
    BY <2>4, <2>5
  <2>7. PICK root \in [OwnedAccounts -> OwnedAccounts] : root = RootAt[k - 1]
    BY <1>3, <2>6
  <2>8. Apart(root)
    <3>1. k - 1 \notin Bad
      <4> HIDE DEF Bad
      <4> QED
        BY <2>3, <2>6
    <3> QED
      BY <2>6, <2>7, <3>1
  <2>9. CASE k \in DOMAIN Evidence
    <3>1. RootAt[k] = Joined(root, Evidence[k])
      BY <1>2, <2>6, <2>7, <2>9 DEF RootsAre
    <3> DEFINE new == RootAt[k]
               old(c) == \E x \in Tied(k) : root[c] = root[x]
    <3>2. \A c \in OwnedAccounts : new[c] = IF old(c) THEN root[Anchored(k)] ELSE root[c]
      BY <2>9, <3>1, JoinedIs
    <3>3. Tied(k) \subseteq OwnedAccounts /\ Anchored(k) \in Tied(k)
      BY <2>9, TiedAre
    <3>4. \A x, y \in Tied(k) : x \in P <=> y \in P
      BY <2>9 DEF Untied
    <3> HIDE DEF new
    <3>5. ASSUME NEW c \in OwnedAccounts, NEW d \in OwnedAccounts, new[c] = new[d]
          PROVE  c \in P <=> d \in P
      <4>1. CASE old(c) /\ old(d)
        <5>1. PICK x \in Tied(k) : root[c] = root[x]
          BY <4>1
        <5>2. PICK y \in Tied(k) : root[d] = root[y]
          BY <4>1
        <5> QED
          BY <2>8, <3>3, <3>4, <5>1, <5>2
      <4>2. CASE ~ old(c) /\ ~ old(d)
        <5> HIDE DEF old
        <5>1. root[c] = root[d]
          BY <3>2, <3>5, <4>2
        <5> QED
          BY <2>8, <5>1
      <4>3. CASE old(c) /\ ~ old(d)
        <5>1. root[d] = root[Anchored(k)]
          <6> HIDE DEF old
          <6> QED
            BY <3>2, <3>5, <4>3
        <5> QED
          BY <3>3, <4>3, <5>1
      <4>4. CASE ~ old(c) /\ old(d)
        <5>1. root[c] = root[Anchored(k)]
          <6> HIDE DEF old
          <6> QED
            BY <3>2, <3>5, <4>4
        <5> QED
          BY <3>3, <4>4, <5>1
      <4> QED
        BY <4>1, <4>2, <4>3, <4>4
    <3>6. Apart(new)
      BY <3>5
    <3> QED
      BY <2>4, <3>6 DEF new
  <2>10. CASE k \notin DOMAIN Evidence
    <3>1. RootAt[k] = root
      BY <1>2, <2>6, <2>7, <2>10 DEF RootsAre
    <3> HIDE DEF Apart
    <3> QED
      BY <2>4, <2>8, <3>1
  <2> QED
    BY <2>9, <2>10
<1>5. n \notin Bad /\ n \in 0 .. n
  BY <1>4
<1>6. Apart(RootAt[n])
  BY <1>5
<1> QED
  BY <1>1, <1>6

LEMMA ClusterIs ==
    ASSUME AnalyticsFacts, NEW r
    PROVE  /\ DOMAIN ClusterOf(r) = {i \in DOMAIN Evidence : RootOfGroup(i) = r}
           /\ \A i \in DOMAIN ClusterOf(r) :
                  ClusterOf(r)[i] = Evidence[i] /\ Accounts(ClusterOf(r)[i].members) = Tied(i)
           /\ \A a \in Members(ClusterOf(r)) :
                  a \in OwnedAccounts /\ RootAt[LastGroup][a] = r
<1>1. /\ DOMAIN ClusterOf(r) = {i \in DOMAIN Evidence : RootOfGroup(i) = r}
      /\ \A i \in DOMAIN ClusterOf(r) :
             ClusterOf(r)[i] = Evidence[i] /\ Accounts(ClusterOf(r)[i].members) = Tied(i)
  BY DEF ClusterOf, Tied
<1>2. ASSUME NEW a \in Members(ClusterOf(r))
      PROVE  a \in OwnedAccounts /\ RootAt[LastGroup][a] = r
  <2>1. PICK i \in DOMAIN ClusterOf(r) : a \in Tied(i)
    BY <1>1, <1>2 DEF Members
  <2>2. i \in DOMAIN Evidence /\ RootOfGroup(i) = r
    BY <1>1
  <2>3. RootAt[LastGroup][a] = RootAt[LastGroup][Anchored(i)]
    BY <2>1, <2>2, TiedShareRoots
  <2> QED
    BY <2>1, <2>2, <2>3, TiedAre DEF RootOfGroup, Anchored
<1> QED
  BY <1>1, <1>2

\* The clusters share the groups out.
LEMMA ClustersShareGroups ==
    ASSUME AnalyticsFacts
    PROVE  SumOver([c \in BuildClusters(Evidence) |-> MatchedTrades(c)], BuildClusters(Evidence))
               = MatchedTrades(Evidence)
<1> DEFINE K == BuildClusters(Evidence)
           S == DOMAIN Evidence
           P == [c \in K |-> DOMAIN c]
           f == [i \in S |-> Cardinality(Evidence[i].members)]
           g == [c \in K |-> MatchedTrades(c)]
           roots == [k \in S |-> RootOfGroup(k)]
           cluster == [r \in {roots[k] : k \in S} |-> ClusterOf(r)]
<1>1. IsFiniteSet(S)
  BY TapeIs, TiedAre, FS_Subset
<1>2. K = {cluster[r] : r \in {roots[k] : k \in S}}
  BY ClustersAre
<1>3. IsFiniteSet(K)
  <2> HIDE DEF S, K, roots, cluster
  <2>1. IsFiniteSet({roots[k] : k \in S})
    BY <1>1, ImageFinite
  <2> QED
    BY <1>2, <2>1, ImageFinite
<1>4. \A i \in S : f[i] \in Int
  BY TiedAre, FS_CardinalityType
<1>5. \A c \in K : \E r : /\ c = ClusterOf(r)
                          /\ DOMAIN c = {i \in S : RootOfGroup(i) = r}
  BY ClustersAre, ClusterIs
<1>6. \A i \in S : \E c \in K : i \in P[c]
  <2> TAKE i \in S
  <2>1. ClusterOf(RootOfGroup(i)) \in K
    BY ClustersAre
  <2>2. i \in DOMAIN ClusterOf(RootOfGroup(i))
    BY ClusterIs
  <2> HIDE DEF K
  <2> QED
    BY <2>1, <2>2
<1>7. \A c \in K : P[c] \subseteq S
  <2> HIDE DEF K
  <2> QED
    BY <1>5
<1>8. \A c, d \in K : c # d => P[c] \intersect P[d] = {}
  <2> HIDE DEF K
  <2> QED
    BY <1>5
<1>9. \A c \in K : g[c] = SumOver(f, P[c])
  <2> TAKE c \in K
  <2>1. PICK r : c = ClusterOf(r)
    BY <1>5
  <2>2. \A i \in DOMAIN c : i \in S /\ c[i] = Evidence[i]
    BY <2>1, ClusterIs
  <2> DEFINE h == [i \in DOMAIN c |-> Cardinality(c[i].members)]
  <2>3. \A i \in DOMAIN c : h[i] = f[i]
    BY <2>2
  <2>4. IsFiniteSet(DOMAIN c)
    BY <1>1, <1>7, FS_Subset
  <2>5. g[c] = SumOver(h, DOMAIN c)
    BY DEF MatchedTrades
  <2> HIDE DEF h, f, K
  <2>6. SumOver(h, DOMAIN c) = SumOver(f, DOMAIN c)
    BY <2>3, <2>4, SumSame
  <2> QED
    BY <2>5, <2>6
<1> HIDE DEF K, S, P, f, g
<1>10. SplitsInto(K, S, P, f, g)
  BY <1>1, <1>3, <1>4, <1>6, <1>7, <1>8, <1>9 DEF SplitsInto
<1>11. SumOver(g, K) = SumOver(f, S)
  BY <1>10, SplitAddsUp
<1> QED
  BY <1>11 DEF K, S, f, g, MatchedTrades

LEMMA CopiersHold == AnalyticsFacts => CopiersAreTogether
<1> SUFFICES ASSUME AnalyticsFacts PROVE CopiersAreTogether
  OBVIOUS
<1> DEFINE clusters == BuildClusters(Evidence)
<1>1. \A c \in clusters : \E r : c = ClusterOf(r)
  BY ClustersAre
<1>2. \A k \in DOMAIN Evidence : /\ ClusterOf(RootOfGroup(k)) \in clusters
                                 /\ Tied(k) \subseteq Members(ClusterOf(RootOfGroup(k)))
  <2> TAKE k \in DOMAIN Evidence
  <2>1. ClusterOf(RootOfGroup(k)) \in clusters
    BY ClustersAre
  <2>2. /\ k \in DOMAIN ClusterOf(RootOfGroup(k))
        /\ Accounts(ClusterOf(RootOfGroup(k))[k].members) = Tied(k)
    BY ClusterIs
  <2> QED
    BY <2>1, <2>2 DEF Members
<1> HIDE DEF clusters
<1>3. ASSUME PriceTolerance = 0, MinimumAccounts = 2,
             NEW t \in ToSet(tape), NEW u \in ToSet(tape), Matches(t, u), t.opened = u.opened
      PROVE  \E c \in clusters : {t.account, u.account} \subseteq Members(c)
  <2>1. t \in Blotter /\ u \in Blotter /\ t.price \in Int /\ u.price \in Int
        /\ t.opened \in Nat /\ u.opened \in Nat
    BY TapeIs, TradeIs
  <2>2. PICK i \in DOMAIN tape : SortedRows[i] = t
    BY SortedIs DEF SortedRows
  <2>3. PICK j \in DOMAIN tape : SortedRows[j] = u
    BY SortedIs DEF SortedRows
  <2>4. t.account # u.account /\ t.symbol = u.symbol /\ t.side = u.side /\ t.price = u.price
    <3>1. u.price - t.price \in -PriceTolerance .. PriceTolerance
      BY <1>3 DEF Matches
    <3>2. u.price - t.price = 0
      BY <1>3, <2>1, <3>1
    <3> QED
      BY <1>3, <2>1, <3>2 DEF Matches
  <2>5. Copies(t, u) /\ Copies(u, t)
    BY <1>3, <2>4 DEF Copies
  <2>6. Matches(u, t)
    <3>1. ToleranceSeconds \in Nat
      BY AnalyticsAssumption
    <3>2. t.opened - u.opened <= ToleranceSeconds
      BY <1>3, <2>1, <3>1
    <3>3. t.price - u.price \in -PriceTolerance .. PriceTolerance
      BY <1>3, <2>1, <2>4
    <3> QED
      BY <2>4, <3>2, <3>3 DEF Matches
  <2>7. i \in Nat /\ j \in Nat /\ i # j
    BY <2>2, <2>3, <2>4, TapeIs
  <2>8. \E q \in DOMAIN Evidence : {t.account, u.account} \subseteq Accounts(Found(q))
    <3>1. CASE i < j
      BY <1>3, <2>2, <2>3, <2>5, <3>1, PairIsTogether
    <3>2. CASE j < i
      <4>1. \E q \in DOMAIN Evidence : {u.account, t.account} \subseteq Accounts(Found(q))
        BY <1>3, <2>2, <2>3, <2>5, <2>6, <3>2, PairIsTogether
      <4> QED
        BY <4>1
    <3> QED
      BY <2>7, <3>1, <3>2
  <2>9. PICK q \in DOMAIN Evidence : {t.account, u.account} \subseteq Tied(q)
    BY <2>8, EvidenceIs DEF Tied
  <2> QED
    BY <1>2, <2>9
<1>4. ASSUME NEW c \in clusters, NEW d \in clusters, c # d
      PROVE  Members(c) \intersect Members(d) = {}
  <2>1. PICK r : c = ClusterOf(r)
    BY <1>1
  <2>2. PICK s : d = ClusterOf(s)
    BY <1>1
  <2> SUFFICES ASSUME NEW a \in Members(c), a \in Members(d) PROVE FALSE
    OBVIOUS
  <2>3. RootAt[LastGroup][a] = r
    BY <2>1, ClusterIs
  <2>4. RootAt[LastGroup][a] = s
    BY <2>2, ClusterIs
  <2> QED
    BY <1>4, <2>1, <2>2, <2>3, <2>4
<1>5. ASSUME NEW c \in clusters, NEW part \in (SUBSET Members(c)) \ {{}, Members(c)}
      PROVE  \E i \in DOMAIN c : /\ Accounts(c[i].members) \intersect part # {}
                                 /\ ~ (Accounts(c[i].members) \subseteq part)
  <2>1. PICK r : c = ClusterOf(r)
    BY <1>1
  <2>2. /\ DOMAIN c = {i \in DOMAIN Evidence : RootOfGroup(i) = r}
        /\ \A i \in DOMAIN c : Accounts(c[i].members) = Tied(i)
        /\ \A a \in Members(c) : a \in OwnedAccounts /\ RootAt[LastGroup][a] = r
    BY <2>1, ClusterIs
  <2>3. PICK a \in part, b \in Members(c) : b \notin part
    OBVIOUS
  <2>4. a \in Members(c) /\ part \subseteq Members(c)
    OBVIOUS
  <2>5. SUFFICES ASSUME \A i \in DOMAIN c : Tied(i) \intersect part = {} \/ Tied(i) \subseteq part
                 PROVE  FALSE
    BY <2>2
  <2>6. Untied(part)
    <3> SUFFICES ASSUME NEW i \in DOMAIN Evidence
                 PROVE  Tied(i) \subseteq part \/ Tied(i) \intersect part = {}
      BY DEF Untied
    <3>1. CASE RootOfGroup(i) = r
      BY <2>2, <2>5, <3>1
    <3>2. CASE RootOfGroup(i) # r
      <4>1. ASSUME NEW x \in Tied(i), x \in part PROVE FALSE
        <5>1. RootAt[LastGroup][x] = RootOfGroup(i)
          BY TiedShareRoots DEF RootOfGroup, Anchored
        <5>2. RootAt[LastGroup][x] = r
          BY <2>2, <2>4, <4>1
        <5> QED
          BY <3>2, <5>1, <5>2
      <4> QED
        BY <4>1
    <3> QED
      BY <3>1, <3>2
  <2>7. a \in OwnedAccounts /\ b \in OwnedAccounts
        /\ RootAt[LastGroup][a] = RootAt[LastGroup][b]
    BY <2>2, <2>3, <2>4
  <2> QED
    BY <2>3, <2>6, <2>7, RootsStayApart
<1>6. SumOver([c \in clusters |-> MatchedTrades(c)], clusters) = MatchedTrades(Evidence)
  BY ClustersShareGroups DEF clusters
<1>7. PriceTolerance = 0 /\ MinimumAccounts = 2 =>
      \A t, u \in ToSet(tape) :
          (Matches(t, u) /\ t.opened = u.opened) =>
              \E c \in clusters : {t.account, u.account} \subseteq Members(c)
  BY <1>3
<1> QED
  BY <1>4, <1>5, <1>6, <1>7 DEF CopiersAreTogether, Evidence, clusters

LEMMA AnalyticsHold ==
    AnalyticsFacts =>
        StatsAddUp /\ EvidenceIsSound /\ CopiersAreTogether /\ SharedAddressIsSeen
BY TapeIs, StatsAgree, EvidenceHolds, CopiersHold, AddressesAreSeen

=============================================================================
