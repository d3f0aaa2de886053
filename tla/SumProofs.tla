------------------------------ MODULE SumProofs ------------------------------
(***************************************************************************)
(* Lemmas about sums over finite sets.  The fold is a recursive function   *)
(* on the subsets of the set; it exists and is unique because no subset is *)
(* a smallest counterexample, and so for the facts about sums.             *)
(***************************************************************************)
EXTENDS Sums, FiniteSetTheorems, WellFoundedInduction, TLAPS

FirstOf(s) == CHOOSE x \in s : TRUE

\* it is the fold of SumOver on the subsets of S.
FoldsOver(it, f, S) ==
    it = [s \in SUBSET S |->
            IF s = {} THEN 0 ELSE f[FirstOf(s)] + it[s \ {FirstOf(s)}]]

\* Of the subsets of a finite set with some fault, one is smallest.
LEMMA SmallestSet ==
    ASSUME NEW S, IsFiniteSet(S), NEW Bad \in SUBSET SUBSET S, Bad # {}
    PROVE  \E s \in Bad : \A t \in Bad : t \subseteq s => t = s
<1> DEFINE Sizes == {Cardinality(s) : s \in Bad}
<1>1. \A s \in Bad : IsFiniteSet(s) /\ Cardinality(s) \in Nat
  <2> TAKE s \in Bad
  <2>1. IsFiniteSet(s)
    BY FS_Subset
  <2> QED
    BY <2>1, FS_CardinalityType
<1>2. Sizes \subseteq Nat /\ Sizes # {}
  BY <1>1
<1>3. PICK n \in Sizes : \A m \in Sizes : ~ (<<m, n>> \in OpToRel(<, Nat))
  <2> HIDE DEF Sizes
  <2> QED
    BY <1>2, WFMin, NatLessThanWellFounded
<1>4. \A m \in Sizes : n <= m
  <2> TAKE m \in Sizes
  <2>1. m \in Nat /\ n \in Nat
    BY <1>2
  <2>2. ~ (m < n)
    BY <1>3, <2>1 DEF OpToRel
  <2> QED
    BY <2>1, <2>2
<1>5. PICK s \in Bad : Cardinality(s) = n
  BY <1>3
<1>6. \A t \in Bad : t \subseteq s => t = s
  <2> SUFFICES ASSUME NEW t \in Bad, t \subseteq s PROVE t = s
    OBVIOUS
  <2>1. Cardinality(s) <= Cardinality(t)
    BY <1>4, <1>5
  <2>2. Cardinality(t) <= Cardinality(s) /\ (Cardinality(s) = Cardinality(t) => s = t)
    BY <1>1, FS_Subset
  <2> QED
    BY <1>1, <2>1, <2>2
<1> QED
  BY <1>6

LEMMA PickIn == \A s : s # {} => FirstOf(s) \in s
BY DEF FirstOf

LEMMA FoldIsUnique ==
    ASSUME NEW S, IsFiniteSet(S), NEW f, NEW a, NEW b, FoldsOver(a, f, S), FoldsOver(b, f, S)
    PROVE  a = b
<1> DEFINE Bad == {s \in SUBSET S : a[s] # b[s]}
<1>1. CASE Bad = {}
  BY <1>1 DEF FoldsOver
<1>2. CASE Bad # {}
  <2>1. PICK s \in Bad : \A t \in Bad : t \subseteq s => t = s
    <3>1. Bad \in SUBSET SUBSET S
      OBVIOUS
    <3> HIDE DEF Bad
    <3> QED
      BY <1>2, <3>1, SmallestSet
  <2>2. s # {}
    BY <2>1 DEF FoldsOver
  <2> DEFINE t == s \ {FirstOf(s)}
  <2>3. t \in SUBSET S /\ t \subseteq s /\ t # s
    BY <2>2, PickIn
  <2>4. a[t] = b[t]
    BY <2>1, <2>3
  <2>5. a[s] = f[FirstOf(s)] + a[t] /\ b[s] = f[FirstOf(s)] + b[t]
    BY <2>2 DEF FoldsOver
  <2> QED
    BY <2>4, <2>5
<1> QED
  BY <1>1, <1>2

LEMMA FoldRestricts ==
    ASSUME NEW S, NEW f, NEW a, FoldsOver(a, f, S), NEW T \in SUBSET S
    PROVE  FoldsOver([s \in SUBSET T |-> a[s]], f, T)
<1> DEFINE r == [s \in SUBSET T |-> a[s]]
<1>1. \A s \in SUBSET T :
         r[s] = IF s = {} THEN 0 ELSE f[FirstOf(s)] + r[s \ {FirstOf(s)}]
  <2> TAKE s \in SUBSET T
  <2>1. s \in SUBSET S /\ s \ {FirstOf(s)} \in SUBSET T
    OBVIOUS
  <2>2. r[s] = a[s] /\ r[s \ {FirstOf(s)}] = a[s \ {FirstOf(s)}]
    BY <2>1
  <2>3. a[s] = IF s = {} THEN 0 ELSE f[FirstOf(s)] + a[s \ {FirstOf(s)}]
    BY <2>1 DEF FoldsOver
  <2> QED
    BY <2>2, <2>3
<1> QED
  BY <1>1 DEF FoldsOver

LEMMA SumIsFold ==
    ASSUME NEW f, NEW S
    PROVE  SumOver(f, S) = (CHOOSE it : FoldsOver(it, f, S))[S]
BY DEF SumOver, MapThenSumSet, MapThenFoldSet, FoldsOver, FirstOf

\* Where a fold is known, the sums over subsets are its values.
LEMMA FoldsAreSums ==
    ASSUME NEW S, IsFiniteSet(S), NEW f, NEW a, FoldsOver(a, f, S), NEW T \in SUBSET S
    PROVE  SumOver(f, T) = a[T]
<1> DEFINE r == [s \in SUBSET T |-> a[s]]
           c == CHOOSE it : FoldsOver(it, f, T)
<1>1. FoldsOver(r, f, T)
  BY FoldRestricts
<1> HIDE DEF r
<1>2. FoldsOver(c, f, T)
  BY <1>1
<1> HIDE DEF c
<1>3. IsFiniteSet(T)
  BY FS_Subset
<1>4. c = r
  BY <1>1, <1>2, <1>3, FoldIsUnique
<1>5. SumOver(f, T) = c[T]
  BY SumIsFold DEF c
<1> QED
  BY <1>4, <1>5 DEF r

LEMMA FoldExists ==
    ASSUME NEW S, IsFiniteSet(S), NEW f
    PROVE  \E it : FoldsOver(it, f, S)
<1> DEFINE Bad == {s \in SUBSET S : ~ \E it : FoldsOver(it, f, s)}
<1>1. CASE Bad = {}
  <2>1. S \in SUBSET S
    OBVIOUS
  <2> QED
    BY <1>1, <2>1
<1>2. CASE Bad # {}
  <2>1. PICK s \in Bad : \A t \in Bad : t \subseteq s => t = s
    <3>1. Bad \in SUBSET SUBSET S
      OBVIOUS
    <3> HIDE DEF Bad
    <3> QED
      BY <1>2, <3>1, SmallestSet
  <2> DEFINE a == [t \in SUBSET s |->
                     IF t = {} THEN 0 ELSE f[FirstOf(t)] + SumOver(f, t \ {FirstOf(t)})]
  <2>2. s \in SUBSET S /\ IsFiniteSet(s)
    BY FS_Subset
  <2>3. ASSUME NEW t \in SUBSET s, t # s
        PROVE  a[t] = SumOver(f, t)
    <3>1. PICK b : FoldsOver(b, f, t)
      BY <2>1, <2>2, <2>3
    <3>2. IsFiniteSet(t) /\ t \ {FirstOf(t)} \in SUBSET t
      BY <2>2, FS_Subset
    <3>3. SumOver(f, t) = b[t] /\ SumOver(f, t \ {FirstOf(t)}) = b[t \ {FirstOf(t)}]
      BY <3>1, <3>2, FoldsAreSums
    <3>4. b[t] = IF t = {} THEN 0 ELSE f[FirstOf(t)] + b[t \ {FirstOf(t)}]
      BY <3>1 DEF FoldsOver
    <3> QED
      BY <3>3, <3>4
  <2>4. \A t \in SUBSET s :
           a[t] = IF t = {} THEN 0 ELSE f[FirstOf(t)] + a[t \ {FirstOf(t)}]
    <3> TAKE t \in SUBSET s
    <3>1. CASE t = {}
      BY <3>1
    <3>2. CASE t # {}
      <4>1. t \ {FirstOf(t)} \in SUBSET s /\ t \ {FirstOf(t)} # s
        BY <3>2, PickIn
      <4>2. a[t \ {FirstOf(t)}] = SumOver(f, t \ {FirstOf(t)})
        BY <2>3, <4>1
      <4> QED
        BY <3>2, <4>2
    <3> QED
      BY <3>1, <3>2
  <2>5. FoldsOver(a, f, s)
    BY <2>4 DEF FoldsOver
  <2> QED
    BY <2>1, <2>5
<1> QED
  BY <1>1, <1>2

LEMMA SumEmpty == ASSUME NEW f PROVE SumOver(f, {}) = 0
<1>1. IsFiniteSet({})
  BY FS_EmptySet
<1>2. PICK a : FoldsOver(a, f, {})
  BY <1>1, FoldExists
<1>3. a[{}] = 0
  BY <1>2 DEF FoldsOver
<1> QED
  BY <1>1, <1>2, <1>3, FoldsAreSums

LEMMA SumPicked ==
    ASSUME NEW S, IsFiniteSet(S), NEW f, S # {}
    PROVE  SumOver(f, S) = f[FirstOf(S)] + SumOver(f, S \ {FirstOf(S)})
<1>1. PICK a : FoldsOver(a, f, S)
  BY FoldExists
<1>2. S \in SUBSET S /\ S \ {FirstOf(S)} \in SUBSET S
  OBVIOUS
<1>3. SumOver(f, S) = a[S] /\ SumOver(f, S \ {FirstOf(S)}) = a[S \ {FirstOf(S)}]
  BY <1>1, <1>2, FoldsAreSums
<1>4. a[S] = f[FirstOf(S)] + a[S \ {FirstOf(S)}]
  BY <1>1, <1>2 DEF FoldsOver
<1> QED
  BY <1>3, <1>4

\* A sum of integers is an integer.
LEMMA SumIsInt ==
    ASSUME NEW S, IsFiniteSet(S), NEW f, \A x \in S : f[x] \in Int
    PROVE  SumOver(f, S) \in Int
<1> DEFINE Bad == {s \in SUBSET S : SumOver(f, s) \notin Int}
<1>1. SUFFICES ASSUME Bad # {} PROVE FALSE
  <2>1. S \in SUBSET S
    OBVIOUS
  <2> QED
    BY <1>1, <2>1
<1>2. PICK s \in Bad : \A t \in Bad : t \subseteq s => t = s
  <2>1. Bad \in SUBSET SUBSET S
    OBVIOUS
  <2> HIDE DEF Bad
  <2> QED
    BY <1>1, <2>1, SmallestSet
<1>3. IsFiniteSet(s)
  BY FS_Subset
<1>4. s # {}
  <2>1. SUFFICES ASSUME s = {} PROVE FALSE
    OBVIOUS
  <2>2. SumOver(f, s) = 0
    BY <2>1, SumEmpty
  <2> QED
    BY <1>2, <2>2
<1>5. SumOver(f, s) = f[FirstOf(s)] + SumOver(f, s \ {FirstOf(s)}) /\ FirstOf(s) \in s
  BY <1>3, <1>4, SumPicked, PickIn
<1>6. SumOver(f, s \ {FirstOf(s)}) \in Int /\ f[FirstOf(s)] \in Int
  BY <1>2, <1>5
<1> QED
  BY <1>2, <1>5, <1>6

\* Any member may be taken out first.
LEMMA SumRemove ==
    ASSUME NEW S, IsFiniteSet(S), NEW f, \A x \in S : f[x] \in Int, NEW e \in S
    PROVE  SumOver(f, S) = f[e] + SumOver(f, S \ {e})
<1> DEFINE Takes(s, x) == SumOver(f, s) = f[x] + SumOver(f, s \ {x})
           Bad == {s \in SUBSET S : \E x \in s : ~ Takes(s, x)}
<1>1. SUFFICES ASSUME Bad # {} PROVE FALSE
  <2>1. S \in SUBSET S
    OBVIOUS
  <2> QED
    BY <1>1, <2>1
<1>2. PICK s \in Bad : \A t \in Bad : t \subseteq s => t = s
  <2>1. Bad \in SUBSET SUBSET S
    OBVIOUS
  <2> HIDE DEF Bad
  <2> QED
    BY <1>1, <2>1, SmallestSet
<1>3. PICK x \in s : ~ Takes(s, x)
  BY <1>2
<1> DEFINE p == FirstOf(s)
           t == s \ {p}
           u == s \ {x}
           v == t \ {x}
<1>4. IsFiniteSet(s) /\ p \in s /\ Takes(s, p)
  BY <1>3, FS_Subset, SumPicked, PickIn
<1>5. p # x
  BY <1>3, <1>4
<1> HIDE DEF p
<1>6. t \notin Bad /\ u \notin Bad /\ t \in SUBSET S /\ u \in SUBSET S /\ x \in t /\ p \in u
  BY <1>2, <1>3, <1>4, <1>5
<1>7. Takes(t, x) /\ Takes(u, p)
  BY <1>6
<1>8. u \ {p} = v
  OBVIOUS
<1>9. v \in SUBSET S /\ IsFiniteSet(v) /\ \A y \in v : f[y] \in Int
  <2>1. v \in SUBSET S
    OBVIOUS
  <2> QED
    BY <2>1, FS_Subset
<1> DEFINE n == SumOver(f, v)
<1>10. n \in Int /\ f[p] \in Int /\ f[x] \in Int
  BY <1>4, <1>9, SumIsInt
<1>11. SumOver(f, s) = f[p] + SumOver(f, t)
  BY <1>4
<1>12. SumOver(f, t) = f[x] + n
  BY <1>7
<1>13. SumOver(f, u) = f[p] + n
  BY <1>7, <1>8
<1>14. SumOver(f, s) # f[x] + SumOver(f, u)
  BY <1>3
<1> QED
  <2> HIDE DEF n, t, u, v, Takes, Bad
  <2> QED
    BY <1>10, <1>11, <1>12, <1>13, <1>14

\* The same terms have the same sum.
LEMMA SumSame ==
    ASSUME NEW S, IsFiniteSet(S), NEW f, NEW g, \A x \in S : f[x] = g[x]
    PROVE  SumOver(f, S) = SumOver(g, S)
<1> DEFINE Bad == {s \in SUBSET S : SumOver(f, s) # SumOver(g, s)}
<1>1. SUFFICES ASSUME Bad # {} PROVE FALSE
  <2>1. S \in SUBSET S
    OBVIOUS
  <2> QED
    BY <1>1, <2>1
<1>2. PICK s \in Bad : \A t \in Bad : t \subseteq s => t = s
  <2>1. Bad \in SUBSET SUBSET S
    OBVIOUS
  <2> HIDE DEF Bad
  <2> QED
    BY <1>1, <2>1, SmallestSet
<1>3. IsFiniteSet(s) /\ s # {}
  <2>1. IsFiniteSet(s)
    BY FS_Subset
  <2>2. SUFFICES ASSUME s = {} PROVE FALSE
    BY <2>1
  <2>3. SumOver(f, s) = 0 /\ SumOver(g, s) = 0
    BY <2>2, SumEmpty
  <2> QED
    BY <1>2, <2>2, <2>3
<1>4. /\ SumOver(f, s) = f[FirstOf(s)] + SumOver(f, s \ {FirstOf(s)})
      /\ SumOver(g, s) = g[FirstOf(s)] + SumOver(g, s \ {FirstOf(s)})
      /\ FirstOf(s) \in s
  BY <1>3, SumPicked, PickIn
<1>5. SumOver(f, s \ {FirstOf(s)}) = SumOver(g, s \ {FirstOf(s)})
  BY <1>2, <1>4
<1> QED
  BY <1>2, <1>4, <1>5

\* Larger terms have a larger sum.
LEMMA SumMonotone ==
    ASSUME NEW S, IsFiniteSet(S), NEW f, NEW g,
           \A x \in S : f[x] \in Int /\ g[x] \in Int /\ f[x] <= g[x]
    PROVE  SumOver(f, S) <= SumOver(g, S)
<1> DEFINE Bad == {s \in SUBSET S : ~ (SumOver(f, s) <= SumOver(g, s))}
<1>1. SUFFICES ASSUME Bad # {} PROVE FALSE
  <2>1. S \in SUBSET S
    OBVIOUS
  <2> QED
    BY <1>1, <2>1
<1>2. PICK s \in Bad : \A t \in Bad : t \subseteq s => t = s
  <2>1. Bad \in SUBSET SUBSET S
    OBVIOUS
  <2> HIDE DEF Bad
  <2> QED
    BY <1>1, <2>1, SmallestSet
<1>3. IsFiniteSet(s) /\ s # {}
  <2>1. IsFiniteSet(s)
    BY FS_Subset
  <2>2. SUFFICES ASSUME s = {} PROVE FALSE
    BY <2>1
  <2>3. SumOver(f, s) = 0 /\ SumOver(g, s) = 0
    BY <2>2, SumEmpty
  <2> QED
    BY <1>2, <2>2, <2>3
<1> DEFINE p == FirstOf(s)
           t == s \ {p}
<1>4. /\ SumOver(f, s) = f[p] + SumOver(f, t)
      /\ SumOver(g, s) = g[p] + SumOver(g, t)
      /\ p \in s
  BY <1>3, SumPicked, PickIn
<1> HIDE DEF p
<1>5. SumOver(f, t) <= SumOver(g, t)
  BY <1>2, <1>4
<1>6. IsFiniteSet(t) /\ t \subseteq S
  BY <1>3, FS_Subset
<1>7. SumOver(f, t) \in Int /\ SumOver(g, t) \in Int
  BY <1>6, SumIsInt
<1>8. f[p] \in Int /\ g[p] \in Int /\ f[p] <= g[p]
  BY <1>4
<1> QED
  <2> HIDE DEF t
  <2>1. SumOver(f, s) <= SumOver(g, s)
    BY <1>4, <1>5, <1>7, <1>8
  <2> QED
    BY <1>2, <2>1

\* The sum of sums.
LEMMA SumPlus ==
    ASSUME NEW S, IsFiniteSet(S), NEW f, NEW g, NEW h,
           \A x \in S : f[x] \in Int /\ g[x] \in Int /\ h[x] = f[x] + g[x]
    PROVE  SumOver(h, S) = SumOver(f, S) + SumOver(g, S)
<1> DEFINE Bad == {s \in SUBSET S : SumOver(h, s) # SumOver(f, s) + SumOver(g, s)}
<1>1. SUFFICES ASSUME Bad # {} PROVE FALSE
  <2>1. S \in SUBSET S
    OBVIOUS
  <2> QED
    BY <1>1, <2>1
<1>2. PICK s \in Bad : \A t \in Bad : t \subseteq s => t = s
  <2>1. Bad \in SUBSET SUBSET S
    OBVIOUS
  <2> HIDE DEF Bad
  <2> QED
    BY <1>1, <2>1, SmallestSet
<1>3. IsFiniteSet(s) /\ s # {}
  <2>1. IsFiniteSet(s)
    BY FS_Subset
  <2>2. SUFFICES ASSUME s = {} PROVE FALSE
    BY <2>1
  <2>3. SumOver(f, s) = 0 /\ SumOver(g, s) = 0 /\ SumOver(h, s) = 0
    BY <2>2, SumEmpty
  <2> QED
    BY <1>2, <2>2, <2>3
<1> DEFINE p == FirstOf(s)
           t == s \ {p}
<1>4. /\ SumOver(f, s) = f[p] + SumOver(f, t)
      /\ SumOver(g, s) = g[p] + SumOver(g, t)
      /\ SumOver(h, s) = h[p] + SumOver(h, t)
      /\ p \in s
  BY <1>3, SumPicked, PickIn
<1> HIDE DEF p
<1>5. SumOver(h, t) = SumOver(f, t) + SumOver(g, t)
  BY <1>2, <1>4
<1>6. IsFiniteSet(t) /\ t \subseteq S
  BY <1>3, FS_Subset
<1>7. SumOver(f, t) \in Int /\ SumOver(g, t) \in Int
  BY <1>6, SumIsInt
<1>8. f[p] \in Int /\ g[p] \in Int /\ h[p] = f[p] + g[p]
  BY <1>4
<1> QED
  <2> HIDE DEF t
  <2>1. SumOver(h, s) = SumOver(f, s) + SumOver(g, s)
    BY <1>4, <1>5, <1>7, <1>8
  <2> QED
    BY <1>2, <2>1

\* Nothing adds up to nothing.
LEMMA SumOfZeros ==
    ASSUME NEW S, IsFiniteSet(S), NEW f, \A x \in S : f[x] = 0
    PROVE  SumOver(f, S) = 0
<1>1. \A x \in S : f[x] \in Int /\ f[x] = f[x] + f[x]
  OBVIOUS
<1> DEFINE n == SumOver(f, S)
<1>2. n = n + n /\ n \in Int
  BY <1>1, SumPlus, SumIsInt
<1> HIDE DEF n
<1>3. n = 0
  BY <1>2
<1> QED
  BY <1>3 DEF n

\* A sum of natural numbers grows with the set.
LEMMA SumGrows ==
    ASSUME NEW T, IsFiniteSet(T), NEW f, \A x \in T : f[x] \in Nat, NEW S \in SUBSET T
    PROVE  /\ SumOver(f, S) \in Nat
           /\ SumOver(f, S) <= SumOver(f, T)
<1>1. ASSUME NEW R \in SUBSET T PROVE SumOver(f, R) \in Nat
  <2> DEFINE z == [x \in R |-> 0]
  <2>1. IsFiniteSet(R)
    BY FS_Subset
  <2>2. \A x \in R : z[x] = 0 /\ z[x] \in Int /\ f[x] \in Int /\ z[x] <= f[x]
    OBVIOUS
  <2> HIDE DEF z
  <2>3. SumOver(z, R) <= SumOver(f, R)
    BY <2>1, <2>2, SumMonotone
  <2>4. SumOver(z, R) = 0 /\ SumOver(f, R) \in Int
    BY <2>1, <2>2, SumIsInt, SumOfZeros
  <2> QED
    BY <2>3, <2>4
<1> DEFINE Bad == {t \in SUBSET T : S \subseteq t /\ ~ (SumOver(f, S) <= SumOver(f, t))}
<1>2. ASSUME Bad # {} PROVE FALSE
  <2>1. PICK s \in Bad : \A t \in Bad : t \subseteq s => t = s
    <3>1. Bad \in SUBSET SUBSET T
      OBVIOUS
    <3> HIDE DEF Bad
    <3> QED
      BY <1>2, <3>1, SmallestSet
  <2>2. SumOver(f, s) \in Nat /\ SumOver(f, S) \in Nat
    BY <1>1
  <2>3. s # S
    BY <2>1, <2>2
  <2>4. PICK x \in s : x \notin S
    BY <2>1, <2>3
  <2> DEFINE t == s \ {x}
  <2>5. t \in SUBSET T /\ S \subseteq t /\ t # s /\ t \subseteq s
    BY <2>1, <2>4
  <2>6. SumOver(f, S) <= SumOver(f, t)
    BY <2>1, <2>5
  <2>7. SumOver(f, t) \in Nat /\ f[x] \in Nat
    BY <1>1, <2>5
  <2>8. IsFiniteSet(s) /\ \A y \in s : f[y] \in Int
    BY FS_Subset
  <2>9. SumOver(f, s) = f[x] + SumOver(f, t)
    BY <2>4, <2>8, SumRemove
  <2>10. ~ (SumOver(f, S) <= SumOver(f, s))
    BY <2>1
  <2> HIDE DEF t, Bad
  <2> QED
    BY <2>2, <2>6, <2>7, <2>9, <2>10
<1>3. SumOver(f, S) <= SumOver(f, T)
  <2>1. T \in SUBSET T /\ S \subseteq T
    OBVIOUS
  <2>2. T \notin Bad
    BY <1>2
  <2> QED
    BY <2>1, <2>2
<1> QED
  BY <1>1, <1>3

\* Fewer and smaller terms, all of them natural numbers, have a smaller sum.
LEMMA SumBelow ==
    ASSUME NEW T, IsFiniteSet(T), NEW f, \A x \in T : f[x] \in Nat,
           NEW S \in SUBSET T, NEW g, \A x \in S : g[x] \in Nat /\ g[x] <= f[x]
    PROVE  /\ SumOver(g, S) \in Nat /\ SumOver(f, T) \in Nat
           /\ SumOver(g, S) <= SumOver(f, T)
<1>1. IsFiniteSet(S)
  BY FS_Subset
<1>2. SumOver(g, S) <= SumOver(f, S)
  BY <1>1, SumMonotone
<1>3. SumOver(f, S) <= SumOver(f, T) /\ SumOver(f, S) \in Nat
  BY SumGrows
<1>4. SumOver(g, S) \in Nat
  BY <1>1, SumGrows
<1>5. SumOver(f, T) \in Nat
  BY SumGrows
<1> QED
  BY <1>2, <1>3, <1>4, <1>5

\* The same, with room for a term that was left out.
LEMMA SumBelowWithout ==
    ASSUME NEW T, IsFiniteSet(T), NEW f, \A x \in T : f[x] \in Nat, NEW e \in T,
           NEW S \in SUBSET (T \ {e}), NEW g, \A x \in S : g[x] \in Nat /\ g[x] <= f[x]
    PROVE  /\ SumOver(g, S) \in Nat /\ SumOver(f, T) \in Nat
           /\ SumOver(g, S) + f[e] <= SumOver(f, T)
<1> DEFINE R == T \ {e}
<1>1. IsFiniteSet(R) /\ (\A x \in R : f[x] \in Nat) /\ S \in SUBSET R
  BY FS_Subset
<1>2. SumOver(f, T) = f[e] + SumOver(f, R)
  BY SumRemove
<1> HIDE DEF R
<1>3. /\ SumOver(g, S) \in Nat /\ SumOver(f, R) \in Nat
      /\ SumOver(g, S) <= SumOver(f, R)
  BY <1>1, SumBelow
<1>4. f[e] \in Nat
  OBVIOUS
<1> QED
  BY <1>2, <1>3, <1>4

\* The values of a function on a finite set are finitely many.
LEMMA ImageFinite ==
    ASSUME NEW S, IsFiniteSet(S), NEW f
    PROVE  IsFiniteSet({f[x] : x \in S})
<1> DEFINE T == {f[x] : x \in S}
           h == [x \in S |-> f[x]]
<1>1. h \in Surjection(S, T)
  BY DEF Surjection
<1> HIDE DEF h, T
<1>2. IsFiniteSet(T)
  BY <1>1, FS_Surjection
<1> QED
  BY <1>2 DEF T

\* Finitely many integers have a largest.
LEMMA LargestExists ==
    ASSUME NEW S, IsFiniteSet(S), S # {}, \A n \in S : n \in Int
    PROVE  \E n \in S : \A m \in S : m <= n
<1> DEFINE HasLargest(s) == \E n \in s : \A m \in s : m <= n
           Bad == {s \in SUBSET S : s # {} /\ ~ HasLargest(s)}
<1>1. ASSUME Bad # {} PROVE FALSE
  <2>1. PICK s \in Bad : \A t \in Bad : t \subseteq s => t = s
    <3>1. Bad \in SUBSET SUBSET S
      OBVIOUS
    <3>2. Bad # {}
      BY <1>1
    <3> HIDE DEF Bad, HasLargest
    <3> QED
      BY <3>1, <3>2, SmallestSet
  <2>2. PICK x \in s : TRUE
    BY <2>1
  <2> DEFINE t == s \ {x}
  <2>3. CASE t = {}
    <3>1. HasLargest(s)
      BY <2>2, <2>3
    <3> QED
      BY <2>1, <3>1
  <2>4. CASE t # {}
    <3>1. t \in SUBSET S /\ t # s /\ t \subseteq s
      BY <2>2
    <3>2. HasLargest(t)
      BY <2>1, <2>4, <3>1
    <3>3. PICK n \in t : \A m \in t : m <= n
      BY <3>2
    <3>4. x \in Int /\ n \in Int /\ n \in s
      BY <2>1, <3>1
    <3>5. CASE x <= n
      <4>1. \A m \in s : m <= n
        BY <3>3, <3>5
      <4> QED
        BY <2>1, <3>4, <4>1
    <3>6. CASE ~ (x <= n)
      <4>1. ASSUME NEW m \in s PROVE m <= x
        <5>1. m \in Int /\ (m = x \/ m \in t)
          BY <2>1
        <5>2. m = x \/ m <= n
          BY <3>3, <5>1
        <5> HIDE DEF t, Bad, HasLargest
        <5> QED
          BY <3>4, <3>6, <5>1, <5>2
      <4> QED
        BY <2>1, <2>2, <4>1
    <3> QED
      BY <3>5, <3>6
  <2> QED
    BY <2>3, <2>4
<1>2. S \in SUBSET S /\ S \notin Bad
  BY <1>1
<1> QED
  BY <1>2

\* A sum of one term is that term.
LEMMA SumSingle ==
    ASSUME NEW f, NEW x, f[x] \in Int
    PROVE  SumOver(f, {x}) = f[x]
<1>1. IsFiniteSet({x})
  BY FS_Singleton
<1>2. SumOver(f, {x}) = f[x] + SumOver(f, {x} \ {x})
  BY <1>1, SumRemove
<1>3. {x} \ {x} = {}
  OBVIOUS
<1>4. SumOver(f, {x}) = f[x] + 0
  BY <1>2, <1>3, SumEmpty
<1> QED
  BY <1>4

\* Two sets that share nothing add up.
LEMMA SumUnion ==
    ASSUME NEW A, IsFiniteSet(A), NEW B, IsFiniteSet(B), A \intersect B = {},
           NEW f, \A x \in A \union B : f[x] \in Int
    PROVE  SumOver(f, A \union B) = SumOver(f, A) + SumOver(f, B)
<1> DEFINE Bad == {s \in SUBSET B : SumOver(f, A \union s) # SumOver(f, A) + SumOver(f, s)}
<1>1. SUFFICES ASSUME Bad # {} PROVE FALSE
  <2>1. B \in SUBSET B
    OBVIOUS
  <2> QED
    BY <1>1, <2>1
<1>2. PICK s \in Bad : \A t \in Bad : t \subseteq s => t = s
  <2>1. Bad \in SUBSET SUBSET B
    OBVIOUS
  <2> HIDE DEF Bad
  <2> QED
    BY <1>1, <2>1, SmallestSet
<1>3. SumOver(f, A) \in Int
  BY SumIsInt
<1>4. IsFiniteSet(s) /\ s \subseteq B
  BY FS_Subset
<1>5. PICK e \in s : TRUE
  <2>1. SUFFICES ASSUME s = {} PROVE FALSE
    OBVIOUS
  <2>2. SumOver(f, A \union s) # SumOver(f, A) + SumOver(f, s)
    BY <1>2
  <2>3. A \union s = A
    BY <2>1
  <2>4. SumOver(f, s) = 0
    BY <2>1, SumEmpty
  <2> HIDE DEF Bad
  <2>5. SumOver(f, A) # SumOver(f, A) + 0
    BY <2>2, <2>3, <2>4
  <2> QED
    BY <1>3, <2>5
<1> DEFINE t == s \ {e}
<1>6. SumOver(f, A \union t) = SumOver(f, A) + SumOver(f, t)
  BY <1>2, <1>5, <1>4
<1>7. IsFiniteSet(t) /\ SumOver(f, t) \in Int /\ f[e] \in Int
  <2>1. IsFiniteSet(t) /\ t \subseteq B /\ e \in B
    BY <1>4, <1>5, FS_Subset
  <2> QED
    BY <2>1, SumIsInt
<1>8. SumOver(f, s) = f[e] + SumOver(f, t)
  BY <1>4, <1>5, SumRemove
<1>9. SumOver(f, A \union s) = f[e] + SumOver(f, A \union t)
  <2>1. IsFiniteSet(A \union s)
    BY <1>4, FS_Union
  <2>2. (A \union s) \ {e} = A \union t /\ e \in A \union s
    BY <1>4, <1>5
  <2>3. \A x \in A \union s : f[x] \in Int
    BY <1>4
  <2>4. SumOver(f, A \union s) = f[e] + SumOver(f, (A \union s) \ {e})
    BY <2>1, <2>2, <2>3, SumRemove
  <2> QED
    BY <2>2, <2>4
<1>10. SumOver(f, A \union s) # SumOver(f, A) + SumOver(f, s)
  BY <1>2
<1> QED
  <2> HIDE DEF t, Bad
  <2> QED
    BY <1>3, <1>6, <1>7, <1>8, <1>9, <1>10

\* One term changes, and the sum by as much.
LEMMA SumChanges ==
    ASSUME NEW S, IsFiniteSet(S), NEW f, NEW g, NEW e \in S,
           \A x \in S : f[x] \in Int /\ g[x] \in Int,
           \A x \in S \ {e} : g[x] = f[x]
    PROVE  SumOver(g, S) = SumOver(f, S) + g[e] - f[e]
<1> DEFINE T == S \ {e}
<1>1. SumOver(f, S) = f[e] + SumOver(f, T) /\ SumOver(g, S) = g[e] + SumOver(g, T)
  BY SumRemove
<1>2. IsFiniteSet(T) /\ T \subseteq S
  BY FS_Subset
<1>3. SumOver(g, T) = SumOver(f, T) /\ SumOver(f, T) \in Int
  BY <1>2, SumSame, SumIsInt
<1>4. f[e] \in Int /\ g[e] \in Int
  OBVIOUS
<1> QED
  <2> HIDE DEF T
  <2> QED
    BY <1>1, <1>3, <1>4

\* Where each row adds up to nothing, so do the columns together.
Columns(h, T, A) == [a \in A |-> SumOver([e \in T |-> h[e][a]], T)]

LEMMA ColumnsWithout ==
    ASSUME NEW A, NEW T, IsFiniteSet(T), NEW h, \A x \in T : \A a \in A : h[x][a] \in Int,
           NEW e \in T
    PROVE  \A a \in A : /\ Columns(h, T, A)[a] \in Int
                        /\ Columns(h, T \ {e}, A)[a] \in Int
                        /\ Columns(h, T, A)[a] = h[e][a] + Columns(h, T \ {e}, A)[a]
<1> SUFFICES ASSUME NEW a \in A
             PROVE  /\ Columns(h, T, A)[a] \in Int
                    /\ Columns(h, T \ {e}, A)[a] \in Int
                    /\ Columns(h, T, A)[a] = h[e][a] + Columns(h, T \ {e}, A)[a]
  OBVIOUS
<1> DEFINE U == T \ {e}
           f == [x \in T |-> h[x][a]]
           g == [x \in U |-> h[x][a]]
<1>1. Columns(h, T, A)[a] = SumOver(f, T) /\ Columns(h, U, A)[a] = SumOver(g, U)
  BY DEF Columns
<1>2. \A x \in T : f[x] \in Int
  OBVIOUS
<1>3. \A x \in U : f[x] = g[x] /\ g[x] \in Int
  OBVIOUS
<1>4. IsFiniteSet(U)
  BY FS_Subset
<1>5. f[e] = h[e][a]
  OBVIOUS
<1> HIDE DEF f, g
<1>6. SumOver(f, T) = f[e] + SumOver(f, U) /\ SumOver(f, T) \in Int
  BY <1>2, SumRemove, SumIsInt
<1>7. SumOver(f, U) = SumOver(g, U) /\ SumOver(g, U) \in Int
  BY <1>3, <1>4, SumSame, SumIsInt
<1> QED
  BY <1>1, <1>5, <1>6, <1>7

LEMMA ColumnsCancel ==
    ASSUME NEW A, IsFiniteSet(A), NEW E, IsFiniteSet(E), NEW h,
           \A e \in E : (\A a \in A : h[e][a] \in Int) /\ SumOver(h[e], A) = 0
    PROVE  SumOver(Columns(h, E, A), A) = 0
<1> DEFINE Bad == {s \in SUBSET E : SumOver(Columns(h, s, A), A) # 0}
<1>1. SUFFICES ASSUME Bad # {} PROVE FALSE
  <2>1. E \in SUBSET E
    OBVIOUS
  <2> QED
    BY <1>1, <2>1
<1>2. PICK s \in Bad : \A t \in Bad : t \subseteq s => t = s
  <2>1. Bad \in SUBSET SUBSET E
    OBVIOUS
  <2> HIDE DEF Bad
  <2> QED
    BY <1>1, <2>1, SmallestSet
<1>3. IsFiniteSet(s) /\ s \subseteq E
  BY FS_Subset
<1>4. PICK e \in s : TRUE
  <2>1. SUFFICES ASSUME s = {} PROVE FALSE
    OBVIOUS
  <2>2. \A a \in A : Columns(h, s, A)[a] = 0
    BY <2>1, SumEmpty DEF Columns
  <2>3. SumOver(Columns(h, s, A), A) = 0
    BY <2>2, SumOfZeros
  <2> QED
    BY <1>2, <2>3
<1> DEFINE t == s \ {e}
<1>5. SumOver(Columns(h, t, A), A) = 0
  BY <1>2, <1>3, <1>4
<1>6. \A a \in A : /\ Columns(h, t, A)[a] \in Int
                   /\ Columns(h, s, A)[a] = h[e][a] + Columns(h, t, A)[a]
  <2>1. \A x \in s : \A a \in A : h[x][a] \in Int
    BY <1>3
  <2> HIDE DEF Bad
  <2>2. \A a \in A : /\ Columns(h, s, A)[a] \in Int
                     /\ Columns(h, s \ {e}, A)[a] \in Int
                     /\ Columns(h, s, A)[a] = h[e][a] + Columns(h, s \ {e}, A)[a]
    BY <1>3, <1>4, <2>1, ColumnsWithout
  <2> QED
    BY <2>2
<1>7. SumOver(h[e], A) = 0 /\ \A a \in A : h[e][a] \in Int
  BY <1>3, <1>4
<1>8. SumOver(Columns(h, s, A), A) = SumOver(h[e], A) + SumOver(Columns(h, t, A), A)
  <2> DEFINE f == h[e]
             g == Columns(h, t, A)
             k == Columns(h, s, A)
  <2>1. \A a \in A : f[a] \in Int /\ g[a] \in Int /\ k[a] = f[a] + g[a]
    BY <1>6, <1>7
  <2> HIDE DEF f, g, k
  <2>2. SumOver(k, A) = SumOver(f, A) + SumOver(g, A)
    BY <2>1, SumPlus
  <2> QED
    BY <2>2 DEF f, g, k
<1>9. SumOver(Columns(h, s, A), A) = 0 + 0
  BY <1>5, <1>7, <1>8
<1> QED
  BY <1>2, <1>9

\* Multiples of terms add up to the multiple of their sum.
LEMMA SumTimes ==
    ASSUME NEW S, IsFiniteSet(S), NEW f, NEW h, NEW k \in Int,
           \A x \in S : f[x] \in Int /\ h[x] = k * f[x]
    PROVE  SumOver(h, S) = k * SumOver(f, S)
<1> DEFINE a == [s \in SUBSET S |-> k * SumOver(f, s)]
<1>1. ASSUME NEW s \in SUBSET S, s # {}
      PROVE  a[s] = h[FirstOf(s)] + a[s \ {FirstOf(s)}]
  <2> DEFINE p == FirstOf(s)
             t == s \ {p}
  <2>1. IsFiniteSet(s) /\ IsFiniteSet(t)
    BY FS_Subset
  <2>2. SumOver(f, s) = f[p] + SumOver(f, t) /\ p \in s
    BY <1>1, <2>1, SumPicked, PickIn
  <2>3. SumOver(f, t) \in Int
    BY <2>1, SumIsInt
  <2>4. a[s] = k * SumOver(f, s) /\ a[t] = k * SumOver(f, t)
    OBVIOUS
  <2>5. f[p] \in Int /\ h[p] = k * f[p]
    BY <2>2
  <2> HIDE DEF a, p, t
  <2>6. a[s] = h[p] + a[t]
    BY <2>2, <2>3, <2>4, <2>5
  <2> QED
    BY <2>6 DEF p, t
<1>2. a[{}] = 0
  BY SumEmpty
<1>3. FoldsOver(a, h, S)
  BY <1>1, <1>2 DEF FoldsOver
<1> QED
  BY <1>3, FoldsAreSums

\* Ones and zeros add up to the number of the ones.
LEMMA SumOfOnes ==
    ASSUME NEW S, IsFiniteSet(S), NEW f, \A x \in S : f[x] \in {0, 1}
    PROVE  SumOver(f, S) = Cardinality({x \in S : f[x] = 1})
<1> DEFINE ones(s) == {x \in s : f[x] = 1}
           a == [s \in SUBSET S |-> Cardinality(ones(s))]
<1>1. ASSUME NEW s \in SUBSET S, s # {}
      PROVE  a[s] = f[FirstOf(s)] + a[s \ {FirstOf(s)}]
  <2> DEFINE p == FirstOf(s)
  <2>1. p \in s
    BY <1>1, PickIn
  <2> HIDE DEF p
  <2>2. IsFiniteSet(ones(s))
    BY FS_Subset
  <2>3. ones(s \ {p}) = ones(s) \ {p}
    OBVIOUS
  <2>4. Cardinality(ones(s)) \in Nat
    BY <2>2, FS_CardinalityType
  <2>5. Cardinality(ones(s) \ {p}) = IF p \in ones(s) THEN Cardinality(ones(s)) - 1
                                     ELSE Cardinality(ones(s))
    BY <2>2, FS_RemoveElement
  <2>6. p \in ones(s) <=> f[p] = 1
    BY <2>1
  <2>7. a[s] = Cardinality(ones(s)) /\ a[s \ {p}] = Cardinality(ones(s) \ {p})
    BY <2>3
  <2>8. f[p] \in {0, 1}
    BY <2>1
  <2> HIDE DEF a, ones
  <2>9. a[s] = f[p] + a[s \ {p}]
    BY <2>4, <2>5, <2>6, <2>7, <2>8
  <2> QED
    BY <2>9 DEF p
<1>2. a[{}] = 0
  <2>1. ones({}) = {}
    OBVIOUS
  <2> QED
    BY <2>1, FS_EmptySet
<1>3. FoldsOver(a, f, S)
  BY <1>1, <1>2 DEF FoldsOver
<1> QED
  BY <1>3, FoldsAreSums

\* Terms that are all the same.
LEMMA SumOfSame ==
    ASSUME NEW S, IsFiniteSet(S), NEW f, NEW k \in Int, \A x \in S : f[x] = k
    PROVE  SumOver(f, S) = k * Cardinality(S)
<1> DEFINE one == [x \in S |-> 1]
<1>1. {x \in S : one[x] = 1} = S
  OBVIOUS
<1>2. SumOver(one, S) = Cardinality(S)
  <2>1. SumOver(one, S) = Cardinality({x \in S : one[x] = 1})
    <3>1. \A x \in S : one[x] \in {0, 1}
      OBVIOUS
    <3> HIDE DEF one
    <3> QED
      BY <3>1, SumOfOnes
  <2> QED
    BY <1>1, <2>1
<1>3. \A x \in S : one[x] \in Int /\ f[x] = k * one[x]
  OBVIOUS
<1> HIDE DEF one
<1>4. SumOver(f, S) = k * SumOver(one, S)
  BY <1>3, SumTimes
<1> QED
  BY <1>2, <1>4

=============================================================================
