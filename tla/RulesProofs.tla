---------------------------- MODULE RulesProofs -----------------------------
(*****************************************************************************)
(* Theorems of Rules, for every value of the constants: the gates of the     *)
(* customer's account, of the broker's adapter and of the site's own         *)
(* configuration (GatesHold), the catalog and the contracts sold under it    *)
(* (CatalogIsOneContract), the sessions of a zone with summer time           *)
(* (SessionsAreSound), the ceiling on contracts (FillsStayBelowCeiling),     *)
(* the ledgers (BooksAgree), the prices (PricesAreSound) and the reports     *)
(* (ReportsAddUp); these four rest on TotalsProofs.  Each part has an        *)
(* invariant of its own, proved of its own next-state relation; a step of    *)
(* Rules is a step of one part and leaves the others alone.                  *)
(*****************************************************************************)
EXTENDS Rules, SequenceTheorems, TotalsProofs

-----------------------------------------------------------------------------
(* Sessions of a zone with summer time. *)

\* The wall clock at an instant, and the instant of a time on the wall.
WallAt(t) == t + OffsetAt(t)
InstantOf(w) ==
    w - StandardOffset
      - (IF SummerStart + StandardOffset < w /\ w <= SummerEnd + StandardOffset THEN 1 ELSE 0)

LEMMA ZoneTypes ==
    /\ StandardOffset \in Int /\ StandardOffset < 0 /\ StandardOffset >= -23
    /\ SummerStart \in Nat /\ SummerEnd \in Nat /\ SummerStart + 24 <= SummerEnd
    /\ ReopenHour \in 0 .. 23 /\ BoundaryHours \subseteq 0 .. 23
  BY CalendarAssumption, ZoneAssumption

\* The day and the hour are the wall clock divided by the day's length.
LEMMA DayAndHour ==
    ASSUME NEW t \in Int
    PROVE  /\ LocalDay(t) \in Int /\ LocalHour(t) \in 0 .. 23
           /\ WallAt(t) = 24 * LocalDay(t) + LocalHour(t)
<1>1. t + OffsetAt(t) \in Int
  BY ZoneTypes DEF OffsetAt
<1>2. \A n \in Int : n \div 24 \in Int /\ n % 24 \in 0 .. 23 /\ n = 24 * (n \div 24) + (n % 24)
  OBVIOUS
<1> QED
  BY <1>1, <1>2 DEF LocalDay, LocalHour, WallAt

LEMMA HourOfWall ==
    ASSUME NEW d \in Int, NEW h \in 0 .. 23
    PROVE  (24 * d + h) % 24 = h /\ (24 * d + h - 1) % 24 # h
  OBVIOUS

\* The two passes of instantFromZoned find the instant of any time on the wall.
LEMMA InstantFromZonedIs ==
    ASSUME NEW d \in Int, NEW h \in 0 .. 23
    PROVE  InstantFromZoned(d, h) = InstantOf(24 * d + h)
<1> DEFINE wall == 24 * d + h
           guess == wall - OffsetAt(wall)
           corrected == wall - OffsetAt(guess)
<1>1. InstantFromZoned(d, h) = IF LocalHour(corrected) = h THEN corrected ELSE guess
  BY DEF InstantFromZoned
<1>2. wall \in Int /\ wall % 24 = h /\ (wall - 1) % 24 # h
  BY HourOfWall
<1> SUFFICES InstantFromZoned(d, h) = InstantOf(wall)
  OBVIOUS
<1> HIDE DEF wall
<1>3. LocalHour(corrected) = (corrected + OffsetAt(corrected)) % 24
  BY DEF LocalHour
\* Before the jump, and on it.
<1>4. CASE wall < SummerStart + StandardOffset
  <2>1. OffsetAt(wall) = StandardOffset /\ OffsetAt(guess) = StandardOffset
    BY <1>2, <1>4, ZoneTypes DEF OffsetAt
  <2>2. corrected + OffsetAt(corrected) = wall /\ corrected = InstantOf(wall)
    BY <1>2, <1>4, <2>1, ZoneTypes DEF OffsetAt, InstantOf
  <2> HIDE DEF corrected, guess
  <2> QED
    BY <1>1, <1>2, <1>3, <2>2
<1>5. CASE wall = SummerStart + StandardOffset
  <2>1. OffsetAt(wall) = StandardOffset /\ OffsetAt(guess) = StandardOffset + 1
    BY <1>2, <1>5, ZoneTypes DEF OffsetAt
  <2>2. corrected + OffsetAt(corrected) = wall - 1 /\ guess = InstantOf(wall)
    BY <1>2, <1>5, <2>1, ZoneTypes DEF OffsetAt, InstantOf
  <2> HIDE DEF corrected, guess
  <2> QED
    BY <1>1, <1>2, <1>3, <2>2
\* In summer, to the end of the hour that comes twice.
<1>6. CASE SummerStart + StandardOffset < wall /\ wall <= SummerEnd + StandardOffset
  <2>1. OffsetAt(guess) = StandardOffset + 1
    BY <1>2, <1>6, ZoneTypes DEF OffsetAt
  <2>2. corrected + OffsetAt(corrected) = wall /\ corrected = InstantOf(wall)
    BY <1>2, <1>6, <2>1, ZoneTypes DEF OffsetAt, InstantOf
  <2> HIDE DEF corrected, guess
  <2> QED
    BY <1>1, <1>2, <1>3, <2>2
<1>7. CASE wall > SummerEnd + StandardOffset
  <2>1. OffsetAt(guess) = StandardOffset
    BY <1>2, <1>7, ZoneTypes DEF OffsetAt
  <2>2. corrected + OffsetAt(corrected) = wall /\ corrected = InstantOf(wall)
    BY <1>2, <1>7, <2>1, ZoneTypes DEF OffsetAt, InstantOf
  <2> HIDE DEF corrected, guess
  <2> QED
    BY <1>1, <1>2, <1>3, <2>2
<1>8. \/ wall < SummerStart + StandardOffset \/ wall = SummerStart + StandardOffset
      \/ SummerStart + StandardOffset < wall /\ wall <= SummerEnd + StandardOffset
      \/ wall > SummerEnd + StandardOffset
  BY <1>2, ZoneTypes
<1> QED
  BY <1>4, <1>5, <1>6, <1>7, <1>8

\* The wall shows a time or a later one from its instant on, and not before.
LEMMA WallReaches ==
    ASSUME NEW t \in Int, NEW w \in Int
    PROVE  WallAt(t) >= w <=> t >= InstantOf(w)
  BY ZoneTypes DEF WallAt, OffsetAt, InstantOf

LEMMA InstantsADayApart ==
    ASSUME NEW w \in Int
    PROVE  /\ InstantOf(w) \in Int /\ InstantOf(w + 24) \in Int
           /\ InstantOf(w + 24) - InstantOf(w) \in 23 .. 25
  BY ZoneTypes DEF InstantOf

\* Only the hour the clock jumps over is not shown at its instant.
LEMMA WallShows ==
    ASSUME NEW w \in Int, w # SummerStart + StandardOffset
    PROVE  WallAt(InstantOf(w)) = w
  BY ZoneTypes DEF WallAt, OffsetAt, InstantOf

-----------------------------------------------------------------------------

\* The day of an occurrence of an hour of the day: the next one after t.
NextDay(t, h) == LocalDay(t) + (IF LocalHour(t) >= h THEN 1 ELSE 0)

LEMMA DayAround ==
    ASSUME NEW t \in Int, NEW h \in 0 .. 23
    PROVE  /\ NextDay(t, h) \in Int
           /\ InstantFromZoned(NextDay(t, h) - 1, h) \in Int
           /\ InstantFromZoned(NextDay(t, h), h) \in Int
           /\ InstantFromZoned(NextDay(t, h) - 1, h) <= t
           /\ t < InstantFromZoned(NextDay(t, h), h)
           /\ InstantFromZoned(NextDay(t, h), h) - InstantFromZoned(NextDay(t, h) - 1, h)
                 \in 23 .. 25
<1> DEFINE n == NextDay(t, h)
           w == 24 * (n - 1) + h
<1>1. n \in Int /\ w \in Int /\ w <= WallAt(t) /\ WallAt(t) < w + 24 /\ WallAt(t) \in Int
      /\ 24 * n + h = w + 24
  BY DayAndHour DEF NextDay
<1>2. /\ InstantFromZoned(n - 1, h) = InstantOf(w)
      /\ InstantFromZoned(n, h) = InstantOf(w + 24)
  <2> HIDE DEF n
  <2>1. n - 1 \in Int /\ n \in Int
    BY <1>1
  <2>2. InstantFromZoned(n - 1, h) = InstantOf(24 * (n - 1) + h)
    BY <2>1, InstantFromZonedIs
  <2>3. InstantFromZoned(n, h) = InstantOf(24 * n + h)
    BY <2>1, InstantFromZonedIs
  <2> QED
    BY <1>1, <2>2, <2>3
<1> HIDE DEF n, w
<1>3. InstantOf(w) \in Int /\ InstantOf(w + 24) \in Int
      /\ InstantOf(w + 24) - InstantOf(w) \in 23 .. 25
  BY <1>1, InstantsADayApart
<1>4. InstantOf(w) <= t
  BY <1>1, <1>3, WallReaches
<1>5. t < InstantOf(w + 24)
  <2>1. w + 24 \in Int /\ ~ (WallAt(t) >= w + 24)
    BY <1>1
  <2>2. ~ (t >= InstantOf(w + 24))
    BY <2>1, WallReaches
  <2> QED
    BY <1>3, <2>2
<1> QED
  BY <1>1, <1>2, <1>3, <1>4, <1>5 DEF n

\* A lockout as risk-service sets it at an instant.
LockoutAt(t) == [at |-> t, session |-> SessionDateFor(t), until |-> NextMarketOpen(t)]

CalendarFacts ==
    /\ hour \in Nat /\ boundary \in 0 .. 23
    /\ lockout # NotLocked => lockout.at \in Nat /\ lockout = LockoutAt(lockout.at)

LEMMA CalendarStarts == CalendarInit => CalendarFacts
  BY ZoneTypes, CalendarAssumption DEF CalendarInit, CalendarFacts

LEMMA CalendarStep == CalendarFacts /\ [CalendarNext]_calendarVars => CalendarFacts'
<1> SUFFICES ASSUME CalendarFacts, [CalendarNext]_calendarVars PROVE CalendarFacts'
  OBVIOUS
<1>1. CASE HourPasses
  BY <1>1 DEF HourPasses, CalendarFacts, LockoutAt, SessionDateFor
<1>2. CASE LockOut
  <2>1. hour' = hour /\ boundary' = boundary /\ lockout' = LockoutAt(hour)
    BY <1>2 DEF LockOut, LockoutAt
  <2>2. \A t : LockoutAt(t).at = t /\ LockoutAt(t)' = LockoutAt(t)
    BY <2>1 DEF LockoutAt, SessionDateFor
  <2>3. lockout'.at = hour /\ LockoutAt(lockout.at)' = LockoutAt(hour)
    BY <2>1, <2>2 DEF LockoutAt, SessionDateFor
  <2>4. hour \in Nat /\ boundary \in 0 .. 23
    BY DEF CalendarFacts
  <2> QED
    BY <2>1, <2>3, <2>4 DEF CalendarFacts
<1>3. CASE UNCHANGED calendarVars
  BY <1>3 DEF calendarVars, CalendarFacts, LockoutAt, SessionDateFor
<1> QED
  BY <1>1, <1>2, <1>3 DEF CalendarNext

\* A lockout ends at the reopen, within a day, in a later session or in the
\* closed hours of its own.
LEMMA LockoutEnds ==
    ASSUME NEW t \in Nat, boundary \in 0 .. 23
    PROVE  /\ NextMarketOpen(t) - t \in 1 .. 25
           /\ LocalHour(NextMarketOpen(t)) = ReopenHour
           /\ SessionDateFor(NextMarketOpen(t)) > SessionDateFor(t) \/ InMaintenance(t)
<1> DEFINE r == ReopenHour
           n == NextDay(t, r)
           w == 24 * n + r
           u == NextMarketOpen(t)
<1>1. t \in Int /\ r \in 0 .. 23 /\ LocalDay(t) \in Int /\ LocalHour(t) \in 0 .. 23
  BY DayAndHour, ZoneTypes
<1>2. u = InstantFromZoned(n, r)
  BY <1>1 DEF NextMarketOpen, NextDay
<1>3. /\ n \in Int /\ u \in Int /\ t < u /\ InstantFromZoned(n - 1, r) \in Int
      /\ InstantFromZoned(n - 1, r) <= t /\ u - InstantFromZoned(n - 1, r) \in 23 .. 25
  BY <1>1, <1>2, DayAround
<1>4. u - t \in 1 .. 25
  BY <1>1, <1>3
<1>5. u = InstantOf(w) /\ w \in Int
  <2>1. n \in Int /\ r \in 0 .. 23
    BY <1>1, <1>3
  <2> HIDE DEF n, u, r
  <2>2. w \in Int
    BY <2>1
  <2>3. InstantFromZoned(n, r) = InstantOf(w)
    BY <2>1, InstantFromZonedIs
  <2> QED
    BY <1>2, <2>2, <2>3
<1>6. w # SummerStart + StandardOffset
  BY <1>1, <1>3, HourOfWall, ZoneAssumption
<1>7. LocalDay(u) = n /\ LocalHour(u) = r
  <2>1. WallAt(u) = w
    BY <1>5, <1>6, WallShows
  <2>2. LocalDay(u) \in Int /\ LocalHour(u) \in 0 .. 23 /\ w = 24 * LocalDay(u) + LocalHour(u)
    BY <1>3, <2>1, DayAndHour
  <2>3. \A a, b \in Int : \A x, y \in 0 .. 23 : 24 * a + x = 24 * b + y => a = b /\ x = y
    OBVIOUS
  <2>4. n \in Int /\ r \in 0 .. 23
    BY <1>1, <1>3
  <2>5. 24 * LocalDay(u) + LocalHour(u) = 24 * n + r
    BY <2>2
  <2> HIDE DEF n, u, r
  <2> QED
    BY <2>2, <2>3, <2>4, <2>5
<1>8. SessionDateFor(u) > SessionDateFor(t) \/ InMaintenance(t)
  <2>1. n = LocalDay(t) + (IF LocalHour(t) >= r THEN 1 ELSE 0)
    BY DEF NextDay
  <2>2. /\ SessionDateFor(u) = n + (IF r >= boundary THEN 1 ELSE 0)
        /\ SessionDateFor(t) = LocalDay(t) + (IF LocalHour(t) >= boundary THEN 1 ELSE 0)
    BY <1>7 DEF SessionDateFor
  <2>3. InMaintenance(t) <=> (LocalHour(t) - boundary) % 24 < (r - boundary) % 24
    BY DEF InMaintenance
  <2>4. \A k \in -23 .. 23 : k % 24 = IF k >= 0 THEN k ELSE k + 24
    OBVIOUS
  <2>5. LocalHour(t) - boundary \in -23 .. 23 /\ r - boundary \in -23 .. 23
    BY <1>1
  <2> HIDE DEF n, u, r
  <2> QED
    BY <1>1, <2>1, <2>2, <2>3, <2>4, <2>5
<1> QED
  BY <1>4, <1>7, <1>8

LEMMA CalendarSound == CalendarFacts => SessionsAreSound
<1> SUFFICES ASSUME CalendarFacts PROVE SessionsAreSound
  OBVIOUS
<1> DEFINE d == SessionDateFor(hour)
<1>1. hour \in Int /\ boundary \in 0 .. 23 /\ d = NextDay(hour, boundary)
  BY DEF CalendarFacts, SessionDateFor, NextDay
<1>2. /\ d \in Int /\ SessionStart(d) \in Int /\ SessionEnd(d) \in Int
      /\ SessionStart(d) <= hour /\ hour < SessionEnd(d)
      /\ SessionEnd(d) - SessionStart(d) \in 23 .. 25
  BY <1>1, DayAround DEF SessionStart, SessionEnd
<1>3. SessionEnd(d) = SessionStart(d + 1)
  <2>1. \A k \in Int : SessionStart(k + 1) = SessionEnd(k)
    <3>1. \A k \in Int : k + 1 - 1 = k
      OBVIOUS
    <3> QED
      BY <3>1 DEF SessionStart, SessionEnd
  <2> HIDE DEF d
  <2> QED
    BY <1>2, <2>1
<1>4. ASSUME lockout # NotLocked
      PROVE  /\ lockout.until - lockout.at \in 1 .. 25
             /\ LocalHour(lockout.until) = ReopenHour
             /\ SessionDateFor(lockout.until) > lockout.session \/ InMaintenance(lockout.at)
  <2>1. /\ lockout.at \in Nat /\ lockout.until = NextMarketOpen(lockout.at)
        /\ lockout.session = SessionDateFor(lockout.at)
    BY <1>4 DEF CalendarFacts, LockoutAt
  <2> QED
    BY <1>1, <2>1, LockoutEnds
<1> QED
  BY <1>2, <1>3, <1>4 DEF SessionsAreSound

-----------------------------------------------------------------------------
(* Versions of the catalog. *)

\* SetToSeq lists each element of a finite set.
LEMMA SetToSeqCovers ==
    ASSUME NEW S, IsFiniteSet(S)
    PROVE  /\ SetToSeq(S) \in Seq(S)
           /\ \A x \in S : \E k \in 1 .. Len(SetToSeq(S)) : SetToSeq(S)[k] = x
<1> DEFINE n == Cardinality(S)
           f == SetToSeq(S)
<1>1. n \in Nat /\ ExistsBijection(1 .. n, S)
  BY FS_CardinalityType
<1>2. \E g \in [1 .. n -> S] : IsInjective(g)
  BY <1>1 DEF ExistsBijection, Bijection, Injection
<1>3. f \in [1 .. n -> S] /\ IsInjective(f)
  BY <1>2 DEF SetToSeq
<1>4. f \in Seq(S) /\ Len(f) = n
  <2> HIDE DEF f, n
  <2> QED
    BY <1>1, <1>3
<1>5. f \in Surjection(1 .. n, S)
  <2>1. f \in Injection(1 .. n, S)
    BY <1>3 DEF Injection
  <2>2. Cardinality(1 .. n) = n
    <3> HIDE DEF n
    <3> QED
      BY <1>1, FS_Interval
  <2> HIDE DEF f
  <2> QED
    BY <2>1, <2>2, FS_Injection
<1> HIDE DEF f, n
<1> QED
  BY <1>4, <1>5 DEF Surjection, f

-----------------------------------------------------------------------------

Job(d) == [op : {"retire", "first", "revise"},
           item : (DOMAIN CatalogOf[d]) \union {"plans", "addons"}]
Offered(d) == DOMAIN CatalogOf[d]

\* A list of jobs, one for each item of a set.
JobsFor(q, d, op, S) ==
    /\ q \in Seq(Job(d))
    /\ \A k \in 1 .. Len(q) : q[k].op = op /\ q[k].item \in S
    /\ \A i \in S : \E k \in 1 .. Len(q) : q[k] = [op |-> op, item |-> i]

LEMMA EachCovers ==
    ASSUME NEW d, NEW S \in SUBSET Offered(d), IsFiniteSet(S), NEW op \in {"first", "revise"}
    PROVE  JobsFor(Each(op, S), d, op, S)
<1> DEFINE T == {[op |-> op, item |-> i] : i \in S}
<1>1. IsFiniteSet(T)
  <2> DEFINE f == [i \in S |-> [op |-> op, item |-> i]]
  <2>1. f \in Surjection(S, T)
    BY DEF Surjection
  <2> QED
    BY <2>1, FS_Surjection
<1>2. /\ SetToSeq(T) \in Seq(T)
      /\ \A x \in T : \E k \in 1 .. Len(SetToSeq(T)) : SetToSeq(T)[k] = x
  BY <1>1, SetToSeqCovers
<1>3. Each(op, S) = SetToSeq(T)
  BY DEF Each
<1>4. T \subseteq Job(d)
  BY DEF Job, Offered
<1>5. Each(op, S) \in Seq(Job(d))
  BY <1>2, <1>3, <1>4, SeqMonotonic
<1>6. \A k \in 1 .. Len(Each(op, S)) : Each(op, S)[k] \in T
  BY <1>2, <1>3, ElementOfSeq
<1>7. \A t \in T : t.op = op /\ t.item \in S
  OBVIOUS
<1>8. \A i \in S : [op |-> op, item |-> i] \in T
  OBVIOUS
<1> HIDE DEF T
<1> QED
  BY <1>2, <1>3, <1>5, <1>6, <1>7, <1>8 DEF JobsFor

LEMMA ScriptShape ==
    ASSUME NEW d \in Deploys
    PROVE  /\ Script[d] \in Seq(Job(d)) /\ Len(Script[d]) >= 1
           /\ Script[d][1] = [op |-> "retire", item |-> "plans"]
           /\ \A k \in 1 .. Len(Script[d]) :
                 /\ Script[d][k].op = "retire" => k = 1 \/ Script[d][k].item = "addons"
                 /\ Script[d][k].op # "retire" => Script[d][k].item \in Offered(d)
                 /\ Script[d][k].op = "revise" =>
                       \E j \in 1 .. k - 1 : /\ Script[d][j].op = "first"
                                             /\ Script[d][j].item = Script[d][k].item
           /\ \A p \in PlanItems \intersect Offered(d) : \E k \in 1 .. Len(Script[d]) :
                 Script[d][k] = [op |-> "revise", item |-> p]
<1> DEFINE plans == PlanItems \intersect Offered(d)
           addons == AddOnItems \intersect Offered(d)
           a == <<[op |-> "retire", item |-> "plans"]>>
           b == Each("first", plans)
           m == <<[op |-> "retire", item |-> "addons"]>>
           e == Each("first", addons)
           f == Each("revise", plans)
<1>1. Script[d] = (((a \o b) \o m) \o e) \o f
  BY DEF Script, Offered
<1>2. IsFiniteSet(plans) /\ IsFiniteSet(addons)
  BY CatalogAssumption, FS_Subset
<1>3. /\ a \in Seq(Job(d)) /\ Len(a) = 1 /\ a[1] = [op |-> "retire", item |-> "plans"]
      /\ m \in Seq(Job(d)) /\ Len(m) = 1 /\ m[1] = [op |-> "retire", item |-> "addons"]
  BY DEF Job
<1>4. /\ b \in Seq(Job(d))
      /\ \A k \in 1 .. Len(b) : b[k].op = "first" /\ b[k].item \in plans
      /\ \A i \in plans : \E k \in 1 .. Len(b) : b[k] = [op |-> "first", item |-> i]
  <2>1. plans \in SUBSET Offered(d)
    OBVIOUS
  <2>2. IsFiniteSet(plans)
    BY <1>2
  <2> HIDE DEF plans
  <2>3. "first" \in {"first", "revise"}
    OBVIOUS
  <2>4. JobsFor(Each("first", plans), d, "first", plans)
    BY <2>1, <2>2, <2>3, EachCovers
  <2> QED
    BY <2>4 DEF JobsFor
<1>5. /\ e \in Seq(Job(d))
      /\ \A k \in 1 .. Len(e) : e[k].op = "first" /\ e[k].item \in addons
  BY <1>2, EachCovers DEF JobsFor
<1>6. /\ f \in Seq(Job(d))
      /\ \A k \in 1 .. Len(f) : f[k].op = "revise" /\ f[k].item \in plans
      /\ \A i \in plans : \E k \in 1 .. Len(f) : f[k] = [op |-> "revise", item |-> i]
  <2>1. plans \in SUBSET Offered(d)
    OBVIOUS
  <2>2. IsFiniteSet(plans)
    BY <1>2
  <2> HIDE DEF plans
  <2>3. "revise" \in {"first", "revise"}
    OBVIOUS
  <2>4. JobsFor(Each("revise", plans), d, "revise", plans)
    BY <2>1, <2>2, <2>3, EachCovers
  <2> QED
    BY <2>4 DEF JobsFor
<1>7. plans \subseteq Offered(d) /\ addons \subseteq Offered(d)
  OBVIOUS
<1> HIDE DEF a, b, m, e, f
<1> DEFINE s2 == a \o b
           s3 == s2 \o m
           s4 == s3 \o e
<1>8. /\ Len(b) \in Nat /\ Len(e) \in Nat /\ Len(f) \in Nat
  BY <1>4, <1>5, <1>6, LenProperties
<1>9. /\ s2 \in Seq(Job(d)) /\ Len(s2) = 1 + Len(b)
      /\ \A k \in 1 .. 1 + Len(b) : s2[k] = IF k <= 1 THEN a[k] ELSE b[k - 1]
  BY <1>3, <1>4, ConcatProperties
<1>10. /\ s3 \in Seq(Job(d)) /\ Len(s3) = 2 + Len(b)
       /\ \A k \in 1 .. 2 + Len(b) : s3[k] = IF k <= 1 + Len(b) THEN s2[k]
                                            ELSE m[k - 1 - Len(b)]
  <2> HIDE DEF s2
  <2>1. /\ s3 \in Seq(Job(d)) /\ Len(s3) = Len(s2) + Len(m)
        /\ \A k \in 1 .. Len(s2) + Len(m) : s3[k] = IF k <= Len(s2) THEN s2[k]
                                                    ELSE m[k - Len(s2)]
    BY <1>3, <1>9, ConcatProperties
  <2>2. Len(s2) + Len(m) = 2 + Len(b) /\ \A k \in Int : k - Len(s2) = k - 1 - Len(b)
    BY <1>3, <1>8, <1>9
  <2> QED
    BY <1>9, <2>1, <2>2
<1>11. /\ s4 \in Seq(Job(d)) /\ Len(s4) = 2 + Len(b) + Len(e)
       /\ \A k \in 1 .. 2 + Len(b) + Len(e) :
             s4[k] = IF k <= 2 + Len(b) THEN s3[k] ELSE e[k - 2 - Len(b)]
  <2> HIDE DEF s3
  <2>1. /\ s4 \in Seq(Job(d)) /\ Len(s4) = Len(s3) + Len(e)
        /\ \A k \in 1 .. Len(s3) + Len(e) : s4[k] = IF k <= Len(s3) THEN s3[k]
                                                    ELSE e[k - Len(s3)]
    <3>1. s3 \in Seq(Job(d)) /\ e \in Seq(Job(d))
      BY <1>5, <1>10
    <3> QED
      BY <3>1, ConcatProperties
  <2>2. Len(s3) + Len(e) = 2 + Len(b) + Len(e) /\ \A k \in Int : k - Len(s3) = k - 2 - Len(b)
    BY <1>8, <1>10
  <2> QED
    BY <1>10, <2>1, <2>2
<1> DEFINE rest == 2 + Len(b) + Len(e)
<1>12. /\ Script[d] \in Seq(Job(d)) /\ Len(Script[d]) = rest + Len(f)
       /\ \A k \in 1 .. rest + Len(f) :
             Script[d][k] = IF k <= rest THEN s4[k] ELSE f[k - rest]
  <2> HIDE DEF s4
  <2>1. s4 \o f \in Seq(Job(d)) /\ Len(s4 \o f) = Len(s4) + Len(f)
        /\ \A k \in 1 .. Len(s4) + Len(f) : (s4 \o f)[k] = IF k <= Len(s4) THEN s4[k]
                                                           ELSE f[k - Len(s4)]
    <3>1. s4 \in Seq(Job(d)) /\ f \in Seq(Job(d))
      BY <1>6, <1>11
    <3> QED
      BY <3>1, ConcatProperties
  <2>2. Script[d] = s4 \o f
    BY <1>1 DEF s4
  <2> QED
    BY <1>11, <2>1, <2>2
<1> HIDE DEF s2, s3, s4, plans, addons
\* Where a job of the script comes from.
<1>13. \A k \in 1 .. Len(Script[d]) :
         \/ k = 1 /\ Script[d][k] = a[1]
         \/ k - 1 \in 1 .. Len(b) /\ Script[d][k] = b[k - 1]
         \/ k = 2 + Len(b) /\ Script[d][k] = m[1]
         \/ k - 2 - Len(b) \in 1 .. Len(e) /\ Script[d][k] = e[k - 2 - Len(b)]
         \/ k - rest \in 1 .. Len(f) /\ Script[d][k] = f[k - rest]
  <2> SUFFICES ASSUME NEW k \in 1 .. Len(Script[d])
               PROVE  \/ k = 1 /\ Script[d][k] = a[1]
                      \/ k - 1 \in 1 .. Len(b) /\ Script[d][k] = b[k - 1]
                      \/ k = 2 + Len(b) /\ Script[d][k] = m[1]
                      \/ k - 2 - Len(b) \in 1 .. Len(e) /\ Script[d][k] = e[k - 2 - Len(b)]
                      \/ k - rest \in 1 .. Len(f) /\ Script[d][k] = f[k - rest]
    OBVIOUS
  <2>1. CASE k > rest
    BY <1>8, <1>12, <2>1
  <2>2. CASE 2 + Len(b) < k /\ k <= rest
    BY <1>8, <1>11, <1>12, <2>2
  <2>3. CASE k = 2 + Len(b)
    BY <1>8, <1>10, <1>11, <1>12, <2>3
  <2>4. CASE 1 < k /\ k <= 1 + Len(b)
    BY <1>8, <1>9, <1>10, <1>11, <1>12, <2>4
  <2>5. CASE k = 1
    BY <1>8, <1>9, <1>10, <1>11, <1>12, <2>5
  <2> QED
    BY <1>8, <1>12, <2>1, <2>2, <2>3, <2>4, <2>5
<1>14. \A j \in 1 .. Len(b) : j + 1 \in 1 .. rest /\ Script[d][j + 1] = b[j]
  <2> SUFFICES ASSUME NEW j \in 1 .. Len(b)
               PROVE  j + 1 \in 1 .. rest /\ Script[d][j + 1] = b[j]
    OBVIOUS
  <2>1. /\ j + 1 \in 1 .. rest /\ j + 1 \in 1 .. 1 + Len(b) /\ j + 1 \in 1 .. 2 + Len(b)
        /\ j + 1 > 1 /\ j + 1 - 1 = j /\ j + 1 \in 1 .. rest + Len(f)
    BY <1>8
  <2>2. Script[d][j + 1] = s4[j + 1] /\ s4[j + 1] = s3[j + 1]
    BY <1>8, <1>11, <1>12, <2>1
  <2>3. s3[j + 1] = s2[j + 1] /\ s2[j + 1] = b[j]
    BY <1>8, <1>9, <1>10, <2>1
  <2> QED
    BY <2>1, <2>2, <2>3
<1>15. \A j \in 1 .. Len(f) : rest + j \in 1 .. Len(Script[d]) /\ Script[d][rest + j] = f[j]
  BY <1>8, <1>12
<1>16. Script[d][1] = [op |-> "retire", item |-> "plans"] /\ Len(Script[d]) >= 1
  BY <1>3, <1>8, <1>12, <1>13
<1>17. \A k \in 1 .. Len(Script[d]) :
         /\ Script[d][k].op = "retire" => k = 1 \/ Script[d][k].item = "addons"
         /\ Script[d][k].op # "retire" => Script[d][k].item \in Offered(d)
  <2> SUFFICES ASSUME NEW k \in 1 .. Len(Script[d])
               PROVE  /\ Script[d][k].op = "retire" => k = 1 \/ Script[d][k].item = "addons"
                      /\ Script[d][k].op # "retire" => Script[d][k].item \in Offered(d)
    OBVIOUS
  <2>1. CASE k = 1 /\ Script[d][k] = a[1]
    BY <1>3, <2>1
  <2>2. CASE k - 1 \in 1 .. Len(b) /\ Script[d][k] = b[k - 1]
    BY <1>4, <1>7, <2>2
  <2>3. CASE k = 2 + Len(b) /\ Script[d][k] = m[1]
    BY <1>3, <2>3
  <2>4. CASE k - 2 - Len(b) \in 1 .. Len(e) /\ Script[d][k] = e[k - 2 - Len(b)]
    BY <1>5, <1>7, <2>4
  <2>5. CASE k - rest \in 1 .. Len(f) /\ Script[d][k] = f[k - rest]
    BY <1>6, <1>7, <2>5
  <2> QED
    BY <1>13, <2>1, <2>2, <2>3, <2>4, <2>5
<1>18. ASSUME NEW k \in 1 .. Len(Script[d]), Script[d][k].op = "revise"
       PROVE  \E j \in 1 .. k - 1 : /\ Script[d][j].op = "first"
                                    /\ Script[d][j].item = Script[d][k].item
  <2>1. k - rest \in 1 .. Len(f) /\ Script[d][k] = f[k - rest]
    <3>1. ~ (k = 1 /\ Script[d][k] = a[1]) /\ ~ (k = 2 + Len(b) /\ Script[d][k] = m[1])
      BY <1>3, <1>18
    <3>2. ~ (k - 1 \in 1 .. Len(b) /\ Script[d][k] = b[k - 1])
      BY <1>4, <1>18
    <3>3. ~ (k - 2 - Len(b) \in 1 .. Len(e) /\ Script[d][k] = e[k - 2 - Len(b)])
      BY <1>5, <1>18
    <3> QED
      BY <1>13, <3>1, <3>2, <3>3
  <2>2. Script[d][k].item \in plans
    BY <1>6, <2>1
  <2>3. PICK j \in 1 .. Len(b) : b[j] = [op |-> "first", item |-> Script[d][k].item]
    BY <1>4, <2>2
  <2>4. j + 1 \in 1 .. k - 1
    BY <1>8, <1>14, <2>1
  <2> QED
    BY <1>14, <2>3, <2>4
<1>19. \A p \in plans : \E k \in 1 .. Len(Script[d]) :
         Script[d][k] = [op |-> "revise", item |-> p]
  BY <1>6, <1>15
<1> QED
  BY <1>12, <1>16, <1>17, <1>18, <1>19 DEF plans

-----------------------------------------------------------------------------

Version == [status : {"PUBLISHED", "RETIRED", "SUPERSEDED"}, terms : CatalogTerms]
Progress == [step : Nat, read : BOOLEAN, seen : Nat]
Contract == [plan : PlanItems \union {"none"}, version : Nat, terms : CatalogTerms]

CatalogTyped ==
    /\ versions \in [Items -> Seq(Version)]
    /\ deploy \in [Deploys -> Progress]
    /\ disturbed \in SUBSET Deploys
    /\ soldUnder \in [AccountsSold -> Contract]
    /\ paidOut \in [AccountsSold -> Nat]

\* At most the newest version of an item is on sale.
NewestOnSale == \A i \in Items : PublishedOf(i) \subseteq {Len(versions[i])}

\* A sold account points at a version that has the terms it was sold on.
ContractsInv == \A a \in AccountsSold :
    /\ soldUnder[a] = Unsold => paidOut[a] = 0
    /\ soldUnder[a] # Unsold =>
          /\ soldUnder[a].plan \in PlanItems
          /\ soldUnder[a].version \in 1 .. Len(versions[soldUnder[a].plan])
          /\ versions[soldUnder[a].plan][soldUnder[a].version].terms = soldUnder[a].terms
          /\ soldUnder[a].terms.kind = "APPROVED_AMOUNT" => paidOut[a] <= soldUnder[a].terms.cap
          /\ soldUnder[a].terms.kind = "UNRESOLVED" => paidOut[a] = 0

\* The version a deploy is about to supersede exists.
SeenInv == \A d \in Deploys :
    Doing(d, "revise") /\ deploy[d].read => deploy[d].seen \in 1 .. Len(versions[ItemOf(d)])

\* What the steps an undisturbed deploy has taken have left behind.
FirstIsDone(i) == PublishedOf(i) # {}
RevisionIsDone(i, terms) ==
    /\ PublishedOf(i) # {}
    /\ \A v \in PublishedOf(i) : versions[i][v].terms = terms
DeployDone(d) ==
    /\ deploy[d].step > 1 => \A p \in PlanItems \ Offered(d) : PublishedOf(p) = {}
    /\ \A k \in 1 .. Len(Script[d]) : k < deploy[d].step =>
          /\ Script[d][k].op = "first" => FirstIsDone(Script[d][k].item)
          /\ Script[d][k].op = "revise" =>
                RevisionIsDone(Script[d][k].item, CatalogOf[d][Script[d][k].item])
DeploysInv == \A d \in Deploys \ disturbed : DeployDone(d)

CatalogFacts ==
    CatalogTyped /\ NewestOnSale /\ ContractsInv /\ SeenInv /\ DeploysInv

\* What a write of the catalog does to the versions there are.
VersionsKept ==
    /\ versions' \in [Items -> Seq(Version)]
    /\ \A i \in Items : /\ Len(versions'[i]) \in Nat /\ Len(versions'[i]) >= Len(versions[i])
                        /\ \A v \in 1 .. Len(versions[i]) :
                              versions'[i][v].terms = versions[i][v].terms

LEMMA CatalogStarts == CatalogInit => CatalogFacts
<1> SUFFICES ASSUME CatalogInit PROVE CatalogFacts
  OBVIOUS
<1>1. CatalogTyped
  <2>1. NoTerms \in CatalogTerms
    BY DEF NoTerms, CatalogTerms, CapKinds
  <2>2. Unsold \in Contract
    BY <2>1 DEF Unsold, Contract
  <2>3. [step |-> 1, read |-> FALSE, seen |-> 0] \in Progress
    BY DEF Progress
  <2>4. <<>> \in Seq(Version)
    BY EmptySeq
  <2> QED
    BY <2>2, <2>3, <2>4 DEF CatalogInit, CatalogTyped
<1>2. \A i \in Items : PublishedOf(i) = {}
  BY DEF CatalogInit, PublishedOf
<1>3. NewestOnSale
  BY <1>2 DEF NewestOnSale
<1>4. ContractsInv
  BY DEF ContractsInv, CatalogInit
<1>5. SeenInv
  BY DEF SeenInv, CatalogInit
<1>6. DeploysInv
  BY DEF DeploysInv, DeployDone, CatalogInit
<1> QED
  BY <1>1, <1>3, <1>4, <1>5, <1>6 DEF CatalogFacts

LEMMA LatestIsNewest ==
    ASSUME CatalogTyped, NewestOnSale, NEW i \in Items, PublishedOf(i) # {}
    PROVE  /\ PublishedOf(i) = {Len(versions[i])} /\ Latest(PublishedOf(i)) = Len(versions[i])
           /\ Len(versions[i]) \in 1 .. Len(versions[i])
<1>1. versions[i] \in Seq(Version) /\ Len(versions[i]) \in Nat
  BY LenProperties DEF CatalogTyped
<1>2. PublishedOf(i) = {Len(versions[i])}
  BY DEF NewestOnSale
<1>3. Len(versions[i]) \in 1 .. Len(versions[i])
  BY <1>1, <1>2 DEF PublishedOf
<1>4. Latest({Len(versions[i])}) = Len(versions[i])
  BY <1>1 DEF Latest
<1> QED
  BY <1>2, <1>3, <1>4

\* A step that only ever reads the catalog.
LEMMA JobFacts ==
    ASSUME CatalogTyped, NEW d \in Deploys, NEW op \in {"retire", "first", "revise"}, Doing(d, op)
    PROVE  /\ deploy[d].step \in 1 .. Len(Script[d]) /\ Len(Script[d]) \in Nat
           /\ Script[d][deploy[d].step].op = op
           /\ ItemOf(d) = Script[d][deploy[d].step].item
           /\ op # "retire" => ItemOf(d) \in Items /\ ItemOf(d) \in Offered(d)
                               /\ CatalogOf[d][ItemOf(d)] \in CatalogTerms
<1>1. deploy[d].step \in Nat /\ Len(Script[d]) \in Nat
  BY ScriptShape, LenProperties DEF CatalogTyped, Progress
<1>2. deploy[d].step # 0 /\ ~ (deploy[d].step > Len(Script[d]))
      /\ Script[d][deploy[d].step].op = op
  BY DEF Doing, Running, Ended, Failed
<1>3. deploy[d].step \in 1 .. Len(Script[d])
  BY <1>1, <1>2
<1>4. op # "retire" => Script[d][deploy[d].step].item \in Offered(d)
  BY <1>2, <1>3, ScriptShape
<1> QED
  BY <1>1, <1>2, <1>3, <1>4, CatalogAssumption DEF ItemOf, Offered

\* Two ways to leave a job: done, or thrown.
LEMMA AdvanceEffect ==
    ASSUME CatalogTyped, NEW d \in Deploys, Advance(d)
    PROVE  /\ deploy' \in [Deploys -> Progress]
           /\ deploy'[d].step = deploy[d].step + 1 /\ deploy'[d].read = FALSE
           /\ \A c \in Deploys : c # d => deploy'[c] = deploy[c]
<1> DEFINE r == [step |-> deploy[d].step + 1, read |-> FALSE, seen |-> 0]
<1>1. deploy[d].step \in Nat
  BY DEF CatalogTyped, Progress
<1>2. r \in Progress /\ r.step = deploy[d].step + 1 /\ r.read = FALSE
  BY <1>1 DEF Progress
<1>3. deploy' = [deploy EXCEPT ![d] = r]
  BY DEF Advance
<1> HIDE DEF r
<1> QED
  BY <1>2, <1>3 DEF CatalogTyped

LEMMA ThrowEffect ==
    ASSUME CatalogTyped, NEW d \in Deploys, Throw(d)
    PROVE  /\ deploy' \in [Deploys -> Progress]
           /\ deploy'[d].step = 0 /\ deploy'[d].read = FALSE
           /\ \A c \in Deploys : c # d => deploy'[c] = deploy[c]
<1>1. deploy' = [deploy EXCEPT ![d] = [step |-> 0, read |-> FALSE, seen |-> 0]]
  BY DEF Throw, Failed
<1>2. [step |-> 0, read |-> FALSE, seen |-> 0] \in Progress
  BY DEF Progress
<1> QED
  BY <1>1, <1>2 DEF CatalogTyped

LEMMA RememberEffect ==
    ASSUME CatalogTyped, NEW d \in Deploys, NEW v \in Nat, Remember(d, v)
    PROVE  /\ deploy' \in [Deploys -> Progress]
           /\ deploy'[d].step = deploy[d].step /\ deploy'[d].seen = v
           /\ \A c \in Deploys : c # d => deploy'[c] = deploy[c]
<1> DEFINE r == [deploy[d] EXCEPT !.read = TRUE, !.seen = v]
<1>1. deploy[d] \in Progress
  BY DEF CatalogTyped
<1>2. r \in Progress /\ r.step = deploy[d].step /\ r.seen = v
  BY <1>1 DEF Progress
<1>3. deploy' = [deploy EXCEPT ![d] = r]
  BY DEF Remember
<1> HIDE DEF r
<1> QED
  BY <1>2, <1>3 DEF CatalogTyped

\* Contracts outlive every write of the catalog.
LEMMA ContractsKept ==
    ASSUME CatalogTyped, ContractsInv, VersionsKept, UNCHANGED <<soldUnder, paidOut>>
    PROVE  ContractsInv'
<1> SUFFICES ASSUME NEW a \in AccountsSold, soldUnder[a] # Unsold
             PROVE  /\ soldUnder[a].version \in 1 .. Len(versions'[soldUnder[a].plan])
                    /\ versions'[soldUnder[a].plan][soldUnder[a].version].terms
                          = soldUnder[a].terms
  BY DEF ContractsInv
<1> DEFINE p == soldUnder[a].plan
           v == soldUnder[a].version
<1>1. p \in PlanItems /\ v \in 1 .. Len(versions[p]) /\ versions[p][v].terms = soldUnder[a].terms
  BY DEF ContractsInv
<1>2. p \in Items
  BY <1>1 DEF Items
<1>3. Len(versions[p]) \in Nat
  BY <1>2, LenProperties DEF CatalogTyped
<1> HIDE DEF p, v
<1>4. v \in 1 .. Len(versions'[p]) /\ versions'[p][v].terms = versions[p][v].terms
  BY <1>1, <1>2, <1>3 DEF VersionsKept
<1> QED
  BY <1>1, <1>4 DEF p, v

\* What a deploy has read stays in the catalog, whoever writes.
LEMMA SeenKept ==
    ASSUME CatalogTyped, SeenInv, VersionsKept, NEW c \in Deploys, deploy'[c] = deploy[c],
           Doing(c, "revise")', deploy'[c].read
    PROVE  deploy'[c].seen \in 1 .. Len(versions'[ItemOf(c)'])
<1>1. Doing(c, "revise") /\ deploy[c].read /\ ItemOf(c)' = ItemOf(c)
  BY DEF Doing, Running, Ended, ItemOf
<1>2. deploy[c].seen \in 1 .. Len(versions[ItemOf(c)])
  BY <1>1 DEF SeenInv
<1>3. ItemOf(c) \in Items
  BY <1>1, JobFacts
<1>4. Len(versions[ItemOf(c)]) \in Nat
  BY <1>3, LenProperties DEF CatalogTyped
<1> QED
  BY <1>1, <1>2, <1>3, <1>4 DEF VersionsKept

\* A write disturbs every other deploy that has something to lose.
LEMMA DisturbSpares ==
    ASSUME CatalogTyped, NEW d \in Deploys, Disturb(d),
           \A c \in Deploys : c # d => deploy'[c] = deploy[c]
    PROVE  \A c \in Deploys \ disturbed' : c # d => DeployDone(c)'
<1> SUFFICES ASSUME NEW c \in Deploys \ disturbed', c # d
             PROVE  DeployDone(c)'
  OBVIOUS
<1>1. deploy'[c] = deploy[c] /\ deploy[c].step \in Nat
  BY DEF CatalogTyped, Progress
<1>2. ~ (deploy'[c].step > 1)
  BY <1>1 DEF Disturb
<1>3. \A k \in 1 .. Len(Script[c]) : ~ (k < deploy'[c].step)
  BY <1>1, <1>2
<1> QED
  BY <1>2, <1>3 DEF DeployDone

\* A deploy that takes one job to its end has done it and all before it.
LEMMA DoneAfter ==
    ASSUME CatalogTyped, NEW d \in Deploys, NEW op \in {"retire", "first", "revise"},
           Doing(d, op), deploy'[d].step = deploy[d].step + 1,
           \A p \in PlanItems \ Offered(d) : PublishedOf(p)' = {},
           \A k \in 1 .. deploy[d].step : k <= Len(Script[d]) =>
              /\ Script[d][k].op = "first" => FirstIsDone(Script[d][k].item)'
              /\ Script[d][k].op = "revise" =>
                    RevisionIsDone(Script[d][k].item, CatalogOf[d][Script[d][k].item])'
    PROVE  DeployDone(d)'
<1>1. deploy[d].step \in 1 .. Len(Script[d]) /\ Len(Script[d]) \in Nat
  BY JobFacts
<1> SUFFICES ASSUME NEW k \in 1 .. Len(Script[d]), k < deploy'[d].step
             PROVE  /\ Script[d][k].op = "first" => FirstIsDone(Script[d][k].item)'
                    /\ Script[d][k].op = "revise" =>
                          RevisionIsDone(Script[d][k].item, CatalogOf[d][Script[d][k].item])'
  BY DEF DeployDone
<1>2. k \in 1 .. deploy[d].step /\ k <= Len(Script[d])
  BY <1>1
<1> QED
  BY <1>2

\* What a deploy has done stays done as long as nobody writes.
LEMMA DoneKept ==
    ASSUME NEW d \in Deploys, DeployDone(d), versions' = versions,
           deploy'[d].step = deploy[d].step
    PROVE  DeployDone(d)'
<1>1. \A i : PublishedOf(i)' = PublishedOf(i)
  BY DEF PublishedOf
<1>2. \A i, terms : /\ FirstIsDone(i) => FirstIsDone(i)'
                    /\ RevisionIsDone(i, terms) => RevisionIsDone(i, terms)'
  BY <1>1 DEF FirstIsDone, RevisionIsDone
<1>3. deploy'[d].step > 1 => \A p \in PlanItems \ Offered(d) : PublishedOf(p)' = {}
  BY <1>1 DEF DeployDone
<1>4. ASSUME NEW k \in 1 .. Len(Script[d]), k < deploy'[d].step
      PROVE  /\ Script[d][k].op = "first" => FirstIsDone(Script[d][k].item)'
             /\ Script[d][k].op = "revise" =>
                   RevisionIsDone(Script[d][k].item, CatalogOf[d][Script[d][k].item])'
  <2>1. /\ Script[d][k].op = "first" => FirstIsDone(Script[d][k].item)
        /\ Script[d][k].op = "revise" =>
              RevisionIsDone(Script[d][k].item, CatalogOf[d][Script[d][k].item])
    BY <1>4 DEF DeployDone
  <2> QED
    BY <1>2, <2>1
<1> QED
  BY <1>3, <1>4 DEF DeployDone

\* A step that leaves the versions alone and one deploy at most elsewhere.
LEMMA ReadOnly ==
    ASSUME CatalogFacts, NEW d \in Deploys, deploy' \in [Deploys -> Progress],
           \A c \in Deploys : c # d => deploy'[c] = deploy[c],
           UNCHANGED <<versions, disturbed, soldUnder, paidOut>>,
           Doing(d, "revise")' /\ deploy'[d].read =>
              deploy'[d].seen \in 1 .. Len(versions[ItemOf(d)']),
           d \notin disturbed => DeployDone(d)'
    PROVE  CatalogFacts'
<1>1. VersionsKept
  <2>1. versions' = versions
    OBVIOUS
  <2>2. \A i \in Items : Len(versions[i]) \in Nat
    BY LenProperties DEF CatalogFacts, CatalogTyped
  <2> QED
    BY <2>1, <2>2 DEF VersionsKept, CatalogFacts, CatalogTyped
<1>2. CatalogTyped' /\ NewestOnSale' /\ ContractsInv'
  BY DEF CatalogFacts, CatalogTyped, NewestOnSale, ContractsInv, PublishedOf
<1>3. SeenInv'
  <2> SUFFICES ASSUME NEW c \in Deploys, Doing(c, "revise")', deploy'[c].read
               PROVE  deploy'[c].seen \in 1 .. Len(versions'[ItemOf(c)'])
    BY DEF SeenInv
  <2>1. CASE c = d
    BY <2>1
  <2>2. CASE c # d
    BY <1>1, <2>2, SeenKept DEF CatalogFacts
  <2> QED
    BY <2>1, <2>2
<1>4. DeploysInv'
  <2> SUFFICES ASSUME NEW c \in Deploys \ disturbed PROVE DeployDone(c)'
    BY DEF DeploysInv
  <2>1. CASE c = d
    BY <2>1
  <2>2. CASE c # d
    <3>1. DeployDone(c) /\ deploy'[c] = deploy[c]
      BY <2>2 DEF CatalogFacts, DeploysInv
    <3> QED
      BY <3>1, DoneKept
  <2> QED
    BY <2>1, <2>2
<1> QED
  BY <1>2, <1>3, <1>4 DEF CatalogFacts

\* A step that writes the catalog and ends its job.
LEMMA Writing ==
    ASSUME CatalogFacts, NEW d \in Deploys, deploy' \in [Deploys -> Progress],
           ~ deploy'[d].read,
           \A c \in Deploys : c # d => deploy'[c] = deploy[c],
           VersionsKept, NewestOnSale', Disturb(d), UNCHANGED <<soldUnder, paidOut>>,
           d \notin disturbed => DeployDone(d)'
    PROVE  CatalogFacts'
<1>1. disturbed' \in SUBSET Deploys /\ disturbed \subseteq disturbed'
  BY DEF CatalogFacts, CatalogTyped, Disturb
<1>2. CatalogTyped' /\ ContractsInv'
  <2>1. CatalogTyped'
    BY <1>1 DEF CatalogFacts, CatalogTyped, VersionsKept
  <2> QED
    BY <2>1, ContractsKept DEF CatalogFacts
<1>3. SeenInv'
  <2> SUFFICES ASSUME NEW c \in Deploys, Doing(c, "revise")', deploy'[c].read
               PROVE  deploy'[c].seen \in 1 .. Len(versions'[ItemOf(c)'])
    BY DEF SeenInv
  <2> QED
    BY SeenKept DEF CatalogFacts
<1>4. DeploysInv'
  BY <1>1, DisturbSpares DEF DeploysInv, CatalogFacts
<1> QED
  BY <1>2, <1>3, <1>4 DEF CatalogFacts

-----------------------------------------------------------------------------

\* Retiring only ever ends the sale of items the code does not offer.
LEMMA RetireStep ==
    ASSUME CatalogFacts, NEW d \in Deploys, Retire(d)
    PROVE  CatalogFacts'
<1> DEFINE kind == IF ItemOf(d) = "plans" THEN PlanItems ELSE AddOnItems
           gone == kind \ DOMAIN CatalogOf[d]
           kept(i, v) == IF i \in gone /\ v \in PublishedOf(i)
                         THEN [versions[i][v] EXCEPT !.status = "RETIRED"] ELSE versions[i][v]
<1>1. /\ Doing(d, "retire") /\ Advance(d) /\ Disturb(d) /\ UNCHANGED <<soldUnder, paidOut>>
      /\ versions' = [i \in Items |-> [v \in DOMAIN versions[i] |-> kept(i, v)]]
  BY DEF Retire
<1>2. \A i \in Items : /\ versions[i] \in Seq(Version) /\ Len(versions[i]) \in Nat
                       /\ DOMAIN versions[i] = 1 .. Len(versions[i])
  BY LenProperties DEF CatalogFacts, CatalogTyped
<1>3. \A i \in Items : \A v \in 1 .. Len(versions[i]) :
         /\ kept(i, v) \in Version /\ kept(i, v).terms = versions[i][v].terms
         /\ kept(i, v).status = IF i \in gone /\ v \in PublishedOf(i) THEN "RETIRED"
                                ELSE versions[i][v].status
  <2> SUFFICES ASSUME NEW i \in Items, NEW v \in 1 .. Len(versions[i])
               PROVE  /\ kept(i, v) \in Version /\ kept(i, v).terms = versions[i][v].terms
                      /\ kept(i, v).status = IF i \in gone /\ v \in PublishedOf(i) THEN "RETIRED"
                                             ELSE versions[i][v].status
    OBVIOUS
  <2>1. versions[i][v] \in Version
    BY <1>2, ElementOfSeq
  <2> HIDE DEF gone
  <2> QED
    BY <2>1 DEF Version
<1> HIDE DEF kept
<1>4. \A i \in Items : /\ versions'[i] \in Seq(Version) /\ Len(versions'[i]) = Len(versions[i])
                       /\ \A v \in 1 .. Len(versions[i]) : versions'[i][v] = kept(i, v)
  <2> SUFFICES ASSUME NEW i \in Items
               PROVE  /\ versions'[i] \in Seq(Version) /\ Len(versions'[i]) = Len(versions[i])
                      /\ \A v \in 1 .. Len(versions[i]) : versions'[i][v] = kept(i, v)
    OBVIOUS
  <2>1. versions'[i] = [v \in 1 .. Len(versions[i]) |-> kept(i, v)]
    BY <1>1, <1>2
  <2>2. versions'[i] \in [1 .. Len(versions[i]) -> Version]
    BY <1>3, <2>1
  <2> QED
    BY <1>2, <2>1, <2>2
<1>5. VersionsKept
  BY <1>1, <1>2, <1>3, <1>4 DEF VersionsKept
<1>6. \A i \in Items : PublishedOf(i)' = IF i \in gone THEN {} ELSE PublishedOf(i)
  <2> SUFFICES ASSUME NEW i \in Items
               PROVE  PublishedOf(i)' = IF i \in gone THEN {} ELSE PublishedOf(i)
    OBVIOUS
  <2>1. DOMAIN versions'[i] = 1 .. Len(versions[i])
    BY <1>4, LenProperties
  <2>2. \A v \in 1 .. Len(versions[i]) : versions'[i][v].status =
           IF i \in gone /\ v \in PublishedOf(i) THEN "RETIRED" ELSE versions[i][v].status
    BY <1>3, <1>4
  <2> HIDE DEF gone
  <2> QED
    BY <1>2, <2>1, <2>2 DEF PublishedOf
<1>7. NewestOnSale'
  BY <1>4, <1>6 DEF NewestOnSale, CatalogFacts
<1>8. ASSUME d \notin disturbed PROVE DeployDone(d)'
  <2>1. DeployDone(d)
    BY <1>8 DEF CatalogFacts, DeploysInv
  <2>2. deploy'[d].step = deploy[d].step + 1
    BY <1>1, AdvanceEffect DEF CatalogFacts
  <2>3. deploy[d].step \in 1 .. Len(Script[d]) /\ Len(Script[d]) \in Nat
        /\ Script[d][deploy[d].step].op = "retire"
        /\ ItemOf(d) = Script[d][deploy[d].step].item
    BY <1>1, JobFacts DEF CatalogFacts
  <2>4. \A p \in PlanItems \ Offered(d) : PublishedOf(p)' = {}
    <3> SUFFICES ASSUME NEW p \in PlanItems \ Offered(d) PROVE PublishedOf(p)' = {}
      OBVIOUS
    <3>1. p \in Items
      BY DEF Items
    <3>2. CASE deploy[d].step = 1
      <4>1. ItemOf(d) = "plans"
        BY <2>3, <3>2, ScriptShape
      <4> QED
        BY <1>6, <3>1, <4>1 DEF Offered
    <3>3. CASE deploy[d].step # 1
      <4>1. PublishedOf(p) = {}
        BY <2>1, <2>3, <3>3 DEF DeployDone
      <4> QED
        BY <1>6, <3>1, <4>1
    <3> QED
      BY <3>2, <3>3
  <2>5. \A i \in Offered(d) : i \in Items /\ PublishedOf(i)' = PublishedOf(i)
    BY <1>6, CatalogAssumption DEF Offered
  <2>6. ASSUME NEW k \in 1 .. deploy[d].step, k <= Len(Script[d])
        PROVE  /\ Script[d][k].op = "first" => FirstIsDone(Script[d][k].item)'
               /\ Script[d][k].op = "revise" =>
                     RevisionIsDone(Script[d][k].item, CatalogOf[d][Script[d][k].item])'
    <3>1. CASE Script[d][k].op = "retire"
      BY <3>1
    <3>2. CASE Script[d][k].op # "retire"
      <4>1. k \in 1 .. Len(Script[d]) /\ k < deploy[d].step
        BY <2>3, <2>6, <3>2
      <4> DEFINE i == Script[d][k].item
      <4>2. i \in Offered(d)
        BY <3>2, <4>1, ScriptShape
      <4>3. /\ Script[d][k].op = "first" => FirstIsDone(i)
            /\ Script[d][k].op = "revise" => RevisionIsDone(i, CatalogOf[d][i])
        BY <2>1, <4>1 DEF DeployDone
      <4>4. i \in Items /\ PublishedOf(i)' = PublishedOf(i)
        BY <2>5, <4>2
      <4>5. PublishedOf(i) \subseteq 1 .. Len(versions[i])
        BY <1>2, <4>4 DEF PublishedOf
      <4> HIDE DEF i
      <4>6. \A v \in PublishedOf(i) : versions'[i][v].terms = versions[i][v].terms
        BY <1>5, <4>4, <4>5 DEF VersionsKept
      <4>7. /\ Script[d][k].op = "first" => FirstIsDone(i)'
            /\ Script[d][k].op = "revise" => RevisionIsDone(i, CatalogOf[d][i])'
        BY <4>3, <4>4, <4>6 DEF FirstIsDone, RevisionIsDone
      <4> QED
        BY <4>7 DEF i
    <3> QED
      BY <3>1, <3>2
  <2> QED
    BY <1>1, <2>2, <2>4, <2>6, DoneAfter DEF CatalogFacts
<1> QED
  BY <1>1, <1>5, <1>7, <1>8, AdvanceEffect, Writing DEF CatalogFacts

\* A job that was done before leaves what it did, when one item gets a new version.
LEMMA EarlierJobs ==
    ASSUME CatalogTyped, NEW d \in Deploys, DeployDone(d),
           deploy[d].step \in 1 .. Len(Script[d]), Len(Script[d]) \in Nat,
           NEW i \in Offered(d), RevisionIsDone(i, CatalogOf[d][i])',
           \A j \in Items : j # i => versions'[j] = versions[j]
    PROVE  /\ deploy[d].step > 1 => \A p \in PlanItems \ Offered(d) : PublishedOf(p)' = {}
           /\ \A k \in 1 .. deploy[d].step - 1 :
                 /\ Script[d][k].op = "first" => FirstIsDone(Script[d][k].item)'
                 /\ Script[d][k].op = "revise" =>
                       RevisionIsDone(Script[d][k].item, CatalogOf[d][Script[d][k].item])'
<1>1. \A j \in Items : j # i => PublishedOf(j)' = PublishedOf(j)
  BY DEF PublishedOf
<1>2. ASSUME deploy[d].step > 1, NEW p \in PlanItems \ Offered(d) PROVE PublishedOf(p)' = {}
  <2>1. p # i /\ p \in Items
    BY DEF Items
  <2>2. PublishedOf(p) = {}
    BY <1>2 DEF DeployDone
  <2> QED
    BY <1>1, <2>1, <2>2
<1>3. ASSUME NEW k \in 1 .. deploy[d].step - 1
      PROVE  /\ Script[d][k].op = "first" => FirstIsDone(Script[d][k].item)'
             /\ Script[d][k].op = "revise" =>
                   RevisionIsDone(Script[d][k].item, CatalogOf[d][Script[d][k].item])'
  <2> DEFINE j == Script[d][k].item
  <2>1. k \in 1 .. Len(Script[d]) /\ k < deploy[d].step
    BY <1>3
  <2>2. /\ Script[d][k].op = "first" => FirstIsDone(j)
        /\ Script[d][k].op = "revise" => RevisionIsDone(j, CatalogOf[d][j])
    BY <2>1 DEF DeployDone
  <2>3. Script[d][k].op # "retire" => j \in Items
    BY <2>1, ScriptShape, CatalogAssumption DEF Offered
  <2> HIDE DEF j
  <2>4. CASE Script[d][k].op = "retire"
    BY <2>4
  <2>5. CASE Script[d][k].op # "retire" /\ j = i
    <3>1. FirstIsDone(j)' /\ RevisionIsDone(j, CatalogOf[d][j])'
      BY <2>5 DEF FirstIsDone, RevisionIsDone
    <3> QED
      BY <3>1 DEF j
  <2>6. CASE Script[d][k].op # "retire" /\ j # i
    <3>1. PublishedOf(j)' = PublishedOf(j) /\ versions'[j] = versions[j]
      BY <1>1, <2>3, <2>6
    <3>2. /\ Script[d][k].op = "first" => FirstIsDone(j)'
          /\ Script[d][k].op = "revise" => RevisionIsDone(j, CatalogOf[d][j])'
      BY <2>2, <3>1 DEF FirstIsDone, RevisionIsDone
    <3> QED
      BY <3>2 DEF j
  <2> QED
    BY <2>4, <2>5, <2>6
<1> QED
  BY <1>2, <1>3

\* Publishing and revising come after the retirement that opens the script.
LEMMA NotFirstJob ==
    ASSUME CatalogTyped, NEW d \in Deploys, NEW op \in {"first", "revise"}, Doing(d, op)
    PROVE  deploy[d].step > 1
<1>1. deploy[d].step \in 1 .. Len(Script[d]) /\ Len(Script[d]) \in Nat
      /\ Script[d][deploy[d].step].op = op
  BY JobFacts
<1>2. Script[d][1].op = "retire"
  BY ScriptShape
<1>3. deploy[d].step # 1
  BY <1>1, <1>2
<1> QED
  BY <1>1, <1>3

\* A job ended by a read: the item is as the job wants it.
LEMMA ReadEnds ==
    ASSUME CatalogFacts, NEW d \in Deploys, NEW op \in {"first", "revise"}, Doing(d, op),
           Advance(d), UNCHANGED <<versions, disturbed, soldUnder, paidOut>>,
           d \notin disturbed /\ op = "first" => FirstIsDone(ItemOf(d)),
           d \notin disturbed /\ op = "revise" => RevisionIsDone(ItemOf(d), CatalogOf[d][ItemOf(d)])
    PROVE  CatalogFacts'
<1>1. /\ deploy' \in [Deploys -> Progress] /\ deploy'[d].step = deploy[d].step + 1
      /\ deploy'[d].read = FALSE /\ \A c \in Deploys : c # d => deploy'[c] = deploy[c]
  BY AdvanceEffect DEF CatalogFacts
<1>2. deploy[d].step \in 1 .. Len(Script[d]) /\ Len(Script[d]) \in Nat
      /\ Script[d][deploy[d].step].op = op /\ ItemOf(d) = Script[d][deploy[d].step].item
      /\ deploy[d].step > 1
  BY JobFacts, NotFirstJob DEF CatalogFacts
<1>3. ASSUME d \notin disturbed PROVE DeployDone(d)'
  <2>1. DeployDone(d)
    BY <1>3 DEF CatalogFacts, DeploysInv
  <2>2. \A p \in PlanItems \ Offered(d) : PublishedOf(p)' = {}
    BY <1>2, <2>1 DEF DeployDone, PublishedOf
  <2>3. ASSUME NEW k \in 1 .. deploy[d].step, k <= Len(Script[d])
        PROVE  /\ Script[d][k].op = "first" => FirstIsDone(Script[d][k].item)'
               /\ Script[d][k].op = "revise" =>
                     RevisionIsDone(Script[d][k].item, CatalogOf[d][Script[d][k].item])'
    <3>1. /\ Script[d][k].op = "first" => FirstIsDone(Script[d][k].item)
          /\ Script[d][k].op = "revise" =>
                RevisionIsDone(Script[d][k].item, CatalogOf[d][Script[d][k].item])
      <4>1. CASE k = deploy[d].step
        BY <1>2, <1>3, <4>1
      <4>2. CASE k # deploy[d].step
        <5>1. k \in 1 .. Len(Script[d]) /\ k < deploy[d].step
          BY <1>2, <2>3, <4>2
        <5> QED
          BY <2>1, <5>1 DEF DeployDone
      <4> QED
        BY <4>1, <4>2
    <3> QED
      BY <3>1 DEF FirstIsDone, RevisionIsDone, PublishedOf
  <2> QED
    BY <1>1, <2>2, <2>3, DoneAfter DEF CatalogFacts
<1> QED
  BY <1>1, <1>3, ReadOnly

\* A job ended by a write: one item has a new, published, newest version.
LEMMA WriteEnds ==
    ASSUME CatalogFacts, NEW d \in Deploys, NEW op \in {"first", "revise"}, Doing(d, op), NEW i, i = ItemOf(d),
           NEW new \in Seq(Version), versions' = [versions EXCEPT ![i] = new],
           Len(new) = Len(versions[i]) + 1,
           new[Len(new)] = Published(CatalogOf[d][i]),
           \A v \in 1 .. Len(versions[i]) :
              new[v].terms = versions[i][v].terms /\ new[v].status # "PUBLISHED",
           Advance(d), Disturb(d), UNCHANGED <<soldUnder, paidOut>>
    PROVE  CatalogFacts'
<1>1. /\ deploy' \in [Deploys -> Progress] /\ deploy'[d].step = deploy[d].step + 1
      /\ deploy'[d].read = FALSE /\ \A c \in Deploys : c # d => deploy'[c] = deploy[c]
  BY AdvanceEffect DEF CatalogFacts
<1>2. deploy[d].step \in 1 .. Len(Script[d]) /\ Len(Script[d]) \in Nat
      /\ Script[d][deploy[d].step].op = op /\ i = Script[d][deploy[d].step].item
      /\ deploy[d].step > 1 /\ i \in Items /\ i \in Offered(d)
  BY JobFacts, NotFirstJob DEF CatalogFacts
<1>3. \A j \in Items : versions[j] \in Seq(Version) /\ Len(versions[j]) \in Nat
  BY LenProperties DEF CatalogFacts, CatalogTyped
<1>4. versions \in [Items -> Seq(Version)] /\ versions' = [versions EXCEPT ![i] = new]
      /\ Len(new) = Len(versions[i]) + 1 /\ new[Len(new)] = Published(CatalogOf[d][i])
      /\ \A v \in 1 .. Len(versions[i]) :
            new[v].terms = versions[i][v].terms /\ new[v].status # "PUBLISHED"
  BY DEF CatalogFacts, CatalogTyped
<1>5. versions'[i] = new /\ \A j \in Items : j # i => versions'[j] = versions[j]
  BY <1>2, <1>4
<1>6. versions' \in [Items -> Seq(Version)]
  BY <1>2, <1>4
<1>7. VersionsKept
  <2> SUFFICES ASSUME NEW j \in Items
               PROVE  /\ Len(versions'[j]) \in Nat /\ Len(versions'[j]) >= Len(versions[j])
                      /\ \A v \in 1 .. Len(versions[j]) :
                            versions'[j][v].terms = versions[j][v].terms
    BY <1>6 DEF VersionsKept
  <2>1. CASE j = i
    <3>1. versions'[j] = new /\ Len(versions[j]) \in Nat
      BY <1>3, <1>5, <2>1
    <3> QED
      BY <1>4, <2>1, <3>1
  <2>2. CASE j # i
    BY <1>3, <1>5, <2>2
  <2> QED
    BY <2>1, <2>2
<1>8. PublishedOf(i)' = {Len(new)} /\ \A j \in Items : j # i => PublishedOf(j)' = PublishedOf(j)
  <2>1. DOMAIN new = 1 .. Len(new) /\ Len(new) \in Nat /\ Len(versions[i]) \in Nat
    BY <1>2, <1>3, LenProperties
  <2>2. new[Len(new)].status = "PUBLISHED"
    BY <1>4 DEF Published
  <2>3. \A v \in DOMAIN new : new[v].status = "PUBLISHED" <=> v = Len(new)
    BY <1>4, <2>1, <2>2
  <2>4. {v \in DOMAIN new : new[v].status = "PUBLISHED"} = {Len(new)}
    BY <2>1, <2>3
  <2> QED
    BY <1>5, <2>4 DEF PublishedOf
<1>9. NewestOnSale'
  BY <1>5, <1>8 DEF NewestOnSale, CatalogFacts
<1>10. ASSUME d \notin disturbed PROVE DeployDone(d)'
  <2>1. DeployDone(d)
    BY <1>10 DEF CatalogFacts, DeploysInv
  <2>2. RevisionIsDone(i, CatalogOf[d][i])'
    BY <1>4, <1>5, <1>8 DEF RevisionIsDone, Published
  <2>3. /\ \A p \in PlanItems \ Offered(d) : PublishedOf(p)' = {}
        /\ \A k \in 1 .. deploy[d].step - 1 :
              /\ Script[d][k].op = "first" => FirstIsDone(Script[d][k].item)'
              /\ Script[d][k].op = "revise" =>
                    RevisionIsDone(Script[d][k].item, CatalogOf[d][Script[d][k].item])'
    BY <1>2, <1>5, <2>1, <2>2, EarlierJobs DEF CatalogFacts
  <2>4. ASSUME NEW k \in 1 .. deploy[d].step, k <= Len(Script[d])
        PROVE  /\ Script[d][k].op = "first" => FirstIsDone(Script[d][k].item)'
               /\ Script[d][k].op = "revise" =>
                     RevisionIsDone(Script[d][k].item, CatalogOf[d][Script[d][k].item])'
    <3>1. CASE k = deploy[d].step
      BY <1>2, <2>2, <3>1 DEF FirstIsDone, RevisionIsDone
    <3>2. CASE k # deploy[d].step
      <4>1. deploy[d].step \in Nat
        BY DEF CatalogFacts, CatalogTyped, Progress
      <4>2. k \in 1 .. deploy[d].step - 1
        BY <2>4, <3>2, <4>1
      <4> QED
        BY <2>3, <4>2
    <3> QED
      BY <3>1, <3>2
  <2> QED
    BY <1>1, <2>3, <2>4, DoneAfter DEF CatalogFacts
<1> QED
  BY <1>1, <1>7, <1>9, <1>10, Writing

\* A job that throws ends its script and changes nothing else.
LEMMA ThrowStep ==
    ASSUME CatalogFacts, NEW d \in Deploys, Throw(d),
           UNCHANGED <<versions, disturbed, soldUnder, paidOut>>
    PROVE  CatalogFacts'
<1>1. /\ deploy' \in [Deploys -> Progress] /\ deploy'[d].step = 0 /\ deploy'[d].read = FALSE
      /\ \A c \in Deploys : c # d => deploy'[c] = deploy[c]
  BY ThrowEffect DEF CatalogFacts
<1>2. DeployDone(d)'
  BY <1>1 DEF DeployDone
<1> QED
  BY <1>1, <1>2, ReadOnly

\* A job that has read and goes on to write.
LEMMA RememberStep ==
    ASSUME CatalogFacts, NEW d \in Deploys, NEW op \in {"first", "revise"}, Doing(d, op),
           NEW v \in Nat, Remember(d, v), op = "revise" => v \in 1 .. Len(versions[ItemOf(d)]),
           UNCHANGED <<versions, disturbed, soldUnder, paidOut>>
    PROVE  CatalogFacts'
<1>1. /\ deploy' \in [Deploys -> Progress]
      /\ deploy'[d].step = deploy[d].step /\ deploy'[d].seen = v
      /\ \A c \in Deploys : c # d => deploy'[c] = deploy[c]
  BY RememberEffect DEF CatalogFacts
<1>2. Doing(d, "revise")' => op = "revise" /\ ItemOf(d)' = ItemOf(d)
  <2>1. Script[d][deploy[d].step].op = op
    BY JobFacts DEF CatalogFacts
  <2> QED
    BY <1>1, <2>1 DEF Doing, ItemOf
<1>3. ASSUME d \notin disturbed PROVE DeployDone(d)'
  <2>1. DeployDone(d) /\ deploy'[d].step = deploy[d].step
    BY <1>1, <1>3 DEF CatalogFacts, DeploysInv
  <2> QED
    BY <1>3, <2>1, DoneKept
<1> QED
  BY <1>1, <1>2, <1>3, ReadOnly

LEMMA FirstReadStep ==
    ASSUME CatalogFacts, NEW d \in Deploys, FirstRead(d)
    PROVE  CatalogFacts'
<1>1. /\ Doing(d, "first") /\ UNCHANGED <<versions, disturbed, soldUnder, paidOut>>
      /\ IF PublishedOf(ItemOf(d)) # {} THEN Advance(d) ELSE Remember(d, 0)
  BY DEF FirstRead
<1>2. CASE PublishedOf(ItemOf(d)) # {}
  BY <1>1, <1>2, ReadEnds DEF FirstIsDone
<1>3. CASE PublishedOf(ItemOf(d)) = {}
  BY <1>1, <1>3, RememberStep
<1> QED
  BY <1>2, <1>3

LEMMA FirstWriteStep ==
    ASSUME CatalogFacts, NEW d \in Deploys, FirstWrite(d)
    PROVE  CatalogFacts'
<1> DEFINE i == ItemOf(d)
           new == <<Published(CatalogOf[d][i])>>
<1>1. /\ Doing(d, "first") /\ UNCHANGED <<soldUnder, paidOut>>
      /\ IF versions[i] # <<>> THEN Throw(d) /\ UNCHANGED <<versions, disturbed>>
         ELSE /\ versions' = [versions EXCEPT ![i] = new]
              /\ Advance(d) /\ Disturb(d)
  BY DEF FirstWrite
<1>2. CASE versions[i] # <<>>
  BY <1>1, <1>2, ThrowStep
<1>3. CASE versions[i] = <<>>
  <2>1. CatalogOf[d][i] \in CatalogTerms
    BY <1>1, JobFacts DEF CatalogFacts
  <2>2. Published(CatalogOf[d][i]) \in Version
    BY <2>1 DEF Published, Version
  <2>3. new \in Seq(Version) /\ Len(new) = 1 /\ new[1] = Published(CatalogOf[d][i])
    BY <2>2
  <2>4. Len(versions[i]) = 0
    BY <1>3
  <2> HIDE DEF new
  <2>5. /\ versions' = [versions EXCEPT ![i] = new] /\ Len(new) = Len(versions[i]) + 1
        /\ new[Len(new)] = Published(CatalogOf[d][i]) /\ Advance(d) /\ Disturb(d)
        /\ \A v \in 1 .. Len(versions[i]) : FALSE
    BY <1>1, <1>3, <2>3, <2>4
  <2> QED
    BY <1>1, <2>3, <2>5, WriteEnds
<1> QED
  BY <1>2, <1>3

LEMMA ReviseReadStep ==
    ASSUME CatalogFacts, NEW d \in Deploys, ReviseRead(d)
    PROVE  CatalogFacts'
<1> DEFINE i == ItemOf(d)
<1>1. /\ Doing(d, "revise") /\ UNCHANGED <<versions, disturbed, soldUnder, paidOut>>
      /\ IF PublishedOf(i) # {} /\ versions[i][Latest(PublishedOf(i))].terms # CatalogOf[d][i]
         THEN Remember(d, Latest(PublishedOf(i))) ELSE Advance(d)
  BY DEF ReviseRead
<1>2. i \in Items
  BY <1>1, JobFacts DEF CatalogFacts
<1>3. PublishedOf(i) # {} =>
         /\ PublishedOf(i) = {Len(versions[i])} /\ Latest(PublishedOf(i)) = Len(versions[i])
         /\ Len(versions[i]) \in 1 .. Len(versions[i])
  BY <1>2, LatestIsNewest DEF CatalogFacts
<1> HIDE DEF i
<1>4. CASE PublishedOf(i) # {} /\ versions[i][Latest(PublishedOf(i))].terms # CatalogOf[d][i]
  <2>1. Remember(d, Len(versions[i])) /\ Len(versions[i]) \in Nat
    BY <1>1, <1>3, <1>4
  <2> QED
    BY <1>1, <1>3, <1>4, <2>1, RememberStep DEF i
<1>5. CASE ~ (PublishedOf(i) # {} /\ versions[i][Latest(PublishedOf(i))].terms # CatalogOf[d][i])
  <2>1. Advance(d)
    BY <1>1, <1>5
  <2>2. ASSUME d \notin disturbed PROVE RevisionIsDone(i, CatalogOf[d][i])
    <3>1. deploy[d].step \in 1 .. Len(Script[d]) /\ Len(Script[d]) \in Nat
          /\ Script[d][deploy[d].step].op = "revise" /\ i = Script[d][deploy[d].step].item
      BY <1>1, JobFacts DEF CatalogFacts, i
    <3>2. PICK j \in 1 .. deploy[d].step - 1 : /\ Script[d][j].op = "first"
                                               /\ Script[d][j].item = i
      BY <3>1, ScriptShape
    <3>3. j \in 1 .. Len(Script[d]) /\ j < deploy[d].step
      BY <3>1
    <3>4. PublishedOf(i) # {}
      BY <2>2, <3>2, <3>3 DEF CatalogFacts, DeploysInv, DeployDone, FirstIsDone
    <3> QED
      BY <1>3, <1>5, <3>4 DEF RevisionIsDone
  <2> QED
    BY <1>1, <2>1, <2>2, ReadEnds DEF i
<1> QED
  BY <1>4, <1>5

\* A list with its last version superseded and a new one published.
LEMMA Superseded ==
    ASSUME NEW v \in Seq(Version), NEW n \in Nat, n = Len(v), n >= 1, NEW t \in CatalogTerms,
           \A k \in 1 .. n : v[k].status = "PUBLISHED" => k = n
    PROVE  LET new == Append([v EXCEPT ![n].status = "SUPERSEDED"], Published(t)) IN
           /\ new \in Seq(Version) /\ Len(new) = n + 1 /\ new[n + 1] = Published(t)
           /\ \A k \in 1 .. n : new[k].terms = v[k].terms /\ new[k].status # "PUBLISHED"
<1> DEFINE s == [v[n] EXCEPT !.status = "SUPERSEDED"]
           w == [v EXCEPT ![n] = s]
           new == Append(w, Published(t))
<1>1. n \in 1 .. n /\ v[n] \in Version
  BY ElementOfSeq
<1>2. s \in Version /\ s.status = "SUPERSEDED" /\ s.terms = v[n].terms
  BY <1>1 DEF Version
<1>3. Published(t) \in Version
  BY DEF Published, Version
<1>4. [v EXCEPT ![n].status = "SUPERSEDED"] = w
  OBVIOUS
<1> HIDE DEF s
<1>5. w \in Seq(Version) /\ Len(w) = n /\ w[n] = s /\ \A k \in 1 .. n : k # n => w[k] = v[k]
  BY <1>1, <1>2, ExceptSeq
<1> HIDE DEF w
<1>6. new \in Seq(Version) /\ Len(new) = n + 1 /\ new[n + 1] = Published(t)
      /\ \A k \in 1 .. n : new[k] = w[k]
  BY <1>3, <1>5, AppendProperties
<1>7. \A k \in 1 .. n : new[k].terms = v[k].terms /\ new[k].status # "PUBLISHED"
  <2> HIDE DEF new
  <2> SUFFICES ASSUME NEW k \in 1 .. n
               PROVE  new[k].terms = v[k].terms /\ new[k].status # "PUBLISHED"
    OBVIOUS
  <2>1. CASE k = n
    BY <1>2, <1>5, <1>6, <2>1
  <2>2. CASE k # n
    BY <1>5, <1>6, <2>2
  <2> QED
    BY <2>1, <2>2
<1> QED
  BY <1>4, <1>6, <1>7

LEMMA ReviseWriteStep ==
    ASSUME CatalogFacts, NEW d \in Deploys, ReviseWrite(d)
    PROVE  CatalogFacts'
<1> DEFINE i == ItemOf(d)
           new == Append([versions[i] EXCEPT ![deploy[d].seen].status = "SUPERSEDED"],
                         Published(CatalogOf[d][i]))
<1>1. /\ Doing(d, "revise") /\ deploy[d].read /\ UNCHANGED <<soldUnder, paidOut>>
      /\ IF Len(versions[i]) > deploy[d].seen
         THEN Throw(d) /\ UNCHANGED <<versions, disturbed>>
         ELSE versions' = [versions EXCEPT ![i] = new] /\ Advance(d) /\ Disturb(d)
  BY DEF ReviseWrite
<1>2. CASE Len(versions[i]) > deploy[d].seen
  BY <1>1, <1>2, ThrowStep
<1>3. CASE ~ (Len(versions[i]) > deploy[d].seen)
  <2>1. i \in Items /\ CatalogOf[d][i] \in CatalogTerms
    BY <1>1, JobFacts DEF CatalogFacts
  <2>2. deploy[d].seen \in 1 .. Len(versions[i])
    BY <1>1 DEF CatalogFacts, SeenInv
  <2>3. versions[i] \in Seq(Version) /\ Len(versions[i]) \in Nat
        /\ DOMAIN versions[i] = 1 .. Len(versions[i])
    BY <2>1, LenProperties DEF CatalogFacts, CatalogTyped
  <2>4. deploy[d].seen = Len(versions[i]) /\ Len(versions[i]) >= 1
    BY <1>3, <2>2, <2>3
  <2>5. \A k \in 1 .. Len(versions[i]) : versions[i][k].status = "PUBLISHED" => k = Len(versions[i])
    BY <2>1, <2>3 DEF CatalogFacts, NewestOnSale, PublishedOf
  <2> HIDE DEF i
  <2>6. /\ new \in Seq(Version) /\ Len(new) = Len(versions[i]) + 1
        /\ new[Len(versions[i]) + 1] = Published(CatalogOf[d][i])
        /\ \A k \in 1 .. Len(versions[i]) :
              new[k].terms = versions[i][k].terms /\ new[k].status # "PUBLISHED"
    BY <2>1, <2>3, <2>4, <2>5, Superseded
  <2>7. versions' = [versions EXCEPT ![i] = new] /\ Advance(d) /\ Disturb(d)
    BY <1>1, <1>3
  <2> HIDE DEF new
  <2>8. new[Len(new)] = Published(CatalogOf[d][i])
    BY <2>6
  <2> QED
    BY <1>1, <2>6, <2>7, <2>8, WriteEnds DEF i
<1> QED
  BY <1>2, <1>3

-----------------------------------------------------------------------------

\* A step of a customer leaves what is said of the catalog and its deploys.
LEMMA CatalogAlone ==
    ASSUME NewestOnSale, SeenInv, DeploysInv, UNCHANGED <<versions, deploy, disturbed>>
    PROVE  NewestOnSale' /\ SeenInv' /\ DeploysInv'
<1>1. NewestOnSale'
  BY DEF NewestOnSale, PublishedOf
<1>2. SeenInv'
  BY DEF SeenInv, Doing, Running, Ended, ItemOf
<1>3. DeploysInv'
  BY DoneKept DEF DeploysInv
<1> QED
  BY <1>1, <1>2, <1>3

LEMMA SellUnderStep ==
    ASSUME CatalogFacts, NEW a \in AccountsSold, SellUnder(a)
    PROVE  CatalogFacts'
<1>1. /\ soldUnder[a] = Unsold /\ UNCHANGED <<versions, deploy, disturbed, paidOut>>
  BY DEF SellUnder
<1>2. PICK p \in PlanItems :
         /\ PublishedOf(p) # {}
         /\ soldUnder' = [soldUnder EXCEPT ![a] =
               [plan |-> p, version |-> Latest(PublishedOf(p)),
                terms |-> versions[p][Latest(PublishedOf(p))].terms]]
  BY DEF SellUnder
<1> DEFINE v == Len(versions[p])
           s == [plan |-> p, version |-> v, terms |-> versions[p][v].terms]
<1>3. p \in Items
  BY DEF Items
<1>4. Latest(PublishedOf(p)) = v /\ v \in 1 .. Len(versions[p])
  BY <1>2, <1>3, LatestIsNewest DEF CatalogFacts
<1>5. soldUnder' = [soldUnder EXCEPT ![a] = s]
  BY <1>2, <1>4
<1>6. versions[p] \in Seq(Version) /\ Len(versions[p]) \in Nat /\ versions[p][v] \in Version
  BY <1>3, <1>4, ElementOfSeq, LenProperties DEF CatalogFacts, CatalogTyped
<1>7. s \in Contract /\ s.plan = p /\ s.version = v /\ s.terms = versions[p][v].terms
      /\ s.terms.cap \in Nat
  <2>1. versions[p][v].terms \in CatalogTerms
    BY <1>6 DEF Version
  <2>2. v \in Nat
    BY <1>6
  <2> HIDE DEF v
  <2> QED
    BY <2>1, <2>2 DEF Contract, CatalogTerms
<1>8. paidOut[a] = 0
  BY <1>1 DEF CatalogFacts, ContractsInv
<1> HIDE DEF s, v
<1>9. soldUnder'[a] = s /\ \A c \in AccountsSold : c # a => soldUnder'[c] = soldUnder[c]
  BY <1>5 DEF CatalogFacts, CatalogTyped
<1>10. CatalogTyped'
  BY <1>1, <1>5, <1>7 DEF CatalogFacts, CatalogTyped
<1>11. ContractsInv'
  <2> SUFFICES ASSUME NEW c \in AccountsSold
               PROVE  /\ soldUnder'[c] = Unsold => paidOut[c] = 0
                      /\ soldUnder'[c] # Unsold =>
                            /\ soldUnder'[c].plan \in PlanItems
                            /\ soldUnder'[c].version \in 1 .. Len(versions[soldUnder'[c].plan])
                            /\ versions[soldUnder'[c].plan][soldUnder'[c].version].terms
                                  = soldUnder'[c].terms
                            /\ soldUnder'[c].terms.kind = "APPROVED_AMOUNT" =>
                                  paidOut[c] <= soldUnder'[c].terms.cap
                            /\ soldUnder'[c].terms.kind = "UNRESOLVED" => paidOut[c] = 0
    BY <1>1 DEF ContractsInv
  <2>1. CASE c = a
    BY <1>4, <1>7, <1>8, <1>9, <2>1
  <2>2. CASE c # a
    <3>1. soldUnder'[c] = soldUnder[c]
      BY <1>9, <2>2
    <3> QED
      BY <3>1 DEF CatalogFacts, ContractsInv
  <2> QED
    BY <2>1, <2>2
<1>12. NewestOnSale' /\ SeenInv' /\ DeploysInv'
  BY <1>1, CatalogAlone DEF CatalogFacts
<1> QED
  BY <1>10, <1>11, <1>12 DEF CatalogFacts

LEMMA PayAccountStep ==
    ASSUME CatalogFacts, NEW a \in AccountsSold, PayAccount(a)
    PROVE  CatalogFacts'
<1> DEFINE s == soldUnder[a]
           terms == versions[s.plan][s.version].terms
<1>1. /\ s # Unsold /\ UNCHANGED <<versions, deploy, disturbed, soldUnder>>
      /\ paidOut[a] < LifetimeCapForPayout(terms).amount
      /\ paidOut' = [paidOut EXCEPT ![a] = @ + 1]
  BY DEF PayAccount
<1>2. terms = s.terms /\ s.plan \in PlanItems
  BY <1>1 DEF CatalogFacts, ContractsInv
<1>3. s.terms \in CatalogTerms /\ paidOut[a] \in Nat
  BY DEF CatalogFacts, CatalogTyped, Contract
<1> HIDE DEF terms, s
<1>4. s.terms.kind = "APPROVED_AMOUNT" => paidOut[a] < s.terms.cap
  <2>1. s.terms.kind = "APPROVED_AMOUNT" => LifetimeCapForPayout(s.terms).amount = s.terms.cap
    BY DEF LifetimeCapForPayout
  <2> QED
    BY <1>1, <1>2, <2>1
<1>5. s.terms.kind # "UNRESOLVED"
  <2>1. s.terms.kind = "UNRESOLVED" => LifetimeCapForPayout(s.terms).amount = 0
    BY DEF LifetimeCapForPayout
  <2> QED
    BY <1>1, <1>2, <1>3, <2>1
<1>6. paidOut'[a] = paidOut[a] + 1 /\ \A c \in AccountsSold : c # a => paidOut'[c] = paidOut[c]
  BY <1>1 DEF CatalogFacts, CatalogTyped
<1>7. CatalogTyped'
  BY <1>1, <1>3 DEF CatalogFacts, CatalogTyped
<1>8. ContractsInv'
  <2> SUFFICES ASSUME NEW c \in AccountsSold
               PROVE  /\ soldUnder[c] = Unsold => paidOut'[c] = 0
                      /\ soldUnder[c] # Unsold =>
                            /\ soldUnder[c].terms.kind = "APPROVED_AMOUNT" =>
                                  paidOut'[c] <= soldUnder[c].terms.cap
                            /\ soldUnder[c].terms.kind = "UNRESOLVED" => paidOut'[c] = 0
    BY <1>1 DEF CatalogFacts, ContractsInv
  <2>1. CASE c = a
    <3>1. s.terms.kind = "APPROVED_AMOUNT" => paidOut'[a] <= s.terms.cap
      <4>1. s.terms.cap \in Nat
        BY <1>3 DEF CatalogTerms
      <4> QED
        BY <1>3, <1>4, <1>6, <4>1
    <3> QED
      BY <1>1, <1>5, <2>1, <3>1 DEF s
  <2>2. CASE c # a
    BY <1>6, <2>2 DEF CatalogFacts, ContractsInv
  <2> QED
    BY <2>1, <2>2
<1>9. NewestOnSale' /\ SeenInv' /\ DeploysInv'
  BY <1>1, CatalogAlone DEF CatalogFacts
<1> QED
  BY <1>7, <1>8, <1>9 DEF CatalogFacts

LEMMA CatalogStep == CatalogFacts /\ [CatalogNext]_catalogVars => CatalogFacts'
<1> SUFFICES ASSUME CatalogFacts, [CatalogNext]_catalogVars PROVE CatalogFacts'
  OBVIOUS
<1>1. CASE UNCHANGED catalogVars
  BY <1>1, CatalogAlone DEF catalogVars, CatalogFacts, CatalogTyped, ContractsInv
<1>2. ASSUME NEW d \in Deploys, Retire(d) \/ FirstRead(d) \/ FirstWrite(d) \/ ReviseRead(d)
                                \/ ReviseWrite(d)
      PROVE  CatalogFacts'
  BY <1>2, RetireStep, FirstReadStep, FirstWriteStep, ReviseReadStep, ReviseWriteStep
<1>3. ASSUME NEW a \in AccountsSold, SellUnder(a) \/ PayAccount(a) PROVE CatalogFacts'
  BY <1>3, SellUnderStep, PayAccountStep
<1> QED
  BY <1>1, <1>2, <1>3 DEF CatalogNext

\* What the invariant says of contracts and of finished deploys.
LEMMA CatalogSound == CatalogFacts => CatalogIsOneContract
<1> SUFFICES ASSUME CatalogFacts PROVE CatalogIsOneContract
  OBVIOUS
<1>1. \A i \in Items : PublishedOf(i) \subseteq {Len(versions[i])}
  BY DEF CatalogFacts, NewestOnSale
<1>2. ASSUME NEW a \in AccountsSold, soldUnder[a] # Unsold
      PROVE  /\ versions[soldUnder[a].plan][soldUnder[a].version].terms = soldUnder[a].terms
             /\ soldUnder[a].terms.kind = "APPROVED_AMOUNT" => paidOut[a] <= soldUnder[a].terms.cap
             /\ soldUnder[a].terms.kind = "UNRESOLVED" => paidOut[a] = 0
  BY <1>2 DEF CatalogFacts, ContractsInv
<1>3. ASSUME NEW d \in Deploys, Ended(d), d \notin disturbed, NEW p \in PlanItems
      PROVE  {versions[p][v].terms : v \in PublishedOf(p)} =
                 (IF p \in DOMAIN CatalogOf[d] THEN {CatalogOf[d][p]} ELSE {})
  <2>1. DeployDone(d)
    BY <1>3 DEF CatalogFacts, DeploysInv
  <2>2. deploy[d].step > Len(Script[d]) /\ Len(Script[d]) \in Nat /\ Len(Script[d]) >= 1
        /\ deploy[d].step \in Nat
    BY <1>3, ScriptShape, LenProperties DEF Ended, CatalogFacts, CatalogTyped, Progress
  <2>3. CASE p \in Offered(d)
    <3>1. PICK k \in 1 .. Len(Script[d]) : Script[d][k] = [op |-> "revise", item |-> p]
      BY <2>3, ScriptShape
    <3>2. k < deploy[d].step /\ Script[d][k].op = "revise" /\ Script[d][k].item = p
      BY <2>2, <3>1
    <3>3. RevisionIsDone(p, CatalogOf[d][p])
      BY <2>1, <3>2 DEF DeployDone
    <3> QED
      BY <2>3, <3>3 DEF RevisionIsDone, Offered
  <2>4. CASE p \notin Offered(d)
    <3>1. deploy[d].step > 1
      BY <2>2
    <3>2. PublishedOf(p) = {}
      BY <2>1, <2>4, <3>1 DEF DeployDone
    <3> QED
      BY <2>4, <3>2 DEF Offered
  <2> QED
    BY <2>3, <2>4
<1> QED
  BY <1>1, <1>2, <1>3 DEF CatalogIsOneContract

-----------------------------------------------------------------------------
(* The broker's adapter. *)

Stages == {"idle", "asking", "authenticating", "sent", "returned", "thrown"}
LimitRow == [daily : Nat, drawdown : Nat, ceiling : Nat]
BrokerCall ==
    [at : Stages, op : DOMAIN HttpCalls \union {"none"}, k : Nat,
     limits : LimitRow, lapses : Int, since : Int,
     user : Nat, account : Nat, netPos : Int,
     said : {"nothing", "confirmed", "unconfirmed"}, disturbed : BOOLEAN]
ServedRow ==
    [daily : Nat, drawdown : Nat, mode : {"EOD", "RealTime"}, ceiling : Nat,
     doNotUnlock : BOOLEAN, netPos : Int, ordered : BOOLEAN, users : Nat, owners : Seq(Nat)]

BrokerTyped ==
    /\ brokerMode \in {"SANDBOX", "PRODUCTION"}
    /\ tick \in Nat
    /\ badge \in [lapses : Int, until : Int]
    /\ desk \in [Clerks -> BrokerCall]
    /\ served \in ServedRow

\* A renewal is due before the token lapses.
BadgeInv == badge = NoBadge \/ badge.until < badge.lapses

\* No request outlives a tick, and its token outlives the request.
RequestInv ==
    \A c \in Clerks :
        /\ desk[c].at \in {"authenticating", "sent"} =>
               desk[c].since <= tick /\ tick <= desk[c].since + 1
        /\ desk[c].at = "sent" => desk[c].since + 2 <= desk[c].lapses

AccountsInv ==
    \A c \in Clerks : Told(c, "provision") =>
        /\ desk[c].account \in 1 .. Len(served.owners)
        /\ served.owners[desk[c].account] = desk[c].user

\* The six operations end with these requests, and ask for these capabilities.
LEMMA RequestTable ==
    /\ DOMAIN HttpCalls = {"provision", "configure", "snapshot", "disable", "flatten", "adjust"}
    /\ Len(HttpCalls["provision"]) = 2 /\ HttpCalls["provision"][2].send = "createAccount"
    /\ Len(HttpCalls["configure"]) = 3 /\ HttpCalls["configure"][3].send = "readBack"
    /\ Len(HttpCalls["disable"]) = 1 /\ HttpCalls["disable"][1].send = "lockOut"
    /\ Len(HttpCalls["flatten"]) = 1 /\ HttpCalls["flatten"][1].send = "liquidate"
BY DEF HttpCalls

LEMMA NothingIsVerified ==
    ASSUME brokerMode = "PRODUCTION", NEW op \in DOMAIN HttpCalls
    PROVE  Ready(op, 1) = "thrown"
<1>1. \E cap \in HttpCalls[op][1].needs : ~ RequireCapability(cap)
  BY RequestTable DEF HttpCalls, RequireCapability, Capability
<1> QED
  BY <1>1 DEF Ready

LEMMA ReadyIsStage == \A op, k : Ready(op, k) \in {"asking", "thrown"}
BY DEF Ready

LEMMA IdleIsTyped == Idle \in BrokerCall /\ Thrown \in BrokerCall
<1>1. UnsetLimits \in LimitRow
  BY DEF UnsetLimits, LimitRow
<1>2. Idle \in BrokerCall
  BY <1>1 DEF Idle, BrokerCall, Stages
<1>3. "thrown" \in Stages
  BY DEF Stages
<1> QED
  BY <1>2, <1>3 DEF Thrown, BrokerCall

\* A call with one field set anew; several fields are set one after another.
LEMMA CallFields ==
    ASSUME NEW d \in BrokerCall
    PROVE  /\ \A x \in Stages : [d EXCEPT !.at = x] \in BrokerCall
           /\ \A x \in DOMAIN HttpCalls : [d EXCEPT !.op = x] \in BrokerCall
           /\ \A x \in Nat : [d EXCEPT !.k = x] \in BrokerCall
           /\ \A x \in LimitRow : [d EXCEPT !.limits = x] \in BrokerCall
           /\ \A x \in Int : [d EXCEPT !.lapses = x] \in BrokerCall
           /\ \A x \in Int : [d EXCEPT !.since = x] \in BrokerCall
           /\ \A x \in Nat : [d EXCEPT !.user = x] \in BrokerCall
           /\ \A x \in Nat : [d EXCEPT !.account = x] \in BrokerCall
           /\ \A x \in Int : [d EXCEPT !.netPos = x] \in BrokerCall
           /\ \A x \in {"confirmed", "unconfirmed"} : [d EXCEPT !.said = x] \in BrokerCall
           /\ [d EXCEPT !.disturbed = TRUE] \in BrokerCall
<1>1. \A x \in Stages : [d EXCEPT !.at = x] \in BrokerCall
  BY DEF BrokerCall
<1>2. \A x \in DOMAIN HttpCalls : [d EXCEPT !.op = x] \in BrokerCall
  BY DEF BrokerCall
<1>3. \A x \in Nat : [d EXCEPT !.k = x] \in BrokerCall
  BY DEF BrokerCall
<1>4. \A x \in LimitRow : [d EXCEPT !.limits = x] \in BrokerCall
  BY DEF BrokerCall
<1>5. \A x \in Int : [d EXCEPT !.lapses = x] \in BrokerCall
  BY DEF BrokerCall
<1>6. \A x \in Int : [d EXCEPT !.since = x] \in BrokerCall
  BY DEF BrokerCall
<1>7. \A x \in Nat : [d EXCEPT !.user = x] \in BrokerCall
  BY DEF BrokerCall
<1>8. \A x \in Nat : [d EXCEPT !.account = x] \in BrokerCall
  BY DEF BrokerCall
<1>9. \A x \in Int : [d EXCEPT !.netPos = x] \in BrokerCall
  BY DEF BrokerCall
<1>10. \A x \in {"confirmed", "unconfirmed"} : [d EXCEPT !.said = x] \in BrokerCall
  BY DEF BrokerCall
<1>11. [d EXCEPT !.disturbed = TRUE] \in BrokerCall
  BY DEF BrokerCall
<1> QED
  BY <1>1, <1>2, <1>3, <1>4, <1>5, <1>6, <1>7, <1>8, <1>9, <1>10, <1>11

\* The same of the account and the users at the broker.
LEMMA ServedFields ==
    ASSUME NEW s \in ServedRow
    PROVE  /\ \A x \in Nat : [s EXCEPT !.daily = x] \in ServedRow
           /\ \A x \in Nat : [s EXCEPT !.drawdown = x] \in ServedRow
           /\ [s EXCEPT !.mode = "RealTime"] \in ServedRow
           /\ [s EXCEPT !.doNotUnlock = TRUE] \in ServedRow
<1>1. \A x \in Nat : [s EXCEPT !.daily = x] \in ServedRow
  BY DEF ServedRow
<1>2. \A x \in Nat : [s EXCEPT !.drawdown = x] \in ServedRow
  BY DEF ServedRow
<1>3. [s EXCEPT !.mode = "RealTime"] \in ServedRow
  BY DEF ServedRow
<1>4. [s EXCEPT !.doNotUnlock = TRUE] \in ServedRow
  BY DEF ServedRow
<1> QED
  BY <1>1, <1>2, <1>3, <1>4

LEMMA BrokerInitTyped == BrokerInit => BrokerTyped /\ BadgeInv /\ RequestInv /\ AccountsInv
<1> SUFFICES ASSUME BrokerInit PROVE BrokerTyped /\ BadgeInv /\ RequestInv /\ AccountsInv
  OBVIOUS
<1>1. served \in ServedRow
  BY DEF BrokerInit, ServedRow
<1>2. badge \in [lapses : Int, until : Int]
  BY DEF BrokerInit, NoBadge
<1> QED
  BY <1>1, <1>2, IdleIsTyped
     DEF BrokerInit, BrokerTyped, BadgeInv, RequestInv, AccountsInv, Told, Idle

-----------------------------------------------------------------------------

\* What a request may change at the broker.
LEMMA EffectsAreTyped ==
    ASSUME BrokerTyped, NEW c \in Clerks, served' \in Effects(c)
    PROVE  /\ served' \in ServedRow
           /\ served.doNotUnlock => served'.doNotUnlock
           /\ served.ordered => served'.ordered
           /\ Len(served.owners) <= Len(served'.owners)
           /\ \A i \in 1 .. Len(served.owners) : served'.owners[i] = served.owners[i]
<1> DEFINE name == Request(c).send
           asked == desk[c].limits
<1>00. Len(served.owners) \in Nat
  BY LenProperties DEF BrokerTyped, ServedRow
<1>0. served \in ServedRow /\ asked \in LimitRow /\ desk[c].user \in Nat
  BY DEF BrokerTyped, BrokerCall
<1>1. CASE name = "createUser"
  <2>1. served' = [served EXCEPT !.users = served.users + 1]
    BY <1>1 DEF Effects
  <2>2. served.users + 1 \in Nat
    BY <1>0 DEF ServedRow
  <2>3. served' \in ServedRow
    BY <1>0, <2>1, <2>2 DEF ServedRow
  <2>4. served'.owners = served.owners /\ served'.doNotUnlock = served.doNotUnlock
        /\ served'.ordered = served.ordered
    BY <1>0, <2>1 DEF ServedRow
  <2> QED
    BY <1>00, <2>3, <2>4
<1>2. CASE name = "createAccount"
  <2>1. served' = [served EXCEPT !.owners = Append(served.owners, desk[c].user)]
    BY <1>0, <1>2 DEF Effects, ServedRow
  <2>2. /\ Append(served.owners, desk[c].user) \in Seq(Nat)
        /\ Len(Append(served.owners, desk[c].user)) = Len(served.owners) + 1
        /\ \A i \in 1 .. Len(served.owners) :
              Append(served.owners, desk[c].user)[i] = served.owners[i]
    BY <1>0, AppendProperties DEF ServedRow
  <2> DEFINE more == Append(served.owners, desk[c].user)
  <2>3. served' = [served EXCEPT !.owners = more] /\ more \in Seq(Nat)
    BY <2>1, <2>2
  <2>4. served' \in ServedRow /\ served'.owners = more
          /\ served'.doNotUnlock = served.doNotUnlock /\ served'.ordered = served.ordered
    <3> HIDE DEF more
    <3> QED BY <1>0, <2>3 DEF ServedRow
  <2> HIDE DEF more
  <2> QED
    BY <1>00, <2>2, <2>4 DEF more
<1>3. CASE name \in {"autoLiq", "positionLimit"}
  <2>1. \/ served' = served
        \/ served' = [served EXCEPT !.daily = asked.daily, !.drawdown = asked.drawdown,
                                    !.mode = "RealTime"]
        \/ served' = [served EXCEPT !.ceiling = asked.ceiling]
    BY <1>3 DEF Effects
  <2>2. asked.daily \in Nat /\ asked.drawdown \in Nat /\ asked.ceiling \in Nat
    BY <1>0 DEF LimitRow
  <2> DEFINE once == [served EXCEPT !.daily = asked.daily]
             twice == [once EXCEPT !.drawdown = asked.drawdown]
  <2>3. twice \in ServedRow
    <3>1. once \in ServedRow
      BY <1>0, <2>2, ServedFields
    <3> HIDE DEF once
    <3> QED
      BY <2>2, <3>1, ServedFields
  <2>4. served' = [twice EXCEPT !.mode = "RealTime"] => served' \in ServedRow
    <3> HIDE DEF twice
    <3> QED
      BY <2>3, ServedFields
  <2>5. served' \in ServedRow
    BY <1>0, <2>1, <2>2, <2>4 DEF ServedRow
  <2>6. /\ served'.doNotUnlock = served.doNotUnlock /\ served'.ordered = served.ordered
        /\ served'.owners = served.owners
    BY <1>0, <2>1 DEF ServedRow
  <2> QED
    BY <1>00, <2>5, <2>6
<1>4. CASE name \in {"lockOut", "liquidate"}
  <2> DEFINE once == [served EXCEPT !.daily = 0]
  <2>1. once \in ServedRow
    BY <1>0, ServedFields
  <2>2. \/ served' = [once EXCEPT !.doNotUnlock = TRUE]
        \/ served' = [served EXCEPT !.ordered = TRUE]
    BY <1>4 DEF Effects
  <2>3. served' \in ServedRow
    <3>1. [served EXCEPT !.ordered = TRUE] \in ServedRow
      BY <1>0 DEF ServedRow
    <3>2. [once EXCEPT !.doNotUnlock = TRUE] \in ServedRow
      <4> HIDE DEF once
      <4> QED
        BY <2>1, ServedFields
    <3> QED
      BY <2>2, <3>1, <3>2
  <2>4. /\ served.doNotUnlock => served'.doNotUnlock
        /\ served.ordered => served'.ordered
        /\ served'.owners = served.owners
    BY <1>0, <2>2 DEF ServedRow
  <2> QED
    BY <1>00, <2>3, <2>4
<1>5. CASE name \notin {"createUser", "createAccount", "autoLiq", "positionLimit",
                        "lockOut", "liquidate"}
  BY <1>0, <1>5 DEF Effects, ServedRow
<1> QED
  BY <1>1, <1>2, <1>3, <1>4, <1>5

\* What a call reports is what its last request has found or done.
LEMMA NotedIsTyped ==
    ASSUME BrokerTyped, NEW c \in Clerks, served' \in Effects(c)
    PROVE  /\ Noted(c) \in BrokerCall
           /\ Noted(c).op = desk[c].op /\ Noted(c).k = desk[c].k
           /\ Noted(c).limits = desk[c].limits
<1> DEFINE name == Request(c).send
<1>0. desk[c] \in BrokerCall /\ served \in ServedRow /\ served' \in ServedRow
  BY EffectsAreTyped DEF BrokerTyped
<1>a. Len(served'.owners) \in Nat
  BY <1>0, LenProperties DEF ServedRow
<1>1. CASE name = "createUser"
  BY <1>0, <1>1 DEF Noted, BrokerCall, ServedRow
<1>2. CASE name = "createAccount"
  BY <1>0, <1>a, <1>2 DEF Noted, BrokerCall
<1>3. CASE name = "readBack"
  BY <1>0, <1>3 DEF Noted, BrokerCall
<1>4. CASE name = "positions"
  BY <1>0, <1>4 DEF Noted, BrokerCall, ServedRow
<1>5. CASE name \in {"lockOut", "liquidate"}
  BY <1>0, <1>5 DEF Noted, BrokerCall
<1>6. CASE name \notin {"createUser", "createAccount", "readBack", "positions",
                        "lockOut", "liquidate"}
  BY <1>0, <1>6 DEF Noted
<1> QED
  BY <1>1, <1>2, <1>3, <1>4, <1>5, <1>6

LEMMA AnsweredEffect ==
    ASSUME NEW d \in BrokerCall
    PROVE  /\ Answered(d) \in BrokerCall
           /\ Answered(d).at \in {"asking", "thrown", "returned"}
           /\ Answered(d).at = "returned" => d.k = Len(HttpCalls[d.op])
           /\ Answered(d).op = d.op /\ Answered(d).limits = d.limits
           /\ Answered(d).said = d.said
           /\ Answered(d).user = d.user /\ Answered(d).account = d.account
<1>1. Ready(d.op, d.k + 1) \in {"asking", "thrown"}
  BY ReadyIsStage
<1>2. QED
  <2> DEFINE asked == [d EXCEPT !.lapses = 0]
             done == [asked EXCEPT !.since = 0]
             stay == Ready(d.op, d.k + 1)
  <2>1. /\ asked \in BrokerCall /\ asked.k = d.k
        /\ asked.op = d.op /\ asked.limits = d.limits
        /\ asked.said = d.said /\ asked.user = d.user /\ asked.account = d.account
    BY DEF BrokerCall
  <2>2. /\ done \in BrokerCall /\ done.k = d.k
        /\ done.op = d.op /\ done.limits = d.limits
        /\ done.said = d.said /\ done.user = d.user /\ done.account = d.account
    <3> HIDE DEF asked
    <3> QED
      BY <2>1 DEF BrokerCall
  <2>3. {"asking", "thrown", "returned"} \subseteq Stages /\ d.k + 1 \in Nat
    BY DEF Stages, BrokerCall
  <2>4. CASE d.k = Len(HttpCalls[d.op])
    <3>1. Answered(d) = [done EXCEPT !.at = "returned"]
      BY <2>4 DEF Answered
    <3> HIDE DEF done
    <3> QED
      BY <2>2, <2>3, <2>4, <3>1 DEF BrokerCall
  <2>5. CASE d.k # Len(HttpCalls[d.op])
    <3> DEFINE next == [done EXCEPT !.k = d.k + 1]
    <3>1. Answered(d) = [next EXCEPT !.at = stay]
      BY <2>2, <2>5 DEF Answered
    <3>2. /\ next \in BrokerCall
          /\ next.op = d.op /\ next.limits = d.limits
          /\ next.said = d.said /\ next.user = d.user /\ next.account = d.account
      <4> HIDE DEF done
      <4> QED
        BY <2>2, <2>3 DEF BrokerCall
    <3> HIDE DEF next, stay
    <3>3. stay \in {"asking", "thrown"}
      BY <1>1 DEF stay
    <3> QED
      BY <2>3, <3>1, <3>2, <3>3 DEF BrokerCall
  <2> QED
    BY <2>4, <2>5

\* The calls that an answer is not for.
LEMMA WithEffect ==
    ASSUME BrokerTyped, NEW c \in Clerks, NEW d \in BrokerCall, With(c, d)
    PROVE  /\ desk' \in [Clerks -> BrokerCall]
           /\ desk'[c] = d
           /\ \A e \in Clerks \ {c} :
                 /\ desk'[e].at = desk[e].at /\ desk'[e].op = desk[e].op
                 /\ desk'[e].limits = desk[e].limits /\ desk'[e].said = desk[e].said
                 /\ desk'[e].since = desk[e].since /\ desk'[e].lapses = desk[e].lapses
                 /\ desk'[e].user = desk[e].user /\ desk'[e].account = desk[e].account
                 /\ ~ desk'[e].disturbed /\ Told(e, "configure") => served' = served
                 /\ ~ desk'[e].disturbed => ~ desk[e].disturbed
<1>1. /\ \A e \in Clerks \ {c} : desk'[e] =
            IF Told(e, "configure") /\ served' # served
            THEN [desk[e] EXCEPT !.disturbed = TRUE] ELSE desk[e]
      /\ desk'[c] = d
      /\ DOMAIN desk' = Clerks
      /\ desk' = [e \in Clerks |-> desk'[e]]
  BY DEF With, Disturbing
<1>2. \A e \in Clerks : desk[e] \in BrokerCall
  BY DEF BrokerTyped
<1>3. \A e \in Clerks : /\ [desk[e] EXCEPT !.disturbed = TRUE] \in BrokerCall
  BY <1>2, CallFields
<1>4. \A e \in Clerks : desk'[e] \in BrokerCall
  BY <1>1, <1>2, <1>3
<1>5. SUFFICES ASSUME NEW e \in Clerks \ {c}
               PROVE  /\ desk'[e].at = desk[e].at /\ desk'[e].op = desk[e].op
                      /\ desk'[e].limits = desk[e].limits /\ desk'[e].said = desk[e].said
                      /\ desk'[e].since = desk[e].since /\ desk'[e].lapses = desk[e].lapses
                      /\ desk'[e].user = desk[e].user /\ desk'[e].account = desk[e].account
                      /\ ~ desk'[e].disturbed /\ Told(e, "configure") => served' = served
                      /\ ~ desk'[e].disturbed => ~ desk[e].disturbed
  BY <1>1, <1>4
<1>6. CASE Told(e, "configure") /\ served' # served
  <2>1. desk'[e] = [desk[e] EXCEPT !.disturbed = TRUE]
    BY <1>1, <1>6
  <2>2. desk'[e].disturbed
    BY <1>2, <2>1 DEF BrokerCall
  <2> QED
    BY <1>2, <2>1, <2>2 DEF BrokerCall
<1>7. CASE ~ (Told(e, "configure") /\ served' # served)
  BY <1>1, <1>7
<1> QED
  BY <1>6, <1>7

BrokerFacts == BrokerTyped /\ BadgeInv /\ RequestInv /\ AccountsInv
BrokerPromises == TokensAreFresh /\ ReportedIsDone /\ ProductionIsUntouched

\* A call that moves without changing the account says nothing that is not so.
LEMMA CallMoves ==
    ASSUME BrokerTyped, AccountsInv, ReportedIsDone, NEW c \in Clerks, NEW d \in BrokerCall,
           desk' = [desk EXCEPT ![c] = d], served' = served,
           d.at = "returned" /\ d.op \in {"provision", "configure", "disable", "flatten"}
               => d.said # "confirmed"
    PROVE  /\ desk' \in [Clerks -> BrokerCall]
           /\ desk'[c] = d /\ \A e \in Clerks \ {c} : desk'[e] = desk[e]
           /\ AccountsInv' /\ ReportedIsDone'
<1>1. /\ desk' \in [Clerks -> BrokerCall]
      /\ desk'[c] = d /\ \A e \in Clerks \ {c} : desk'[e] = desk[e]
  BY DEF BrokerTyped
<1>2. \A op \in {"provision", "configure", "disable", "flatten"} :
         /\ ~ Told(c, op)'
         /\ \A e \in Clerks \ {c} : Told(e, op)' <=> Told(e, op)
  BY <1>1 DEF Told
<1>3. AccountsInv'
  BY <1>1, <1>2 DEF AccountsInv
<1>4. ReportedIsDone'
  BY <1>1, <1>2 DEF ReportedIsDone
<1> QED
  BY <1>1, <1>3, <1>4

LEMMA BeginStep ==
    ASSUME BrokerFacts, BrokerPromises, NEW c \in Clerks, Begin(c), UNCHANGED brokerMode
    PROVE  BrokerFacts' /\ BrokerPromises'
<1>1. PICK op \in DOMAIN HttpCalls, asked \in LimitSets :
         desk' = [desk EXCEPT ![c] = [@ EXCEPT !.at = Ready(op, 1), !.op = op,
                    !.limits = IF op = "configure" THEN asked ELSE UnsetLimits]]
  BY DEF Begin
<1> DEFINE given == IF op = "configure" THEN asked ELSE UnsetLimits
           named == [[desk[c] EXCEPT !.at = Ready(op, 1)] EXCEPT !.op = op]
           d == [named EXCEPT !.limits = given]
<1>2. desk[c] \in BrokerCall /\ Ready(op, 1) \in {"asking", "thrown"} /\ given \in LimitRow
  BY BrokerAssumption, ReadyIsStage DEF BrokerFacts, BrokerTyped, LimitRow, UnsetLimits
<1>3. named \in BrokerCall /\ named.at = Ready(op, 1)
  <2> DEFINE standing == [desk[c] EXCEPT !.at = Ready(op, 1)]
  <2>1. standing \in BrokerCall /\ standing.at = Ready(op, 1)
    BY <1>2 DEF BrokerCall, Stages
  <2> HIDE DEF standing
  <2>2. [standing EXCEPT !.op = op] \in BrokerCall
    BY <2>1, CallFields
  <2>3. [standing EXCEPT !.op = op].at = Ready(op, 1)
    BY <2>1 DEF BrokerCall
  <2> QED
    BY <2>2, <2>3 DEF standing
<1>4. d \in BrokerCall /\ d.at = Ready(op, 1)
  <2> HIDE DEF named, given
  <2> QED
    BY <1>2, <1>3 DEF BrokerCall
<1>5. desk' = [desk EXCEPT ![c] = d]
  BY <1>1
<1>6. d.at \in {"asking", "thrown"} /\ (brokerMode = "PRODUCTION" => d.at = "thrown")
  BY <1>2, <1>4, NothingIsVerified
<1> HIDE DEF d
<1>7. UNCHANGED <<brokerMode, tick, badge, served, lapsed>>
  BY DEF Begin
<1>8. /\ desk' \in [Clerks -> BrokerCall]
      /\ desk'[c] = d /\ \A e \in Clerks \ {c} : desk'[e] = desk[e]
      /\ AccountsInv' /\ ReportedIsDone'
  BY <1>4, <1>5, <1>6, <1>7, CallMoves DEF BrokerFacts, BrokerPromises
<1>9. RequestInv'
  BY <1>6, <1>7, <1>8 DEF BrokerFacts, RequestInv
<1> QED
  BY <1>6, <1>7, <1>8, <1>9
     DEF BrokerFacts, BrokerPromises, BrokerTyped, BadgeInv, TokensAreFresh, ProductionIsUntouched

LEMMA AccessTokenStep ==
    ASSUME BrokerFacts, BrokerPromises, NEW c \in Clerks, AccessToken(c), UNCHANGED brokerMode
    PROVE  BrokerFacts' /\ BrokerPromises'
<1> DEFINE d == IF badge.until > tick
                THEN [desk[c] EXCEPT !.at = "sent", !.lapses = badge.lapses, !.since = tick]
                ELSE [desk[c] EXCEPT !.at = "authenticating", !.since = tick]
<1>1. /\ desk[c] \in BrokerCall /\ tick \in Int /\ badge.lapses \in Int /\ badge.until \in Int
      /\ desk[c].at = "asking"
  BY DEF BrokerFacts, BrokerTyped, AccessToken
<1>2. desk' = [desk EXCEPT ![c] = d] /\ UNCHANGED <<brokerMode, tick, badge, served, lapsed>>
  BY DEF AccessToken
<1>3. /\ d \in BrokerCall /\ d.at \in {"sent", "authenticating"} /\ d.since = tick
      /\ d.at = "sent" => badge.until > tick /\ d.lapses = badge.lapses
  <2>1. CASE badge.until > tick
    <3> DEFINE standing == [desk[c] EXCEPT !.at = "sent"]
               held == [standing EXCEPT !.lapses = badge.lapses]
    <3>1. standing \in BrokerCall /\ standing.at = "sent"
      BY <1>1 DEF BrokerCall, Stages
    <3>2. held \in BrokerCall /\ held.at = "sent" /\ held.lapses = badge.lapses
      <4> HIDE DEF standing
      <4> QED
        BY <1>1, <3>1 DEF BrokerCall
    <3>3. d = [held EXCEPT !.since = tick]
      BY <2>1
    <3> HIDE DEF held
    <3> QED
      BY <1>1, <2>1, <3>2, <3>3 DEF BrokerCall
  <2>2. CASE ~ (badge.until > tick)
    <3> DEFINE standing == [desk[c] EXCEPT !.at = "authenticating"]
    <3>1. standing \in BrokerCall /\ standing.at = "authenticating"
      BY <1>1 DEF BrokerCall, Stages
    <3>2. d = [standing EXCEPT !.since = tick]
      BY <2>2
    <3> HIDE DEF standing
    <3> QED
      BY <1>1, <3>1, <3>2 DEF BrokerCall
  <2> QED
    BY <2>1, <2>2
<1> HIDE DEF d
<1>4. /\ desk' \in [Clerks -> BrokerCall]
      /\ desk'[c] = d /\ \A e \in Clerks \ {c} : desk'[e] = desk[e]
      /\ AccountsInv' /\ ReportedIsDone'
  BY <1>2, <1>3, CallMoves DEF BrokerFacts, BrokerPromises
<1>5. d.at = "sent" => d.since + 2 <= d.lapses
  <2>1. badge.until > tick => badge.until < badge.lapses
    BY DEF BrokerFacts, BadgeInv, BrokerTyped, NoBadge
  <2> QED
    BY <1>1, <1>3, <2>1
<1>6. RequestInv'
  BY <1>1, <1>2, <1>3, <1>4, <1>5 DEF BrokerFacts, RequestInv
<1>7. brokerMode # "PRODUCTION"
  BY <1>1 DEF BrokerPromises, ProductionIsUntouched
<1> QED
  BY <1>2, <1>4, <1>6, <1>7
     DEF BrokerFacts, BrokerPromises, BrokerTyped, BadgeInv, TokensAreFresh, ProductionIsUntouched

LEMMA AuthenticatedStep ==
    ASSUME BrokerFacts, BrokerPromises, NEW c \in Clerks, Authenticated(c), UNCHANGED brokerMode
    PROVE  BrokerFacts' /\ BrokerPromises'
<1>1. /\ desk[c] \in BrokerCall /\ tick \in Nat /\ desk[c].at = "authenticating"
      /\ desk[c].since \in Int /\ TokenLife \in Nat /\ TokenMargin \in Nat \ {0}
      /\ TokenMargin < TokenLife /\ TokenRenewal \in Nat \ {0} /\ TokenRenewal < TokenLife
  BY BrokerAssumption DEF BrokerFacts, BrokerTyped, BrokerCall, Authenticated
<1>2. brokerMode # "PRODUCTION"
  BY <1>1 DEF BrokerPromises, ProductionIsUntouched
<1>3. UNCHANGED <<brokerMode, tick, served, lapsed>>
  BY DEF Authenticated
<1>4. CASE \E until \in Renewed(desk[c].since, tick + TokenLife) :
             /\ badge' = [lapses |-> tick + TokenLife, until |-> until]
             /\ desk' = [desk EXCEPT ![c] = [@ EXCEPT
                            !.at = "sent", !.lapses = tick + TokenLife, !.since = tick]]
  <2>1. PICK until \in Renewed(desk[c].since, tick + TokenLife) :
             /\ badge' = [lapses |-> tick + TokenLife, until |-> until]
             /\ desk' = [desk EXCEPT ![c] = [@ EXCEPT
                            !.at = "sent", !.lapses = tick + TokenLife, !.since = tick]]
    BY <1>4
  <2>2. until \in Int /\ until < tick + TokenLife
    <3>1. desk[c].since <= tick
      BY <1>1 DEF BrokerFacts, RequestInv
    <3> QED
      BY <1>1, <3>1 DEF Renewed
  <2>3. badge' \in [lapses : Int, until : Int] /\ badge'.until < badge'.lapses
    BY <1>1, <2>1, <2>2
  <2> DEFINE standing == [desk[c] EXCEPT !.at = "sent"]
             held == [standing EXCEPT !.lapses = tick + TokenLife]
             d == [held EXCEPT !.since = tick]
  <2>4. desk' = [desk EXCEPT ![c] = d]
    BY <2>1
  <2>5. standing \in BrokerCall /\ standing.at = "sent"
    BY <1>1 DEF BrokerCall, Stages
  <2>6. held \in BrokerCall /\ held.at = "sent" /\ held.lapses = tick + TokenLife
    <3> HIDE DEF standing
    <3>1. tick + TokenLife \in Int
      BY <1>1
    <3> QED
      BY <2>5, <3>1 DEF BrokerCall
  <2>7. d \in BrokerCall /\ d.at = "sent" /\ d.lapses = tick + TokenLife /\ d.since = tick
    <3> HIDE DEF held
    <3> QED
      BY <1>1, <2>6 DEF BrokerCall
  <2> HIDE DEF d
  <2>8. /\ desk' \in [Clerks -> BrokerCall]
        /\ desk'[c] = d /\ \A e \in Clerks \ {c} : desk'[e] = desk[e]
        /\ AccountsInv' /\ ReportedIsDone'
    BY <1>3, <2>4, <2>7, CallMoves DEF BrokerFacts, BrokerPromises
  <2>9. RequestInv'
    BY <1>1, <1>3, <2>7, <2>8 DEF BrokerFacts, RequestInv
  <2> QED
    BY <1>2, <1>3, <2>3, <2>8, <2>9
       DEF BrokerFacts, BrokerPromises, BrokerTyped, BadgeInv, TokensAreFresh,
           ProductionIsUntouched
<1>5. CASE desk' = [desk EXCEPT ![c] = Thrown] /\ UNCHANGED badge
  <2>1. Thrown \in BrokerCall /\ Thrown.at = "thrown"
    BY IdleIsTyped DEF Thrown, Idle
  <2>2. /\ desk' \in [Clerks -> BrokerCall]
        /\ desk'[c] = Thrown /\ \A e \in Clerks \ {c} : desk'[e] = desk[e]
        /\ AccountsInv' /\ ReportedIsDone'
    BY <1>3, <1>5, <2>1, CallMoves DEF BrokerFacts, BrokerPromises
  <2>3. RequestInv'
    BY <1>3, <2>1, <2>2 DEF BrokerFacts, RequestInv
  <2> QED
    BY <1>2, <1>3, <1>5, <2>2, <2>3
       DEF BrokerFacts, BrokerPromises, BrokerTyped, BadgeInv, TokensAreFresh,
           ProductionIsUntouched
<1> QED
  BY <1>4, <1>5 DEF Authenticated

\* A request on its way belongs to an operation outside production, and its
\* token holds until it arrives.
LEMMA SentFacts ==
    ASSUME BrokerFacts, BrokerPromises, NEW c \in Clerks, desk[c].at = "sent"
    PROVE  /\ brokerMode # "PRODUCTION" /\ desk[c] \in BrokerCall
           /\ desk[c].lapses > tick
<1>1. /\ tick \in Nat /\ desk[c] \in BrokerCall
      /\ desk[c].since \in Int /\ desk[c].lapses \in Int
  BY DEF BrokerFacts, BrokerTyped, BrokerCall
<1>2. tick <= desk[c].since + 1 /\ desk[c].since + 2 <= desk[c].lapses
  BY DEF BrokerFacts, RequestInv
<1> QED
  BY <1>1, <1>2 DEF BrokerPromises, ProductionIsUntouched

\* What an accepted request makes true for the call that sent it.
LEMMA AcceptedTells ==
    ASSUME BrokerTyped, NEW c \in Clerks, served' \in Effects(c), desk[c].at = "sent",
           NEW d, d = Answered(Noted(c)), d.at = "returned", d.said = "confirmed"
    PROVE  /\ d.op = "configure" => /\ served'.daily = d.limits.daily
                                    /\ served'.drawdown = d.limits.drawdown
                                    /\ served'.mode = "RealTime"
           /\ d.op = "disable" => served'.doNotUnlock
           /\ d.op = "flatten" => served'.ordered
           /\ d.op = "provision" => /\ d.account = Len(served.owners) + 1
                                    /\ Len(served'.owners) = Len(served.owners) + 1
                                    /\ served'.owners[d.account] = d.user
<1>1. /\ Noted(c) \in BrokerCall /\ Noted(c).op = desk[c].op /\ Noted(c).k = desk[c].k
      /\ Noted(c).limits = desk[c].limits
  BY NotedIsTyped
<1>2. /\ d.op = desk[c].op /\ d.limits = desk[c].limits /\ d.said = Noted(c).said
      /\ d.user = Noted(c).user /\ d.account = Noted(c).account
      /\ desk[c].k = Len(HttpCalls[desk[c].op])
  BY <1>1, AnsweredEffect
<1>3. desk[c] \in BrokerCall /\ served \in ServedRow
  BY DEF BrokerTyped
<1>4. CASE d.op = "configure"
  <2>1. Request(c).send = "readBack"
    BY <1>2, <1>4, RequestTable DEF Request
  <2>2. served' = served
    BY <2>1 DEF Effects
  <2>3. Verified(desk[c].limits)
    <3>1. Noted(c) = [desk[c] EXCEPT !.said = IF Verified(desk[c].limits)
                                              THEN "confirmed" ELSE "unconfirmed"]
      BY <2>1 DEF Noted
    <3>2. ~ Verified(desk[c].limits) => Noted(c).said = "unconfirmed"
      BY <1>3, <3>1 DEF BrokerCall
    <3> QED
      BY <1>2, <3>2
  <2> QED
    BY <1>2, <1>4, <2>2, <2>3 DEF Verified
<1>5. CASE d.op = "disable"
  <2>1. Request(c).send = "lockOut"
    BY <1>2, <1>5, RequestTable DEF Request
  <2>2. served' = [[served EXCEPT !.daily = 0] EXCEPT !.doNotUnlock = TRUE]
    BY <2>1 DEF Effects
  <2>3. [served EXCEPT !.daily = 0] \in ServedRow
    BY <1>3, ServedFields
  <2>4. served'.doNotUnlock
    <3> DEFINE once == [served EXCEPT !.daily = 0]
    <3> HIDE DEF once
    <3> QED
      BY <2>2, <2>3 DEF ServedRow, once
  <2> QED
    BY <1>5, <2>4
<1>6. CASE d.op = "flatten"
  <2>1. Request(c).send = "liquidate"
    BY <1>2, <1>6, RequestTable DEF Request
  <2>2. served' = [served EXCEPT !.ordered = TRUE]
    BY <2>1 DEF Effects
  <2>3. served'.ordered
    BY <1>3, <2>2 DEF ServedRow
  <2> QED
    BY <1>6, <2>3
<1>7. CASE d.op = "provision"
  <2>1. Request(c).send = "createAccount"
    BY <1>2, <1>7, RequestTable DEF Request
  <2>2. served' = [served EXCEPT !.owners = Append(served.owners, desk[c].user)]
    BY <2>1 DEF Effects
  <2>3. /\ served'.owners = Append(served.owners, desk[c].user)
        /\ served.owners \in Seq(Nat) /\ desk[c].user \in Nat
    BY <1>3, <2>2 DEF ServedRow, BrokerCall
  <2>4. /\ Len(served'.owners) = Len(served.owners) + 1
        /\ served'.owners[Len(served.owners) + 1] = desk[c].user
    BY <2>3, AppendProperties
  <2>5. Noted(c).account = Len(served'.owners) /\ Noted(c).user = desk[c].user
    <3>1. Noted(c) = [[desk[c] EXCEPT !.account = Len(served'.owners)] EXCEPT !.said = "confirmed"]
      BY <2>1 DEF Noted
    <3> DEFINE counted == [desk[c] EXCEPT !.account = Len(served'.owners)]
    <3>2. /\ counted \in BrokerCall /\ counted.account = Len(served'.owners)
          /\ counted.user = desk[c].user
      <4>1. Len(served'.owners) \in Nat
        BY <2>3, <2>4, LenProperties
      <4> QED
        BY <1>3, <4>1 DEF BrokerCall
    <3>3. Noted(c) = [counted EXCEPT !.said = "confirmed"]
      BY <3>1
    <3> HIDE DEF counted
    <3> QED
      BY <3>2, <3>3 DEF BrokerCall
  <2> QED
    BY <1>2, <1>7, <2>4, <2>5
<1> QED
  BY <1>4, <1>5, <1>6, <1>7

\* A request that the broker has acted on: the calls that were told of earlier
\* ones know of it, whether or not the answer arrives.
LEMMA ActedOn ==
    ASSUME BrokerFacts, BrokerPromises, NEW c \in Clerks, desk[c].at = "sent",
           UNCHANGED <<brokerMode, tick, badge, lapsed>>, served' \in Effects(c),
           NEW d \in BrokerCall, With(c, d), d.at \notin {"authenticating", "sent"},
           \/ d = Thrown
           \/ d = Answered(Noted(c))
    PROVE  BrokerFacts' /\ BrokerPromises'
<1>1. /\ served' \in ServedRow
      /\ served.doNotUnlock => served'.doNotUnlock
      /\ served.ordered => served'.ordered
      /\ Len(served.owners) <= Len(served'.owners)
      /\ \A i \in 1 .. Len(served.owners) : served'.owners[i] = served.owners[i]
  BY EffectsAreTyped DEF BrokerFacts
<1>2. /\ desk' \in [Clerks -> BrokerCall]
      /\ desk'[c] = d
      /\ \A e \in Clerks \ {c} :
            /\ desk'[e].at = desk[e].at /\ desk'[e].op = desk[e].op
            /\ desk'[e].limits = desk[e].limits /\ desk'[e].said = desk[e].said
            /\ desk'[e].since = desk[e].since /\ desk'[e].lapses = desk[e].lapses
            /\ desk'[e].user = desk[e].user /\ desk'[e].account = desk[e].account
            /\ ~ desk'[e].disturbed /\ Told(e, "configure") => served' = served
            /\ ~ desk'[e].disturbed => ~ desk[e].disturbed
  BY WithEffect DEF BrokerFacts
<1>3. \A op \in {"provision", "configure", "disable", "flatten"} :
         \A e \in Clerks \ {c} : Told(e, op)' <=> Told(e, op)
  BY <1>2 DEF Told
<1>4. \A op \in {"provision", "configure", "disable", "flatten"} : Told(c, op)' =>
         /\ d = Answered(Noted(c)) /\ d.at = "returned" /\ d.said = "confirmed" /\ d.op = op
  BY <1>2 DEF Told, Thrown, Idle
<1>5. /\ Told(c, "configure")' => /\ served'.daily = d.limits.daily
                                  /\ served'.drawdown = d.limits.drawdown
                                  /\ served'.mode = "RealTime"
      /\ Told(c, "disable")' => served'.doNotUnlock
      /\ Told(c, "flatten")' => served'.ordered
      /\ Told(c, "provision")' => /\ d.account = Len(served.owners) + 1
                                  /\ Len(served'.owners) = Len(served.owners) + 1
                                  /\ served'.owners[d.account] = d.user
  BY <1>4, AcceptedTells DEF BrokerFacts
<1>6. Len(served.owners) \in Nat /\ Len(served'.owners) \in Nat
  BY <1>1, LenProperties DEF BrokerFacts, BrokerTyped, ServedRow
<1>7. AccountsInv'
  <2> SUFFICES ASSUME NEW e \in Clerks, Told(e, "provision")'
               PROVE  /\ desk'[e].account \in 1 .. Len(served'.owners)
                      /\ served'.owners[desk'[e].account] = desk'[e].user
    BY DEF AccountsInv
  <2>1. CASE e = c
    BY <1>2, <1>5, <1>6, <2>1
  <2>2. CASE e # c
    <3>1. /\ desk[e].account \in 1 .. Len(served.owners)
          /\ served.owners[desk[e].account] = desk[e].user
      BY <1>3, <2>2 DEF BrokerFacts, AccountsInv
    <3> QED
      BY <1>1, <1>2, <1>6, <2>2, <3>1
  <2> QED
    BY <2>1, <2>2
<1>8. ReportedIsDone'
  <2> SUFFICES ASSUME NEW e \in Clerks
               PROVE  /\ Told(e, "configure")' /\ ~ desk'[e].disturbed =>
                             /\ served'.daily = desk'[e].limits.daily
                             /\ served'.drawdown = desk'[e].limits.drawdown
                             /\ served'.mode = "RealTime"
                      /\ Told(e, "disable")' => served'.doNotUnlock
                      /\ Told(e, "flatten")' => served'.ordered
                      /\ Told(e, "provision")' =>
                             /\ served'.owners[desk'[e].account] = desk'[e].user
                             /\ \A f \in Clerks \ {e} : Told(f, "provision")' =>
                                    desk'[f].account # desk'[e].account
    BY DEF ReportedIsDone
  <2>1. /\ Told(e, "configure")' /\ ~ desk'[e].disturbed =>
             /\ served'.daily = desk'[e].limits.daily
             /\ served'.drawdown = desk'[e].limits.drawdown
             /\ served'.mode = "RealTime"
    <3>1. CASE e = c
      BY <1>2, <1>5, <3>1
    <3>2. CASE e # c
      <4> SUFFICES ASSUME Told(e, "configure")', ~ desk'[e].disturbed
                   PROVE  /\ served'.daily = desk'[e].limits.daily
                          /\ served'.drawdown = desk'[e].limits.drawdown
                          /\ served'.mode = "RealTime"
        OBVIOUS
      <4>1. Told(e, "configure") /\ ~ desk[e].disturbed /\ served' = served
        BY <1>2, <1>3, <3>2
      <4> QED
        BY <1>2, <3>2, <4>1 DEF BrokerPromises, ReportedIsDone
    <3> QED
      BY <3>1, <3>2
  <2>2. /\ Told(e, "disable")' => served'.doNotUnlock
        /\ Told(e, "flatten")' => served'.ordered
    <3>1. CASE e = c
      BY <1>5, <3>1
    <3>2. CASE e # c
      BY <1>1, <1>3, <3>2 DEF BrokerPromises, ReportedIsDone
    <3> QED
      BY <3>1, <3>2
  <2>3. Told(e, "provision")' => served'.owners[desk'[e].account] = desk'[e].user
    BY <1>7 DEF AccountsInv
  <2>4. ASSUME Told(e, "provision")', NEW f \in Clerks \ {e}, Told(f, "provision")'
        PROVE  desk'[f].account # desk'[e].account
    <3>1. \A g \in Clerks \ {c} : Told(g, "provision")' =>
             /\ Told(g, "provision") /\ desk'[g].account = desk[g].account
             /\ desk[g].account \in 1 .. Len(served.owners)
      BY <1>2, <1>3 DEF BrokerFacts, AccountsInv
    <3>2. CASE e = c
      BY <1>2, <1>5, <1>6, <2>4, <3>1, <3>2
    <3>3. CASE f = c
      BY <1>2, <1>5, <1>6, <2>4, <3>1, <3>3
    <3>4. CASE e # c /\ f # c
      BY <2>4, <3>1, <3>4 DEF BrokerPromises, ReportedIsDone
    <3> QED
      BY <3>2, <3>3, <3>4
  <2> QED
    BY <2>1, <2>2, <2>3, <2>4
<1>9. RequestInv'
  BY <1>2 DEF BrokerFacts, RequestInv
<1>10. brokerMode # "PRODUCTION"
  BY SentFacts
<1> QED
  BY <1>1, <1>2, <1>7, <1>8, <1>9, <1>10
     DEF BrokerFacts, BrokerPromises, BrokerTyped, BadgeInv, TokensAreFresh, ProductionIsUntouched

LEMMA ArriveStep ==
    ASSUME BrokerFacts, BrokerPromises, NEW c \in Clerks, UNCHANGED brokerMode,
           TooLate(c) \/ Accepted(c) \/ AnswerLost(c)
    PROVE  BrokerFacts' /\ BrokerPromises'
<1>1. desk[c].at = "sent" /\ UNCHANGED <<tick, badge>>
  BY DEF TooLate, Accepted, AnswerLost, InTime, Arrive
<1>2. /\ brokerMode # "PRODUCTION" /\ desk[c] \in BrokerCall
      /\ desk[c].lapses > tick /\ desk[c].lapses \in Int /\ tick \in Int
  BY <1>1, SentFacts DEF BrokerFacts, BrokerTyped, BrokerCall
<1>3. ~ TooLate(c)
  BY <1>2 DEF TooLate
<1>4. CASE Accepted(c)
  <2>1. Noted(c) \in BrokerCall /\ served' \in Effects(c)
    BY <1>4, NotedIsTyped DEF Accepted, BrokerFacts
  <2>2. /\ Answered(Noted(c)) \in BrokerCall
        /\ Answered(Noted(c)).at \notin {"authenticating", "sent"}
    BY <2>1, AnsweredEffect
  <2> QED
    BY <1>1, <1>4, <2>1, <2>2, ActedOn DEF Accepted, InTime
<1>5. CASE AnswerLost(c)
  <2>1. Thrown \in BrokerCall /\ Thrown.at = "thrown"
    BY IdleIsTyped DEF Thrown, Idle
  <2> QED
    BY <1>1, <1>5, <2>1, ActedOn DEF AnswerLost, InTime
<1> QED
  BY <1>3, <1>4, <1>5

\* A refusal is never reported as success.
LEMMA RefusalIsTold ==
    ASSUME BrokerTyped, NEW c \in Clerks, desk[c].at = "sent"
    PROVE  /\ RefusalOf(c) \in BrokerCall
           /\ RefusalOf(c).at \notin {"authenticating", "sent"}
           /\ RefusalOf(c).at = "returned"
                 /\ RefusalOf(c).op \in {"provision", "configure", "disable", "flatten"}
                 => RefusalOf(c).said # "confirmed"
<1> DEFINE name == Request(c).send
<1>1. desk[c] \in BrokerCall
  BY DEF BrokerTyped
<1>2. CASE name \in {"lockOut", "liquidate"}
  <2> DEFINE d == [desk[c] EXCEPT !.said = "unconfirmed"]
  <2>1. d \in BrokerCall /\ d.said = "unconfirmed"
    BY <1>1 DEF BrokerCall
  <2>2. RefusalOf(c) = Answered(d)
    BY <1>2 DEF RefusalOf
  <2> HIDE DEF d
  <2> QED
    BY <2>1, <2>2, AnsweredEffect
<1>3. CASE name \in {"autoLiq", "positionLimit"}
  <2>1. RefusalOf(c) = Answered(desk[c])
    BY <1>3 DEF RefusalOf
  <2>2. /\ RefusalOf(c) \in BrokerCall
        /\ RefusalOf(c).at \in {"asking", "thrown", "returned"}
        /\ RefusalOf(c).at = "returned" => desk[c].k = Len(HttpCalls[desk[c].op])
        /\ RefusalOf(c).op = desk[c].op
    BY <1>1, <2>1, AnsweredEffect
  <2>3. desk[c].op \in {"provision", "configure", "disable", "flatten"}
           => desk[c].k # Len(HttpCalls[desk[c].op])
    BY <1>3, RequestTable DEF Request
  <2> QED
    BY <2>2, <2>3
<1>4. CASE name \notin {"lockOut", "liquidate", "autoLiq", "positionLimit"}
  BY <1>4, IdleIsTyped DEF RefusalOf, Thrown, Idle
<1> QED
  BY <1>2, <1>3, <1>4

LEMMA RefusedStep ==
    ASSUME BrokerFacts, BrokerPromises, NEW c \in Clerks, RefusedByBroker(c),
           UNCHANGED brokerMode
    PROVE  BrokerFacts' /\ BrokerPromises'
<1>1. desk[c].at = "sent" /\ UNCHANGED <<brokerMode, tick, badge, served, lapsed>>
  BY DEF RefusedByBroker, InTime, Arrive
<1>2. brokerMode # "PRODUCTION"
  BY <1>1, SentFacts
<1>3. PICK d \in {RefusalOf(c), Thrown} : desk' = [desk EXCEPT ![c] = d]
  BY DEF RefusedByBroker
<1>4. /\ d \in BrokerCall /\ d.at \notin {"authenticating", "sent"}
      /\ d.at = "returned" /\ d.op \in {"provision", "configure", "disable", "flatten"}
            => d.said # "confirmed"
  BY <1>1, <1>3, RefusalIsTold, IdleIsTyped DEF BrokerFacts, Thrown, Idle
<1>5. /\ desk' \in [Clerks -> BrokerCall]
      /\ desk'[c] = d /\ \A e \in Clerks \ {c} : desk'[e] = desk[e]
      /\ AccountsInv' /\ ReportedIsDone'
  BY <1>1, <1>3, <1>4, CallMoves DEF BrokerFacts, BrokerPromises
<1>6. RequestInv'
  BY <1>1, <1>4, <1>5 DEF BrokerFacts, RequestInv
<1> QED
  BY <1>1, <1>2, <1>5, <1>6
     DEF BrokerFacts, BrokerPromises, BrokerTyped, BadgeInv, TokensAreFresh, ProductionIsUntouched

LEMMA LiquidatedStep ==
    ASSUME BrokerFacts, BrokerPromises, Liquidated, UNCHANGED brokerMode
    PROVE  BrokerFacts' /\ BrokerPromises'
<1>1. /\ served' \in ServedRow
      /\ served'.daily = served.daily /\ served'.drawdown = served.drawdown
      /\ served'.mode = served.mode /\ served'.owners = served.owners
      /\ served.doNotUnlock => served'.doNotUnlock
      /\ served.ordered => served'.ordered
  <2>1. served \in ServedRow /\ served' = [served EXCEPT !.netPos = 0]
    BY DEF Liquidated, BrokerFacts, BrokerTyped
  <2> QED
    BY <2>1 DEF ServedRow
<1>2. UNCHANGED <<brokerMode, tick, badge, desk, lapsed>>
  BY DEF Liquidated
<1>3. \A c, op : Told(c, op)' <=> Told(c, op)
  BY <1>2 DEF Told
<1>4. AccountsInv' /\ RequestInv' /\ BadgeInv'
  BY <1>1, <1>2, <1>3 DEF BrokerFacts, AccountsInv, RequestInv, BadgeInv
<1>5. ReportedIsDone'
  BY <1>1, <1>2, <1>3 DEF BrokerPromises, ReportedIsDone
<1> QED
  BY <1>1, <1>2, <1>4, <1>5
     DEF BrokerFacts, BrokerPromises, BrokerTyped, TokensAreFresh, ProductionIsUntouched

LEMMA LaterStep ==
    ASSUME BrokerFacts, BrokerPromises, Later, UNCHANGED brokerMode
    PROVE  BrokerFacts' /\ BrokerPromises'
<1>1. /\ tick \in Nat /\ tick' = tick + 1 /\ UNCHANGED <<brokerMode, badge, desk, served, lapsed>>
      /\ \A c \in Clerks : desk[c].at \in {"authenticating", "sent"} => desk[c].since = tick
  BY DEF Later, BrokerFacts, BrokerTyped
<1>2. RequestInv'
  BY <1>1 DEF BrokerFacts, RequestInv
<1>3. AccountsInv' /\ BadgeInv'
  BY <1>1 DEF BrokerFacts, AccountsInv, BadgeInv, Told
<1>4. ReportedIsDone'
  BY <1>1 DEF BrokerPromises, ReportedIsDone, Told
<1> QED
  BY <1>1, <1>2, <1>3, <1>4
     DEF BrokerFacts, BrokerPromises, BrokerTyped, TokensAreFresh, ProductionIsUntouched

LEMMA BrokerStep ==
    BrokerFacts /\ BrokerPromises /\ [BrokerNext]_brokerVars => BrokerFacts' /\ BrokerPromises'
<1> SUFFICES ASSUME BrokerFacts, BrokerPromises, [BrokerNext]_brokerVars
             PROVE  BrokerFacts' /\ BrokerPromises'
  OBVIOUS
<1>1. CASE UNCHANGED brokerVars
  <2>1. UNCHANGED <<brokerMode, tick, badge, desk, served, lapsed>>
    BY <1>1 DEF brokerVars
  <2>2. BrokerFacts'
    BY <2>1 DEF BrokerFacts, BrokerTyped, BadgeInv, RequestInv, AccountsInv, Told
  <2> QED
    BY <2>1, <2>2
       DEF BrokerPromises, TokensAreFresh, ReportedIsDone, ProductionIsUntouched, Told
<1>2. CASE BrokerNext
  <2>1. CASE \E c \in Clerks : \/ Begin(c) \/ AccessToken(c) \/ Authenticated(c)
                                \/ TooLate(c) \/ Accepted(c) \/ AnswerLost(c)
                                \/ RefusedByBroker(c)
    <3>1. UNCHANGED brokerMode
      BY <1>2 DEF BrokerNext
    <3> QED
      BY <2>1, <3>1, BeginStep, AccessTokenStep, AuthenticatedStep, ArriveStep, RefusedStep
  <2>2. CASE Liquidated \/ Later
    BY <1>2, <2>2, LiquidatedStep, LaterStep DEF BrokerNext
  <2> QED
    BY <1>2, <2>1, <2>2 DEF BrokerNext
<1> QED
  BY <1>1, <1>2

LEMMA BrokerStarts == BrokerInit => BrokerFacts /\ BrokerPromises
BY BrokerInitTyped, RequestTable
   DEF BrokerFacts, BrokerPromises, BrokerInit, TokensAreFresh, ReportedIsDone,
       ProductionIsUntouched, Told, Idle

-----------------------------------------------------------------------------
(* The site's own configuration. *)

AdapterKinds == {"none", "mock", "SANDBOX", "PRODUCTION"}

\* What a process has cached was read from settings it could start with.
ConfigInv == config = NoConfig \/ (config = ReadConfig(settings) /\ ~ Refuses(settings))
AdaptersInv ==
    /\ adapters \in [Platforms \union {"payment"} -> AdapterKinds]
    /\ settings.mode = "PRODUCTION" => \A a \in DOMAIN adapters : adapters[a] # "mock"
CookieInv == cookie # NoPassword => cookie \in typed
ReportInv ==
    report = NoReport \/ (/\ report.infrastructure = StaticLaunchBlockers(ReadConfig(settings))
                         /\ ~ Refuses(settings))
SiteFacts ==
    /\ settings \in Settings /\ ConfigInv /\ AdaptersInv /\ CookieInv /\ ReportInv
    /\ CurtainHolds

LEMMA ConfigIsRead ==
    \A e \in Settings : ~ Refuses(e) =>
        /\ e.mode \in {"DEMO", "SANDBOX", "PRODUCTION"}
        /\ ReadConfig(e) # NoConfig
        /\ ReadConfig(e).mode = e.mode
        /\ e.mode = "PRODUCTION" => ReadConfig(e).unconfigured = {}
BY DEF Refuses, ReadConfig, NoConfig

LEMMA SiteStarts == SiteInit => SiteFacts
BY DEF SiteInit, SiteFacts, ConfigInv, AdaptersInv, CookieInv, ReportInv, CurtainHolds,
       NoAdapters, Platforms, AdapterKinds

\* Whatever boots has its settings, and no mock behind orders that are real.
LEMMA BootedFacts ==
    ASSUME SiteFacts, Booted, settings' = settings
    PROVE  /\ config' = ReadConfig(settings) /\ ~ Refuses(settings)
           /\ ConfigInv'
           /\ settings.mode = "PRODUCTION" =>
                 /\ config'.mode = "PRODUCTION" /\ config'.unconfigured = {}
                 /\ \A p \in Platforms : TradingProvider(config', p) # "mock"
<1>1. config' = ReadConfig(settings) /\ ~ Refuses(settings)
  BY DEF Booted, SiteFacts, ConfigInv
<1>2. ConfigInv'
  BY <1>1 DEF ConfigInv, ReadConfig, Refuses
<1>3. settings.mode = "PRODUCTION" => config'.mode = "PRODUCTION" /\ config'.unconfigured = {}
  BY <1>1, ConfigIsRead DEF SiteFacts
<1>4. settings.mode = "PRODUCTION" => \A p \in Platforms : TradingProvider(config', p) # "mock"
  BY <1>3 DEF TradingProvider
<1> QED
  BY <1>1, <1>2, <1>3, <1>4

LEMMA TradingProviderIsKind == \A c, p : TradingProvider(c, p) \in AdapterKinds
BY DEF TradingProvider, AdapterKinds

LEMMA AdapterIsMade ==
    ASSUME SiteFacts, settings' = settings, NEW a \in Platforms \union {"payment"},
           NEW x \in AdapterKinds, adapters' = [adapters EXCEPT ![a] = x],
           settings.mode = "PRODUCTION" => x # "mock"
    PROVE  AdaptersInv'
BY DEF SiteFacts, AdaptersInv

LEMMA SiteStep == SiteFacts /\ [SiteNext]_siteVars => SiteFacts'
<1> SUFFICES ASSUME SiteFacts, [SiteNext]_siteVars PROVE SiteFacts'
  OBVIOUS
<1>1. CASE UNCHANGED siteVars
  BY <1>1 DEF siteVars, SiteFacts, ConfigInv, AdaptersInv, CookieInv, ReportInv, CurtainHolds
<1>2. CASE GetConfig
  BY <1>2, BootedFacts
     DEF GetConfig, SiteFacts, AdaptersInv, CookieInv, ReportInv, CurtainHolds
<1>3. CASE GetPaymentProvider
  <2> DEFINE x == IF "payments" \in config'.unconfigured /\ config'.mode # "PRODUCTION"
                  THEN "mock" ELSE "none"
  <2>1. /\ adapters' = [adapters EXCEPT !["payment"] = x] /\ Booted
        /\ UNCHANGED <<settings, cookie, typed, inside, report>>
    BY <1>3 DEF GetPaymentProvider
  <2>2. x \in AdapterKinds /\ (settings.mode = "PRODUCTION" => x # "mock")
    BY <2>1, BootedFacts DEF AdapterKinds
  <2>3. AdaptersInv'
    <3> HIDE DEF x
    <3> QED
      BY <2>1, <2>2, AdapterIsMade
  <2> QED
    BY <2>1, <2>3, BootedFacts DEF SiteFacts, CookieInv, ReportInv, CurtainHolds
<1>4. ASSUME NEW platform \in Platforms, GetTradingProvider(platform) PROVE SiteFacts'
  <2>1. /\ adapters' = [adapters EXCEPT ![platform] = TradingProvider(config', platform)]
        /\ Booted /\ UNCHANGED <<settings, cookie, typed, inside, report>>
    BY <1>4 DEF GetTradingProvider
  <2>2. AdaptersInv'
    BY <2>1, BootedFacts, AdapterIsMade, TradingProviderIsKind
  <2> QED
    BY <2>1, <2>2, BootedFacts DEF SiteFacts, CookieInv, ReportInv, CurtainHolds
<1>5. CASE GetLaunchReadiness
  <2> DEFINE provider == TradingProvider(config', "TRADOVATE")
  <2>1. /\ adapters' = [adapters EXCEPT !["TRADOVATE"] = provider]
        /\ Booted /\ UNCHANGED <<settings, cookie, typed, inside>>
    BY <1>5 DEF GetLaunchReadiness
  <2>2. report'.infrastructure = StaticLaunchBlockers(config')
    BY <1>5 DEF GetLaunchReadiness
  <2>3. AdaptersInv'
    BY <2>1, BootedFacts, AdapterIsMade, TradingProviderIsKind DEF Platforms
  <2>4. ReportInv'
    BY <2>1, <2>2, BootedFacts DEF ReportInv, ReadConfig, Refuses, StaticLaunchBlockers
  <2> QED
    BY <2>1, <2>3, <2>4, BootedFacts DEF SiteFacts, CookieInv, CurtainHolds
<1>6. CASE Visit \/ CookieExpires
  BY <1>6 DEF Visit, CookieExpires, Gated, SiteFacts, ConfigInv, AdaptersInv, CookieInv,
     ReportInv, CurtainHolds
<1>7. ASSUME NEW e \in Settings, Unlock(e.password) PROVE SiteFacts'
  BY <1>7 DEF Unlock, SiteFacts, ConfigInv, AdaptersInv, CookieInv, ReportInv, CurtainHolds
<1>8. CASE Deploy
  BY <1>8 DEF Deploy, SiteFacts, ConfigInv, AdaptersInv, CookieInv, ReportInv, CurtainHolds,
     NoAdapters, Platforms, AdapterKinds
<1> QED
  BY <1>1, <1>2, <1>3, <1>4, <1>5, <1>6, <1>7, <1>8 DEF SiteNext

\* What follows for what the site serves and shows.
LEMMA DefaultsLocal == SiteFacts => DefaultsStayLocal
<1> SUFFICES ASSUME SiteFacts, config # NoConfig
             PROVE  /\ config.mode = settings.mode /\ config.sessionSecret # "none"
                    /\ config.sessionSecret = "published" \/ ~ config.secureCookies =>
                           ~ settings.vercel /\ settings.address \in {"none", "localhost"}
  BY DEF DefaultsStayLocal, SiteFacts, AdaptersInv
<1>1. /\ config.mode = settings.mode
      /\ config.sessionSecret = SessionSecret(settings)
      /\ config.secureCookies <=> (\/ settings.mode # "DEMO" \/ ~ IsLocalDevelopment(settings)
                                   \/ settings.forced)
  <2>1. config = ReadConfig(settings)
    BY DEF SiteFacts, ConfigInv
  <2>2. config.mode = settings.mode /\ config.sessionSecret = SessionSecret(settings)
    BY <2>1 DEF ReadConfig
  <2>3. config.secureCookies = (settings.mode # "DEMO" \/ ~ IsLocalDevelopment(settings)
                                \/ settings.forced)
    BY <2>1, Zenon DEF ReadConfig
  <2> QED
    BY <2>2, <2>3
<1>2. SessionSecret(settings) # "none"
  BY DEF SiteFacts, ConfigInv, Refuses
<1>3. config.sessionSecret = "published" \/ ~ config.secureCookies => IsLocalDevelopment(settings)
  BY <1>1 DEF SessionSecret
<1>4. IsLocalDevelopment(settings) =>
         ~ settings.vercel /\ settings.address \in {"none", "localhost"}
  BY DEF IsLocalDevelopment, BaseUrl
<1> QED
  BY <1>1, <1>2, <1>3, <1>4

LEMMA ChecklistIsTrue == SiteFacts => ChecklistAgrees
<1> SUFFICES ASSUME SiteFacts, report # NoReport, report.infrastructure = 0, settings.secret
             PROVE  ~ Refuses([settings EXCEPT !.mode = "PRODUCTION"])
  BY DEF ChecklistAgrees
<1>1. StaticLaunchBlockers(ReadConfig(settings)) = 0 /\ ~ Refuses(settings)
  BY DEF SiteFacts, ReportInv
<1>2. Unconfigured(settings) = {}
  <2>1. IsFiniteSet(Unconfigured(settings)) /\ Cardinality(Unconfigured(settings)) \in Nat
    <3>1. IsFiniteSet({"payments", "trading", "email"})
      <4>1. IsFiniteSet({"email"}) /\ IsFiniteSet({"email"} \union {"trading"})
        BY FS_Singleton, FS_AddElement
      <4>2. IsFiniteSet(({"email"} \union {"trading"}) \union {"payments"})
        BY <4>1, FS_AddElement
      <4>3. ({"email"} \union {"trading"}) \union {"payments"} = {"payments", "trading", "email"}
        OBVIOUS
      <4> QED
        BY <4>2, <4>3
    <3>2. Unconfigured(settings) \in SUBSET {"payments", "trading", "email"}
      BY DEF Unconfigured
    <3> QED
      BY <3>1, <3>2, FS_Subset, FS_CardinalityType
  <2>2. Cardinality(Unconfigured(settings)) = 0
    BY <1>1, <2>1 DEF StaticLaunchBlockers, ReadConfig
  <2> QED
    BY <2>1, <2>2, FS_EmptySet
<1> DEFINE e == [settings EXCEPT !.mode = "PRODUCTION"]
<1>3. /\ e.mode = "PRODUCTION" /\ e.tradovate = settings.tradovate
      /\ e.payments = settings.payments /\ e.email = settings.email
      /\ e.secret = settings.secret
  BY SiteAssumption DEF SiteFacts, Environment
<1>4. Unconfigured(e) = Unconfigured(settings)
  BY <1>3 DEF Unconfigured, TradingConfigured
<1>5. SessionSecret(e) = "own"
  BY <1>3 DEF SessionSecret
<1>6. e.tradovate # "misnamed"
  BY <1>1, <1>3 DEF Refuses
<1> HIDE DEF e
<1> QED
  BY <1>2, <1>3, <1>4, <1>5, <1>6 DEF Refuses, e

-----------------------------------------------------------------------------
(* A customer's account. *)

Dates == [y : Nat, m : Nat, d : Nat]
User == [held : BOOLEAN, born : Dates, fails : Nat, lockedUntil : Nat, disabled : BOOLEAN]
Places == {"new", "create", "profile", "wrong", "right", "session", "save", "end"}
HttpRequest == [at : Places, born : Dates, fails : Nat, lockedUntil : Nat,
                filled : BOOLEAN, stamped : BOOLEAN]

AccessTyped ==
    /\ moment \in Nat /\ wrongs \in Nat
    /\ person \in User
    /\ profile \in [row : BOOLEAN, filled : BOOLEAN, stamped : BOOLEAN]
    /\ http \in [Requests -> HttpRequest]
    /\ login \in [Requests -> [st : {"none", "open", "revoked"}, expires : Nat]]
    /\ everFilled \in BOOLEAN

OfAge(born) ==
    MINIMUM_AGE_YEARS <= Cardinality(
        {y \in born.y + 1 .. AsOf.y : ~ Before(AsOf, [born EXCEPT !.y = y])})

\* The age that the form is refused for is a count of birthdays.
LEMMA AgeCountsBirthdays ==
    ASSUME NEW born \in Dates, AsOf \in Dates, ~ Before(AsOf, born),
           AgeInYears(born, AsOf) >= MINIMUM_AGE_YEARS
    PROVE  OfAge(born)
<1> DEFINE late == AsOf.m < born.m \/ (AsOf.m = born.m /\ AsOf.d < born.d)
           days == {y \in born.y + 1 .. AsOf.y : ~ Before(AsOf, [born EXCEPT !.y = y])}
           last == AsOf.y - (IF late THEN 1 ELSE 0)
<1>1. /\ born.y \in Nat /\ AsOf.y \in Nat /\ born.m \in Nat /\ AsOf.m \in Nat
      /\ born.d \in Nat /\ AsOf.d \in Nat
  BY DEF Dates
<1>2. \A y \in Int : Before(AsOf, [born EXCEPT !.y = y]) <=>
                          (AsOf.y < y \/ (AsOf.y = y /\ late))
  BY DEF Before, Dates
<1>3. days = born.y + 1 .. last
  <2>1. ASSUME NEW y \in Int PROVE y \in days <=> y \in born.y + 1 .. last
    BY <1>1, <1>2
  <2> QED
    BY <1>1, <2>1
<1>4. last - born.y = AgeInYears(born, AsOf) /\ last \in Int
  BY <1>1 DEF AgeInYears
<1>5. last - born.y >= 18
  BY <1>4 DEF MINIMUM_AGE_YEARS
<1>6. Cardinality(born.y + 1 .. last) = last - born.y
  <2> HIDE DEF last
  <2> QED
    BY <1>1, <1>4, <1>5, FS_Interval
<1> QED
  BY <1>3, <1>4, <1>5, <1>6 DEF OfAge, MINIMUM_AGE_YEARS

-----------------------------------------------------------------------------

\* One user, of age, and nothing of a user without the row.
RowsInv ==
    /\ rows = (IF person.held THEN 1 ELSE 0)
    /\ person.held => OfAge(person.born)
    /\ profile.row \/ (\E r \in Requests : login[r] # NoSession) => person.held
    /\ ~ person.held => wrongs = 0 /\ person.fails = 0

\* A registration was let through for its age, and the other requests that are
\* under way are of a user.
RequestsInv ==
    \A r \in Requests :
        /\ At(r, "create") => OfAge(http[r].born)
        /\ http[r].at \in {"profile", "wrong", "right", "session", "save"} => person.held

\* A save that nobody overlaps writes the stamp that still stands.
StampInv ==
    /\ profile.stamped => everFilled
    /\ \A r \in Requests : At(r, "save") /\ http[r].stamped => everFilled
    /\ "save" \notin overlaps =>
          /\ everFilled => profile.stamped
          /\ \A r \in Requests : At(r, "save") =>
                /\ profile.stamped => http[r].stamped
                /\ \A q \in Requests \ {r} : ~ At(q, "save")

\* A sign-in that nobody overlaps writes back the count that still stands.
LockInv ==
    "sign-in" \notin overlaps =>
        /\ person.fails = wrongs
        /\ wrongs >= MaxFailed => person.lockedUntil > 0
        /\ \A r \in Requests : http[r].at \in SigningIn =>
              /\ http[r].fails = person.fails /\ http[r].lockedUntil = person.lockedUntil
              /\ \A q \in Requests \ {r} : http[q].at \notin SigningIn

AccessFacts == AccessTyped /\ RowsInv /\ RequestsInv /\ StampInv /\ LockInv

LEMMA AccessStarts == AccessInit => AccessFacts
<1> SUFFICES ASSUME AccessInit PROVE AccessFacts
  OBVIOUS
<1>1. Unborn \in Dates
  BY DEF Unborn, Dates
<1>2. Waiting \in HttpRequest /\ Waiting.at = "new"
  BY <1>1 DEF Waiting, HttpRequest, Places
<1>3. NobodyYet \in User /\ ~ NobodyYet.held /\ NobodyYet.fails = 0
  BY <1>1 DEF NobodyYet, User
<1>4. AccessTyped
  BY <1>2, <1>3 DEF AccessInit, AccessTyped, NoProfile, NoSession
<1>5. ~ profile.row /\ ~ profile.stamped
  BY DEF AccessInit, NoProfile
<1>6. wrongs < MaxFailed
  BY AccessAssumption DEF AccessInit
<1>7. RowsInv
  BY <1>3, <1>5 DEF AccessInit, RowsInv
<1>8. \A r \in Requests : http[r].at = "new"
  BY <1>2 DEF AccessInit
<1>9. RequestsInv /\ StampInv
  BY <1>5, <1>8 DEF AccessInit, RequestsInv, StampInv, At
<1>10. LockInv
  BY <1>3, <1>6, <1>8, AccessAssumption DEF AccessInit, LockInv, SigningIn
<1> QED
  BY <1>4, <1>7, <1>9, <1>10 DEF AccessFacts

\* Where a request goes, the others stay, and it keeps what it has read.
LEMMA StepEffect ==
    ASSUME AccessTyped, NEW r \in Requests, NEW place \in Places, Step(r, place)
    PROVE  /\ http' \in [Requests -> HttpRequest]
           /\ http'[r].at = place /\ http'[r].born = http[r].born
           /\ \A q \in Requests \ {r} : http'[q] = http[q]
<1>1. http[r] \in HttpRequest /\ http' = [http EXCEPT ![r] = [http[r] EXCEPT !.at = place]]
  BY DEF AccessTyped, Step
<1>2. /\ [http[r] EXCEPT !.at = place] \in HttpRequest
      /\ [http[r] EXCEPT !.at = place].at = place
      /\ [http[r] EXCEPT !.at = place].born = http[r].born
  BY <1>1 DEF HttpRequest
<1> QED
  BY <1>1, <1>2 DEF AccessTyped

\* What every request keeps that neither reads a stamp nor a count.
LEMMA OrdinaryMove ==
    ASSUME AccessFacts, NEW r \in Requests, NEW place \in {"create", "profile", "session", "end"},
           http' \in [Requests -> HttpRequest], http'[r].at = place,
           \A q \in Requests \ {r} : http'[q] = http[q],
           place = "create" => OfAge(http'[r].born),
           place \in {"profile", "session"} => person'.held,
           person.held => person'.held,
           UNCHANGED <<overlaps, everFilled>>
    PROVE  /\ RequestsInv'
           /\ profile'.stamped = profile.stamped => StampInv'
           /\ person'.fails = person.fails /\ person'.lockedUntil = person.lockedUntil
                 /\ wrongs' = wrongs => LockInv'
<1>1. RequestsInv'
  <2> SUFFICES ASSUME NEW q \in Requests
               PROVE  /\ At(q, "create")' => OfAge(http'[q].born)
                      /\ http'[q].at \in {"profile", "wrong", "right", "session", "save"}
                            => person'.held
    BY DEF RequestsInv, OfAge, Before
  <2>1. CASE q = r
    BY <2>1 DEF At
  <2>2. CASE q # r
    BY <2>2 DEF AccessFacts, RequestsInv, At
  <2> QED
    BY <2>1, <2>2
<1>2. \A q \in Requests : http'[q].at \in {"save", "wrong", "right"} => q # r /\ http'[q] = http[q]
  OBVIOUS
<1>3. profile'.stamped = profile.stamped => StampInv'
  BY <1>2 DEF AccessFacts, StampInv, At
<1>4. ASSUME person'.fails = person.fails, person'.lockedUntil = person.lockedUntil,
             wrongs' = wrongs
      PROVE  LockInv'
  BY <1>2, <1>4 DEF AccessFacts, LockInv, At, SigningIn
<1> QED
  BY <1>1, <1>3, <1>4

LEMMA RegisterReadStep ==
    ASSUME AccessFacts, NEW r \in Requests, RegisterRead(r) PROVE AccessFacts'
<1>1. PICK form \in Forms :
         /\ IdentityIsFine(form)
         /\ http' = [http EXCEPT ![r] = [@ EXCEPT
               !.at = IF person.held THEN "end" ELSE "create", !.born = form.born]]
  BY DEF RegisterRead
<1> DEFINE place == IF person.held THEN "end" ELSE "create"
           d == [http[r] EXCEPT !.at = place, !.born = form.born]
<1>2. form.born \in Dates /\ AsOf \in Dates
  BY AccessAssumption DEF Forms, Dates, Unborn
<1>3. OfAge(form.born)
  BY <1>1, <1>2, AgeCountsBirthdays DEF IdentityIsFine
<1>4. d \in HttpRequest /\ d.at = place /\ d.born = form.born
  <2>1. http[r] \in HttpRequest /\ place \in Places
    BY DEF AccessFacts, AccessTyped, Places
  <2> HIDE DEF place
  <2> QED
    BY <1>2, <2>1 DEF HttpRequest
<1>5. http' = [http EXCEPT ![r] = d]
  BY <1>1
<1>6. UNCHANGED <<moment, person, profile, login, rows, wrongs, overlaps, everFilled>>
  BY DEF RegisterRead
<1> HIDE DEF d
<1>7. /\ http' \in [Requests -> HttpRequest] /\ http'[r] = d
      /\ \A q \in Requests \ {r} : http'[q] = http[q]
  BY <1>4, <1>5 DEF AccessFacts, AccessTyped
<1>8. AccessTyped' /\ RowsInv'
  BY <1>6, <1>7 DEF AccessFacts, AccessTyped, RowsInv, OfAge, Before
<1>9. RequestsInv' /\ StampInv' /\ LockInv'
  BY <1>3, <1>4, <1>6, <1>7, OrdinaryMove
<1> QED
  BY <1>8, <1>9 DEF AccessFacts

LEMMA RegisterWriteStep ==
    ASSUME AccessFacts, NEW r \in Requests, RegisterWrite(r) PROVE AccessFacts'
<1>1. http[r].at = "create" /\ OfAge(http[r].born) /\ http[r].born \in Dates
  BY DEF RegisterWrite, At, AccessFacts, RequestsInv, AccessTyped, HttpRequest
<1>2. UNCHANGED <<moment, profile, login, wrongs, overlaps, everFilled>>
  BY DEF RegisterWrite
<1>3. CASE person.held
  <2>1. Step(r, "end") /\ UNCHANGED <<person, rows>>
    BY <1>3 DEF RegisterWrite
  <2>2. /\ http' \in [Requests -> HttpRequest] /\ http'[r].at = "end"
        /\ \A q \in Requests \ {r} : http'[q] = http[q]
    BY <2>1, StepEffect DEF AccessFacts, Places
  <2>3. AccessTyped' /\ RowsInv'
    BY <1>2, <2>1, <2>2 DEF AccessFacts, AccessTyped, RowsInv, OfAge, Before
  <2>4. RequestsInv' /\ StampInv' /\ LockInv'
    BY <1>2, <2>1, <2>2, OrdinaryMove
  <2> QED
    BY <2>3, <2>4 DEF AccessFacts
<1>4. CASE ~ person.held
  <2>1. /\ person' = [NobodyYet EXCEPT !.held = TRUE, !.born = http[r].born]
        /\ rows' = rows + 1 /\ Step(r, "profile")
    BY <1>4 DEF RegisterWrite
  <2>2. /\ http' \in [Requests -> HttpRequest] /\ http'[r].at = "profile"
        /\ \A q \in Requests \ {r} : http'[q] = http[q]
    BY <2>1, StepEffect DEF AccessFacts, Places
  <2>3. /\ person' \in User /\ person'.held /\ person'.born = http[r].born
        /\ person'.fails = 0
    BY <1>1, <2>1 DEF NobodyYet, User
  <2>4. AccessTyped'
    BY <1>2, <2>2, <2>3 DEF AccessFacts, AccessTyped
  <2>5. RowsInv'
    <3>1. OfAge(person'.born)
      BY <1>1, <2>3
    <3>2. rows' = 1
      BY <1>4, <2>1 DEF AccessFacts, RowsInv
    <3> QED
      BY <2>3, <3>1, <3>2 DEF RowsInv, OfAge, Before
  <2>6. \A q \in Requests : http[q].at \notin SigningIn
    BY <1>4 DEF AccessFacts, RequestsInv, SigningIn
  <2>7. RequestsInv' /\ StampInv'
    BY <1>2, <1>4, <2>2, <2>3, OrdinaryMove
  <2>8. LockInv'
    <3>1. wrongs = 0 /\ MaxFailed > 0
      BY <1>4, AccessAssumption DEF AccessFacts, RowsInv
    <3>2. \A q \in Requests : http'[q].at \notin SigningIn
      BY <2>2, <2>6 DEF SigningIn
    <3> QED
      BY <1>2, <2>3, <3>1, <3>2, AccessAssumption DEF LockInv
  <2> QED
    BY <2>4, <2>5, <2>7, <2>8 DEF AccessFacts
<1> QED
  BY <1>3, <1>4

LEMMA RegisterProfileStep ==
    ASSUME AccessFacts, NEW r \in Requests, RegisterProfile(r) PROVE AccessFacts'
<1>1. person.held
  BY DEF RegisterProfile, At, AccessFacts, RequestsInv
<1>2. UNCHANGED <<moment, person, login, rows, wrongs, overlaps, everFilled>>
  BY DEF RegisterProfile
<1>3. PICK place \in {"end", "session"} : Step(r, place)
  BY DEF RegisterProfile
<1>4. /\ profile' \in [row : BOOLEAN, filled : BOOLEAN, stamped : BOOLEAN]
      /\ profile'.stamped = profile.stamped
  <2>1. profile \in [row : BOOLEAN, filled : BOOLEAN, stamped : BOOLEAN]
    BY DEF AccessFacts, AccessTyped
  <2>2. profile' = profile \/ profile' = [profile EXCEPT !.row = TRUE]
    BY DEF RegisterProfile
  <2>3. [profile EXCEPT !.row = TRUE].stamped = profile.stamped
    BY <2>1, Zenon
  <2> QED
    BY <2>1, <2>2, <2>3
<1>5. /\ http' \in [Requests -> HttpRequest] /\ http'[r].at = place
      /\ \A q \in Requests \ {r} : http'[q] = http[q]
  BY <1>3, StepEffect DEF AccessFacts, Places
<1>6. AccessTyped' /\ RowsInv'
  BY <1>1, <1>2, <1>4, <1>5 DEF AccessFacts, AccessTyped, RowsInv, OfAge, Before
<1>7. RequestsInv' /\ StampInv' /\ LockInv'
  BY <1>1, <1>2, <1>4, <1>5, OrdinaryMove
<1> QED
  BY <1>6, <1>7 DEF AccessFacts

LEMMA SignInReadStep ==
    ASSUME AccessFacts, NEW r \in Requests, SignInRead(r) PROVE AccessFacts'
<1>1. PICK place \in SigningIn :
         http' = [http EXCEPT ![r] = [@ EXCEPT !.at = place, !.fails = person.fails,
                                               !.lockedUntil = person.lockedUntil]]
  BY DEF SignInRead
<1>2. /\ person.held /\ NoteOverlap(r, SigningIn, "sign-in")
      /\ UNCHANGED <<moment, person, profile, login, rows, wrongs, everFilled>>
  BY DEF SignInRead
<1> DEFINE d == [http[r] EXCEPT !.at = place, !.fails = person.fails,
                                !.lockedUntil = person.lockedUntil]
<1>3. /\ d \in HttpRequest /\ d.at = place
      /\ d.fails = person.fails /\ d.lockedUntil = person.lockedUntil
  <2>1. /\ http[r] \in HttpRequest /\ place \in Places
        /\ person.fails \in Nat /\ person.lockedUntil \in Nat
    BY DEF AccessFacts, AccessTyped, Places, SigningIn, User
  <2> DEFINE standing == [http[r] EXCEPT !.at = place]
  <2>2. standing \in HttpRequest /\ standing.at = place
    BY <2>1 DEF HttpRequest
  <2>3. d = [standing EXCEPT !.fails = person.fails, !.lockedUntil = person.lockedUntil]
    OBVIOUS
  <2> HIDE DEF standing, d
  <2> QED
    BY <2>1, <2>2, <2>3 DEF HttpRequest
<1>4. http' = [http EXCEPT ![r] = d]
  BY <1>1
<1> HIDE DEF d
<1>5. /\ http' \in [Requests -> HttpRequest] /\ http'[r] = d
      /\ \A q \in Requests \ {r} : http'[q] = http[q]
  BY <1>3, <1>4 DEF AccessFacts, AccessTyped
<1>6. AccessTyped' /\ RowsInv'
  BY <1>2, <1>5 DEF AccessFacts, AccessTyped, RowsInv, OfAge, Before
<1>7. place # "create" /\ place # "save" /\ place \in SigningIn
  BY DEF SigningIn
<1>8. RequestsInv'
  BY <1>2, <1>3, <1>5, <1>7 DEF AccessFacts, RequestsInv, OfAge, Before, At
<1>9. /\ overlaps \subseteq overlaps'
      /\ "save" \in overlaps' => "save" \in overlaps
      /\ "sign-in" \notin overlaps' =>
            \A q \in Requests \ {r} : http[q].at \notin SigningIn
  BY <1>2 DEF NoteOverlap
<1>10. StampInv'
  BY <1>2, <1>3, <1>5, <1>7, <1>9 DEF AccessFacts, StampInv, At
<1>11. LockInv'
  <2> SUFFICES ASSUME "sign-in" \notin overlaps'
               PROVE  LockInv'
    BY DEF LockInv
  <2>1. \A q \in Requests : http'[q].at \in SigningIn => q = r
    BY <1>5, <1>9
  <2>2. "sign-in" \notin overlaps
    BY <1>9
  <2> QED
    BY <1>2, <1>3, <1>5, <2>1, <2>2 DEF AccessFacts, LockInv
<1> QED
  BY <1>6, <1>8, <1>10, <1>11 DEF AccessFacts

LEMMA SignInWrongStep ==
    ASSUME AccessFacts, NEW r \in Requests, SignInWrong(r) PROVE AccessFacts'
<1> DEFINE n == http[r].fails + 1
           until == IF n >= MaxFailed THEN moment + LockTime ELSE http[r].lockedUntil
<1>1. /\ At(r, "wrong") /\ wrongs' = wrongs + 1 /\ Step(r, "end")
      /\ person' = [person EXCEPT !.fails = n, !.lockedUntil = until]
      /\ UNCHANGED <<moment, profile, login, rows, overlaps, everFilled>>
  BY DEF SignInWrong
<1>2. person.held
  BY <1>1 DEF AccessFacts, RequestsInv, At
<1>3. n \in Nat /\ until \in Nat /\ (n >= MaxFailed => until > 0)
  <2>1. http[r].fails \in Nat /\ http[r].lockedUntil \in Nat /\ moment \in Nat
    BY DEF AccessFacts, AccessTyped, HttpRequest
  <2>2. LockTime \in Nat \ {0} /\ MaxFailed \in Nat
    BY AccessAssumption
  <2> QED
    BY <2>1, <2>2
<1>4. /\ person' \in User /\ person'.held /\ person'.born = person.born
      /\ person'.fails = n /\ person'.lockedUntil = until
  <2> HIDE DEF n, until
  <2> QED
    BY <1>1, <1>2, <1>3 DEF AccessFacts, AccessTyped, User
<1>5. /\ http' \in [Requests -> HttpRequest] /\ http'[r].at = "end"
      /\ \A q \in Requests \ {r} : http'[q] = http[q]
  BY <1>1, StepEffect DEF AccessFacts, Places
<1>6. AccessTyped'
  BY <1>1, <1>4, <1>5 DEF AccessFacts, AccessTyped
<1>7. RowsInv'
  BY <1>1, <1>2, <1>4 DEF AccessFacts, RowsInv, OfAge, Before
<1>8. RequestsInv' /\ StampInv'
  BY <1>1, <1>2, <1>4, <1>5, OrdinaryMove
<1>9. LockInv'
  <2> SUFFICES ASSUME "sign-in" \notin overlaps PROVE LockInv'
    BY <1>1 DEF LockInv
  <2>1. /\ person.fails = wrongs /\ http[r].fails = person.fails
        /\ \A q \in Requests \ {r} : http[q].at \notin SigningIn
    BY <1>1 DEF AccessFacts, LockInv, At, SigningIn
  <2>2. n = wrongs'
    BY <1>1, <2>1
  <2>3. \A q \in Requests : http'[q].at \notin SigningIn
    BY <1>5, <2>1 DEF SigningIn
  <2> HIDE DEF n, until
  <2> QED
    BY <1>3, <1>4, <2>2, <2>3 DEF LockInv
<1> QED
  BY <1>6, <1>7, <1>8, <1>9 DEF AccessFacts

LEMMA SignInRightStep ==
    ASSUME AccessFacts, NEW r \in Requests, SignInRight(r) PROVE AccessFacts'
<1>1. /\ At(r, "right") /\ wrongs' = 0 /\ Step(r, "session")
      /\ person' = [person EXCEPT !.fails = 0, !.lockedUntil = 0]
      /\ UNCHANGED <<moment, profile, login, rows, overlaps, everFilled>>
  BY DEF SignInRight
<1>2. person.held
  BY <1>1 DEF AccessFacts, RequestsInv, At
<1>3. /\ person' \in User /\ person'.held /\ person'.born = person.born
      /\ person'.fails = 0
  BY <1>1, <1>2 DEF AccessFacts, AccessTyped, User
<1>4. /\ http' \in [Requests -> HttpRequest] /\ http'[r].at = "session"
      /\ \A q \in Requests \ {r} : http'[q] = http[q]
  BY <1>1, StepEffect DEF AccessFacts, Places
<1>5. AccessTyped'
  BY <1>1, <1>3, <1>4 DEF AccessFacts, AccessTyped
<1>6. RowsInv'
  BY <1>1, <1>2, <1>3 DEF AccessFacts, RowsInv, OfAge, Before
<1>7. RequestsInv' /\ StampInv'
  BY <1>1, <1>2, <1>3, <1>4, OrdinaryMove
<1>8. LockInv'
  <2> SUFFICES ASSUME "sign-in" \notin overlaps PROVE LockInv'
    BY <1>1 DEF LockInv
  <2>1. \A q \in Requests \ {r} : http[q].at \notin SigningIn
    BY <1>1 DEF AccessFacts, LockInv, At, SigningIn
  <2>2. \A q \in Requests : http'[q].at \notin SigningIn
    BY <1>4, <2>1 DEF SigningIn
  <2> QED
    BY <1>1, <1>3, <2>2, AccessAssumption DEF LockInv
<1> QED
  BY <1>5, <1>6, <1>7, <1>8 DEF AccessFacts

LEMMA CreateSessionStep ==
    ASSUME AccessFacts, NEW r \in Requests, CreateSession(r) PROVE AccessFacts'
<1>1. /\ At(r, "session") /\ Step(r, "end")
      /\ login' = [login EXCEPT ![r] = [st |-> "open", expires |-> moment + SessionTime]]
      /\ UNCHANGED <<moment, person, profile, rows, wrongs, overlaps, everFilled>>
  BY DEF CreateSession
<1>2. person.held
  BY <1>1 DEF AccessFacts, RequestsInv, At
<1>3. /\ http' \in [Requests -> HttpRequest] /\ http'[r].at = "end"
      /\ \A q \in Requests \ {r} : http'[q] = http[q]
  BY <1>1, StepEffect DEF AccessFacts, Places
<1>4. AccessTyped'
  <2>1. moment + SessionTime \in Nat
    BY AccessAssumption DEF AccessFacts, AccessTyped
  <2>2. login' \in [Requests -> [st : {"none", "open", "revoked"}, expires : Nat]]
    BY <1>1, <2>1 DEF AccessFacts, AccessTyped
  <2> QED
    BY <1>1, <1>3, <2>2 DEF AccessFacts, AccessTyped
<1>5. RowsInv'
  BY <1>1, <1>2 DEF AccessFacts, RowsInv, OfAge, Before
<1>6. RequestsInv' /\ StampInv' /\ LockInv'
  BY <1>1, <1>3, OrdinaryMove
<1> QED
  BY <1>4, <1>5, <1>6 DEF AccessFacts

LEMMA SaveReadStep ==
    ASSUME AccessFacts, NEW r \in Requests, SaveRead(r) PROVE AccessFacts'
<1>1. PICK full \in BOOLEAN :
         http' = [http EXCEPT ![r] = [@ EXCEPT !.at = "save", !.filled = full,
                                               !.stamped = profile.stamped]]
  BY DEF SaveRead
<1>2. /\ SignedIn /\ NoteOverlap(r, {"save"}, "save")
      /\ UNCHANGED <<moment, person, profile, login, rows, wrongs, everFilled>>
  BY DEF SaveRead
<1>3. person.held
  BY <1>2 DEF SignedIn, AccessFacts, RowsInv, NoSession
<1> DEFINE d == [http[r] EXCEPT !.at = "save", !.filled = full, !.stamped = profile.stamped]
<1>4. d \in HttpRequest /\ d.at = "save" /\ d.stamped = profile.stamped
  <2>1. http[r] \in HttpRequest /\ "save" \in Places /\ profile.stamped \in BOOLEAN
    BY DEF AccessFacts, AccessTyped, Places
  <2> DEFINE standing == [http[r] EXCEPT !.at = "save"]
             held == [standing EXCEPT !.filled = full]
  <2>2. standing \in HttpRequest /\ standing.at = "save"
    BY <2>1 DEF HttpRequest
  <2>3. held \in HttpRequest /\ held.at = "save"
    <3> HIDE DEF standing
    <3> QED
      BY <2>2 DEF HttpRequest
  <2>4. d = [held EXCEPT !.stamped = profile.stamped]
    OBVIOUS
  <2>5. d.stamped = profile.stamped
    <3> HIDE DEF held, d
    <3> QED
      BY <2>3, <2>4, Zenon DEF HttpRequest
  <2>6. d \in HttpRequest /\ d.at = "save"
    <3> HIDE DEF held, d
    <3> QED
      BY <2>1, <2>3, <2>4 DEF HttpRequest
  <2> QED
    BY <2>5, <2>6
<1>5. http' = [http EXCEPT ![r] = d]
  BY <1>1
<1> HIDE DEF d
<1>6. /\ http' \in [Requests -> HttpRequest] /\ http'[r] = d
      /\ \A q \in Requests \ {r} : http'[q] = http[q]
  BY <1>4, <1>5 DEF AccessFacts, AccessTyped
<1>7. AccessTyped' /\ RowsInv'
  BY <1>2, <1>6 DEF AccessFacts, AccessTyped, RowsInv, OfAge, Before
<1>8. RequestsInv'
  <2> SUFFICES ASSUME NEW q \in Requests
               PROVE  /\ At(q, "create")' => OfAge(http'[q].born)
                      /\ http'[q].at \in {"profile", "wrong", "right", "session", "save"}
                            => person'.held
    BY DEF RequestsInv, OfAge, Before
  <2>1. CASE q = r
    BY <1>2, <1>3, <1>4, <1>6, <2>1 DEF At
  <2>2. CASE q # r
    BY <1>2, <1>6, <2>2 DEF AccessFacts, RequestsInv, At
  <2> QED
    BY <2>1, <2>2
<1>9. /\ overlaps \subseteq overlaps'
      /\ "sign-in" \in overlaps' => "sign-in" \in overlaps
      /\ "save" \notin overlaps' => \A q \in Requests \ {r} : http[q].at # "save"
  BY <1>2 DEF NoteOverlap
<1>10. LockInv'
  BY <1>2, <1>4, <1>6, <1>9 DEF AccessFacts, LockInv, SigningIn
<1>11. StampInv'
  <2>1. /\ profile.stamped => everFilled
        /\ \A q \in Requests : At(q, "save")' /\ http'[q].stamped => everFilled
    BY <1>2, <1>4, <1>6 DEF AccessFacts, StampInv, At
  <2>2. ASSUME "save" \notin overlaps'
        PROVE  /\ everFilled => profile.stamped
               /\ \A q \in Requests : At(q, "save")' =>
                     /\ profile.stamped => http'[q].stamped
                     /\ \A p \in Requests \ {q} : ~ At(p, "save")'
    <3>1. \A q \in Requests : At(q, "save")' => q = r
      BY <1>6, <1>9, <2>2 DEF At
    <3>2. everFilled => profile.stamped
      BY <1>9, <2>2 DEF AccessFacts, StampInv
    <3> QED
      BY <1>4, <1>6, <3>1, <3>2
  <2> QED
    BY <1>2, <2>1, <2>2 DEF StampInv
<1> QED
  BY <1>7, <1>8, <1>10, <1>11 DEF AccessFacts

LEMMA SaveWriteStep ==
    ASSUME AccessFacts, NEW r \in Requests, SaveWrite(r) PROVE AccessFacts'
<1>1. /\ At(r, "save") /\ Step(r, "end")
      /\ profile' = [row |-> TRUE, filled |-> http[r].filled,
                     stamped |-> http[r].stamped \/ http[r].filled]
      /\ everFilled' = (everFilled \/ http[r].filled)
      /\ UNCHANGED <<moment, person, login, rows, wrongs, overlaps>>
  BY DEF SaveWrite
<1>2. person.held
  BY <1>1 DEF AccessFacts, RequestsInv, At
<1>3. /\ http' \in [Requests -> HttpRequest] /\ http'[r].at = "end"
      /\ \A q \in Requests \ {r} : http'[q] = http[q]
  BY <1>1, StepEffect DEF AccessFacts, Places
<1>4. http[r].filled \in BOOLEAN /\ http[r].stamped \in BOOLEAN
  BY DEF AccessFacts, AccessTyped, HttpRequest
<1>5. /\ profile' \in [row : BOOLEAN, filled : BOOLEAN, stamped : BOOLEAN]
      /\ profile'.stamped <=> http[r].stamped \/ http[r].filled
      /\ everFilled' \in BOOLEAN
      /\ everFilled' <=> everFilled \/ http[r].filled
  <2>1. profile'.stamped = (http[r].stamped \/ http[r].filled)
    BY <1>1, Zenon
  <2>2. (http[r].stamped \/ http[r].filled) \in BOOLEAN
    BY <1>4, Zenon
  <2>3. profile' \in [row : BOOLEAN, filled : BOOLEAN, stamped : BOOLEAN]
    BY <1>1, <1>4, <2>2, Zenon
  <2>4. everFilled \in BOOLEAN
    BY DEF AccessFacts, AccessTyped
  <2>5. (everFilled \/ http[r].filled) \in BOOLEAN
    BY <2>4, <1>4, Zenon
  <2> QED
    BY <1>1, <2>1, <2>3, <2>5, Zenon
<1>6. AccessTyped'
  BY <1>1, <1>3, <1>5 DEF AccessFacts, AccessTyped
<1>7. RowsInv'
  BY <1>1, <1>2 DEF AccessFacts, RowsInv, OfAge, Before
<1>8. \A q \in Requests : http'[q].at # "end" => q # r /\ http'[q] = http[q]
  BY <1>3
<1>9. RequestsInv'
  BY <1>1, <1>8 DEF AccessFacts, RequestsInv, OfAge, Before, At
<1>10. LockInv'
  BY <1>1, <1>8 DEF AccessFacts, LockInv, SigningIn
<1>11. StampInv'
  <2>1. /\ profile'.stamped => everFilled'
        /\ \A q \in Requests : At(q, "save")' /\ http'[q].stamped => everFilled'
    BY <1>1, <1>5, <1>8 DEF AccessFacts, StampInv, At
  <2>2. ASSUME "save" \notin overlaps'
        PROVE  /\ everFilled' => profile'.stamped
               /\ \A q \in Requests : ~ At(q, "save")'
    <3>1. /\ everFilled => profile.stamped
          /\ profile.stamped => http[r].stamped
          /\ \A q \in Requests \ {r} : ~ At(q, "save")
      BY <1>1, <2>2 DEF AccessFacts, StampInv
    <3>2. \A q \in Requests : ~ At(q, "save")'
      BY <1>3, <3>1 DEF At
    <3> QED
      BY <1>5, <3>1, <3>2
  <2> QED
    BY <2>1, <2>2 DEF StampInv
<1> QED
  BY <1>6, <1>7, <1>9, <1>10, <1>11 DEF AccessFacts

LEMMA AccessStep == AccessFacts /\ [AccessNext]_accessVars => AccessFacts'
<1> SUFFICES ASSUME AccessFacts, [AccessNext]_accessVars PROVE AccessFacts'
  OBVIOUS
<1>1. CASE UNCHANGED accessVars
  BY <1>1 DEF accessVars, AccessFacts, AccessTyped, RowsInv, RequestsInv, StampInv, LockInv,
     OfAge, Before, At
<1>2. ASSUME NEW r \in Requests,
             \/ RegisterRead(r) \/ RegisterWrite(r) \/ RegisterProfile(r)
             \/ SignInRead(r) \/ SignInWrong(r) \/ SignInRight(r)
             \/ CreateSession(r) \/ SaveRead(r) \/ SaveWrite(r)
      PROVE  AccessFacts'
  BY <1>2, RegisterReadStep, RegisterWriteStep, RegisterProfileStep, SignInReadStep,
     SignInWrongStep, SignInRightStep, CreateSessionStep, SaveReadStep, SaveWriteStep
<1>3. ASSUME NEW r \in Requests, SignOut(r) PROVE AccessFacts'
  <2>1. /\ login[r].st = "open" /\ login' = [login EXCEPT ![r].st = "revoked"]
        /\ UNCHANGED <<moment, person, profile, http, rows, wrongs, overlaps, everFilled>>
    BY <1>3 DEF SignOut
  <2>2. person.held
    BY <2>1 DEF AccessFacts, RowsInv, NoSession
  <2>3. login' \in [Requests -> [st : {"none", "open", "revoked"}, expires : Nat]]
    BY <2>1 DEF AccessFacts, AccessTyped
  <2>4. AccessTyped' /\ RowsInv'
    BY <2>1, <2>2, <2>3 DEF AccessFacts, AccessTyped, RowsInv, OfAge, Before
  <2>5. RequestsInv' /\ StampInv' /\ LockInv'
    BY <2>1 DEF AccessFacts, RequestsInv, StampInv, LockInv, OfAge, Before, At
  <2> QED
    BY <2>4, <2>5 DEF AccessFacts
<1>4. ASSUME NEW r \in Requests, CutShort(r) PROVE AccessFacts'
  <2>1. /\ Step(r, "end")
        /\ UNCHANGED <<moment, person, profile, login, rows, wrongs, overlaps, everFilled>>
    BY <1>4 DEF CutShort
  <2>2. /\ http' \in [Requests -> HttpRequest] /\ http'[r].at = "end"
        /\ \A q \in Requests \ {r} : http'[q] = http[q]
    BY <2>1, StepEffect DEF AccessFacts, Places
  <2>3. AccessTyped' /\ RowsInv'
    BY <2>1, <2>2 DEF AccessFacts, AccessTyped, RowsInv, OfAge, Before
  <2>4. RequestsInv' /\ StampInv' /\ LockInv'
    BY <2>1, <2>2, OrdinaryMove
  <2> QED
    BY <2>3, <2>4 DEF AccessFacts
<1>5. CASE Disable
  <2>1. /\ person' = [person EXCEPT !.disabled = TRUE]
        /\ UNCHANGED <<moment, profile, http, login, rows, wrongs, overlaps, everFilled>>
    BY <1>5 DEF Disable
  <2>2. /\ person' \in User /\ person'.born = person.born
        /\ person'.fails = person.fails /\ person'.lockedUntil = person.lockedUntil
        /\ person'.held <=> person.held
    BY <2>1 DEF AccessFacts, AccessTyped, User
  <2>3. AccessTyped' /\ RowsInv'
    BY <2>1, <2>2 DEF AccessFacts, AccessTyped, RowsInv, OfAge, Before
  <2>4. RequestsInv' /\ StampInv' /\ LockInv'
    BY <2>1, <2>2 DEF AccessFacts, RequestsInv, StampInv, LockInv, OfAge, Before, At
  <2> QED
    BY <2>3, <2>4 DEF AccessFacts
<1>6. CASE MomentPasses
  BY <1>6 DEF MomentPasses, AccessFacts, AccessTyped, RowsInv, RequestsInv, StampInv, LockInv,
     OfAge, Before, At
<1> QED
  BY <1>1, <1>2, <1>3, <1>4, <1>5, <1>6 DEF AccessNext

LEMMA AccessSound == AccessFacts => AccessIsSound
BY DEF AccessFacts, AccessIsSound, RowsInv, StampInv, LockInv, OfAge

-----------------------------------------------------------------------------
(* The parts together. *)

\* A step of Rules is a step of each part, or leaves it alone.
LEMMA OneTopicMoves ==
    ASSUME [RulesNext]_<<topic, rulesVars>>
    PROVE  /\ [BookNext]_bookVars /\ [BooksNext]_booksVars
           /\ [PricingNext]_priceVars /\ [PromotionsNext]_promotionVars
           /\ [CalendarNext]_calendarVars /\ [CatalogNext]_catalogVars
           /\ [BrokerNext]_brokerVars /\ [SiteNext]_siteVars /\ [AccessNext]_accessVars
           /\ [AnalyticsNext]_analyticsVars /\ [OverviewNext]_overviewVars
           /\ [ForecastNext]_forecast
<1>1. CASE UNCHANGED <<topic, rulesVars>>
  BY <1>1 DEF rulesVars
<1>2. CASE RulesNext
  BY <1>2 DEF RulesNext, Only
<1> QED
  BY <1>1, <1>2

LEMMA RulesStart ==
    RulesInit => /\ BookInit /\ BooksInit /\ PricingInit /\ PromotionsInit
                 /\ CalendarInit /\ CatalogInit
                 /\ BrokerInit /\ SiteInit /\ AccessInit
                 /\ AnalyticsInit /\ OverviewInit /\ ForecastInit
BY DEF RulesInit

\* Whatever fills, in whatever order, the contracts held stay within the ceiling
\* and are approved, and so would be any set of orders that may still fill
\* (computeExposure and evaluateNewOrder in exposure.ts).
THEOREM FillsStayBelowCeilingAlways == RulesSpec => []FillsStayBelowCeiling
<1>1. RulesInit => ExposureFacts
  BY RulesStart, ExposureStarts
<1>2. ExposureFacts /\ [RulesNext]_<<topic, rulesVars>> => ExposureFacts'
  BY OneTopicMoves, ExposureStep
<1> QED
  BY <1>1, <1>2, ExposureSound, PTL DEF RulesSpec

\* Each of the four ledgers balances; cash paid is half of what was deducted and no
\* longer owed, revenue is fees less discounts, retries count once, and what was
\* compensated counts as if never posted (entries.ts, ledger-service.ts).
THEOREM BooksAgreeAlways == RulesSpec => []BooksAgree
<1>1. RulesInit => BooksInv
  BY RulesStart, BooksStart
<1>2. BooksInv /\ [RulesNext]_<<topic, rulesVars>> => BooksInv'
  BY OneTopicMoves, BooksStep
<1> QED
  BY <1>1, <1>2, BooksSound, PTL DEF RulesSpec

\* A discount is spread and refunded without a cent appearing or vanishing, for any
\* basket and coupon, and no account sells outside the evaluation unless overridden
\* (allocateByWeight, buildQuote, evaluatePromotion and chooseBestPromotion).
THEOREM PricesAreSoundAlways == RulesSpec => []PricesAreSound
<1>1. RulesInit => PricesInv /\ PromotionsInv
  BY RulesStart, PricesStart, PromotionsStart
<1>2. PricesInv /\ PromotionsInv /\ [RulesNext]_<<topic, rulesVars>>
        => PricesInv' /\ PromotionsInv'
  BY OneTopicMoves, PricesStep, PromotionsStep
<1>3. PricesInv /\ PromotionsInv => PricesAreSound
  BY QuotesAddUp DEF PromotionsInv, PricesAreSound
<1> QED
  BY <1>1, <1>2, <1>3, PTL DEF RulesSpec

\* Sessions follow each other without gap or overlap over both transitions of the
\* clock, every instant lies in the session it is labelled with, and a lockout ends
\* at the reopen (sessionDateFor, instantFromZoned and nextMarketOpen in session.ts).
THEOREM SessionsAreSoundAlways == RulesSpec => []SessionsAreSound
<1>1. RulesInit => CalendarFacts
  BY RulesStart, CalendarStarts
<1>2. CalendarFacts /\ [RulesNext]_<<topic, rulesVars>> => CalendarFacts'
  BY OneTopicMoves, CalendarStep
<1> QED
  BY <1>1, <1>2, CalendarSound, PTL DEF RulesSpec

\* However deploys interleave, the newest version alone is on sale, an account's
\* payouts are limited by the terms it was sold on, and a deploy that nobody
\* disturbed leaves the plans of its own code on sale (catalog-service.ts).
THEOREM CatalogIsOneContractAlways == RulesSpec => []CatalogIsOneContract
<1>1. RulesInit => CatalogFacts
  BY RulesStart, CatalogStarts
<1>2. CatalogFacts /\ [RulesNext]_<<topic, rulesVars>> => CatalogFacts'
  BY OneTopicMoves, CatalogStep
<1> QED
  BY <1>1, <1>2, CatalogSound, PTL DEF RulesSpec

\* Nobody comes past a gate that is shut: a customer's own, the broker adapter's
\* tokens and its environments, the site's secrets, cookies and curtain (the auth
\* routes, tradovate's client, config.ts, middleware.ts and the readiness checklist).
THEOREM GatesHoldAlways == RulesSpec => []GatesHold
<1> DEFINE Facts == BrokerFacts /\ BrokerPromises /\ SiteFacts /\ AccessFacts
<1>1. RulesInit => Facts
  BY RulesStart, BrokerStarts, SiteStarts, AccessStarts
<1>2. Facts /\ [RulesNext]_<<topic, rulesVars>> => Facts'
  <2> SUFFICES ASSUME Facts, [RulesNext]_<<topic, rulesVars>> PROVE Facts'
    OBVIOUS
  <2>1. [BrokerNext]_brokerVars /\ [SiteNext]_siteVars /\ [AccessNext]_accessVars
    BY OneTopicMoves
  <2>2. BrokerFacts' /\ BrokerPromises'
    BY <2>1, BrokerStep
  <2>3. SiteFacts'
    BY <2>1, SiteStep
  <2>4. AccessFacts'
    BY <2>1, AccessStep
  <2> QED
    BY <2>2, <2>3, <2>4
<1>3. Facts => GatesHold
  <2> SUFFICES ASSUME Facts PROVE GatesHold
    OBVIOUS
  <2>1. AccessIsSound
    BY AccessSound
  <2>2. TokensAreFresh /\ ReportedIsDone /\ ProductionIsUntouched
    BY DEF BrokerPromises
  <2>3. DefaultsStayLocal /\ CurtainHolds /\ ChecklistAgrees
    BY DefaultsLocal, ChecklistIsTrue DEF SiteFacts
  <2> QED
    BY <2>1, <2>2, <2>3 DEF GatesHold
<1> QED
  BY <1>1, <1>2, <1>3, PTL DEF RulesSpec

\* What the console derives is what its rows say, for any trades, profiles, accounts
\* and assumptions: statistics agree with every breakdown (trade-stats.ts); groups are
\* disjoint evidence, accounts that trade alike are reported together and clusters
\* neither overlap nor fall apart (correlation.ts); no page shows room, progress or
\* obligations its reads contradict, though accounts change between them
\* (admin/page.tsx, risk-view.ts); a forecast breaks even exactly where it says
\* (sensitivity.ts, reserve.ts).
THEOREM ReportsAddUpAlways == RulesSpec => []ReportsAddUp
<1> DEFINE Facts == AnalyticsFacts /\ OverviewFacts /\ ForecastFacts
<1>1. RulesInit => Facts
  BY RulesStart, AnalyticsStart, OverviewStart, ForecastStart
<1>2. Facts /\ [RulesNext]_<<topic, rulesVars>> => Facts'
  <2> SUFFICES ASSUME Facts, [RulesNext]_<<topic, rulesVars>> PROVE Facts'
    OBVIOUS
  <2>1. [AnalyticsNext]_analyticsVars /\ [OverviewNext]_overviewVars /\ [ForecastNext]_forecast
    BY OneTopicMoves
  <2>2. AnalyticsFacts'
    BY <2>1, AnalyticsStep
  <2>3. OverviewFacts'
    BY <2>1, OverviewStep
  <2>4. ForecastFacts'
    BY <2>1, ForecastStep
  <2> QED
    BY <2>2, <2>3, <2>4
<1>3. Facts => ReportsAddUp
  <2> SUFFICES ASSUME Facts PROVE ReportsAddUp
    OBVIOUS
  <2>1. StatsAddUp /\ EvidenceIsSound /\ CopiersAreTogether /\ SharedAddressIsSeen
    BY AnalyticsHold
  <2>2. HeadroomIsExact /\ OverviewCoversCaps /\ DetailNeverFlatters /\ ProgressIsTrue
    BY HeadroomHolds, CoversHolds, DetailHolds, ProgressHolds
  <2>3. BreakEvenIsTight /\ CalculatorAgrees /\ ScenariosAreBounded
    BY BreakEvenHolds, CalculatorHolds, ScenariosHold
  <2> QED
    BY <2>1, <2>2, <2>3 DEF ReportsAddUp
<1> QED
  BY <1>1, <1>2, <1>3, PTL DEF RulesSpec

=============================================================================
