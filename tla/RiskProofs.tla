------------------------------ MODULE RiskProofs ------------------------------
(***************************************************************************)
(* What the watch over one account promises for any number of concurrent   *)
(* pollers, of reset orders, of deaths, and for any movement of equity.    *)
(***************************************************************************)
EXTENDS Risk, FiniteSetTheorems, TLAPS

(* The type invariant, in the parts that different actions touch.          *)
AccountTyped == acct \in AccountRow
PollsTyped == poll \in [Pollers -> Poll]
ProviderTyped == prov \in [eq : Int, seq : Nat, flat : BOOLEAN, off : BOOLEAN,
                           done : SUBSET Orders]
TabsTyped ==
    /\ orders \in [Orders -> {"none", "pending", "charged", "paid", "applied"}]
    /\ tab \in [Orders -> [pc : TabPCs, bal : Int]]
RowsTyped ==
    /\ tick \in 0 .. LastTick
    /\ seen \subseteq Nat
    /\ breaches \subseteq Kinds \X Sessions
    /\ alarms \subseteq {"DATA_STALE", "TRADING_DISABLE_FAILED"}
    /\ roll \in [pc : {"idle", "write"}, was : Statuses]
    /\ paying \in BOOLEAN
    /\ trades \in 0 .. MaxTrades
    /\ deaths \in 0 .. MaxDeaths

LEMMA TypeParts ==
    RiskTypeOK <=> /\ AccountTyped /\ PollsTyped /\ ProviderTyped
                   /\ TabsTyped /\ RowsTyped
BY DEF RiskTypeOK, AccountTyped, PollsTyped, ProviderTyped, TabsTyped, RowsTyped

LEMMA TypePartsNext ==
    RiskTypeOK' <=> /\ AccountTyped' /\ PollsTyped' /\ ProviderTyped'
                    /\ TabsTyped' /\ RowsTyped'
BY DEF RiskTypeOK, AccountTyped, PollsTyped, ProviderTyped, TabsTyped, RowsTyped

\* Thresholds and marks are integers, sessions are sessions.
LEMMA ThresholdIsInt == \A h \in Int : ComputeThreshold(h) \in Int
BY RiskAssumption DEF ComputeThreshold

LEMMA NextMarksAreInts ==
    \A t, h, e \in Int : /\ NextHighWater(h, e) \in Int
                         /\ NextThreshold(t, h, e) \in Int
BY ThresholdIsInt DEF NextHighWater, NextThreshold, Larger

LEMMA SessionIsTyped ==
    /\ 0 \in Sessions
    /\ \A t \in 0 .. LastTick : SessionAt(t) \in Sessions /\ NextOpen(t) \in Nat
BY RiskServiceAssumption DEF Sessions, SessionAt, NextOpen

LEMMA NoRowIsTyped == NoRow \in RowRead
BY SessionIsTyped DEF NoRow, RowRead

LEMMA IdlePollIsTyped == IdlePoll \in Poll
BY SessionIsTyped DEF IdlePoll, Poll, PollPCs, RowRead, NoRow

\* A row whose session, status and count of resets are set anew.
LEMMA RowRestarts ==
    ASSUME NEW row \in AccountRow, NEW n \in Nat
    PROVE  [row EXCEPT !.wd = 0, !.status = "ACTIVE", !.until = 0,
                       !.resets = n] \in AccountRow
<1>1. ASSUME NEW w \in Int, NEW st \in Statuses
      PROVE  [row EXCEPT !.wd = w, !.status = st] \in AccountRow
  BY DEF AccountRow
<1>2. ASSUME NEW r \in AccountRow, NEW u \in Nat
      PROVE  [r EXCEPT !.until = u] \in AccountRow
  BY DEF AccountRow
<1>3. ASSUME NEW r \in AccountRow PROVE [r EXCEPT !.resets = n] \in AccountRow
  BY DEF AccountRow
<1>4. "ACTIVE" \in Statuses
  BY DEF Statuses
<1>5. 0 \in Int /\ 0 \in Nat
  BY SMT
<1> QED
  BY <1>1, <1>2, <1>3, <1>4, <1>5

\* A poller that moves on keeps its shape.
LEMMA PollMoves ==
    ASSUME PollsTyped, NEW p \in Pollers
    PROVE  /\ PollDone(p) => PollsTyped'
           /\ \A pc \in PollPCs : PollTo(p, pc) => PollsTyped'
           /\ \A pc \in PollPCs : Continue(p, pc) => PollsTyped'
BY IdlePollIsTyped DEF PollsTyped, PollDone, PollTo, Continue, Poll

\* A poller that takes in the row, or the outcome of an enforcement.
LEMMA PollLearns ==
    ASSUME PollsTyped, NEW p \in Pollers, NEW pc \in PollPCs,
           NEW ok \in BOOLEAN, NEW row \in RowRead, NEW until \in Nat
    PROVE  /\ poll' = [poll EXCEPT ![p].pc = pc, ![p].ok = ok, ![p].row = row]
                 => PollsTyped'
           /\ poll' = [poll EXCEPT ![p].ok = ok, ![p].until = until,
                                  ![p].pc = pc]
                 => PollsTyped'
<1>1. poll \in [Pollers -> Poll] /\ poll[p] \in Poll
  BY DEF PollsTyped
<1>2. /\ [poll[p] EXCEPT !.pc = pc, !.ok = ok, !.row = row] \in Poll
      /\ [poll[p] EXCEPT !.ok = ok, !.until = until, !.pc = pc] \in Poll
  BY <1>1 DEF Poll
<1>3. ASSUME poll' = [poll EXCEPT ![p].pc = pc, ![p].ok = ok, ![p].row = row]
      PROVE  PollsTyped'
  <2>1. poll' = [poll EXCEPT ![p] =
                   [poll[p] EXCEPT !.pc = pc, !.ok = ok, !.row = row]]
    BY <1>1, <1>3
  <2> QED
    BY <1>1, <1>2, <2>1 DEF PollsTyped
<1>4. ASSUME poll' = [poll EXCEPT ![p].ok = ok, ![p].until = until,
                                  ![p].pc = pc]
      PROVE  PollsTyped'
  <2>1. poll' = [poll EXCEPT ![p] =
                   [poll[p] EXCEPT !.ok = ok, !.until = until, !.pc = pc]]
    BY <1>1, <1>4
  <2> QED
    BY <1>1, <1>2, <2>1 DEF PollsTyped
<1> QED
  BY <1>3, <1>4

\* The stages that may follow a write or an enforcement.
LEMMA StagesAreTyped ==
    ASSUME NEW p \in Pollers
    PROVE  /\ AfterTrailing(p) \in {"mark", "idle"}
           /\ AfterDaily(p) \in {"trailing", "mark", "idle"}
           /\ AfterWrite(p) \in {"daily", "trailing", "mark", "idle"}
           /\ NextStage(p) \in {"trailing", "mark", "idle"}
BY DEF AfterTrailing, AfterDaily, AfterWrite, NextStage

LEMMA RiskTypeInit == RiskInit => RiskTypeOK
<1> SUFFICES ASSUME RiskInit PROVE RiskTypeOK
  OBVIOUS
<1>1. AccountTyped
  <2>1. /\ Start \in Int /\ ComputeThreshold(Start) \in Int
        /\ 0 \in Sessions
    BY RiskServiceAssumption, ThresholdIsInt, SessionIsTyped
  <2> QED
    BY <2>1 DEF RiskInit, AccountTyped, AccountRow, Statuses
<1>2. PollsTyped
  BY IdlePollIsTyped DEF RiskInit, PollsTyped
<1>3. ProviderTyped
  BY RiskServiceAssumption DEF RiskInit, ProviderTyped
<1>4. TabsTyped
  BY DEF RiskInit, TabsTyped, IdleTab, TabPCs
<1>5. RowsTyped
  <2>1. 0 \in 0 .. LastTick /\ 0 \in 0 .. MaxTrades /\ 0 \in 0 .. MaxDeaths
    BY RiskServiceAssumption
  <2>2. tick \in 0 .. LastTick /\ trades \in 0 .. MaxTrades
        /\ deaths \in 0 .. MaxDeaths
    BY <2>1 DEF RiskInit
  <2>3. roll = IdleRoll /\ seen = {1} /\ breaches = {} /\ alarms = {}
        /\ paying = FALSE
    BY DEF RiskInit
  <2>4. IdleRoll \in [pc : {"idle", "write"}, was : Statuses]
    BY DEF IdleRoll, Statuses
  <2>5. seen \subseteq Nat /\ breaches \subseteq Kinds \X Sessions
        /\ alarms \subseteq {"DATA_STALE", "TRADING_DISABLE_FAILED"}
    BY <2>3
  <2>6. roll \in [pc : {"idle", "write"}, was : Statuses] /\ paying \in BOOLEAN
    BY <2>3, <2>4
  <2> QED
    BY <2>2, <2>5, <2>6 DEF RowsTyped
<1> QED
  BY <1>1, <1>2, <1>3, <1>4, <1>5, TypeParts

\* The type invariant of a step that touches only some of the parts.
LEMMA RiskTypeStep ==
    ASSUME RiskTypeOK, [RiskNext]_riskVars
    PROVE  RiskTypeOK'
<1>0. /\ AccountTyped /\ PollsTyped /\ ProviderTyped /\ TabsTyped /\ RowsTyped
  BY TypeParts
<1> SUFFICES /\ AccountTyped' /\ PollsTyped' /\ ProviderTyped'
             /\ TabsTyped' /\ RowsTyped'
  BY TypePartsNext
<1>u. /\ UNCHANGED acct => AccountTyped'
      /\ UNCHANGED poll => PollsTyped'
      /\ UNCHANGED prov => ProviderTyped'
      /\ UNCHANGED <<orders, tab>> => TabsTyped'
      /\ UNCHANGED <<tick, seen, breaches, alarms, roll, paying, trades, deaths>>
            => RowsTyped'
  BY <1>0 DEF AccountTyped, PollsTyped, ProviderTyped, TabsTyped, RowsTyped
<1>1. ASSUME NEW p \in Pollers, Fetch(p)
      PROVE  /\ AccountTyped' /\ PollsTyped' /\ ProviderTyped'
             /\ TabsTyped' /\ RowsTyped'
  <2>1. AccountTyped' /\ ProviderTyped' /\ TabsTyped' /\ RowsTyped'
    BY <1>1, <1>u DEF Fetch, rowVars, resetVars, countVars
  <2>2. PollsTyped'
    BY <1>0, <1>1, SessionIsTyped
       DEF Fetch, rowVars, resetVars, countVars, PollsTyped, Poll, PollPCs,
           RowRead, NoRow, ProviderTyped, RowsTyped
  <2> QED
    BY <2>1, <2>2
<1>2. ASSUME NEW p \in Pollers, FetchFails(p)
      PROVE  /\ AccountTyped' /\ PollsTyped' /\ ProviderTyped'
             /\ TabsTyped' /\ RowsTyped'
  <2>1. AccountTyped' /\ ProviderTyped' /\ TabsTyped' /\ RowsTyped'
    BY <1>2, <1>u DEF FetchFails, rowVars, resetVars, countVars
  <2>2. PollsTyped'
    BY <1>0, <1>2, PollMoves
       DEF FetchFails, rowVars, resetVars, countVars, PollsTyped, PollPCs
  <2> QED
    BY <2>1, <2>2
<1>3. ASSUME NEW p \in Pollers, Unreachable(p)
      PROVE  /\ AccountTyped' /\ PollsTyped' /\ ProviderTyped'
             /\ TabsTyped' /\ RowsTyped'
  <2>1. ProviderTyped' /\ TabsTyped'
    BY <1>3, <1>u DEF Unreachable, rowVars, resetVars, countVars
  <2>2. AccountTyped'
    BY <1>0, <1>3
       DEF Unreachable, rowVars, resetVars, countVars, AccountTyped, AccountRow
  <2>3. PollsTyped'
    BY <1>0, <1>3, PollMoves
       DEF Unreachable, rowVars, resetVars, countVars, PollsTyped, PollPCs
  <2>4. RowsTyped'
    BY <1>0, <1>3
       DEF Unreachable, rowVars, resetVars, countVars, RowsTyped
  <2> QED
    BY <2>1, <2>2, <2>3, <2>4
<1>4. ASSUME NEW p \in Pollers, IngestRead(p)
      PROVE  /\ AccountTyped' /\ PollsTyped' /\ ProviderTyped'
             /\ TabsTyped' /\ RowsTyped'
  <2>1. AccountTyped' /\ ProviderTyped' /\ TabsTyped' /\ RowsTyped'
    BY <1>4, <1>u DEF IngestRead, rowVars, resetVars, countVars
  <2>2. PollsTyped'
    <3>1. /\ acct.high \in Int /\ acct.thr \in Int /\ acct.open \in Int
          /\ acct.wd \in Int /\ acct.sess \in Sessions
          /\ (poll[p].seq > acct.seq) \in BOOLEAN
      BY <1>0 DEF AccountTyped, AccountRow
    <3>2. CASE poll[p].seq \in seen
      BY <1>0, <1>4, <3>2, PollMoves DEF IngestRead, PollDone
    <3>3. CASE poll[p].seq \notin seen
      <4>1. poll' = [poll EXCEPT ![p].pc = "record",
                  ![p].ok = poll[p].seq > acct.seq,
                  ![p].row = [high |-> acct.high, thr |-> acct.thr,
                              open |-> acct.open, wd |-> acct.wd,
                              sess |-> acct.sess]]
        BY <1>4, <3>3 DEF IngestRead
      <4>2. PICK ok \in BOOLEAN, row \in RowRead :
               poll' = [poll EXCEPT ![p].pc = "record", ![p].ok = ok,
                                    ![p].row = row]
        <5>1. [high |-> acct.high, thr |-> acct.thr, open |-> acct.open,
               wd |-> acct.wd, sess |-> acct.sess] \in RowRead
          BY <3>1 DEF RowRead
        <5> QED
          BY <3>1, <4>1, <5>1, Zenon
      <4> QED
        BY <1>0, <4>2, PollLearns DEF PollPCs
    <3> QED
      BY <3>2, <3>3
  <2> QED
    BY <2>1, <2>2
<1>5. ASSUME NEW p \in Pollers, IngestRecord(p)
      PROVE  /\ AccountTyped' /\ PollsTyped' /\ ProviderTyped'
             /\ TabsTyped' /\ RowsTyped'
  <2>1. AccountTyped' /\ ProviderTyped' /\ TabsTyped'
    BY <1>5, <1>u DEF IngestRecord, rowVars, resetVars, countVars
  <2>2. PollsTyped'
    BY <1>0, <1>5, PollMoves
       DEF IngestRecord, rowVars, resetVars, countVars, PollsTyped, PollPCs
  <2>3. RowsTyped'
    <3>1. poll[p].seq \in Nat
      BY <1>0 DEF PollsTyped, Poll
    <3> QED
      BY <1>0, <1>5, <3>1 DEF IngestRecord, rowVars, countVars, RowsTyped
  <2> QED
    BY <2>1, <2>2, <2>3
<1>6. ASSUME NEW p \in Pollers, IngestWrite(p)
      PROVE  /\ AccountTyped' /\ PollsTyped' /\ ProviderTyped'
             /\ TabsTyped' /\ RowsTyped'
  <2>1. ProviderTyped' /\ TabsTyped' /\ RowsTyped'
    BY <1>6, <1>u DEF IngestWrite, rowVars, resetVars, countVars
  <2>2. AccountTyped'
    <3>1. poll[p] \in Poll
      BY <1>0 DEF PollsTyped
    <3>2. /\ poll[p].eq \in Int /\ poll[p].seq \in Nat /\ poll[p].old \in BOOLEAN
          /\ poll[p].flat \in BOOLEAN /\ poll[p].sess \in Sessions
          /\ poll[p].row \in RowRead
      BY <3>1 DEF Poll
    <3>3. /\ NextHighWater(poll[p].row.high, poll[p].eq) \in Int
          /\ Threshold(p) \in Int
      BY <3>2, NextMarksAreInts DEF RowRead, Threshold
    <3>4. OpenEquity(p) \in Int /\ Withdrawn(p) \in Int
      BY <3>2 DEF RowRead, OpenEquity, Withdrawn
    <3> HIDE DEF Threshold, OpenEquity, Withdrawn
    <3> QED
      BY <1>0, <1>6, <3>2, <3>3, <3>4 DEF IngestWrite, AccountTyped, AccountRow
  <2>3. PollsTyped'
    BY <1>0, <1>6, PollMoves, StagesAreTyped
       DEF IngestWrite, rowVars, resetVars, countVars, PollsTyped, PollPCs
  <2> QED
    BY <2>1, <2>2, <2>3
<1>7. ASSUME NEW p \in Pollers, MarkStale(p)
      PROVE  /\ AccountTyped' /\ PollsTyped' /\ ProviderTyped'
             /\ TabsTyped' /\ RowsTyped'
  <2>1. ProviderTyped' /\ TabsTyped'
    BY <1>7, <1>u DEF MarkStale, rowVars, resetVars, countVars
  <2>2. AccountTyped'
    BY <1>0, <1>7
       DEF MarkStale, rowVars, resetVars, countVars, AccountTyped, AccountRow
  <2>3. PollsTyped'
    BY <1>0, <1>7, PollMoves
       DEF MarkStale, rowVars, resetVars, countVars, PollsTyped, PollPCs
  <2>4. RowsTyped'
    BY <1>0, <1>7
       DEF MarkStale, rowVars, resetVars, countVars, RowsTyped
  <2> QED
    BY <2>1, <2>2, <2>3, <2>4
<1>8. ASSUME NEW p \in Pollers, Enforce(p)
      PROVE  /\ AccountTyped' /\ PollsTyped' /\ ProviderTyped'
             /\ TabsTyped' /\ RowsTyped'
  <2>1. AccountTyped' /\ TabsTyped' /\ RowsTyped'
    BY <1>8, <1>u DEF Enforce, rowVars, resetVars, countVars
  <2>2. PollsTyped'
    <3>1. CASE Continue(p, NextStage(p))
      BY <1>0, <3>1, PollMoves, StagesAreTyped DEF PollPCs
    <3>2. CASE \E ok \in BOOLEAN, pc \in {"daily_commit", "trailing_commit"} :
                  poll' = [poll EXCEPT ![p].ok = ok,
                      ![p].until = NextOpen(tick), ![p].pc = pc]
      <4>1. NextOpen(tick) \in Nat
        BY <1>0, SessionIsTyped DEF RowsTyped
      <4> QED
        <5>1. PICK ok \in BOOLEAN, pc \in PollPCs :
                  poll' = [poll EXCEPT ![p].ok = ok,
                      ![p].until = NextOpen(tick), ![p].pc = pc]
          BY <3>2 DEF PollPCs
        <5> QED
          BY <1>0, <4>1, <5>1, PollLearns, NoRowIsTyped
    <3> QED
      BY <1>8, <3>1, <3>2 DEF Enforce
  <2>3. ProviderTyped'
    <3>1. CASE UNCHANGED prov
      BY <3>1, <1>u
    <3>2. CASE \E flatten, disable \in BOOLEAN :
                  prov' = [prov EXCEPT !.flat = @ \/ flatten,
                             !.seq = IF flatten THEN @ + 1 ELSE @,
                             !.off = @ \/ disable]
      <4>1. PICK f \in BOOLEAN, n \in Nat, d \in BOOLEAN :
                  prov' = [prov EXCEPT !.flat = f, !.seq = n, !.off = d]
        <5>1. PICK flatten \in BOOLEAN, disable \in BOOLEAN :
                  prov' = [prov EXCEPT !.flat = @ \/ flatten,
                             !.seq = IF flatten THEN @ + 1 ELSE @,
                             !.off = @ \/ disable]
          BY <3>2
        <5>2. /\ (prov.flat \/ flatten) \in BOOLEAN
              /\ (prov.off \/ disable) \in BOOLEAN
          OBVIOUS
        <5>3. (IF flatten THEN prov.seq + 1 ELSE prov.seq) \in Nat
          BY <1>0 DEF ProviderTyped
        <5> QED
          BY <5>1, <5>2, <5>3, Zenon
      <4> QED
        BY <1>0, <4>1 DEF ProviderTyped
    <3> QED
      BY <1>8, <3>1, <3>2 DEF Enforce
  <2> QED
    BY <2>1, <2>2, <2>3
<1>9. ASSUME NEW p \in Pollers, EnforceCommit(p)
      PROVE  /\ AccountTyped' /\ PollsTyped' /\ ProviderTyped'
             /\ TabsTyped' /\ RowsTyped'
  <2>1. ProviderTyped' /\ TabsTyped'
    BY <1>9, <1>u DEF EnforceCommit, rowVars, resetVars, countVars
  <2>2. AccountTyped'
    BY <1>0, <1>9
       DEF EnforceCommit, rowVars, resetVars, countVars, AccountTyped,
           AccountRow, Statuses, PollsTyped, Poll
  <2>3. PollsTyped'
    BY <1>0, <1>9, PollMoves, StagesAreTyped
       DEF EnforceCommit, rowVars, resetVars, countVars, PollsTyped, PollPCs
  <2>4. RowsTyped'
    BY <1>0, <1>9
       DEF EnforceCommit, rowVars, resetVars, countVars, RowsTyped, KindOf,
           Kinds, PollsTyped, Poll
  <2> QED
    BY <2>1, <2>2, <2>3, <2>4
<1>10. ASSUME NEW p \in Pollers, EnforceAlarm(p)
      PROVE  /\ AccountTyped' /\ PollsTyped' /\ ProviderTyped'
             /\ TabsTyped' /\ RowsTyped'
  <2>1. AccountTyped' /\ ProviderTyped' /\ TabsTyped'
    BY <1>10, <1>u DEF EnforceAlarm, rowVars, resetVars, countVars
  <2>2. PollsTyped'
    BY <1>0, <1>10, PollMoves, StagesAreTyped
       DEF EnforceAlarm, rowVars, resetVars, countVars, PollsTyped, PollPCs
  <2>3. RowsTyped'
    BY <1>0, <1>10
       DEF EnforceAlarm, rowVars, resetVars, countVars, RowsTyped
  <2> QED
    BY <2>1, <2>2, <2>3
<1>11. ASSUME NEW p \in Pollers, PollDies(p)
      PROVE  /\ AccountTyped' /\ PollsTyped' /\ ProviderTyped'
             /\ TabsTyped' /\ RowsTyped'
  <2>1. AccountTyped' /\ ProviderTyped' /\ TabsTyped'
    BY <1>11, <1>u DEF PollDies, rowVars, resetVars, countVars
  <2>2. PollsTyped'
    BY <1>0, <1>11, PollMoves
       DEF PollDies, rowVars, resetVars, countVars, PollsTyped
  <2>3. RowsTyped'
    BY <1>0, <1>11, RiskServiceAssumption
       DEF PollDies, rowVars, resetVars, countVars, RowsTyped
  <2> QED
    BY <2>1, <2>2, <2>3
<1>12. ASSUME RollRead PROVE  /\ AccountTyped' /\ PollsTyped' /\ ProviderTyped'
             /\ TabsTyped' /\ RowsTyped'
  <2>1. AccountTyped' /\ PollsTyped' /\ ProviderTyped' /\ TabsTyped'
    BY <1>12, <1>u DEF RollRead, rowVars, resetVars, countVars
  <2>2. RowsTyped'
    BY <1>0, <1>12
       DEF RollRead, rowVars, resetVars, countVars, RowsTyped, AccountTyped,
           AccountRow
  <2> QED
    BY <2>1, <2>2
<1>13. ASSUME RollWrite PROVE  /\ AccountTyped' /\ PollsTyped' /\ ProviderTyped'
             /\ TabsTyped' /\ RowsTyped'
  <2>1. PollsTyped' /\ ProviderTyped' /\ TabsTyped'
    BY <1>13, <1>u DEF RollWrite, rowVars, resetVars, countVars
  <2>2. AccountTyped'
    BY <1>0, <1>13
       DEF RollWrite, rowVars, resetVars, countVars, AccountTyped, AccountRow,
           Statuses
  <2>3. RowsTyped'
    BY <1>0, <1>13
       DEF RollWrite, rowVars, resetVars, countVars, RowsTyped, IdleRoll,
           Statuses
  <2> QED
    BY <2>1, <2>2, <2>3
<1>14. ASSUME NEW o \in Orders, ResetOffer(o)
      PROVE  /\ AccountTyped' /\ PollsTyped' /\ ProviderTyped'
             /\ TabsTyped' /\ RowsTyped'
  <2>1. AccountTyped' /\ PollsTyped' /\ ProviderTyped' /\ RowsTyped'
    BY <1>14, <1>u DEF ResetOffer, rowVars, resetVars, countVars
  <2>2. TabsTyped'
    BY <1>0, <1>14
       DEF ResetOffer, rowVars, resetVars, countVars, TabsTyped, TabAt, TabTo,
           TabDone, IdleTab, TabPCs
  <2> QED
    BY <2>1, <2>2
<1>15. ASSUME NEW o \in Orders, ResetCharge(o)
      PROVE  /\ AccountTyped' /\ PollsTyped' /\ ProviderTyped'
             /\ TabsTyped' /\ RowsTyped'
  <2>1. AccountTyped' /\ PollsTyped' /\ ProviderTyped' /\ RowsTyped'
    BY <1>15, <1>u DEF ResetCharge, rowVars, resetVars, countVars
  <2>2. TabsTyped'
    BY <1>0, <1>15
       DEF ResetCharge, rowVars, resetVars, countVars, TabsTyped, TabAt,
           TabTo, TabDone, IdleTab, TabPCs
  <2> QED
    BY <2>1, <2>2
<1>16. ASSUME NEW o \in Orders, ResetPaid(o)
      PROVE  /\ AccountTyped' /\ PollsTyped' /\ ProviderTyped'
             /\ TabsTyped' /\ RowsTyped'
  <2>1. AccountTyped' /\ PollsTyped' /\ ProviderTyped' /\ RowsTyped'
    BY <1>16, <1>u DEF ResetPaid, rowVars, resetVars, countVars
  <2>2. TabsTyped'
    BY <1>0, <1>16
       DEF ResetPaid, rowVars, resetVars, countVars, TabsTyped, TabAt, TabTo,
           TabDone, IdleTab, TabPCs
  <2> QED
    BY <2>1, <2>2
<1>17. ASSUME NEW o \in Orders, ResetRead(o)
      PROVE  /\ AccountTyped' /\ PollsTyped' /\ ProviderTyped'
             /\ TabsTyped' /\ RowsTyped'
  <2>1. AccountTyped' /\ PollsTyped' /\ ProviderTyped' /\ RowsTyped'
    BY <1>17, <1>u DEF ResetRead, rowVars, resetVars, countVars
  <2>2. TabsTyped'
    BY <1>0, <1>17
       DEF ResetRead, rowVars, resetVars, countVars, TabsTyped, TabAt, TabTo,
           TabDone, IdleTab, TabPCs, AccountTyped, AccountRow
  <2> QED
    BY <2>1, <2>2
<1>18. ASSUME NEW o \in Orders, ResetCheck(o)
      PROVE  /\ AccountTyped' /\ PollsTyped' /\ ProviderTyped'
             /\ TabsTyped' /\ RowsTyped'
  <2>1. AccountTyped' /\ PollsTyped' /\ ProviderTyped' /\ RowsTyped'
    BY <1>18, <1>u DEF ResetCheck, rowVars, resetVars, countVars
  <2>2. TabsTyped'
    BY <1>0, <1>18
       DEF ResetCheck, rowVars, resetVars, countVars, TabsTyped, TabAt, TabTo,
           TabDone, IdleTab, TabPCs
  <2> QED
    BY <2>1, <2>2
<1>19. ASSUME NEW o \in Orders, ResetAdjust(o)
      PROVE  /\ AccountTyped' /\ PollsTyped' /\ ProviderTyped'
             /\ TabsTyped' /\ RowsTyped'
  <2>1. AccountTyped' /\ PollsTyped' /\ RowsTyped'
    BY <1>19, <1>u DEF ResetAdjust, rowVars, resetVars, countVars
  <2>2. ProviderTyped'
    <3>1. CASE UNCHANGED prov
      BY <3>1, <1>u
    <3>2. CASE prov' = [prov EXCEPT !.eq = @ + Start - tab[o].bal,
                                    !.seq = @ + 1, !.done = @ \union {o}]
      <4>1. PICK e \in Int, n \in Nat, done \in SUBSET Orders :
               prov' = [prov EXCEPT !.eq = e, !.seq = n, !.done = done]
        <5>1. /\ prov.eq + Start - tab[o].bal \in Int
              /\ prov.seq + 1 \in Nat
              /\ prov.done \union {o} \in SUBSET Orders
          BY <1>0, RiskServiceAssumption DEF ProviderTyped, TabsTyped
        <5> QED
          BY <3>2, <5>1
      <4> QED
        BY <1>0, <4>1 DEF ProviderTyped
    <3> QED
      BY <1>19, <3>1, <3>2 DEF ResetAdjust
  <2>3. TabsTyped'
    BY <1>0, <1>19
       DEF ResetAdjust, rowVars, resetVars, countVars, TabsTyped, TabAt,
           TabTo, TabDone, IdleTab, TabPCs
  <2> QED
    BY <2>1, <2>2, <2>3
<1>20. ASSUME NEW o \in Orders, ResetCommit(o)
      PROVE  /\ AccountTyped' /\ PollsTyped' /\ ProviderTyped'
             /\ TabsTyped' /\ RowsTyped'
  <2>1. PollsTyped' /\ ProviderTyped' /\ RowsTyped'
    BY <1>20, <1>u DEF ResetCommit, rowVars, resetVars, countVars
  <2>2. AccountTyped'
    <3>1. Start \in Int /\ ComputeThreshold(Start) \in Int
          /\ acct.resets + 1 \in Nat
      BY <1>0, RiskServiceAssumption, ThresholdIsInt
         DEF AccountTyped, AccountRow
    <3>2. CASE UNCHANGED acct
      BY <3>2, <1>u
    <3>3. ASSUME orders[o] # "applied" PROVE AccountTyped'
      <4> DEFINE half == [acct EXCEPT !.eq = Start, !.high = Start,
                            !.thr = ComputeThreshold(Start), !.open = Start]
      <4>1. half \in AccountRow
        BY <1>0, <3>1 DEF AccountTyped, AccountRow
      <4>2. half.resets = acct.resets
        BY <1>0 DEF AccountTyped, AccountRow
      <4>3. acct' = [half EXCEPT !.wd = 0, !.status = "ACTIVE", !.until = 0,
                                 !.resets = acct.resets + 1]
        <5>1. acct' = [acct EXCEPT
                !.eq = Start, !.high = Start, !.thr = ComputeThreshold(Start),
                !.open = Start, !.wd = 0, !.status = "ACTIVE", !.until = 0,
                !.resets = @ + 1]
          BY <1>20, <3>3 DEF ResetCommit
        <5>2. acct' = [half EXCEPT !.wd = 0, !.status = "ACTIVE", !.until = 0,
                                   !.resets = @ + 1]
          BY <5>1
        <5> QED
          BY <5>2, <4>2
      <4> HIDE DEF half
      <4> QED
        BY <3>1, <4>1, <4>3, RowRestarts DEF AccountTyped
    <3> QED
      BY <1>20, <3>2, <3>3 DEF ResetCommit
  <2>3. TabsTyped'
    BY <1>0, <1>20
       DEF ResetCommit, rowVars, resetVars, countVars, TabsTyped, TabAt,
           TabTo, TabDone, IdleTab, TabPCs
  <2> QED
    BY <2>1, <2>2, <2>3
<1>21. ASSUME NEW o \in Orders, TabDies(o)
      PROVE  /\ AccountTyped' /\ PollsTyped' /\ ProviderTyped'
             /\ TabsTyped' /\ RowsTyped'
  <2>1. AccountTyped' /\ PollsTyped' /\ ProviderTyped'
    BY <1>21, <1>u DEF TabDies, rowVars, resetVars, countVars
  <2>2. TabsTyped'
    BY <1>0, <1>21
       DEF TabDies, rowVars, resetVars, countVars, TabsTyped, TabAt, TabTo,
           TabDone, IdleTab, TabPCs
  <2>3. RowsTyped'
    BY <1>0, <1>21, RiskServiceAssumption
       DEF TabDies, rowVars, resetVars, countVars, RowsTyped
  <2> QED
    BY <2>1, <2>2, <2>3
<1>22. ASSUME Tick PROVE  /\ AccountTyped' /\ PollsTyped' /\ ProviderTyped'
             /\ TabsTyped' /\ RowsTyped'
  <2>1. AccountTyped' /\ PollsTyped' /\ ProviderTyped' /\ TabsTyped'
    BY <1>22, <1>u DEF Tick, rowVars, resetVars, countVars
  <2>2. RowsTyped'
    BY <1>0, <1>22, RiskServiceAssumption
       DEF Tick, rowVars, resetVars, countVars, RowsTyped
  <2> QED
    BY <2>1, <2>2
<1>23. ASSUME Trade PROVE  /\ AccountTyped' /\ PollsTyped' /\ ProviderTyped'
             /\ TabsTyped' /\ RowsTyped'
  <2>1. AccountTyped' /\ PollsTyped' /\ TabsTyped'
    BY <1>23, <1>u DEF Trade, rowVars, resetVars, countVars
  <2>2. ProviderTyped'
    <3>1. PICK m \in Moves, f \in BOOLEAN :
             prov' = [prov EXCEPT !.eq = @ + m, !.seq = @ + 1, !.flat = f]
      BY <1>23 DEF Trade
    <3>2. prov.eq + m \in Int /\ prov.seq + 1 \in Nat
      BY <1>0, RiskServiceAssumption DEF ProviderTyped
    <3>3. PICK e \in Int, n \in Nat :
             prov' = [prov EXCEPT !.eq = e, !.seq = n, !.flat = f]
      BY <3>1, <3>2
    <3> QED
      BY <1>0, <3>3 DEF ProviderTyped
  <2>3. RowsTyped'
    BY <1>0, <1>23, RiskServiceAssumption
       DEF Trade, rowVars, resetVars, countVars, RowsTyped
  <2> QED
    BY <2>1, <2>2, <2>3
<1>24. ASSUME PayoutOpens \/ PayoutEnds PROVE  /\ AccountTyped' /\ PollsTyped' /\ ProviderTyped'
             /\ TabsTyped' /\ RowsTyped'
  <2>1. AccountTyped' /\ PollsTyped' /\ ProviderTyped' /\ TabsTyped'
    BY <1>24, <1>u DEF PayoutOpens, PayoutEnds, rowVars, resetVars, countVars
  <2>2. RowsTyped'
    BY <1>0, <1>24
       DEF PayoutOpens, PayoutEnds, rowVars, resetVars, countVars, RowsTyped
  <2> QED
    BY <2>1, <2>2
<1>25. ASSUME UNCHANGED riskVars PROVE  /\ AccountTyped' /\ PollsTyped' /\ ProviderTyped'
             /\ TabsTyped' /\ RowsTyped'
  <2>1. AccountTyped' /\ PollsTyped' /\ ProviderTyped' /\ TabsTyped' /\ RowsTyped'
    BY <1>25, <1>u DEF riskVars, rowVars, resetVars, countVars
  <2> QED
    BY <2>1
<1> QED
  BY
     <1>1, <1>2, <1>3, <1>4, <1>5, <1>6, <1>7, <1>8, <1>9, <1>10, <1>11,
     <1>12, <1>13, <1>14, <1>15, <1>16, <1>17, <1>18, <1>19, <1>20, <1>21,
     <1>22, <1>23, <1>24, <1>25
     DEF RiskNext, PollStep, TabStep

\* Every row and every process keeps its shape (syncAccount to applyReset).
THEOREM RiskTyped == RiskSpec => []RiskTypeOK
BY RiskTypeInit, RiskTypeStep, PTL DEF RiskSpec

-----------------------------------------------------------------------------
(* Resets.                                                                 *)

Applied == {o \in Orders : orders[o] = "applied"}

\* How far a purchase has come in its tab is known to its order.
TabAgrees(o) ==
    /\ tab[o].pc # "idle" => orders[o] # "none"
    /\ tab[o].pc = "paid" => orders[o] \in {"charged", "paid", "applied"}
    /\ tab[o].pc \in {"apply", "check", "adjust", "commit"} =>
          orders[o] \in {"paid", "applied"}

ResetInv == ResetsArePaidOnce /\ \A o \in Orders : TabAgrees(o)

\* Nothing but a reset counts resets, and only a reset adjusts the balance.
LEMMA OnlyResetsReset ==
    ASSUME RiskTypeOK, [RiskNext]_riskVars
    PROVE  \/ \E o \in Orders : ResetAdjust(o) \/ ResetCommit(o)
           \/ acct'.resets = acct.resets /\ prov'.done = prov.done
<1>0. acct \in AccountRow /\ ProviderTyped
  BY DEF RiskTypeOK, ProviderTyped
<1>1. ASSUME NEW p \in Pollers,
             Fetch(p) \/ FetchFails(p) \/ PollStep(p) \/ PollDies(p)
      PROVE  acct'.resets = acct.resets /\ prov'.done = prov.done
  <2>1. CASE Unreachable(p) \/ MarkStale(p) \/ IngestWrite(p)
    BY <1>0, <2>1 DEF Unreachable, MarkStale, IngestWrite, AccountRow
  <2>2. CASE EnforceCommit(p)
    BY <1>0, <2>2 DEF EnforceCommit, AccountRow
  <2>3. CASE Enforce(p)
    BY <1>0, <2>3 DEF Enforce, rowVars, ProviderTyped
  <2>4. CASE \/ Fetch(p) \/ FetchFails(p) \/ PollDies(p) \/ IngestRead(p)
             \/ IngestRecord(p) \/ EnforceAlarm(p)
    BY <2>4 DEF Fetch, FetchFails, PollDies, IngestRead, IngestRecord,
       EnforceAlarm, rowVars
  <2> QED
    BY <1>1, <2>1, <2>2, <2>3, <2>4 DEF PollStep
<1>2. ASSUME RollRead \/ RollWrite
      PROVE  acct'.resets = acct.resets /\ prov'.done = prov.done
  BY <1>0, <1>2 DEF RollRead, RollWrite, rowVars, AccountRow
<1>3. ASSUME NEW o \in Orders,
             \/ ResetOffer(o) \/ TabDies(o)
             \/ ResetCharge(o) \/ ResetPaid(o) \/ ResetRead(o) \/ ResetCheck(o)
      PROVE  acct'.resets = acct.resets /\ prov'.done = prov.done
  BY <1>3 DEF ResetOffer, TabDies, ResetCharge, ResetPaid, ResetRead,
     ResetCheck, rowVars
<1>4. ASSUME Tick \/ Trade \/ PayoutOpens \/ PayoutEnds \/ UNCHANGED riskVars
      PROVE  acct'.resets = acct.resets /\ prov'.done = prov.done
  BY <1>0, <1>4 DEF Tick, Trade, PayoutOpens, PayoutEnds, riskVars, rowVars,
     ProviderTyped
<1> QED
  BY <1>1, <1>2, <1>3, <1>4 DEF RiskNext, TabStep

\* Only the steps of a purchase change its order and its tab.
LEMMA OnlyTabsOrder ==
    ASSUME [RiskNext]_riskVars
    PROVE  \/ \E o \in Orders : ResetOffer(o) \/ TabStep(o) \/ TabDies(o)
           \/ UNCHANGED <<orders, tab>>
BY DEF RiskNext, PollStep, Fetch, FetchFails, PollDies, Unreachable,
   IngestRead, IngestRecord, IngestWrite, MarkStale, Enforce, EnforceCommit,
   EnforceAlarm, RollRead, RollWrite, Tick, Trade, PayoutOpens, PayoutEnds,
   riskVars, resetVars

LEMMA TabsStep ==
    ASSUME RiskTypeOK, ResetInv, [RiskNext]_riskVars
    PROVE  \A o \in Orders : TabAgrees(o)'
<1>0. TabsTyped /\ \A o \in Orders : TabAgrees(o)
  BY TypeParts DEF ResetInv
<1>1. ASSUME NEW o \in Orders, ResetOffer(o) \/ TabStep(o) \/ TabDies(o)
      PROVE  \A q \in Orders : TabAgrees(q)'
  <2>1. ASSUME NEW q \in Orders \ {o} PROVE TabAgrees(q)'
    <3>1. orders'[q] = orders[q] /\ tab'[q] = tab[q]
      BY <1>0, <1>1 DEF ResetOffer, TabStep, TabDies, ResetCharge, ResetPaid,
         ResetRead, ResetCheck, ResetAdjust, ResetCommit, TabTo, TabDone,
         TabsTyped
    <3> QED
      BY <1>0, <3>1 DEF TabAgrees
  <2>2. TabAgrees(o)'
    <3>1. CASE ResetOffer(o)
      BY <1>0, <3>1 DEF ResetOffer, TabTo, TabAgrees, TabsTyped
    <3>2. CASE ResetCharge(o)
      BY <1>0, <3>2 DEF ResetCharge, TabTo, TabDone, TabAt, IdleTab, TabAgrees,
         TabsTyped
    <3>3. CASE ResetPaid(o)
      BY <1>0, <3>3 DEF ResetPaid, TabTo, TabAt, TabAgrees, TabsTyped
    <3>4. CASE ResetRead(o)
      BY <1>0, <3>4 DEF ResetRead, TabAt, IdleTab, TabAgrees, TabsTyped
    <3>5. CASE ResetCheck(o)
      BY <1>0, <3>5 DEF ResetCheck, TabTo, TabDone, TabAt, IdleTab, TabAgrees,
         TabsTyped
    <3>6. CASE ResetAdjust(o)
      BY <1>0, <3>6 DEF ResetAdjust, TabTo, TabDone, TabAt, IdleTab, TabAgrees,
         TabsTyped
    <3>7. CASE ResetCommit(o) \/ TabDies(o)
      BY <1>0, <3>7 DEF ResetCommit, TabDies, TabDone, IdleTab, TabAgrees,
         TabsTyped
    <3> QED
      BY <1>1, <3>1, <3>2, <3>3, <3>4, <3>5, <3>6, <3>7 DEF TabStep
  <2> QED
    BY <2>1, <2>2
<1>2. ASSUME UNCHANGED <<orders, tab>>
      PROVE  \A q \in Orders : TabAgrees(q)'
  BY <1>0, <1>2 DEF TabAgrees
<1> QED
  BY <1>1, <1>2, OnlyTabsOrder

\* An applied order stays applied, and only its commit makes it one.
LEMMA AppliedGrows ==
    ASSUME RiskTypeOK, [RiskNext]_riskVars
    PROVE  /\ \/ \E o \in Orders : /\ ResetCommit(o) /\ o \notin Applied
                                   /\ Applied' = Applied \union {o}
              \/ Applied' = Applied
           /\ \A o \in Orders : orders[o] \in {"paid", "applied"} =>
                                 orders'[o] \in {"paid", "applied"}
<1>0. TabsTyped
  BY TypeParts
<1>1. ASSUME NEW o \in Orders, ResetCommit(o), orders[o] # "applied"
      PROVE  /\ o \notin Applied /\ Applied' = Applied \union {o}
             /\ \A q \in Orders : orders'[q] \in {orders[q], "applied"}
  BY <1>0, <1>1 DEF ResetCommit, Applied, TabsTyped
<1>2. ASSUME NEW o \in Orders,
             \/ ResetOffer(o) \/ TabDies(o) \/ ResetCharge(o) \/ ResetPaid(o)
             \/ ResetRead(o) \/ ResetCheck(o) \/ ResetAdjust(o)
             \/ ResetCommit(o) /\ orders[o] = "applied"
      PROVE  \A q \in Orders : /\ orders'[q] = "applied" <=> orders[q] = "applied"
                               /\ orders[q] = "paid" => orders'[q] = "paid"
  BY <1>0, <1>2 DEF ResetOffer, TabDies, ResetCharge, ResetPaid, ResetRead,
     ResetCheck, ResetAdjust, ResetCommit, TabsTyped
<1>3. ASSUME UNCHANGED <<orders, tab>>
      PROVE  \A q \in Orders : orders'[q] = orders[q]
  BY <1>3
<1> QED
  BY <1>1, <1>2, <1>3, OnlyTabsOrder DEF Applied, TabStep

\* A reset is applied once per order and never before its charge, whatever is
\* retried, lost or dies in between (applyReset, adjustSimBalance).
THEOREM ResetsArePaid == RiskSpec => []ResetsArePaidOnce
<1> DEFINE Inv == ResetInv /\ IsFiniteSet(Applied)
<1>1. RiskInit => Inv
  <2> SUFFICES ASSUME RiskInit PROVE Inv
    OBVIOUS
  <2>1. Applied = {} /\ acct.resets = 0 /\ prov.done = {}
    BY DEF RiskInit, Applied
  <2>2. \A o \in Orders : TabAgrees(o)
    BY DEF RiskInit, TabAgrees, IdleTab
  <2> QED
    BY <2>1, <2>2, FS_EmptySet DEF ResetInv, ResetsArePaidOnce, Applied
<1>2. RiskTypeOK /\ Inv /\ [RiskNext]_riskVars => Inv'
  <2> SUFFICES ASSUME RiskTypeOK, Inv, [RiskNext]_riskVars PROVE Inv'
    OBVIOUS
  <2>1. \A o \in Orders : TabAgrees(o)'
    BY TabsStep
  <2>2. /\ acct.resets = Cardinality(Applied)
        /\ \A o \in prov.done : orders[o] \in {"paid", "applied"}
        /\ acct \in AccountRow /\ prov.done \subseteq Orders
    BY DEF ResetInv, ResetsArePaidOnce, Applied, RiskTypeOK
  <2>3. \A o \in Orders : orders[o] \in {"paid", "applied"} =>
                            orders'[o] \in {"paid", "applied"}
    BY AppliedGrows
  <2>4. /\ acct'.resets = Cardinality(Applied')
        /\ IsFiniteSet(Applied')
    <3>1. ASSUME NEW o \in Orders, ResetCommit(o), o \notin Applied,
                 Applied' = Applied \union {o}
          PROVE  acct'.resets = Cardinality(Applied') /\ IsFiniteSet(Applied')
      <4>1. acct'.resets = acct.resets + 1
        BY <3>1, <2>2 DEF ResetCommit, Applied, AccountRow
      <4>2. Cardinality(Applied') = Cardinality(Applied) + 1
            /\ IsFiniteSet(Applied')
        BY <3>1, FS_AddElement
      <4> QED
        BY <4>1, <4>2, <2>2
    <3>2. ASSUME Applied' = Applied, acct'.resets = acct.resets
          PROVE  acct'.resets = Cardinality(Applied') /\ IsFiniteSet(Applied')
      BY <3>2, <2>2
    <3>3. ASSUME NEW o \in Orders, ResetAdjust(o) \/ ResetCommit(o),
                 Applied' = Applied
          PROVE  acct'.resets = acct.resets
      BY <3>3, <2>2, TypeParts DEF ResetAdjust, ResetCommit, rowVars, Applied,
         TabsTyped
    <3>4. ASSUME Applied' = Applied
          PROVE  acct'.resets = Cardinality(Applied') /\ IsFiniteSet(Applied')
      <4>1. CASE \E o \in Orders : ResetAdjust(o) \/ ResetCommit(o)
        BY <3>2, <3>3, <3>4, <4>1
      <4>2. CASE acct'.resets = acct.resets
        BY <3>2, <3>4, <4>2
      <4> QED
        BY <4>1, <4>2, OnlyResetsReset
    <3>5. \/ \E o \in Orders : /\ ResetCommit(o) /\ o \notin Applied
                               /\ Applied' = Applied \union {o}
          \/ Applied' = Applied
      BY AppliedGrows
    <3> QED
      BY <3>1, <3>4, <3>5
  <2>5. \A o \in prov'.done : orders'[o] \in {"paid", "applied"}
    <3>1. ASSUME NEW o \in Orders, ResetAdjust(o)
          PROVE  prov'.done \subseteq prov.done \union {o}
                 /\ orders[o] \in {"paid", "applied"}
      BY <3>1, TypeParts
         DEF ResetAdjust, ProviderTyped, ResetInv, TabAgrees, TabAt
    <3>2. ASSUME NEW o \in Orders, ResetCommit(o) PROVE prov' = prov
      BY <3>2 DEF ResetCommit
    <3> QED
      BY <3>1, <3>2, <2>2, <2>3, OnlyResetsReset
  <2> QED
    BY <2>1, <2>4, <2>5 DEF ResetInv, ResetsArePaidOnce, Applied
<1>3. Inv => ResetsArePaidOnce
  BY DEF ResetInv
<1> QED
  BY <1>1, <1>2, <1>3, RiskTyped, PTL DEF RiskSpec

-----------------------------------------------------------------------------
(* A breach that lasts.                                                    *)

RollInv == roll.pc = "write" => roll.was = "DAILY_PAUSED"

\* The status moves away from BREACHED only by a roll or a reset.
LEMMA StatusStep ==
    ASSUME RiskTypeOK, [RiskNext]_riskVars, acct.status = "BREACHED",
           acct'.status # "BREACHED"
    PROVE  RollWrite \/ \E o \in Orders : ResetCommit(o) /\ ~UNCHANGED acct
<1>0. acct \in AccountRow
  BY DEF RiskTypeOK
<1>1. ASSUME NEW p \in Pollers,
             Fetch(p) \/ FetchFails(p) \/ PollStep(p) \/ PollDies(p)
      PROVE  acct'.status = "BREACHED"
  <2>1. CASE Unreachable(p) \/ MarkStale(p) \/ IngestWrite(p)
    BY <1>0, <2>1 DEF Unreachable, MarkStale, IngestWrite, AccountRow
  <2>2. CASE EnforceCommit(p)
    BY <1>0, <2>2 DEF EnforceCommit, AccountRow
  <2>3. CASE \/ Fetch(p) \/ FetchFails(p) \/ PollDies(p) \/ IngestRead(p)
             \/ IngestRecord(p) \/ EnforceAlarm(p) \/ Enforce(p)
    BY <2>3 DEF Fetch, FetchFails, PollDies, IngestRead, IngestRecord,
       EnforceAlarm, Enforce, rowVars
  <2> QED
    BY <1>1, <2>1, <2>2, <2>3 DEF PollStep
<1>2. ASSUME \/ RollRead \/ Tick \/ Trade \/ PayoutOpens \/ PayoutEnds
             \/ UNCHANGED riskVars
             \/ \E o \in Orders :
                   \/ ResetOffer(o) \/ TabDies(o) \/ ResetCharge(o)
                   \/ ResetPaid(o) \/ ResetRead(o) \/ ResetCheck(o)
                   \/ ResetAdjust(o)
      PROVE  acct' = acct
  BY <1>2 DEF RollRead, Tick, Trade, PayoutOpens, PayoutEnds, riskVars,
     rowVars, ResetOffer, TabDies, ResetCharge, ResetPaid, ResetRead,
     ResetCheck, ResetAdjust
<1> QED
  BY <1>1, <1>2 DEF RiskNext, TabStep

LEMMA RollInvHolds == RiskSpec => []RollInv
<1>1. RiskInit => RollInv
  BY DEF RiskInit, RollInv, IdleRoll
<1>2. RollInv /\ [RiskNext]_riskVars => RollInv'
  <2> SUFFICES ASSUME RollInv, [RiskNext]_riskVars PROVE RollInv'
    OBVIOUS
  <2>1. CASE RollRead
    BY <2>1 DEF RollRead, RollInv
  <2>2. CASE RollWrite
    BY <2>2 DEF RollWrite, RollInv, IdleRoll
  <2>3. CASE UNCHANGED roll
    BY <2>3 DEF RollInv
  <2> QED
    BY <2>1, <2>2, <2>3 DEF RiskNext, PollStep, TabStep, Fetch, FetchFails,
       PollDies, Unreachable, IngestRead, IngestRecord, IngestWrite, MarkStale,
       Enforce, EnforceCommit, EnforceAlarm, ResetOffer, TabDies, ResetCharge,
       ResetPaid, ResetRead, ResetCheck, ResetAdjust, ResetCommit, Tick, Trade,
       PayoutOpens, PayoutEnds, riskVars
<1> QED
  BY <1>1, <1>2, PTL DEF RiskSpec

\* A drawdown breach lasts until a paid reset, or until a roll that had read
\* the account before it was breached (handlers.ts, reset-service.ts).
THEOREM BreachLasts == RiskSpec => BreachIsTerminal
<1>1. RiskTypeOK /\ RollInv /\ [RiskNext]_riskVars
        => [BreachIsTerminalStep]_acct
  <2> SUFFICES ASSUME RiskTypeOK, RollInv, [RiskNext]_riskVars,
                      acct.status = "BREACHED", acct'.status # "BREACHED"
               PROVE  acct'.resets > acct.resets \/ roll.was = "DAILY_PAUSED"
    BY DEF BreachIsTerminalStep
  <2>1. CASE RollWrite
    BY <2>1 DEF RollWrite, RollInv
  <2>2. ASSUME NEW o \in Orders, ResetCommit(o), ~UNCHANGED acct
        PROVE  acct'.resets > acct.resets
    <3>1. acct \in AccountRow
      BY DEF RiskTypeOK
    <3>2. acct'.resets = acct.resets + 1 /\ acct.resets \in Nat
      BY <2>2, <3>1 DEF ResetCommit, AccountRow
    <3> QED
      BY <3>2
  <2> QED
    BY <2>1, <2>2, StatusStep
<1> QED
  BY <1>1, RiskTyped, RollInvHolds, PTL DEF RiskSpec, BreachIsTerminal

-----------------------------------------------------------------------------
(* A breach that is recorded, and an enforcement that is not confirmed.    *)

DrawdownRecorded == \E b \in breaches : b[1] = "TRAILING"

\* The poller that wrote a breach has its enforcement still before it.
OwesRecord(p) ==
    /\ poll[p].pc \in DailyPCs \union {"trailing", "trailing_commit"}
    /\ Breached(p, "TRAILING")

RecordInv ==
    deaths = 0 /\ acct.eq <= acct.thr =>
        DrawdownRecorded \/ \E p \in Pollers : OwesRecord(p)

\* What a poller still has to do before it ends.
LEMMA StageKeepsDebt ==
    ASSUME PollsTyped, NEW p \in Pollers, Continue(p, NextStage(p)),
           OwesRecord(p), poll[p].pc \in DailyPCs
    PROVE  OwesRecord(p)'
<1>1. NextStage(p) = "trailing"
  BY DEF NextStage, KindOf, AfterDaily, OwesRecord
<1>2. poll' = [poll EXCEPT ![p].pc = "trailing"]
  BY <1>1 DEF Continue, PollTo
<1>3. /\ poll'[p].pc = "trailing" /\ poll'[p].eq = poll[p].eq
      /\ poll'[p].row = poll[p].row
  BY <1>2 DEF PollsTyped, Poll
<1> QED
  BY <1>3 DEF OwesRecord, Breached, Threshold

\* A step of another poller, or of none, does not touch what is owed.
LEMMA DebtStands ==
    ASSUME NEW p \in Pollers, poll'[p] = poll[p], OwesRecord(p)
    PROVE  OwesRecord(p)'
BY DEF OwesRecord, Breached, Threshold

LEMMA OtherPollers ==
    ASSUME PollsTyped, NEW p \in Pollers, NEW q \in Pollers \ {p},
           \/ Fetch(p) \/ FetchFails(p) \/ PollStep(p) \/ PollDies(p)
    PROVE  poll'[q] = poll[q]
BY DEF PollsTyped, Fetch, FetchFails, PollStep, PollDies, Unreachable,
   IngestRead, IngestRecord, IngestWrite, MarkStale, Enforce, EnforceCommit,
   EnforceAlarm, Continue, PollTo, PollDone

\* A poller's step carries the debt on when it does so for its own.
LEMMA DebtCarries ==
    ASSUME PollsTyped, RecordInv, NEW p \in Pollers,
           \/ Fetch(p) \/ FetchFails(p) \/ PollStep(p) \/ PollDies(p),
           deaths = 0, acct.eq <= acct.thr, breaches \subseteq breaches',
           OwesRecord(p) => OwesRecord(p)' \/ DrawdownRecorded'
    PROVE  DrawdownRecorded' \/ \E q \in Pollers : OwesRecord(q)'
<1>1. DrawdownRecorded => DrawdownRecorded'
  BY DEF DrawdownRecorded
<1>2. ASSUME NEW q \in Pollers, OwesRecord(q)
      PROVE  DrawdownRecorded' \/ \E r \in Pollers : OwesRecord(r)'
  <2>1. CASE q = p
    BY <1>2, <2>1
  <2>2. CASE q # p
    BY <1>2, <2>2, OtherPollers, DebtStands
  <2> QED
    BY <2>1, <2>2
<1> QED
  BY <1>1, <1>2 DEF RecordInv

LEMMA RecordStep ==
    ASSUME Drawdown > 0, RiskTypeOK, RecordInv, [RiskNext]_riskVars
    PROVE  RecordInv'
<1> SUFFICES ASSUME deaths' = 0, acct'.eq <= acct'.thr
             PROVE  DrawdownRecorded' \/ \E p \in Pollers : OwesRecord(p)'
  BY DEF RecordInv
<1>0. /\ acct \in AccountRow /\ PollsTyped /\ deaths \in Nat
      /\ \A p \in Pollers : poll[p] \in Poll
  BY DEF RiskTypeOK, PollsTyped
<1>1. ASSUME NEW p \in Pollers, IngestWrite(p) PROVE OwesRecord(p)'
  <2>1. acct'.eq = poll[p].eq /\ acct'.thr = Threshold(p)
    BY <1>0, <1>1 DEF IngestWrite, AccountRow
  <2>2. Breached(p, "TRAILING")
    BY <2>1 DEF Breached, IsTrailingBreached
  <2>3. AfterWrite(p) \in {"daily", "trailing"}
    BY <2>2 DEF AfterWrite, AfterDaily
  <2>4. PollTo(p, AfterWrite(p))
    BY <1>1, <2>3 DEF IngestWrite, Continue
  <2>5. /\ poll'[p].pc \in {"daily", "trailing"} /\ poll'[p].eq = poll[p].eq
        /\ poll'[p].row = poll[p].row
    BY <1>0, <2>3, <2>4 DEF PollTo, PollsTyped, Poll
  <2> QED
    BY <2>2, <2>5 DEF OwesRecord, Breached, Threshold, DailyPCs
<1>2. ASSUME NEW p \in Pollers, EnforceCommit(p)
      PROVE  DrawdownRecorded' \/ \E q \in Pollers : OwesRecord(q)'
  <2>1. /\ breaches \subseteq breaches' /\ deaths = 0
        /\ acct'.eq = acct.eq /\ acct'.thr = acct.thr
    BY <1>0, <1>2 DEF EnforceCommit, AccountRow, countVars
  <2>2. CASE poll[p].pc = "trailing_commit"
    <3>1. <<"TRAILING", poll[p].sess>> \in breaches'
      BY <1>2, <2>2 DEF EnforceCommit, KindOf, DailyPCs
    <3> QED
      BY <3>1 DEF DrawdownRecorded
  <2>3. CASE poll[p].pc = "daily_commit"
    <3>1. ASSUME OwesRecord(p) PROVE OwesRecord(p)'
      <4>1. CASE Continue(p, NextStage(p))
        BY <1>0, <2>3, <3>1, <4>1, StageKeepsDebt DEF DailyPCs
      <4>2. CASE PollTo(p, "daily_alarm")
        <5>1. /\ poll'[p].pc = "daily_alarm" /\ poll'[p].eq = poll[p].eq
              /\ poll'[p].row = poll[p].row
          BY <1>0, <4>2 DEF PollTo, PollsTyped, Poll
        <5> QED
          BY <3>1, <5>1 DEF OwesRecord, Breached, Threshold, DailyPCs
      <4> QED
        BY <1>2, <2>3, <4>1, <4>2 DEF EnforceCommit, KindOf, DailyPCs
    <3> QED
      BY <1>0, <1>2, <2>1, <3>1, DebtCarries DEF PollStep
  <2> QED
    BY <1>2, <2>2, <2>3 DEF EnforceCommit
<1>3. ASSUME NEW p \in Pollers, Enforce(p)
      PROVE  DrawdownRecorded' \/ \E q \in Pollers : OwesRecord(q)'
  <2>1. breaches' = breaches /\ deaths = 0 /\ acct' = acct
    BY <1>3 DEF Enforce, rowVars, countVars
  <2>2. ASSUME OwesRecord(p) PROVE OwesRecord(p)' \/ DrawdownRecorded'
    <3>1. CASE Continue(p, NextStage(p)) /\ poll[p].pc = "daily"
      BY <1>0, <2>2, <3>1, StageKeepsDebt DEF DailyPCs
    <3>2. CASE Recorded("TRAILING", poll[p].sess)
      BY <2>1, <3>2 DEF Recorded, DrawdownRecorded
    <3>3. CASE \E ok \in BOOLEAN, pc \in {"daily_commit", "trailing_commit"} :
                  poll' = [poll EXCEPT ![p].ok = ok,
                      ![p].until = NextOpen(tick), ![p].pc = pc]
      <4>1. /\ poll'[p].pc \in {"daily_commit", "trailing_commit"}
            /\ poll'[p].eq = poll[p].eq /\ poll'[p].row = poll[p].row
        BY <1>0, <3>3 DEF PollsTyped, Poll
      <4> QED
        BY <2>2, <4>1 DEF OwesRecord, Breached, Threshold, DailyPCs
    <3> QED
      BY <1>3, <3>1, <3>2, <3>3 DEF Enforce, KindOf, DailyPCs
  <2> QED
    BY <1>0, <1>3, <2>1, <2>2, DebtCarries DEF PollStep
<1>4. ASSUME NEW p \in Pollers, EnforceAlarm(p)
      PROVE  DrawdownRecorded' \/ \E q \in Pollers : OwesRecord(q)'
  <2>1. breaches' = breaches /\ deaths = 0 /\ acct' = acct
    BY <1>4 DEF EnforceAlarm, countVars
  <2>2. OwesRecord(p) => OwesRecord(p)'
    BY <1>0, <1>4, StageKeepsDebt DEF EnforceAlarm, OwesRecord, DailyPCs
  <2> QED
    BY <1>0, <1>4, <2>1, <2>2, DebtCarries DEF PollStep
<1>5. ASSUME NEW p \in Pollers,
             \/ Fetch(p) \/ FetchFails(p) \/ Unreachable(p) \/ IngestRead(p)
             \/ IngestRecord(p) \/ MarkStale(p)
      PROVE  DrawdownRecorded' \/ \E q \in Pollers : OwesRecord(q)'
  <2>1. /\ breaches' = breaches /\ deaths = 0
        /\ acct'.eq = acct.eq /\ acct'.thr = acct.thr
    BY <1>0, <1>5 DEF Fetch, FetchFails, Unreachable, IngestRead, IngestRecord,
       MarkStale, rowVars, countVars, AccountRow
  <2>2. ~OwesRecord(p)
    BY <1>5 DEF Fetch, FetchFails, Unreachable, IngestRead, IngestRecord,
       MarkStale, PollAt, OwesRecord, DailyPCs
  <2> QED
    BY <1>0, <1>5, <2>1, <2>2, DebtCarries DEF PollStep
<1>6. ASSUME \/ \E p \in Pollers : PollDies(p)
             \/ \E o \in Orders : TabDies(o)
      PROVE  FALSE
  BY <1>0, <1>6 DEF PollDies, TabDies
<1>7. ASSUME NEW o \in Orders, ResetCommit(o), ~UNCHANGED acct PROVE FALSE
  <2>1. acct'.eq = Start /\ acct'.thr = ComputeThreshold(Start)
    BY <1>0, <1>7 DEF ResetCommit, AccountRow
  <2>2. ComputeThreshold(Start) < Start
    BY RiskServiceAssumption, RiskAssumption DEF ComputeThreshold
  <2> QED
    BY <2>1, <2>2, ThresholdIsInt, RiskServiceAssumption
<1>8. ASSUME UNCHANGED poll, UNCHANGED breaches, deaths = 0,
             acct'.eq = acct.eq, acct'.thr = acct.thr
      PROVE  DrawdownRecorded' \/ \E p \in Pollers : OwesRecord(p)'
  BY <1>8, DebtStands DEF RecordInv, DrawdownRecorded
<1>9. ASSUME \/ RollRead \/ RollWrite \/ Tick \/ Trade \/ PayoutOpens
             \/ PayoutEnds \/ UNCHANGED riskVars
             \/ \E o \in Orders :
                   \/ ResetOffer(o) \/ ResetCharge(o) \/ ResetPaid(o)
                   \/ ResetRead(o) \/ ResetCheck(o) \/ ResetAdjust(o)
                   \/ ResetCommit(o) /\ UNCHANGED acct
      PROVE  DrawdownRecorded' \/ \E p \in Pollers : OwesRecord(p)'
  <2>1. UNCHANGED poll /\ UNCHANGED breaches
    BY <1>9 DEF RollRead, RollWrite, Tick, Trade, PayoutOpens, PayoutEnds,
       riskVars, rowVars, ResetOffer, ResetCharge, ResetPaid, ResetRead,
       ResetCheck, ResetAdjust, ResetCommit
  <2>2. deaths = 0
    BY <1>0, <1>9 DEF RollRead, RollWrite, Tick, Trade, PayoutOpens, PayoutEnds,
       riskVars, countVars, ResetOffer, ResetCharge, ResetPaid, ResetRead,
       ResetCheck, ResetAdjust, ResetCommit
  <2>3. acct'.eq = acct.eq /\ acct'.thr = acct.thr
    BY <1>0, <1>9 DEF RollRead, RollWrite, Tick, Trade, PayoutOpens, PayoutEnds,
       riskVars, rowVars, ResetOffer, ResetCharge, ResetPaid, ResetRead,
       ResetCheck, ResetAdjust, AccountRow
  <2> QED
    BY <1>8, <2>1, <2>2, <2>3
<1> QED
  BY <1>1, <1>2, <1>3, <1>4, <1>5, <1>6, <1>7, <1>9
     DEF RiskNext, PollStep, TabStep

\* Equity at or below the threshold is a recorded breach once the pollers are
\* done, however many of them race (ingestSnapshot, enforceBreach).
THEOREM BreachesAreRecorded ==
    ASSUME Drawdown > 0
    PROVE  RiskSpec => []BreachIsRecorded
<1>1. RiskInit => RecordInv
  <2> SUFFICES ASSUME RiskInit PROVE ~(acct.eq <= acct.thr)
    BY DEF RecordInv
  <2>1. acct.eq = Start /\ acct.thr = ComputeThreshold(Start)
    BY DEF RiskInit
  <2>2. ComputeThreshold(Start) < Start
    BY RiskServiceAssumption, RiskAssumption DEF ComputeThreshold
  <2> QED
    BY <2>1, <2>2, ThresholdIsInt, RiskServiceAssumption
<1>2. RiskTypeOK /\ RecordInv /\ [RiskNext]_riskVars => RecordInv'
  BY RecordStep
<1>3. RecordInv => BreachIsRecorded
  BY DEF RecordInv, BreachIsRecorded, DrawdownRecorded, Quiet, PollAt,
         OwesRecord, DailyPCs
<1> QED
  BY <1>1, <1>2, <1>3, RiskTyped, PTL DEF RiskSpec

\* A poller that was told its enforcement is done can rely on it, and one
\* that was not told has the alarm still before it.
AlarmInv ==
    /\ \A p \in Pollers :
          poll[p].pc \in {"daily_commit", "trailing_commit"} /\ poll[p].ok
             => prov.off
    /\ deaths = 0 /\ breaches # {} /\ ~prov.off =>
          \/ "TRADING_DISABLE_FAILED" \in alarms
          \/ \E p \in Pollers : poll[p].pc \in {"daily_alarm", "trailing_alarm"}

LEMMA AlarmStep ==
    ASSUME RiskTypeOK, AlarmInv, [RiskNext]_riskVars
    PROVE  AlarmInv'
<1>0. /\ PollsTyped /\ ProviderTyped /\ deaths \in Nat
      /\ \A p \in Pollers : poll[p] \in Poll
  BY DEF RiskTypeOK, PollsTyped, ProviderTyped
<1>1. ASSUME NEW p \in Pollers, Enforce(p) PROVE AlarmInv'
  <2>1. \A q \in Pollers \ {p} : poll'[q] = poll[q]
    BY <1>0, <1>1, OtherPollers DEF PollStep
  <2>2. /\ breaches' = breaches /\ alarms' = alarms /\ deaths' = deaths
        /\ poll[p].pc \in {"daily", "trailing"}
    BY <1>1 DEF Enforce, rowVars, countVars
  <2>3. prov.off => prov'.off
    BY <1>0, <1>1 DEF Enforce, ProviderTyped
  <2>4. poll'[p].pc \in {"daily_commit", "trailing_commit"} /\ poll'[p].ok
          => prov'.off
    <3>1. CASE Continue(p, NextStage(p))
      <4>1. poll'[p].pc \in {"trailing", "mark", "idle"}
        BY <1>0, <3>1, StagesAreTyped
           DEF Continue, PollTo, PollDone, PollsTyped, Poll, IdlePoll
      <4> QED
        BY <4>1
    <3>2. CASE ~Recorded(KindOf(p), poll[p].sess)
      <4>1. PICK flatten \in BOOLEAN, disable \in BOOLEAN, told \in BOOLEAN :
               /\ prov' = [prov EXCEPT !.flat = @ \/ flatten,
                      !.seq = IF flatten THEN @ + 1 ELSE @,
                      !.off = @ \/ disable]
               /\ told => flatten /\ disable
               /\ poll' = [poll EXCEPT ![p].ok = told,
                      ![p].until = NextOpen(tick),
                      ![p].pc = IF KindOf(p) = "DAILY_LOSS" THEN "daily_commit"
                                ELSE "trailing_commit"]
        BY <1>1, <3>2 DEF Enforce
      <4>2. poll'[p].ok = told
        BY <1>0, <4>1 DEF PollsTyped, Poll
      <4>3. prov'.off = (prov.off \/ disable)
        BY <1>0, <4>1 DEF ProviderTyped
      <4> QED
        BY <4>1, <4>2, <4>3
    <3> QED
      BY <1>1, <3>1, <3>2 DEF Enforce
  <2> QED
    BY <2>1, <2>2, <2>3, <2>4 DEF AlarmInv
<1>2. ASSUME NEW p \in Pollers, EnforceCommit(p) PROVE AlarmInv'
  <2>1. \A q \in Pollers \ {p} : poll'[q] = poll[q]
    BY <1>0, <1>2, OtherPollers DEF PollStep
  <2>2. /\ prov' = prov /\ alarms' = alarms /\ deaths' = deaths
        /\ poll[p].pc \in {"daily_commit", "trailing_commit"}
    BY <1>2 DEF EnforceCommit, countVars
  <2>3. CASE poll[p].ok
    <3>1. poll'[p].pc \in {"trailing", "mark", "idle"}
      BY <1>0, <1>2, <2>3, StagesAreTyped
         DEF EnforceCommit, Continue, PollTo, PollDone, PollsTyped, Poll,
             IdlePoll
    <3> QED
      BY <2>1, <2>2, <2>3, <3>1 DEF AlarmInv
  <2>4. CASE ~poll[p].ok
    <3>1. poll'[p].pc \in {"daily_alarm", "trailing_alarm"}
      BY <1>0, <1>2, <2>4 DEF EnforceCommit, PollTo, PollsTyped, Poll
    <3> QED
      BY <2>1, <2>2, <3>1 DEF AlarmInv
  <2> QED
    BY <2>3, <2>4
<1>3. ASSUME NEW p \in Pollers, EnforceAlarm(p) PROVE AlarmInv'
  <2>1. \A q \in Pollers \ {p} : poll'[q] = poll[q]
    BY <1>0, <1>3, OtherPollers DEF PollStep
  <2>2. poll'[p].pc \in {"trailing", "mark", "idle"}
    BY <1>0, <1>3, StagesAreTyped
       DEF EnforceAlarm, Continue, PollTo, PollDone, PollsTyped, Poll, IdlePoll
  <2>3. prov' = prov /\ "TRADING_DISABLE_FAILED" \in alarms'
    BY <1>3 DEF EnforceAlarm
  <2> QED
    BY <2>1, <2>2, <2>3 DEF AlarmInv
<1>4. ASSUME NEW p \in Pollers,
             \/ Fetch(p) \/ FetchFails(p) \/ Unreachable(p) \/ IngestRead(p)
             \/ IngestRecord(p) \/ IngestWrite(p) \/ MarkStale(p)
      PROVE  AlarmInv'
  <2>1. \A q \in Pollers \ {p} : poll'[q] = poll[q]
    BY <1>0, <1>4, OtherPollers DEF PollStep
  <2>2. /\ poll[p].pc \notin {"daily_alarm", "trailing_alarm"}
        /\ poll'[p].pc \notin {"daily_commit", "trailing_commit"}
    BY <1>0, <1>4, StagesAreTyped
       DEF Fetch, FetchFails, Unreachable, IngestRead, IngestRecord,
           IngestWrite, MarkStale, Continue, PollAt, PollTo, PollDone,
           PollsTyped, Poll, IdlePoll
  <2>3. /\ prov' = prov /\ breaches' = breaches /\ deaths' = deaths
        /\ alarms \subseteq alarms'
    BY <1>4 DEF Fetch, FetchFails, Unreachable, IngestRead, IngestRecord,
       IngestWrite, MarkStale, rowVars, countVars
  <2> QED
    BY <2>1, <2>2, <2>3 DEF AlarmInv
<1>5. ASSUME NEW p \in Pollers, PollDies(p) PROVE AlarmInv'
  <2>1. \A q \in Pollers \ {p} : poll'[q] = poll[q]
    BY <1>0, <1>5, OtherPollers
  <2>2. poll'[p].pc = "idle" /\ prov' = prov /\ deaths' # 0
    BY <1>0, <1>5 DEF PollDies, PollDone, PollsTyped, IdlePoll
  <2> QED
    BY <2>1, <2>2 DEF AlarmInv
<1>6. ASSUME NEW o \in Orders, TabDies(o) PROVE AlarmInv'
  BY <1>0, <1>6 DEF TabDies, AlarmInv
<1>7. ASSUME \/ RollRead \/ RollWrite \/ Tick \/ Trade \/ PayoutOpens
             \/ PayoutEnds \/ UNCHANGED riskVars
             \/ \E o \in Orders : ResetOffer(o) \/ TabStep(o)
      PROVE  AlarmInv'
  <2>1. UNCHANGED <<poll, breaches, alarms, deaths>>
    BY <1>7 DEF RollRead, RollWrite, Tick, Trade, PayoutOpens, PayoutEnds,
       riskVars, rowVars, countVars, ResetOffer, TabStep, ResetCharge,
       ResetPaid, ResetRead, ResetCheck, ResetAdjust, ResetCommit
  <2>2. prov'.off = prov.off
    BY <1>0, <1>7 DEF RollRead, RollWrite, Tick, Trade, PayoutOpens,
       PayoutEnds, riskVars, ResetOffer, TabStep, ResetCharge, ResetPaid,
       ResetRead, ResetCheck, ResetAdjust, ResetCommit, ProviderTyped
  <2> QED
    BY <2>1, <2>2 DEF AlarmInv
<1> QED
  BY <1>1, <1>2, <1>3, <1>4, <1>5, <1>6, <1>7 DEF RiskNext, PollStep

\* An enforcement the provider did not confirm is never taken for done, for
\* any number of pollers (enforceBreach).
THEOREM DoubtIsAlarmed == RiskSpec => []UnconfirmedIsAlarmed
<1>1. RiskInit => AlarmInv
  BY DEF RiskInit, AlarmInv, IdlePoll
<1>2. RiskTypeOK /\ AlarmInv /\ [RiskNext]_riskVars => AlarmInv'
  BY AlarmStep
<1>3. AlarmInv => UnconfirmedIsAlarmed
  BY DEF AlarmInv, UnconfirmedIsAlarmed, Quiet, PollAt
<1> QED
  BY <1>1, <1>2, <1>3, RiskTyped, PTL DEF RiskSpec

-----------------------------------------------------------------------------
(* The marks, under one poller.  With two of them a snapshot read before   *)
(* and written after another one's write takes the mark back.              *)

\* What a poller has read is no lower than what the row holds, and the row no
\* lower than what a reset makes of it.
MarksInv ==
    /\ Start <= acct.high /\ ComputeThreshold(Start) <= acct.thr
    /\ \A p \in Pollers : poll[p].pc \in {"record", "write"} =>
          acct.high <= poll[p].row.high /\ acct.thr <= poll[p].row.thr

\* A write from such a reading raises both marks or leaves them.
LEMMA WriteRaises ==
    ASSUME RiskTypeOK, MarksInv, NEW p \in Pollers, IngestWrite(p)
    PROVE  /\ acct.high <= acct'.high /\ acct.thr <= acct'.thr
           /\ acct'.high \in Int /\ acct'.thr \in Int
<1>0. /\ acct \in AccountRow /\ acct.high \in Int /\ acct.thr \in Int
      /\ poll[p].eq \in Int /\ poll[p].row.high \in Int
      /\ poll[p].row.thr \in Int
  <2>1. acct \in AccountRow /\ poll[p] \in Poll
    BY DEF RiskTypeOK
  <2>2. poll[p].row \in RowRead
    BY <2>1 DEF Poll
  <2> QED
    BY <2>1, <2>2 DEF AccountRow, Poll, RowRead
<1>1. /\ acct'.high = NextHighWater(poll[p].row.high, poll[p].eq)
      /\ acct'.thr = Threshold(p)
  BY <1>0 DEF IngestWrite, AccountRow
<1>2. acct.high <= poll[p].row.high /\ acct.thr <= poll[p].row.thr
  BY DEF IngestWrite, PollAt, MarksInv
<1>3. poll[p].row.high <= acct'.high /\ acct'.high \in Int
  BY <1>0, <1>1 DEF NextHighWater, Larger
<1>4. poll[p].row.thr <= acct'.thr /\ acct'.thr \in Int
  BY <1>0, <1>1, <1>3, ThresholdIsInt DEF Threshold, NextThreshold, Larger
<1> QED
  BY <1>0, <1>2, <1>3, <1>4

\* No other step but a reset touches the marks.
LEMMA MarksStand ==
    ASSUME RiskTypeOK, [RiskNext]_riskVars
    PROVE  \/ \E p \in Pollers : IngestWrite(p)
           \/ \E o \in Orders : ResetCommit(o)
           \/ acct'.high = acct.high /\ acct'.thr = acct.thr
<1>0. acct \in AccountRow
  BY DEF RiskTypeOK
<1>1. ASSUME NEW p \in Pollers, Unreachable(p) \/ MarkStale(p)
      PROVE  acct'.high = acct.high /\ acct'.thr = acct.thr
  BY <1>0, <1>1 DEF Unreachable, MarkStale, AccountRow
<1>2. ASSUME NEW p \in Pollers, EnforceCommit(p)
      PROVE  acct'.high = acct.high /\ acct'.thr = acct.thr
  BY <1>0, <1>2 DEF EnforceCommit, AccountRow
<1>3. ASSUME RollWrite PROVE acct'.high = acct.high /\ acct'.thr = acct.thr
  BY <1>0, <1>3 DEF RollWrite, AccountRow
<1>4. ASSUME \/ RollRead \/ Tick \/ Trade \/ PayoutOpens \/ PayoutEnds
             \/ UNCHANGED riskVars
             \/ \E p \in Pollers :
                   \/ Fetch(p) \/ FetchFails(p) \/ PollDies(p) \/ IngestRead(p)
                   \/ IngestRecord(p) \/ EnforceAlarm(p) \/ Enforce(p)
             \/ \E o \in Orders :
                   \/ ResetOffer(o) \/ TabDies(o) \/ ResetCharge(o)
                   \/ ResetPaid(o) \/ ResetRead(o) \/ ResetCheck(o)
                   \/ ResetAdjust(o)
      PROVE  acct' = acct
  BY <1>4 DEF RollRead, Tick, Trade, PayoutOpens, PayoutEnds, riskVars,
     rowVars, Fetch, FetchFails, PollDies, IngestRead, IngestRecord,
     EnforceAlarm, Enforce, ResetOffer, TabDies, ResetCharge, ResetPaid,
     ResetRead, ResetCheck, ResetAdjust
<1> QED
  BY <1>1, <1>2, <1>3, <1>4 DEF RiskNext, PollStep, TabStep

\* A reset puts both marks at the foot of what they can be.
LEMMA ResetLowers ==
    ASSUME RiskTypeOK, MarksInv, NEW o \in Orders, ResetCommit(o)
    PROVE  \/ UNCHANGED acct
           \/ /\ acct'.high = Start /\ acct'.thr = ComputeThreshold(Start)
              /\ acct'.resets > acct.resets
<1>0. acct \in AccountRow
  BY DEF RiskTypeOK
<1>1. ASSUME orders[o] # "applied"
      PROVE  /\ acct'.high = Start /\ acct'.thr = ComputeThreshold(Start)
             /\ acct'.resets = acct.resets + 1 /\ acct.resets \in Nat
  BY <1>0, <1>1 DEF ResetCommit, AccountRow
<1> QED
  BY <1>1 DEF ResetCommit

LEMMA MarksStep ==
    ASSUME \A p, q \in Pollers : p = q,
           RiskTypeOK, MarksInv, [RiskNext]_riskVars
    PROVE  MarksInv'
<1>0. /\ PollsTyped /\ Start \in Int /\ ComputeThreshold(Start) \in Int
      /\ acct.high \in Int /\ acct.thr \in Int
      /\ \A p \in Pollers : poll[p].row.high \in Int /\ poll[p].row.thr \in Int
  BY RiskServiceAssumption, ThresholdIsInt
     DEF RiskTypeOK, PollsTyped, AccountRow, Poll, RowRead
<1>1. ASSUME NEW p \in Pollers, IngestWrite(p) PROVE MarksInv'
  <2>1. poll'[p].pc \notin {"record", "write"}
    BY <1>0, <1>1, StagesAreTyped
       DEF IngestWrite, Continue, PollTo, PollDone, PollsTyped, Poll, IdlePoll
  <2> QED
    BY <1>0, <1>1, <2>1, WriteRaises DEF MarksInv
<1>2. ASSUME NEW o \in Orders, ResetCommit(o) PROVE MarksInv'
  BY <1>0, <1>2, ResetLowers DEF MarksInv, ResetCommit
<1>3. ASSUME acct'.high = acct.high, acct'.thr = acct.thr,
             \A p \in Pollers : poll'[p].pc \in {"record", "write"} =>
                \/ poll[p].pc \in {"record", "write"} /\ poll'[p].row = poll[p].row
                \/ poll'[p].row.high = acct.high /\ poll'[p].row.thr = acct.thr
      PROVE  MarksInv'
  BY <1>0, <1>3 DEF MarksInv
<1>4. ASSUME NEW p \in Pollers, IngestRead(p)
      PROVE  poll'[p].pc \in {"record", "write"} =>
                poll'[p].row.high = acct.high /\ poll'[p].row.thr = acct.thr
  BY <1>0, <1>4 DEF IngestRead, PollsTyped, Poll, IdlePoll
<1>5. ASSUME NEW p \in Pollers, IngestRecord(p)
      PROVE  poll'[p].pc \in {"record", "write"} =>
                poll[p].pc \in {"record", "write"} /\ poll'[p].row = poll[p].row
  BY <1>0, <1>5 DEF IngestRecord, PollAt, PollTo, PollDone, PollsTyped, Poll,
     IdlePoll
<1>6. ASSUME NEW p \in Pollers,
             \/ Fetch(p) \/ FetchFails(p) \/ Unreachable(p) \/ MarkStale(p)
             \/ Enforce(p) \/ EnforceCommit(p) \/ EnforceAlarm(p) \/ PollDies(p)
      PROVE  poll'[p].pc \notin {"record", "write"}
  <2>1. CASE Fetch(p)
    BY <1>0, <2>1 DEF Fetch, PollsTyped
  <2>2. CASE \/ FetchFails(p) \/ Unreachable(p) \/ MarkStale(p) \/ PollDies(p)
    BY <1>0, <2>2 DEF FetchFails, Unreachable, MarkStale, PollDies, PollTo,
       PollDone, PollsTyped, Poll, IdlePoll
  <2>3. CASE Enforce(p)
    <3>1. CASE Continue(p, NextStage(p))
      BY <1>0, <3>1, StagesAreTyped
         DEF Continue, PollTo, PollDone, PollsTyped, Poll, IdlePoll
    <3>2. CASE \E ok \in BOOLEAN, pc \in {"daily_commit", "trailing_commit"} :
                  poll' = [poll EXCEPT ![p].ok = ok,
                      ![p].until = NextOpen(tick), ![p].pc = pc]
      BY <1>0, <3>2 DEF PollsTyped, Poll
    <3> QED
      BY <2>3, <3>1, <3>2 DEF Enforce
  <2>4. CASE EnforceCommit(p) \/ EnforceAlarm(p)
    BY <1>0, <2>4, StagesAreTyped
       DEF EnforceCommit, EnforceAlarm, Continue, PollTo, PollDone, PollsTyped,
           Poll, IdlePoll
  <2> QED
    BY <1>6, <2>1, <2>2, <2>3, <2>4
<1>7. ASSUME \/ RollRead \/ RollWrite \/ Tick \/ Trade \/ PayoutOpens
             \/ PayoutEnds \/ UNCHANGED riskVars
             \/ \E o \in Orders : ResetOffer(o) \/ TabStep(o) \/ TabDies(o)
      PROVE  poll' = poll
  BY <1>7 DEF RollRead, RollWrite, Tick, Trade, PayoutOpens, PayoutEnds,
     riskVars, ResetOffer, TabStep, TabDies, ResetCharge, ResetPaid, ResetRead,
     ResetCheck, ResetAdjust, ResetCommit
<1>8. ASSUME acct'.high = acct.high, acct'.thr = acct.thr,
             ~ \E p \in Pollers : IngestWrite(p)
      PROVE  MarksInv'
  <2>1. CASE \E p \in Pollers :
                Fetch(p) \/ FetchFails(p) \/ PollStep(p) \/ PollDies(p)
    BY <1>3, <1>4, <1>5, <1>6, <1>8, <2>1 DEF PollStep
  <2>2. CASE poll' = poll
    BY <1>3, <1>8, <2>2
  <2> QED
    BY <1>7, <2>1, <2>2 DEF RiskNext
<1> QED
  BY <1>1, <1>2, <1>8, MarksStand

\* Under one poller the high-water mark and the threshold never fall but by a
\* paid reset, whatever is replayed or rolled over (applyEquityObservation).
THEOREM MarksRise ==
    ASSUME \A p, q \in Pollers : p = q
    PROVE  RiskSpec => MarksOnlyRise
<1>1. RiskInit => MarksInv
  BY RiskServiceAssumption, ThresholdIsInt DEF RiskInit, MarksInv, IdlePoll
<1>2. RiskTypeOK /\ MarksInv /\ [RiskNext]_riskVars => MarksInv'
  BY MarksStep
<1>3. RiskTypeOK /\ MarksInv /\ [RiskNext]_riskVars => [MarksOnlyRiseStep]_acct
  <2> SUFFICES ASSUME RiskTypeOK, MarksInv, [RiskNext]_riskVars
               PROVE  [MarksOnlyRiseStep]_acct
    OBVIOUS
  <2>0. acct.high \in Int /\ acct.thr \in Int
    BY DEF RiskTypeOK, AccountRow
  <2>1. ASSUME NEW p \in Pollers, IngestWrite(p) PROVE MarksOnlyRiseStep
    BY <2>0, <2>1, WriteRaises DEF MarksOnlyRiseStep
  <2>2. ASSUME NEW o \in Orders, ResetCommit(o)
        PROVE  MarksOnlyRiseStep \/ UNCHANGED acct
    BY <2>2, ResetLowers DEF MarksOnlyRiseStep
  <2>3. ASSUME acct'.high = acct.high, acct'.thr = acct.thr
        PROVE  MarksOnlyRiseStep
    BY <2>0, <2>3 DEF MarksOnlyRiseStep
  <2> QED
    BY <2>1, <2>2, <2>3, MarksStand
<1> QED
  BY <1>1, <1>2, <1>3, RiskTyped, PTL DEF RiskSpec, MarksOnlyRise

-----------------------------------------------------------------------------
(* What is above the starting balance was earned.  Equity that somebody has  *)
(* read, be it the row, a poll or a tab, lies below the provider's by no     *)
(* more than what was earned, as long as nobody has moved the balance.       *)

Earned == trades * BestMove
Covers(read) == prov.eq <= read + Earned

ViewsInv ==
    /\ Covers(acct.eq)
    /\ \A p \in Pollers :
          poll[p].pc \in {"read", "record", "write"} => Covers(poll[p].eq)
    /\ \A o \in Orders :
          tab[o].pc \in {"check", "adjust"} => Covers(tab[o].bal)

ProfitInv == /\ prov.done = {} => ViewsInv
             /\ ProfitIsEarned

Gains == BestMove \in Nat /\ \A m \in Moves : m <= BestMove

LEMMA BestMoveGains ==
    ASSUME \E m \in Moves : m >= 0 /\ \A n \in Moves : n <= m
    PROVE  Gains
<1>1. PICK m \in Moves : m >= 0 /\ \A n \in Moves : n <= m
  OBVIOUS
<1>2. BestMove \in Moves /\ \A n \in Moves : n <= BestMove
  BY <1>1 DEF BestMove
<1>3. m <= BestMove /\ BestMove \in Int /\ m \in Int
  BY <1>1, <1>2, RiskServiceAssumption
<1> QED
  BY <1>1, <1>2, <1>3 DEF Gains

LEMMA MultiplesGrow ==
    ASSUME NEW t \in Nat, NEW b \in Nat
    PROVE  t * b \in Nat /\ (t + 1) * b = t * b + b
OBVIOUS

LEMMA EarnedIsTyped ==
    ASSUME Gains, RiskTypeOK
    PROVE  Earned \in Nat
<1>1. trades \in Nat
  BY RiskServiceAssumption DEF RiskTypeOK
<1>2. BestMove \in Nat
  BY DEF Gains
<1> QED
  BY <1>1, <1>2, MultiplesGrow DEF Earned

\* Nobody but the trader and an adjustment moves the equity at the provider.
LEMMA EquityMoves ==
    ASSUME RiskTypeOK, [RiskNext]_riskVars
    PROVE  \/ prov'.eq = prov.eq /\ prov'.done = prov.done /\ trades' = trades
           \/ Trade
           \/ \E o \in Orders : ResetAdjust(o) /\ prov'.done = prov.done \union {o}
<1>1. prov \in [eq : Int, seq : Nat, flat : BOOLEAN, off : BOOLEAN,
                done : SUBSET Orders]
  BY DEF RiskTypeOK
<1>2. ASSUME NEW p \in Pollers, Enforce(p)
      PROVE  prov'.eq = prov.eq /\ prov'.done = prov.done /\ trades' = trades
  BY <1>1, <1>2 DEF Enforce, countVars
<1>3. ASSUME NEW o \in Orders, ResetAdjust(o)
      PROVE  \/ prov' = prov /\ trades' = trades
             \/ prov'.done = prov.done \union {o}
  BY <1>1, <1>3 DEF ResetAdjust, countVars
<1>4. ASSUME NEW p \in Pollers, \/ Fetch(p) \/ FetchFails(p) \/ PollDies(p)
                                \/ PollStep(p) /\ ~Enforce(p)
      PROVE  prov' = prov /\ trades' = trades
  BY <1>4 DEF Fetch, FetchFails, PollDies, PollStep, Unreachable, IngestRead,
     IngestRecord, IngestWrite, EnforceCommit, EnforceAlarm, MarkStale,
     countVars
<1>5. ASSUME NEW o \in Orders, \/ ResetOffer(o) \/ TabDies(o)
                               \/ TabStep(o) /\ ~ResetAdjust(o)
      PROVE  prov' = prov /\ trades' = trades
  BY <1>5 DEF ResetOffer, TabDies, TabStep, ResetCharge, ResetPaid, ResetRead,
     ResetCheck, ResetCommit, countVars
<1>6. ASSUME \/ RollRead \/ RollWrite \/ Tick \/ PayoutOpens \/ PayoutEnds
             \/ UNCHANGED riskVars
      PROVE  prov' = prov /\ trades' = trades
  BY <1>6 DEF RollRead, RollWrite, Tick, PayoutOpens, PayoutEnds, riskVars,
     countVars
<1> QED
  BY <1>2, <1>3, <1>4, <1>5, <1>6 DEF RiskNext, PollStep, TabStep

LEMMA ReadingsStay ==
    ASSUME RiskTypeOK, Gains, [RiskNext]_riskVars, prov'.done = {},
           NEW read \in Int, Covers(read)
    PROVE  Covers(read)'
<1>1. /\ prov.eq \in Int /\ trades \in Nat /\ Earned \in Int
      /\ BestMove \in Nat /\ \A m \in Moves : m \in Int /\ m <= BestMove
  <2>1. Earned \in Int
    BY EarnedIsTyped
  <2>2. prov.eq \in Int
    BY DEF RiskTypeOK
  <2>3. trades \in Nat
    BY RiskServiceAssumption DEF RiskTypeOK
  <2>4. BestMove \in Nat /\ \A m \in Moves : m <= BestMove
    BY DEF Gains
  <2>5. \A m \in Moves : m \in Int
    BY RiskServiceAssumption
  <2> QED
    BY <2>1, <2>2, <2>3, <2>4, <2>5
<1>2. CASE prov'.eq = prov.eq /\ trades' = trades
  BY <1>2 DEF Covers, Earned
<1>3. CASE Trade
  <2>1. PICK m \in Moves : prov'.eq = prov.eq + m
    BY <1>3 DEF Trade, RiskTypeOK
  <2>2. Earned' = Earned + BestMove
    BY <1>1, <1>3, MultiplesGrow DEF Trade, Earned
  <2> QED
    BY <1>1, <2>1, <2>2 DEF Covers
<1> QED
  BY <1>2, <1>3, EquityMoves

LEMMA ViewsStep ==
    ASSUME RiskTypeOK, Gains, [RiskNext]_riskVars, ProfitInv, prov'.done = {}
    PROVE  ViewsInv'
<1>1. ViewsInv /\ prov.eq <= Start + Earned
  <2>1. prov.done = {}
    BY EquityMoves DEF Trade, RiskTypeOK
  <2> QED
    BY <2>1 DEF ProfitInv, ProfitIsEarned, Earned
<1>2. /\ acct \in AccountRow /\ poll \in [Pollers -> Poll]
      /\ tab \in [Orders -> [pc : TabPCs, bal : Int]]
      /\ prov.eq \in Int /\ Start \in Int /\ Earned \in Nat
  BY EarnedIsTyped, RiskServiceAssumption DEF RiskTypeOK
<1>3. /\ acct.eq \in Int
      /\ \A p \in Pollers : poll[p].eq \in Int
      /\ \A o \in Orders : tab[o].bal \in Int
  BY <1>2 DEF AccountRow, Poll
<1>4. Covers(Start) /\ Covers(prov.eq) /\ Covers(acct.eq)
  BY <1>1, <1>2 DEF Covers, ViewsInv
<1>5. \A read \in Int : Covers(read) => Covers(read)'
  BY ReadingsStay
<1>6. Covers(acct'.eq)
  <2>1. ASSUME NEW p \in Pollers, IngestWrite(p) PROVE Covers(acct'.eq)
    <3>1. acct'.eq = poll[p].eq /\ poll[p].pc = "write"
      BY <1>2, <2>1 DEF IngestWrite, PollAt, AccountRow
    <3> QED
      BY <1>1, <3>1 DEF ViewsInv
  <2>2. ASSUME NEW o \in Orders, ResetCommit(o) PROVE Covers(acct'.eq)
    BY <1>2, <1>4, <2>2 DEF ResetCommit, AccountRow
  <2>3. ASSUME acct'.eq = acct.eq PROVE Covers(acct'.eq)
    BY <1>4, <2>3
  <2>4. ASSUME NEW p \in Pollers, \/ Fetch(p) \/ FetchFails(p) \/ PollDies(p)
                                  \/ PollStep(p) /\ ~IngestWrite(p)
        PROVE  acct'.eq = acct.eq
    BY <1>2, <2>4 DEF Fetch, FetchFails, PollDies, PollStep, Unreachable,
       IngestRead, IngestRecord, Enforce, EnforceCommit, EnforceAlarm,
       MarkStale, rowVars, AccountRow
  <2>5. ASSUME NEW o \in Orders, \/ ResetOffer(o) \/ TabDies(o)
                                 \/ TabStep(o) /\ ~ResetCommit(o)
        PROVE  acct'.eq = acct.eq
    BY <2>5 DEF ResetOffer, TabDies, TabStep, ResetCharge, ResetPaid,
       ResetRead, ResetCheck, ResetAdjust, rowVars
  <2>6. ASSUME \/ RollRead \/ RollWrite \/ Tick \/ Trade \/ PayoutOpens
               \/ PayoutEnds \/ UNCHANGED riskVars
        PROVE  acct'.eq = acct.eq
    BY <1>2, <2>6 DEF RollRead, RollWrite, Tick, Trade, PayoutOpens,
       PayoutEnds, riskVars, rowVars, AccountRow
  <2> QED
    BY <2>1, <2>2, <2>3, <2>4, <2>5, <2>6 DEF RiskNext, PollStep, TabStep
<1>7. ASSUME NEW q \in Pollers, poll'[q].pc \in {"read", "record", "write"}
      PROVE  poll'[q].eq \in Int /\ Covers(poll'[q].eq)
  <2>0. ASSUME poll'[q].eq = poll[q].eq,
               poll[q].pc \in {"read", "record", "write"}
        PROVE  poll'[q].eq \in Int /\ Covers(poll'[q].eq)
    BY <1>1, <1>3, <2>0 DEF ViewsInv
  <2>1. ASSUME NEW p \in Pollers, Fetch(p) PROVE poll'[q].eq \in Int /\ Covers(poll'[q].eq)
    <3>1. CASE p = q
      BY <1>2, <1>4, <2>1, <3>1 DEF Fetch
    <3>2. CASE p # q
      <4>1. poll'[q] = poll[q]
        BY <1>2, <2>1, <3>2 DEF Fetch
      <4> QED
        BY <1>7, <2>0, <4>1
    <3> QED
      BY <3>1, <3>2
  <2>2. ASSUME NEW p \in Pollers, IngestRead(p) \/ IngestRecord(p)
        PROVE  \/ poll'[q] = poll[q]
               \/ poll'[q].eq = poll[q].eq /\ poll[q].pc \in {"read", "record"}
               \/ poll'[q].pc \in {"idle", "unreachable"}
    <3>1. poll[p] \in Poll /\ poll[q] \in Poll
      BY <1>2
    <3> QED
      BY <1>2, <2>2, <3>1 DEF IngestRead, IngestRecord, PollAt, PollTo, PollDone,
         IdlePoll, Poll
  <2>3. ASSUME NEW p \in Pollers,
               \/ FetchFails(p) \/ PollDies(p)
               \/ PollStep(p) /\ ~IngestRead(p) /\ ~IngestRecord(p)
        PROVE  poll'[q] = poll[q] \/ poll'[q].pc \notin {"read", "record", "write"}
    <3>1. ASSUME PollDone(p)
          PROVE  poll'[q] = poll[q] \/ poll'[q].pc = "idle"
      BY <1>2, <3>1 DEF PollDone, IdlePoll
    <3>2. ASSUME NEW pc \in PollPCs, PollTo(p, pc)
          PROVE  poll'[q] = poll[q] \/ poll'[q].pc = pc
      BY <1>2, <3>2 DEF PollTo, Poll
    <3>3. ASSUME NEW pc \in {"daily", "trailing", "mark", "idle"},
                 Continue(p, pc)
          PROVE  \/ poll'[q] = poll[q]
                 \/ poll'[q].pc \notin {"read", "record", "write"}
      BY <3>1, <3>2, <3>3 DEF Continue, PollPCs
    <3>4. CASE FetchFails(p)
      BY <3>2, <3>4 DEF FetchFails, PollPCs
    <3>5. CASE PollDies(p) \/ Unreachable(p) \/ MarkStale(p)
      BY <3>1, <3>5 DEF PollDies, Unreachable, MarkStale
    <3>6. CASE IngestWrite(p)
      BY <3>3, <3>6, StagesAreTyped DEF IngestWrite
    <3>7. CASE Enforce(p)
      <4>1. CASE Continue(p, NextStage(p))
        BY <3>3, <4>1, StagesAreTyped
      <4>2. ASSUME NEW told \in BOOLEAN, NEW u,
                   NEW pc \in {"daily_commit", "trailing_commit"},
                   poll' = [poll EXCEPT ![p].ok = told, ![p].until = u,
                                        ![p].pc = pc]
            PROVE  poll'[q] = poll[q] \/ poll'[q].pc = pc
        BY <1>2, <4>2 DEF Poll
      <4> QED
        BY <3>7, <4>1, <4>2 DEF Enforce
    <3>8. CASE EnforceCommit(p) \/ EnforceAlarm(p)
      BY <3>2, <3>3, <3>8, StagesAreTyped DEF EnforceCommit, EnforceAlarm,
         PollPCs
    <3> QED
      BY <2>3, <3>4, <3>5, <3>6, <3>7, <3>8 DEF PollStep
  <2>4. ASSUME \/ RollRead \/ RollWrite \/ Tick \/ Trade \/ PayoutOpens
               \/ PayoutEnds \/ UNCHANGED riskVars
               \/ \E o \in Orders : ResetOffer(o) \/ TabStep(o) \/ TabDies(o)
        PROVE  poll' = poll
    BY <2>4 DEF RollRead, RollWrite, Tick, Trade, PayoutOpens, PayoutEnds,
       riskVars, ResetOffer, TabStep, TabDies, ResetCharge, ResetPaid,
       ResetRead, ResetCheck, ResetAdjust, ResetCommit
  <2> QED
    BY <1>7, <2>0, <2>1, <2>2, <2>3, <2>4 DEF RiskNext, PollStep
<1>8. ASSUME NEW u \in Orders, tab'[u].pc \in {"check", "adjust"}
      PROVE  tab'[u].bal \in Int /\ Covers(tab'[u].bal)
  <2>0. ASSUME tab'[u].bal = tab[u].bal, tab[u].pc \in {"check", "adjust"}
        PROVE  tab'[u].bal \in Int /\ Covers(tab'[u].bal)
    BY <1>1, <1>3, <2>0 DEF ViewsInv
  <2>1. ASSUME NEW o \in Orders, ResetRead(o)
        PROVE  tab'[u] = tab[u] \/ tab'[u].bal = acct.eq \/ tab'[u].pc = "idle"
    BY <1>2, <2>1 DEF ResetRead, IdleTab
  <2>2. ASSUME NEW o \in Orders, ResetCheck(o)
        PROVE  \/ tab'[u] = tab[u] \/ tab'[u].pc = "idle"
               \/ tab'[u].bal = tab[u].bal /\ tab[u].pc = "check"
    BY <1>2, <2>2 DEF ResetCheck, TabAt, TabTo, TabDone, IdleTab
  <2>3. ASSUME NEW o \in Orders, \/ ResetOffer(o) \/ TabDies(o)
                                 \/ ResetCharge(o) \/ ResetPaid(o)
                                 \/ ResetAdjust(o) \/ ResetCommit(o)
        PROVE  tab'[u] = tab[u] \/ tab'[u].pc \notin {"check", "adjust"}
    BY <1>2, <2>3 DEF ResetOffer, TabDies, ResetCharge, ResetPaid, ResetAdjust,
       ResetCommit, TabTo, TabDone, IdleTab
  <2>4. ASSUME \/ RollRead \/ RollWrite \/ Tick \/ Trade \/ PayoutOpens
               \/ PayoutEnds \/ UNCHANGED riskVars
               \/ \E p \in Pollers :
                     Fetch(p) \/ FetchFails(p) \/ PollStep(p) \/ PollDies(p)
        PROVE  tab' = tab
    BY <2>4 DEF RollRead, RollWrite, Tick, Trade, PayoutOpens, PayoutEnds,
       riskVars, resetVars, Fetch, FetchFails, PollDies, PollStep, Unreachable,
       IngestRead, IngestRecord, IngestWrite, Enforce, EnforceCommit,
       EnforceAlarm, MarkStale
  <2> QED
    BY <1>3, <1>4, <1>8, <2>0, <2>1, <2>2, <2>3, <2>4 DEF RiskNext, TabStep
<1>9. acct'.eq \in Int
  BY RiskTypeStep DEF RiskTypeOK, AccountRow
<1> QED
  BY <1>5, <1>6, <1>7, <1>8, <1>9 DEF ViewsInv, Covers

\* Whatever an account holds above its starting balance was earned by trading,
\* for any number of pollers and resets, until a second order has moved the
\* balance at the provider (applyReset); some movement of equity is no loss.
THEOREM ProfitsAreEarned ==
    ASSUME \E m \in Moves : m >= 0 /\ \A n \in Moves : n <= m
    PROVE  RiskSpec => []ProfitIsEarned
<1>0. Gains
  BY BestMoveGains
<1>1. RiskInit => ProfitInv
  <2> SUFFICES ASSUME RiskInit PROVE ProfitInv
    OBVIOUS
  <2>1. /\ prov.eq = Start /\ acct.eq = Start /\ Earned = 0 /\ Start \in Int
        /\ \A p \in Pollers : poll[p].pc = "idle"
        /\ \A o \in Orders : tab[o].pc = "idle"
    BY <1>0, RiskServiceAssumption
       DEF RiskInit, Earned, Gains, IdlePoll, IdleTab
  <2> QED
    BY <2>1 DEF ProfitInv, ViewsInv, ProfitIsEarned, Covers, Earned
<1>2. RiskTypeOK /\ ProfitInv /\ [RiskNext]_riskVars => ProfitInv'
  <2> SUFFICES ASSUME RiskTypeOK, ProfitInv, [RiskNext]_riskVars
               PROVE  ProfitInv'
    OBVIOUS
  <2>1. prov'.done = {} => ViewsInv'
    BY <1>0, ViewsStep
  <2>2. /\ prov.eq \in Int /\ Start \in Int /\ Earned \in Int
        /\ trades \in Nat /\ BestMove \in Nat
        /\ tab \in [Orders -> [pc : TabPCs, bal : Int]]
        /\ prov \in [eq : Int, seq : Nat, flat : BOOLEAN, off : BOOLEAN,
                     done : SUBSET Orders]
    BY <1>0, EarnedIsTyped, RiskServiceAssumption DEF Gains, RiskTypeOK
  <2>3. (\A o, q \in prov.done : o = q) => prov.eq <= Start + Earned
    BY DEF ProfitInv, ProfitIsEarned, Earned
  <2>4. ASSUME \A o, q \in prov'.done : o = q
        PROVE  prov'.eq <= Start + Earned'
    <3>1. CASE prov'.eq = prov.eq /\ prov'.done = prov.done /\ trades' = trades
      BY <2>3, <2>4, <3>1 DEF Earned
    <3>2. CASE Trade
      <4>1. PICK m \in Moves : prov'.eq = prov.eq + m /\ prov'.done = prov.done
        BY <2>2, <3>2 DEF Trade
      <4>2. m \in Int /\ m <= BestMove
        BY <1>0, RiskServiceAssumption DEF Gains
      <4>3. Earned' = Earned + BestMove
        BY <2>2, <3>2, MultiplesGrow DEF Trade, Earned
      <4>4. prov.eq <= Start + Earned
        BY <2>3, <2>4, <4>1
      <4> QED
        BY <2>2, <4>1, <4>2, <4>3, <4>4
    <3>3. ASSUME NEW o \in Orders, ResetAdjust(o),
                 prov'.done = prov.done \union {o}
          PROVE  prov'.eq <= Start + Earned'
      <4>1. Earned' = Earned /\ tab[o].pc = "adjust" /\ tab[o].bal \in Int
        BY <2>2, <3>3 DEF ResetAdjust, countVars, Earned, TabAt
      <4>2. CASE o \in prov.done
        BY <2>3, <2>4, <3>3, <4>1, <4>2 DEF ResetAdjust
      <4>3. CASE o \notin prov.done
        <5>1. prov.done = {}
          BY <2>2, <2>4, <3>3, <4>3
        <5>2. Covers(tab[o].bal)
          BY <4>1, <5>1 DEF ProfitInv, ViewsInv
        <5>3. prov'.eq = prov.eq \/ prov'.eq = prov.eq + Start - tab[o].bal
          BY <2>2, <3>3 DEF ResetAdjust
        <5> QED
          BY <2>2, <2>3, <4>1, <5>1, <5>2, <5>3 DEF Covers
      <4> QED
        BY <4>2, <4>3
    <3> QED
      BY <3>1, <3>2, <3>3, EquityMoves
  <2> QED
    BY <2>1, <2>4 DEF ProfitInv, ProfitIsEarned, Earned
<1>3. ProfitInv => ProfitIsEarned
  BY DEF ProfitInv
<1> QED
  BY <1>1, <1>2, <1>3, RiskTyped, PTL DEF RiskSpec

=============================================================================
