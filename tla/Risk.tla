-------------------------------- MODULE Risk --------------------------------
(***************************************************************************)
(* One trading account under watch: src/server/services/risk-service.ts    *)
(* (polling, ingestion, loss enforcement), the session roll of             *)
(* src/server/jobs/handlers.ts and the paid reset of reset-service.ts and  *)
(* app/dashboard/reset-actions.ts, all of which write the same row:        *)
(*                                                                         *)
(*   pollers    runs of syncAccount(), from the reconciliation job or the  *)
(*              job of one account, in one worker process or in several;   *)
(*   roller     a run of the ROLL_TRADING_SESSION handler;                 *)
(*   tabs       purchaseReset() calls of the customer.  A tab is named by  *)
(*              its idempotency key, hence by the order it creates.        *)
(*                                                                         *)
(* Time is a tick: an even one is a market open, an odd one lies in the    *)
(* hour between the session boundary and the next reopen.  Equity and      *)
(* balance are one number.                                                 *)
(***************************************************************************)
EXTENDS RiskRules, FiniteSets

CONSTANTS
    Start,      \* the plan's starting balance
    Pollers,    \* concurrent runs of syncAccount
    Orders,     \* reset orders, one per idempotency key
    Rolling,    \* whether anybody enqueues ROLL_TRADING_SESSION
    Moves,      \* changes of equity by trading
    LastTick,   \* bound on the clock
    MaxTrades,  \* bound on changes by trading
    MaxDeaths   \* bound on processes that die

ASSUME RiskServiceAssumption ==
    /\ Start \in Int
    /\ IsFiniteSet(Orders)
    /\ Rolling \in BOOLEAN
    /\ Moves \subseteq Int
    /\ {LastTick, MaxTrades, MaxDeaths} \subseteq Nat

VARIABLES
    tick,       \* the clock
    acct,       \* the TradingAccount row and its latest PositionSnapshot
    prov,       \* the account at the trading provider
    seen,       \* sequence numbers of the ProviderEvent rows
    breaches,   \* RiskEvent rows about breaches: <<kind, session>>
    alarms,     \* RiskEvent rows that ask for attention
    poll,       \* progress of each poller
    roll,       \* progress of the roller
    paying,     \* a payout request exists that bars a reset
    orders,     \* the reset orders' rows
    tab,        \* progress of each purchaseReset call
    trades, deaths

rowVars == <<acct, breaches, alarms, seen>>
resetVars == <<orders, tab>>
countVars == <<trades, deaths>>
riskVars == <<tick, rowVars, prov, poll, roll, paying, resetVars, countVars>>

Kinds == {"DAILY_LOSS", "TRAILING"}
Sessions == 0 .. ((LastTick + 1) \div 2)
Watched == {"ACTIVE", "DAILY_PAUSED"}

\* Faulty variant: every tick starts a session of its own.
SessionAtTick(t) == t

\* sessionDateFor, nextMarketOpen.
SessionAt(t) == (t + 1) \div 2
NextOpen(t) == 2 * (t \div 2) + 2
LockoutLifted(until, t) == t >= until

NoRow == [high |-> 0, thr |-> 0, open |-> 0, wd |-> 0, sess |-> 0]
IdlePoll == [pc |-> "idle", eq |-> 0, seq |-> 0, flat |-> TRUE, sess |-> 0,
             old |-> FALSE, ok |-> FALSE, until |-> 0, row |-> NoRow]
IdleRoll == [pc |-> "idle", was |-> "ACTIVE"]
IdleTab == [pc |-> "idle", bal |-> 0]

\* A provisioned account, synchronised once.
RiskInit ==
    /\ tick = 0
    /\ acct = [eq |-> Start, high |-> Start, thr |-> ComputeThreshold(Start),
               sess |-> 0, open |-> Start, wd |-> 0, seq |-> 1,
               stale |-> FALSE, flat |-> TRUE, status |-> "ACTIVE",
               until |-> 0, resets |-> 0]
    /\ prov = [eq |-> Start, seq |-> 1, flat |-> TRUE, off |-> FALSE,
               done |-> {}]
    /\ seen = {1}
    /\ breaches = {}
    /\ alarms = {}
    /\ poll = [p \in Pollers |-> IdlePoll]
    /\ roll = IdleRoll
    /\ paying = FALSE
    /\ orders = [o \in Orders |-> "none"]
    /\ tab = [o \in Orders |-> IdleTab]
    /\ trades = 0
    /\ deaths = 0

-----------------------------------------------------------------------------
(* syncAccount(): fetch a snapshot, or fail to.                            *)

PollAt(p, pc) == poll[p].pc = pc
PollTo(p, pc) == poll' = [poll EXCEPT ![p].pc = pc]
PollDone(p) == poll' = [poll EXCEPT ![p] = IdlePoll]

\* The observation time stamped by the provider may already be old.
Fetch(p) ==
    /\ PollAt(p, "idle")
    /\ acct.status \in Watched
    /\ \E old \in BOOLEAN :
          poll' = [poll EXCEPT ![p] =
             [pc |-> "read", eq |-> prov.eq, seq |-> prov.seq,
              flat |-> prov.flat, sess |-> SessionAt(tick), old |-> old,
              ok |-> FALSE, until |-> 0, row |-> NoRow]]
    /\ UNCHANGED <<tick, rowVars, prov, roll, paying, resetVars, countVars>>

FetchFails(p) ==
    /\ PollAt(p, "idle")
    /\ acct.status \in Watched
    /\ PollTo(p, "unreachable")
    /\ UNCHANGED <<tick, rowVars, prov, roll, paying, resetVars, countVars>>

\* The catch of syncAccount: markStale(), then the row once more.
Unreachable(p) ==
    /\ PollAt(p, "unreachable")
    /\ acct' = [acct EXCEPT !.stale = TRUE]
    /\ alarms' = IF acct.stale THEN alarms ELSE alarms \union {"DATA_STALE"}
    /\ PollDone(p)
    /\ UNCHANGED <<tick, breaches, seen, prov, roll, paying, resetVars,
                   countVars>>

-----------------------------------------------------------------------------
(* ingestSnapshot().                                                       *)

\* Faulty variant: a snapshot one newer than the row counts as out of order.
IngestReadOffByOne(p) ==
    /\ PollAt(p, "read")
    /\ poll' = IF poll[p].seq \in seen THEN [poll EXCEPT ![p] = IdlePoll]
               ELSE [poll EXCEPT ![p].pc = "record",
                  ![p].ok = poll[p].seq > acct.seq + 1,
                  ![p].row = [high |-> acct.high, thr |-> acct.thr,
                              open |-> acct.open, wd |-> acct.wd,
                              sess |-> acct.sess]]
    /\ UNCHANGED <<tick, rowVars, prov, roll, paying, resetVars, countVars>>

\* The row is read here and not again; a recorded sequence is skipped.
IngestRead(p) ==
    /\ PollAt(p, "read")
    /\ poll' = IF poll[p].seq \in seen THEN [poll EXCEPT ![p] = IdlePoll]
               ELSE [poll EXCEPT ![p].pc = "record",
                  ![p].ok = poll[p].seq > acct.seq,
                  ![p].row = [high |-> acct.high, thr |-> acct.thr,
                              open |-> acct.open, wd |-> acct.wd,
                              sess |-> acct.sess]]
    /\ UNCHANGED <<tick, rowVars, prov, roll, paying, resetVars, countVars>>

\* The event is recorded before it is applied; losing the race for the unique
\* sequence is an error like any other.
IngestRecord(p) ==
    /\ PollAt(p, "record")
    /\ seen' = seen \union {poll[p].seq}
    /\ \/ poll[p].seq \in seen /\ PollTo(p, "unreachable")
       \/ poll[p].seq \notin seen /\ poll[p].ok /\ PollTo(p, "write")
       \/ poll[p].seq \notin seen /\ ~poll[p].ok /\ PollDone(p)
    /\ UNCHANGED <<tick, acct, breaches, alarms, prov, roll, paying,
                   resetVars, countVars>>

Rolled(p) == poll[p].row.sess # poll[p].sess
OpenEquity(p) == IF Rolled(p) THEN poll[p].eq ELSE poll[p].row.open
Withdrawn(p) == IF Rolled(p) THEN 0 ELSE poll[p].row.wd
Threshold(p) == NextThreshold(poll[p].row.thr, poll[p].row.high, poll[p].eq)

Breached(p, kind) ==
    IF kind = "TRAILING" THEN IsTrailingBreached(Threshold(p), poll[p].eq)
    ELSE IsDailyLossBreached(OpenEquity(p), Withdrawn(p), poll[p].eq)

\* What follows the write: the timed lockout first, the terminal breach last.
AfterTrailing(p) == IF poll[p].old THEN "mark" ELSE "idle"
\* Faulty variant: after a lockout the drawdown is left to the next snapshot.
AfterDailyOnly(p) ==
    IF Breached(p, "TRAILING") /\ ~Breached(p, "DAILY_LOSS") THEN "trailing"
    ELSE AfterTrailing(p)

AfterDaily(p) == IF Breached(p, "TRAILING") THEN "trailing" ELSE AfterTrailing(p)
AfterWrite(p) == IF Breached(p, "DAILY_LOSS") THEN "daily" ELSE AfterDaily(p)

Continue(p, pc) == IF pc = "idle" THEN PollDone(p) ELSE PollTo(p, pc)

\* Faulty variant: the high-water mark follows equity down.
IngestWriteFalling(p) ==
    /\ PollAt(p, "write")
    /\ acct' = [acct EXCEPT
          !.eq = poll[p].eq, !.high = poll[p].eq,
          !.thr = ComputeThreshold(poll[p].eq),
          !.sess = poll[p].sess, !.open = OpenEquity(p), !.wd = Withdrawn(p),
          !.seq = poll[p].seq, !.stale = poll[p].old, !.flat = poll[p].flat]
    /\ Continue(p, AfterWrite(p))
    /\ UNCHANGED <<tick, breaches, alarms, seen, prov, roll, paying,
                   resetVars, countVars>>

\* One transaction, unconditional, from the row as it was read.
IngestWrite(p) ==
    /\ PollAt(p, "write")
    /\ acct' = [acct EXCEPT
          !.eq = poll[p].eq,
          !.high = NextHighWater(poll[p].row.high, poll[p].eq),
          !.thr = Threshold(p),
          !.sess = poll[p].sess, !.open = OpenEquity(p), !.wd = Withdrawn(p),
          !.seq = poll[p].seq, !.stale = poll[p].old, !.flat = poll[p].flat]
    /\ Continue(p, AfterWrite(p))
    /\ UNCHANGED <<tick, breaches, alarms, seen, prov, roll, paying,
                   resetVars, countVars>>

\* markStale() for a snapshot that was applied but is old.
MarkStale(p) ==
    /\ PollAt(p, "mark")
    /\ acct' = [acct EXCEPT !.stale = TRUE]
    /\ alarms' = IF acct.stale THEN alarms ELSE alarms \union {"DATA_STALE"}
    /\ PollDone(p)
    /\ UNCHANGED <<tick, breaches, seen, prov, roll, paying, resetVars,
                   countVars>>

-----------------------------------------------------------------------------
(* enforceBreach(), once per session for a loss limit, once ever for the   *)
(* drawdown.                                                               *)

\* The second half of a stage keeps the name of the kind of breach.
DailyPCs == {"daily", "daily_commit", "daily_alarm"}
KindOf(p) == IF poll[p].pc \in DailyPCs THEN "DAILY_LOSS" ELSE "TRAILING"
NextStage(p) ==
    IF KindOf(p) = "DAILY_LOSS" THEN AfterDaily(p) ELSE AfterTrailing(p)

Recorded(kind, sess) ==
    \E b \in breaches : b[1] = kind /\ (kind = "DAILY_LOSS" => b[2] = sess)

\* Flatten and disable at the provider: each may be refused, lost or done.
Enforce(p) ==
    LET kind == KindOf(p) IN
    /\ poll[p].pc \in {"daily", "trailing"}
    /\ \/ /\ Recorded(kind, poll[p].sess)
          /\ Continue(p, NextStage(p))
          /\ UNCHANGED prov
       \/ /\ ~Recorded(kind, poll[p].sess)
          /\ \E flatten, disable, told \in BOOLEAN :
                /\ prov' = [prov EXCEPT
                      !.flat = @ \/ flatten,
                      !.seq = IF flatten THEN @ + 1 ELSE @,
                      !.off = @ \/ disable]
                /\ told => flatten /\ disable
                /\ poll' = [poll EXCEPT ![p].ok = told,
                      ![p].until = NextOpen(tick),
                      ![p].pc = IF kind = "DAILY_LOSS" THEN "daily_commit"
                                ELSE "trailing_commit"]
    /\ UNCHANGED <<tick, rowVars, roll, paying, resetVars, countVars>>

\* One transaction: the event and the status.  A lockout never overwrites a
\* terminated account; a breach overwrites anything and keeps the lockout.
EnforceCommit(p) ==
    LET kind == KindOf(p) IN
    /\ poll[p].pc \in {"daily_commit", "trailing_commit"}
    /\ breaches' = breaches \union {<<kind, poll[p].sess>>}
    /\ acct' =
          IF kind = "TRAILING" THEN [acct EXCEPT !.status = "BREACHED"]
          ELSE IF acct.status = "BREACHED" THEN acct
          ELSE [acct EXCEPT !.status = "DAILY_PAUSED",
                            !.until = poll[p].until]
    /\ IF poll[p].ok THEN Continue(p, NextStage(p))
       ELSE PollTo(p, IF kind = "DAILY_LOSS" THEN "daily_alarm"
                      ELSE "trailing_alarm")
    /\ UNCHANGED <<tick, alarms, seen, prov, roll, paying, resetVars,
                   countVars>>

\* Faulty variant: an unconfirmed request is taken for a done one.
EnforceAlarmSilent(p) ==
    /\ poll[p].pc \in {"daily_alarm", "trailing_alarm"}
    /\ Continue(p, NextStage(p))
    /\ UNCHANGED <<tick, rowVars, prov, roll, paying, resetVars, countVars>>

\* "External trading may still be possible": an event for the operations team.
EnforceAlarm(p) ==
    /\ poll[p].pc \in {"daily_alarm", "trailing_alarm"}
    /\ alarms' = alarms \union {"TRADING_DISABLE_FAILED"}
    /\ Continue(p, NextStage(p))
    /\ UNCHANGED <<tick, acct, breaches, seen, prov, roll, paying, resetVars,
                   countVars>>

PollDies(p) ==
    /\ ~PollAt(p, "idle")
    /\ deaths < MaxDeaths
    /\ deaths' = deaths + 1
    /\ PollDone(p)
    /\ UNCHANGED <<tick, rowVars, prov, roll, paying, resetVars, trades>>

PollStep(p) ==
    \/ Unreachable(p) \/ IngestRead(p) \/ IngestRecord(p) \/ IngestWrite(p)
    \/ Enforce(p) \/ EnforceCommit(p) \/ EnforceAlarm(p) \/ MarkStale(p)

-----------------------------------------------------------------------------
(* ROLL_TRADING_SESSION: the due accounts are read, then resumed by id.    *)

\* Faulty variant: every account whose lockout is over is resumed.
RollReadAnyStatus ==
    /\ Rolling
    /\ roll.pc = "idle"
    /\ LockoutLifted(acct.until, tick)
    /\ roll' = [pc |-> "write", was |-> acct.status]
    /\ UNCHANGED <<tick, rowVars, prov, poll, paying, resetVars, countVars>>

RollRead ==
    /\ Rolling
    /\ roll.pc = "idle"
    /\ acct.status = "DAILY_PAUSED"
    /\ LockoutLifted(acct.until, tick)
    /\ roll' = [pc |-> "write", was |-> acct.status]
    /\ UNCHANGED <<tick, rowVars, prov, poll, paying, resetVars, countVars>>

RollWrite ==
    /\ roll.pc = "write"
    /\ acct' = [acct EXCEPT !.status = "ACTIVE", !.until = 0]
    /\ roll' = IdleRoll
    /\ UNCHANGED <<tick, breaches, alarms, seen, prov, poll, paying,
                   resetVars, countVars>>

-----------------------------------------------------------------------------
(* The paid reset.                                                         *)

TabAt(o, pc) == tab[o].pc = pc
TabTo(o, pc) == tab' = [tab EXCEPT ![o].pc = pc]
TabDone(o) == tab' = [tab EXCEPT ![o] = IdleTab]

\* checkResetEligibility.
ResetEligible ==
    /\ ~paying
    /\ acct.status \notin {"ACTIVE", "DAILY_PAUSED"}
    /\ ~acct.stale
    /\ acct.flat

\* A retry with the same key starts here as well and finds its order.
ResetOffer(o) ==
    /\ TabAt(o, "idle")
    /\ ResetEligible
    /\ orders' = [orders EXCEPT ![o] = IF @ = "none" THEN "pending" ELSE @]
    /\ TabTo(o, "charge")
    /\ UNCHANGED <<tick, rowVars, prov, poll, roll, paying, countVars>>

\* createCharge is idempotent on the order; a refused charge changes nothing.
ResetCharge(o) ==
    /\ TabAt(o, "charge")
    /\ \/ /\ orders' = [orders EXCEPT ![o] = IF @ = "pending" THEN "charged" ELSE @]
          /\ TabTo(o, "paid")
       \/ /\ orders[o] = "pending"
          /\ TabDone(o)
          /\ UNCHANGED orders
    /\ UNCHANGED <<tick, rowVars, prov, poll, roll, paying, countVars>>

ResetPaid(o) ==
    /\ TabAt(o, "paid")
    /\ orders' = [orders EXCEPT ![o] = IF @ = "charged" THEN "paid" ELSE @]
    /\ TabTo(o, "apply")
    /\ UNCHANGED <<tick, rowVars, prov, poll, roll, paying, countVars>>

\* applyReset reads the row ...
ResetRead(o) ==
    /\ TabAt(o, "apply")
    /\ tab' = [tab EXCEPT ![o] = IF orders[o] = "applied" THEN IdleTab
                                ELSE [pc |-> "check", bal |-> acct.eq]]
    /\ UNCHANGED <<tick, rowVars, prov, poll, roll, paying, orders, countVars>>

\* ... and asks for the offer again; without one it throws, charge or not.
ResetCheck(o) ==
    /\ TabAt(o, "check")
    /\ \/ ResetEligible /\ TabTo(o, IF tab[o].bal = Start THEN "commit"
                                   ELSE "adjust")
       \/ ~ResetEligible /\ TabDone(o)
    /\ UNCHANGED <<tick, rowVars, prov, poll, roll, paying, orders, countVars>>

\* Faulty variant: the key of the adjustment is made up for each attempt.
ResetAdjustAnyKey(o) ==
    /\ TabAt(o, "adjust")
    /\ \E done, told \in BOOLEAN :
          /\ told => done
          /\ prov' = IF ~done THEN prov
                     ELSE [prov EXCEPT !.eq = @ + Start - tab[o].bal,
                                       !.seq = @ + 1,
                                       !.done = @ \union {o}]
          /\ IF told THEN TabTo(o, "commit") ELSE TabDone(o)
    /\ UNCHANGED <<tick, rowVars, poll, roll, paying, orders, countVars>>

\* The provider first: adjustSimBalance once per order, whatever the answer.
ResetAdjust(o) ==
    /\ TabAt(o, "adjust")
    /\ \E done, told \in BOOLEAN :
          /\ told => done
          /\ prov' = IF ~done \/ o \in prov.done THEN prov
                     ELSE [prov EXCEPT !.eq = @ + Start - tab[o].bal,
                                       !.seq = @ + 1,
                                       !.done = @ \union {o}]
          /\ IF told THEN TabTo(o, "commit") ELSE TabDone(o)
    /\ UNCHANGED <<tick, rowVars, poll, roll, paying, orders, countVars>>

\* Faulty variant: applied without the AccountReset row that makes it unique.
ResetCommitAgain(o) ==
    /\ TabAt(o, "commit")
    /\ acct' = [acct EXCEPT
          !.eq = Start, !.high = Start, !.thr = ComputeThreshold(Start),
          !.open = Start, !.wd = 0, !.status = "ACTIVE", !.until = 0,
          !.resets = @ + 1]
    /\ TabDone(o)
    /\ UNCHANGED <<tick, breaches, alarms, seen, prov, poll, roll, paying,
                   orders, countVars>>

\* One transaction; the AccountReset row is unique per order.
ResetCommit(o) ==
    /\ TabAt(o, "commit")
    /\ \/ orders[o] = "applied" /\ UNCHANGED <<acct, orders>>
       \/ /\ orders[o] # "applied"
          /\ orders' = [orders EXCEPT ![o] = "applied"]
          /\ acct' = [acct EXCEPT
                !.eq = Start, !.high = Start, !.thr = ComputeThreshold(Start),
                !.open = Start, !.wd = 0, !.status = "ACTIVE", !.until = 0,
                !.resets = @ + 1]
    /\ TabDone(o)
    /\ UNCHANGED <<tick, breaches, alarms, seen, prov, poll, roll, paying,
                   countVars>>

TabDies(o) ==
    /\ ~TabAt(o, "idle")
    /\ deaths < MaxDeaths
    /\ deaths' = deaths + 1
    /\ TabDone(o)
    /\ UNCHANGED <<tick, rowVars, prov, poll, roll, paying, orders, trades>>

TabStep(o) ==
    \/ ResetCharge(o) \/ ResetPaid(o) \/ ResetRead(o) \/ ResetCheck(o)
    \/ ResetAdjust(o) \/ ResetCommit(o)

-----------------------------------------------------------------------------
(* The clock, the trader, and the payout path as far as a reset asks; that *)
(* path also closes accounts, which is modelled in Payout.                 *)

Tick ==
    /\ tick < LastTick
    /\ tick' = tick + 1
    /\ UNCHANGED <<rowVars, prov, poll, roll, paying, resetVars, countVars>>

\* An open position moves with the market, disabled or not.
Trade ==
    /\ trades < MaxTrades
    /\ ~prov.off \/ ~prov.flat
    /\ trades' = trades + 1
    /\ \E m \in Moves, f \in BOOLEAN :
          prov' = [prov EXCEPT !.eq = @ + m, !.seq = @ + 1, !.flat = f]
    /\ UNCHANGED <<tick, rowVars, poll, roll, paying, resetVars, deaths>>

PayoutOpens ==
    /\ ~paying
    /\ acct.status = "ACTIVE" /\ ~acct.stale /\ acct.flat
    /\ paying' = TRUE
    /\ UNCHANGED <<tick, rowVars, prov, poll, roll, resetVars, countVars>>

\* It may also never end: nothing in the code leaves the state `failed', and
\* one that used up the lifetime cap bars a reset for good.
PayoutEnds ==
    /\ paying
    /\ paying' = FALSE
    /\ UNCHANGED <<tick, rowVars, prov, poll, roll, resetVars, countVars>>

-----------------------------------------------------------------------------

RiskNext ==
    \/ \E p \in Pollers : Fetch(p) \/ FetchFails(p) \/ PollStep(p) \/ PollDies(p)
    \/ RollRead \/ RollWrite
    \/ \E o \in Orders : ResetOffer(o) \/ TabStep(o) \/ TabDies(o)
    \/ Tick \/ Trade \/ PayoutOpens \/ PayoutEnds

RiskSpec == RiskInit /\ [][RiskNext]_riskVars

(***************************************************************************)
(* A handler that was started runs on, and the reconciliation job polls    *)
(* every minute.  That the provider answers again and again is assumed of  *)
(* the provider: strong fairness of Fetch.                                 *)
(***************************************************************************)
RiskFairness ==
    /\ \A p \in Pollers : WF_riskVars(PollStep(p)) /\ SF_riskVars(Fetch(p))
    /\ \A o \in Orders : WF_riskVars(TabStep(o))

RiskFairSpec == RiskSpec /\ RiskFairness

-----------------------------------------------------------------------------
(* Properties.                                                             *)

PollPCs == {"idle", "unreachable", "read", "record", "write", "mark",
            "daily", "daily_commit", "daily_alarm",
            "trailing", "trailing_commit", "trailing_alarm"}
TabPCs == {"idle", "charge", "paid", "apply", "check", "adjust", "commit"}
Statuses == {"ACTIVE", "DAILY_PAUSED", "BREACHED"}
AccountRow == [eq : Int, high : Int, thr : Int, sess : Sessions, open : Int,
               wd : Int, seq : Nat, stale : BOOLEAN, flat : BOOLEAN,
               status : Statuses,
               until : Nat, resets : Nat]
RowRead == [high : Int, thr : Int, open : Int, wd : Int, sess : Sessions]
Poll == [pc : PollPCs, eq : Int, seq : Nat, flat : BOOLEAN, sess : Sessions,
         old : BOOLEAN, ok : BOOLEAN, until : Nat, row : RowRead]

\* Every row, record and process has its declared shape (Prisma schema).
RiskTypeOK ==
    /\ tick \in 0 .. LastTick
    /\ acct \in AccountRow
    /\ prov \in [eq : Int, seq : Nat, flat : BOOLEAN, off : BOOLEAN,
                 done : SUBSET Orders]
    /\ seen \subseteq Nat
    /\ breaches \subseteq Kinds \X Sessions
    /\ alarms \subseteq {"DATA_STALE", "TRADING_DISABLE_FAILED"}
    /\ poll \in [Pollers -> Poll]
    /\ roll \in [pc : {"idle", "write"}, was : Statuses]
    /\ paying \in BOOLEAN
    /\ orders \in [Orders -> {"none", "pending", "charged", "paid", "applied"}]
    /\ tab \in [Orders -> [pc : TabPCs, bal : Int]]
    /\ trades \in 0 .. MaxTrades
    /\ deaths \in 0 .. MaxDeaths

Quiet == \A p \in Pollers : PollAt(p, "idle")

\* The high-water mark and the threshold never fall, whatever is polled,
\* replayed or rolled over, except by a paid reset (trailing.ts, resets.ts).
MarksOnlyRiseStep ==
    acct'.high < acct.high \/ acct'.thr < acct.thr
        => acct'.resets > acct.resets
MarksOnlyRise == [][MarksOnlyRiseStep]_acct

\* "A max drawdown breach never lifts": the only ways out of BREACHED are a
\* paid reset and a roll that had read the account before it was breached.
BreachIsTerminalStep ==
    acct.status = "BREACHED" /\ acct'.status # "BREACHED"
        => acct'.resets > acct.resets \/ roll.was = "DAILY_PAUSED"
BreachIsTerminal == [][BreachIsTerminalStep]_acct

\* Equity at or below the threshold is never passed over: as long as nobody
\* dies, whenever no poll is under way the breach has been recorded, the
\* loss limit's lockout of the same snapshot notwithstanding (ingestSnapshot).
BreachIsRecorded ==
    Quiet /\ deaths = 0 /\ acct.eq <= acct.thr
        => \E b \in breaches : b[1] = "TRAILING"

\* An enforcement the provider did not confirm is never taken for done: while
\* the account can still trade there, operations have been called.
UnconfirmedIsAlarmed ==
    Quiet /\ deaths = 0 /\ breaches # {} /\ ~prov.off
        => "TRADING_DISABLE_FAILED" \in alarms

\* A reset is applied once per order and never before its charge, however
\* often the customer retries and whatever dies or is lost in between.
ResetsArePaidOnce ==
    /\ acct.resets = Cardinality({o \in Orders : orders[o] = "applied"})
    /\ \A o \in prov.done : orders[o] \in {"paid", "applied"}

BestMove == CHOOSE m \in Moves : \A n \in Moves : n <= m

\* Whatever an account holds above its starting balance was earned by trading,
\* a reset and its retries included, until a second order has moved the balance
\* at the provider as well: its difference is computed from a row that may not
\* show the first (applyReset, adjustSimBalance).
ProfitIsEarned ==
    (\A o, q \in prov.done : o = q) => prov.eq <= Start + trades * BestMove

\* What the provider has reported becomes the row, as long as the account is
\* watched and no poll dies half-way (syncAccount, ingestSnapshot).
NewsIsApplied ==
    \A n \in 2 .. (MaxTrades + 1) :
        prov.seq >= n /\ acct.status \in Watched
            ~> acct.seq >= n \/ acct.status \notin Watched \/ deaths > 0

\* Equity at or below the threshold is a breach, also after a reset.
BreachIsEnforced ==
    Quiet /\ acct.eq <= acct.thr => acct.status = "BREACHED"

=============================================================================
