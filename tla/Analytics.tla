------------------------------- MODULE Analytics -------------------------------
(***************************************************************************)
(* What the console derives from closed trades and customer records:        *)
(* trading statistics (src/domain/analytics/trade-stats.ts) and correlated   *)
(* accounts (src/domain/analytics/correlation.ts).  Trades close, and        *)
(* customers correct their address, one at a time and in any order; both     *)
(* reports are drawn from the rows as the database happens to return them.   *)
(* Instants are seconds.                                                    *)
(***************************************************************************)
EXTENDS Sequences, SequencesExt, Sums

CONSTANTS
    Blotter,        \* trades that may close
    Owners,         \* owner of each account
    Addresses,      \* what a profile may hold: <<line, postal code, country>>
    ReportZone,     \* hours the report's zone is ahead of UTC
    ToleranceSeconds, PriceTolerance, MinimumAccounts,
    MaxRows         \* bound on trades and corrected addresses together

Blank == <<"", "plain">>    \* a part of an address nobody has filled in
OwnedAccounts == DOMAIN Owners
People == {Owners[a] : a \in OwnedAccounts}
Sides == {"LONG", "SHORT"}

ASSUME AnalyticsAssumption ==
    /\ {ToleranceSeconds, PriceTolerance, MaxRows} \subseteq Nat
    /\ MinimumAccounts \in Nat \ {0, 1} /\ ReportZone \in Int
    /\ IsFiniteSet(OwnedAccounts)
    /\ \A t \in Blotter : /\ t.account \in OwnedAccounts /\ t.side \in Sides
                          /\ {t.opened, t.hold, t.fee} \subseteq Nat
                          /\ {t.pnl, t.price} \subseteq Int
    /\ \A t, u \in Blotter : t.id = u.id => t = u

VARIABLES
    tape,       \* the closed trades, in the order their rows come
    address,    \* the address in each person's profile
    moves

analyticsVars == <<tape, address, moves>>

NowhereYet == <<Blank, Blank, Blank>>

AnalyticsInit ==
    /\ tape = <<>>
    /\ address = [p \in People |-> NowhereYet]
    /\ moves = 0

-----------------------------------------------------------------------------
(* Statistics.  "none" is the null of a mean over nothing.                  *)

\* Division of big integers rounds toward zero.
Quotient(n, d) == IF n >= 0 THEN n \div d ELSE -((-n) \div d)
Pnl == [t \in Blotter |-> t.pnl]
Fee == [t \in Blotter |-> t.fee]
MeanMinor(trades) ==
    IF trades = {} THEN "none" ELSE Quotient(SumOver(Pnl, trades), Cardinality(trades))

ComputeTradeStats(trades) ==
    LET won == {t \in trades : t.pnl > 0}
        lost == {t \in trades : t.pnl < 0} IN
    [trades |-> Cardinality(trades),
     wins |-> Cardinality(won),
     losses |-> Cardinality(lost),
     scratches |-> Cardinality({t \in trades : t.pnl = 0}),
     net |-> SumOver(Pnl, trades),
     grossProfit |-> SumOver(Pnl, won),
     grossLoss |-> -SumOver(Pnl, lost),
     commission |-> SumOver(Fee, trades),
     expectancy |-> MeanMinor(trades),
     averageWin |-> MeanMinor(won),
     averageLoss |-> MeanMinor(lost),
     largestWin |-> IF won = {} THEN "none" ELSE Max({t.pnl : t \in won}),
     largestLoss |-> IF lost = {} THEN "none" ELSE Min({t.pnl : t \in lost})]

Hour(t) == (t.opened \div 3600 + ReportZone) % 24

SplitBy(key, trades) ==
    [k \in {key[t] : t \in trades} |->
        ComputeTradeStats({t \in trades : key[t] = k})]
BySide(trades) ==
    [s \in Sides |-> ComputeTradeStats({t \in trades : t.side = s})]
BySymbol(trades) == SplitBy([t \in trades |-> t.symbol], trades)
ByHour(trades) == SplitBy([t \in trades |-> Hour(t)], trades)

DurationBounds == <<60, 300, 1800, 7200>>
DurationDistribution(trades) ==
    [b \in 1..5 |->
        Cardinality({t \in trades :
            /\ t.hold > IF b = 1 THEN 0 ELSE DurationBounds[b - 1]
            /\ b < 5 => t.hold <= DurationBounds[b]})]

-----------------------------------------------------------------------------
(* Correlated accounts.                                                     *)

\* The stable sort by opening time: each row stands after those that come before it.
Ahead(rows, i) ==
    {j \in DOMAIN rows : \/ rows[j].opened < rows[i].opened
                         \/ rows[j].opened = rows[i].opened /\ j < i}
ByOpening(rows) ==
    [k \in DOMAIN rows |->
        rows[CHOOSE i \in DOMAIN rows : Cardinality(Ahead(rows, i)) = k - 1]]

Matches(anchor, t) ==
    /\ t.opened - anchor.opened <= ToleranceSeconds
    /\ t.account # anchor.account
    /\ t.symbol = anchor.symbol /\ t.side = anchor.side
    /\ t.price - anchor.price \in -PriceTolerance..PriceTolerance

\* The accounts of the trades, whose first is the anchor's.
Accounts(trades) == {t.account : t \in trades}

\* What the anchor at place k claims, which is nothing unless it makes a group.
Gathered(sorted, claimed, k) ==
    LET anchor == sorted[k]
        later == {sorted[j] : j \in {j \in DOMAIN sorted : j > k}}
        members == {anchor} \cup {t \in later \ claimed : Matches(anchor, t)} IN
    IF anchor \in claimed \/ Cardinality(Accounts(members)) < MinimumAccounts
    THEN {} ELSE members

\* The groups, each at the place of its anchor.
FindMatchedTrades(rows) ==
    LET sorted == ByOpening(rows)
        Claimed[k \in 0..Len(rows)] ==
            IF k = 0 THEN {}
            ELSE LET claimed == Claimed[k - 1] IN claimed \cup Gathered(sorted, claimed, k)
        At(k) == Gathered(sorted, Claimed[k - 1], k) IN
    [k \in {i \in DOMAIN rows : At(i) # {}} |-> [anchor |-> sorted[k], members |-> At(k)]]

\* Union-find: the root of every account, after the groups so far.
Joined(root, group) ==
    LET old == {root[a] : a \in Accounts(group.members)} IN
    [a \in OwnedAccounts |->
        IF root[a] \in old THEN root[group.anchor.account] ELSE root[a]]

\* A cluster is made of the groups that share a root.
BuildClusters(groups) ==
    LET last == Max({0} \cup DOMAIN groups)
        Roots[k \in 0..last] ==
            IF k = 0 THEN [a \in OwnedAccounts |-> a]
            ELSE IF k \in DOMAIN groups THEN Joined(Roots[k - 1], groups[k])
            ELSE Roots[k - 1]
        RootOf(k) == Roots[last][groups[k].anchor.account] IN
    {[k \in {i \in DOMAIN groups : RootOf(i) = r} |-> groups[k]] :
        r \in {RootOf(k) : k \in DOMAIN groups}}

Members(cluster) ==
    UNION {Accounts(cluster[i].members) : i \in DOMAIN cluster}
MatchedTrades(groups) ==
    SumOver([i \in DOMAIN groups |-> Cardinality(groups[i].members)], DOMAIN groups)

\* What a profile comes to once case and blanks are folded and what is empty
\* is left out; a part is <<words, how they are typed>>.
Words(part) == IF part[1] = "" THEN <<>> ELSE <<part[1]>>
NormaliseAddress(parts) == Words(parts[1]) \o Words(parts[2]) \o Words(parts[3])

SharedBy(key, none) ==
    {{a \in OwnedAccounts : key[a] = v} : v \in {key[a] : a \in OwnedAccounts} \ none}
FindOwnerSignals ==
    {s \in SharedBy(Owners, {})
           \cup SharedBy([a \in OwnedAccounts |-> NormaliseAddress(address[Owners[a]])], {<<>>}) :
        Cardinality(s) > 1}

-----------------------------------------------------------------------------

CloseTrade ==
    /\ Len(tape) + moves < MaxRows
    /\ \E t \in Blotter \ ToSet(tape) : tape' = Append(tape, t)
    /\ UNCHANGED <<address, moves>>

CorrectAddress ==
    /\ Len(tape) + moves < MaxRows
    /\ \E p \in People, new \in Addresses : address' = [address EXCEPT ![p] = new]
    /\ moves' = moves + 1
    /\ UNCHANGED tape

AnalyticsNext == CloseTrade \/ CorrectAddress

-----------------------------------------------------------------------------

\* The parts of a split report add up to the whole.
Partition(parts, whole) ==
    \A figure \in {"trades", "wins", "losses", "net", "commission"} :
        SumOver([k \in DOMAIN parts |-> parts[k][figure]], DOMAIN parts) = whole[figure]

\* Statistics agree with themselves and with every breakdown shown beside
\* them: no trade is in two rows of a table or in none, and no average lies
\* outside the figures it averages.  A trade closed in the second it was
\* opened is in no bucket of the duration table.
StatsAddUp ==
    LET trades == ToSet(tape)
        whole == ComputeTradeStats(trades)
        lasting == Cardinality({t \in trades : t.hold > 0}) IN
    /\ whole.wins + whole.losses + whole.scratches = whole.trades
    /\ whole.net = whole.grossProfit - whole.grossLoss
    /\ Partition(BySide(trades), whole)
    /\ Partition(BySymbol(trades), whole)
    /\ Partition(ByHour(trades), whole)
    /\ DOMAIN ByHour(trades) \subseteq 0..23
    /\ SumOver(DurationDistribution(trades), 1..5) = lasting
    /\ whole.wins > 0 => 0 < whole.averageWin /\ whole.averageWin <= whole.largestWin
    /\ whole.losses > 0 => 0 > whole.averageLoss /\ whole.averageLoss >= whole.largestLoss

\* No trade is evidence twice, and every one named in a group really matches
\* the trade that group hangs on.
EvidenceIsSound ==
    LET groups == FindMatchedTrades(tape) IN
    \A i \in DOMAIN groups :
        LET g == groups[i] IN
        /\ \A t \in g.members \ {g.anchor} :
               Matches(g.anchor, t) /\ t.opened >= g.anchor.opened
        /\ \A j \in DOMAIN groups \ {i} : g.members \cap groups[j].members = {}
        /\ Cardinality(Accounts(g.members)) >= MinimumAccounts

\* With the settings the console uses, two accounts that open the same position
\* in the same second are always reported together, whatever else was traded
\* around them and in whatever order the rows come (correlation.ts:4-7); an
\* account is in one cluster at most; and a cluster has no part that nothing ties
\* to the rest.
CopiersAreTogether ==
    LET groups == FindMatchedTrades(tape)
        clusters == BuildClusters(groups) IN
    /\ PriceTolerance = 0 /\ MinimumAccounts = 2 =>
       \A t, u \in ToSet(tape) :
           (Matches(t, u) /\ t.opened = u.opened) =>
               \E c \in clusters : {t.account, u.account} \subseteq Members(c)
    /\ \A c, d \in clusters : c # d => Members(c) \cap Members(d) = {}
    /\ \A c \in clusters : \A part \in (SUBSET Members(c)) \ {{}, Members(c)} :
           \E i \in DOMAIN c : /\ Accounts(c[i].members) \cap part # {}
                               /\ ~(Accounts(c[i].members) \subseteq part)
    /\ SumOver([c \in clusters |-> MatchedTrades(c)], clusters) = MatchedTrades(groups)

\* Two people whose addresses differ only in how they are typed are linked,
\* and a person with no address is linked to nobody by it.
SharedAddressIsSeen ==
    \A a, b \in OwnedAccounts :
        LET here == address[Owners[a]]
            there == address[Owners[b]]
            empty == \A i \in 1..3 : here[i][1] = ""
            linked == \E s \in FindOwnerSignals : {a, b} \subseteq s IN
        /\ (/\ a # b /\ ~empty
            /\ \A i \in 1..3 : here[i][1] = there[i][1]) => linked
        /\ (empty /\ Owners[a] # Owners[b]) => ~linked
=============================================================================
