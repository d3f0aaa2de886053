------------------------------- MODULE Overview -------------------------------
(***************************************************************************)
(* The figures the owner and the traders are shown, and how they are read:  *)
(* src/domain/analytics/exposure.ts, src/server/views/admin-analytics.ts and *)
(* dashboard-view.ts.  A page is assembled from several queries, one after   *)
(* the other and outside a transaction, while trading, payouts and resets    *)
(* go on.                                                                   *)
(*                                                                         *)
(* What the services do to an account is reduced here to the rows a page     *)
(* reads: Risk and Payout model it in full.  A payout is of one unit of cash *)
(* and goes through its rows in the order payout-service.ts writes them.     *)
(***************************************************************************)
EXTENDS PayoutRules, RiskRules, Sums

CONSTANTS
    PolicyOf,       \* the lifetime cap policy of each account's plan: [kind, cap]
    PricePaid,      \* total of its order
    ResetFee,
    CashUnit,       \* cash of a payout; twice as much is deducted
    Moves,          \* by how much a snapshot may move the equity
    MaxChanges      \* bound on changes

Booked == DOMAIN PolicyOf
Null == -1          \* an amount that has no bound

ASSUME OverviewAssumption ==
    /\ {ResetFee, MaxChanges} \subseteq Nat /\ CashUnit \in Nat \ {0}
    /\ Moves \subseteq Int /\ IsFiniteSet(Booked)
    /\ \A a \in Booked : PolicyOf[a].cap \in Nat /\ PricePaid[a] \in Nat

VARIABLES
    books,      \* the rows of each account
    changes,
    page        \* the page being read: how far, and the rows read

overviewVars == <<books, changes, page>>

FreshBook ==
    [standing |-> "ACTIVE", equity |-> StartBalance, high |-> StartBalance,
     threshold |-> ComputeThreshold(StartBalance), start |-> StartBalance,
     withdrawn |-> 0,
     stage |-> "none",              \* of the payout under way
     consumed |-> 0, paid |-> 0, asked |-> 0, resets |-> 0]

NotRead == [of |-> "none", at |-> "start"]

OverviewInit ==
    /\ books = [a \in Booked |-> FreshBook]
    /\ changes = 0
    /\ page = NotRead

-----------------------------------------------------------------------------
(* exposure.ts.                                                             *)

Headroom(remaining, limit) ==
    LET left == NonNegative(remaining) IN
    [remaining |-> left,
     band |-> CASE limit <= 0 -> "COMFORTABLE"
                [] limit > 0 /\ 10 * left <= limit -> "CRITICAL"
                [] limit > 0 /\ 10 * left > limit /\ 4 * left <= limit -> "TIGHT"
                [] OTHER -> "COMFORTABLE"]

DrawdownHeadroom(b) == Headroom(b.equity - b.threshold, Drawdown)

DailyLossHeadroom(b) ==
    LET result == b.equity + b.withdrawn - b.start IN
    Headroom(DailyLossLimit - NonNegative(-result), DailyLossLimit)

\* lifetimeCapMinorFor: an undecided cap has no amount either.
LifetimeCapMinorFor(a) ==
    IF PolicyOf[a].kind = "APPROVED_AMOUNT" THEN PolicyOf[a].cap ELSE Null

RemainingLifetimeCap(cap, reserved, consumed) ==
    IF cap = Null THEN Null ELSE NonNegative(cap - reserved - consumed)

CheckLifetimeCapReached(cap, reserved, consumed) ==
    cap # Null /\ reserved + consumed >= cap

LiveStatuses == {"ACTIVE", "DAILY_PAUSED"}

FirmExposure(left, live) ==
    [open |-> SumOver([a \in live |-> NonNegative(left[a])], live),
     uncapped |-> {a \in live : left[a] = Null}]

\* firstWithdrawalProgress.
Target == StartBalance + Buffer + MinGross
FirstWithdrawal(balance) ==
    [bufferMet |-> balance >= StartBalance + Buffer,
     reached |-> balance >= Target,
     remaining |-> NonNegative(Target - balance),
     percent |-> Least(100, NonNegative(
                     ((balance - StartBalance) * 100) \div (Buffer + MinGross)))]

-----------------------------------------------------------------------------
(* What goes on meanwhile.                                                  *)

Reserved(b) == IF b.stage \in {"reserved", "deducted", "paid"} THEN CashUnit ELSE 0

Change(a, b) ==
    /\ changes < MaxChanges /\ page.at # "done"
    /\ books' = [books EXCEPT ![a] = b]
    /\ changes' = changes + 1
    /\ UNCHANGED page

\* A snapshot with a new equity, and the loss limits it may trip.
Observe(a) ==
    LET b == books[a] IN
    /\ b.standing \in LiveStatuses
    /\ \E d \in Moves :
           LET equity == b.equity + d
               high == NextHighWater(b.high, equity)
               threshold == NextThreshold(b.threshold, b.high, equity) IN
           Change(a, [b EXCEPT
               !.equity = equity, !.high = high, !.threshold = threshold,
               !.standing =
                   IF IsTrailingBreached(threshold, equity) THEN "BREACHED"
                   ELSE IF IsDailyLossBreached(b.start, b.withdrawn, equity)
                        THEN "DAILY_PAUSED" ELSE b.standing])

AskPayout(a) ==
    LET b == books[a] IN
    /\ b.standing = "ACTIVE" /\ b.stage = "none"
    /\ LifetimeCapMinorFor(a) # Null => b.consumed + CashUnit <= LifetimeCapMinorFor(a)
    /\ Change(a, [b EXCEPT !.stage = "reserved", !.asked = @ + 1])

\* A declined request gives its capacity back.
Decline(a) ==
    /\ books[a].stage = "reserved"
    /\ Change(a, [books[a] EXCEPT !.stage = "none"])

Deduct(a) ==
    /\ books[a].stage = "reserved"
    /\ Change(a, [books[a] EXCEPT !.stage = "deducted",
                     !.equity = @ - 2 * CashUnit, !.withdrawn = @ + 2 * CashUnit])

\* markPayoutPaid: the state first, the reservation in a later write.
MarkPaid(a) ==
    /\ books[a].stage = "deducted"
    /\ Change(a, [books[a] EXCEPT !.stage = "paid", !.paid = @ + CashUnit])

ConsumeCash(a) ==
    LET b == [books[a] EXCEPT !.stage = "none", !.consumed = @ + CashUnit]
        complete == CheckLifetimeCapReached(LifetimeCapMinorFor(a), 0, b.consumed) IN
    /\ books[a].stage = "paid"
    /\ Change(a, IF complete /\ b.standing # "BREACHED"
                 THEN [b EXCEPT !.standing = "CLOSED"] ELSE b)

BuyReset(a) ==
    LET b == books[a] IN
    /\ b.standing = "BREACHED" /\ b.stage = "none"
    /\ Change(a, [FreshBook EXCEPT !.consumed = b.consumed, !.paid = b.paid,
                     !.asked = b.asked, !.resets = b.resets + 1])

-----------------------------------------------------------------------------
(* getFirmOverview, one query at a time.                                    *)

\* What a page holds once these rows are read as well.
Adding(p, rows) ==
    [f \in DOMAIN p \cup DOMAIN rows |-> IF f \in DOMAIN rows THEN rows[f] ELSE p[f]]

\* Pages share nothing, so one is read in a behaviour.
Turn(of, from, to, rows) ==
    /\ page.of \in {"none", of} /\ page.at = from
    /\ page' = Adding(Adding(page, [of |-> of, at |-> to]), rows)
    /\ UNCHANGED <<books, changes>>

ReadAccounts == Turn("overview", "start", "reservations", [accounts |-> books])
ReadReservations ==
    Turn("overview", "reservations", "paid",
         [reserved |-> [a \in Booked |-> Reserved(books[a])],
          consumed |-> [a \in Booked |-> books[a].consumed]])
ReadPaid == Turn("overview", "paid", "requested", [paid |-> [a \in Booked |-> books[a].paid]])
ReadRequested ==
    Turn("overview", "requested", "resets", [requested |-> {a \in Booked : books[a].asked > 0}])
ReadResets == Turn("overview", "resets", "done", [resets |-> [a \in Booked |-> books[a].resets]])

\* Faulty variant: what was paid is read before what is reserved.
ReadOverviewPaidFirst ==
    \/ Turn("overview", "start", "accounts", [paid |-> [a \in Booked |-> books[a].paid]])
    \/ Turn("overview", "accounts", "reservations", [accounts |-> books])
    \/ Turn("overview", "reservations", "requested",
            [reserved |-> [a \in Booked |-> Reserved(books[a])],
             consumed |-> [a \in Booked |-> books[a].consumed]])
    \/ ReadRequested \/ ReadResets

ReadOverview ==
    ReadAccounts \/ ReadReservations \/ ReadPaid \/ ReadRequested \/ ReadResets

LiveIn(p) == {a \in Booked : p.accounts[a].standing \in LiveStatuses}
LeftIn(p) ==
    [a \in Booked |-> RemainingLifetimeCap(LifetimeCapMinorFor(a), p.reserved[a], p.consumed[a])]

\* What every live account in profit could take today.
Available(b) == b.equity - StartBalance - Buffer
Entitled(p) == {a \in LiveIn(p) : Available(p.accounts[a]) >= MinGross}

\* Every account of this model has a plan, and so a cohort, of its own.
FirmOverview(p) ==
    LET blown == {a \in Booked : p.accounts[a].standing = "BREACHED"} IN
    [exposure |-> FirmExposure(LeftIn(p), LiveIn(p)),
     eligible |-> Entitled(p),
     gross |-> SumOver([a \in Entitled(p) |-> Available(p.accounts[a])], Entitled(p)),
     requested |-> p.requested,
     payers |-> {a \in Booked : p.paid[a] > 0},
     blown |-> blown,
     inProfit |-> {a \in Booked : p.accounts[a].equity > StartBalance},
     resetRate |-> <<SumOver(p.resets, Booked), Cardinality(blown)>>,
     cohorts |-> [a \in Booked |->
         [revenue |-> PricePaid[a], cash |-> p.paid[a], net |-> PricePaid[a] - p.paid[a],
          blowups |-> Cardinality({a} \cap blown)]]]

\* getAccountRows: where an account stands, and what it cost and brought.
RowOf(a) ==
    LET b == books[a] IN
    [status |-> b.standing,
     drawdown |-> DrawdownHeadroom(b),
     dailyLoss |-> DailyLossHeadroom(b),
     left |-> RemainingLifetimeCap(LifetimeCapMinorFor(a), Reserved(b), b.consumed),
     payouts |-> b.asked,
     paid |-> PricePaid[a] + ResetFee * b.resets,
     cashPaid |-> b.paid]

\* getAccountDetail reads every row again after getAccountRows is done.
ReadRow(a) == Turn("detail", "start", "rows", [account |-> a, row |-> RowOf(a)])

ReadDetail ==
    /\ page.at = "rows"
    /\ LET now == RowOf(page.account)
           spent == now.paid - PricePaid[page.account] IN
       Turn("detail", "rows", "done",
            [resetSpend |-> spent,
             initialPaid |-> page.row.paid - spent,
             cashPaidOut |-> now.cashPaid,
             net |-> page.row.paid - now.cashPaid])

\* getDashboardAccount: the account row, then getPayoutView reads it again.
OpenDashboard(a) == Turn("dashboard", "start", "view", [account |-> a, row |-> books[a]])

Capacity(a, b) ==
    LET left == RemainingLifetimeCap(LifetimeCapMinorFor(a), Reserved(b), b.consumed)
        byAccount == AccountLimit(b.equity, b.threshold) IN
    FloorToIncrement(IF left = Null THEN byAccount ELSE Least(byAccount, 2 * left))

ReadPayoutView ==
    /\ page.at = "view"
    /\ LET a == page.account IN
       Turn("dashboard", "view", "done",
            [eligible |-> Capacity(a, books[a]) >= MinGross
                          /\ PolicyOf[a].kind # "UNRESOLVED",
             progress |-> FirstWithdrawal(page.row.equity),
             moved |-> books[a] # page.row])

OverviewNext ==
    \/ \E a \in Booked : \/ Observe(a) \/ AskPayout(a) \/ Decline(a) \/ Deduct(a)
                         \/ MarkPaid(a) \/ ConsumeCash(a) \/ BuyReset(a)
                         \/ ReadRow(a) \/ OpenDashboard(a)
    \/ ReadOverview
    \/ ReadDetail
    \/ ReadPayoutView

-----------------------------------------------------------------------------

\* The console and the risk engine agree on the edge: room is shown as used up
\* exactly when the engine calls it a breach, and capacity exactly when the
\* account is complete; a closed account has none left.
HeadroomIsExact ==
    \A a \in Booked :
        LET b == books[a]
            cap == LifetimeCapMinorFor(a)
            left == RemainingLifetimeCap(cap, Reserved(b), b.consumed) IN
        /\ DrawdownHeadroom(b).remaining = 0 <=> IsTrailingBreached(b.threshold, b.equity)
        /\ DailyLossHeadroom(b).remaining = 0
               <=> IsDailyLossBreached(b.start, b.withdrawn, b.equity)
        /\ IsTrailingBreached(b.threshold, b.equity) /\ Drawdown > 0
               => DrawdownHeadroom(b).band = "CRITICAL"
        /\ left = 0 <=> CheckLifetimeCapReached(cap, Reserved(b), b.consumed)
        /\ b.standing = "CLOSED" => left = 0

\* However trading and payouts move between the queries, the overview never
\* understates what the firm may still owe: each unit of a live account's cap
\* is open, in flight or shown as paid.  Accounts without an amount are named,
\* every payer is among those who asked, and the liability covers whatever any
\* account could have asked for.
OverviewCoversCaps ==
    page.of = "overview" /\ page.at = "done" =>
        LET f == FirmOverview(page)
            bounded == LiveIn(page) \ f.exposure.uncapped IN
        /\ f.exposure.uncapped =
               {a \in LiveIn(page) : PolicyOf[a].kind # "APPROVED_AMOUNT"}
        /\ f.exposure.open
             + SumOver([a \in bounded |-> page.paid[a] + page.reserved[a]], bounded)
           >= SumOver([a \in bounded |-> PolicyOf[a].cap], bounded)
        /\ f.payers \subseteq f.requested
        /\ \A a \in LiveIn(page) :
               LET most == Capacity(a, page.accounts[a]) IN
               most >= MinGross => /\ a \in f.eligible
                                   /\ Available(page.accounts[a]) >= most

\* The account page may be behind, but never flatters: its first purchase is
\* not overstated, its parts add up to its total, and the firm's net is not
\* above what it was when the row was read.
DetailNeverFlatters ==
    page.of = "detail" /\ page.at = "done" =>
        /\ page.initialPaid <= PricePaid[page.account]
        /\ page.initialPaid + page.resetSpend = page.row.paid
        /\ page.net <= page.row.paid - page.row.cashPaid

\* The progress bar is full exactly at the balance from which a withdrawal can
\* be made, and a trader told that one is possible is shown to have got there,
\* unless the account moved while the page was read.
ProgressIsTrue ==
    page.of = "dashboard" /\ page.at = "done" =>
        LET p == page.progress IN
        /\ p.percent = 100 <=> p.reached
        /\ p.remaining = 0 <=> p.reached
        /\ page.eligible /\ ~page.moved => p.reached /\ p.bufferMet
=============================================================================
