--------------------------------- MODULE Books ---------------------------------
(***************************************************************************)
(* The four ledgers: src/domain/ledger, src/server/services/ledger-service  *)
(* and the net position the admin console derives from them.  Sales,        *)
(* rewards and resets post entries under idempotency keys, in any order and *)
(* again on a retry; a posted entry may be compensated.                     *)
(*                                                                         *)
(* An entry moves an amount on every account, debit minus credit; the       *)
(* accounts without a line move by zero.                                    *)
(***************************************************************************)
EXTENDS Sequences, Sums

CONSTANTS
    Sales, Rewards, Refills,    \* orders, payout requests, paid resets
    SaleTerms,                  \* [fee, addon, discount, tax, charge] of a sale
    Grosses,                    \* gross withdrawals that may be asked for
    Deltas,                     \* balance adjustments of a reset
    MaxCorrections              \* bound on compensating entries

ASSUME BooksAssumption ==
    /\ \A t \in SaleTerms : {t.fee, t.addon, t.discount, t.tax, t.charge} \subseteq Nat
    /\ Grosses \subseteq Nat \ {0} /\ Deltas \subseteq Int
    /\ MaxCorrections \in Nat
    /\ IsFiniteSet(Sales) /\ IsFiniteSet(Rewards) /\ IsFiniteSet(Refills)
    /\ Sales \intersect Rewards = {}      \* the keys name what they belong to

VARIABLES
    sale,       \* the terms of each paid order
    reward,     \* each payout request: none, owed or paid, and its gross amount
    refill,     \* whether each reset was applied, and its adjustment
    entries     \* the posted entries

booksVars == <<sale, reward, refill, entries>>

NotSold == [fee |-> 0, addon |-> 0, discount |-> 0, tax |-> 0, charge |-> 0]
NoReward == [at |-> "none", gross |-> 0]
NotReset == [done |-> FALSE, by |-> 0]

BooksInit ==
    /\ sale = [s \in Sales |-> NotSold]
    /\ reward = [r \in Rewards |-> NoReward]
    /\ refill = [x \in Refills |-> NotReset]
    /\ entries = {}

-----------------------------------------------------------------------------
(* The chart of accounts and the entries.                                  *)

Chart ==
    [SIMULATION |-> {"SIM_ACCOUNT_EQUITY", "SIM_PROGRAM_COUNTERPARTY"},
     CASH |-> {"CASH_PROCESSOR_HELD", "CASH_AVAILABLE", "CASH_RESERVES",
               "CASH_TRADER_REWARDS_PAID", "CASH_REFUNDS_PAID", "CASH_CHARGEBACKS",
               "CASH_PROCESSOR_FEES_PAID", "CASH_VENDOR_COSTS_PAID",
               "CASH_ACQUISITION_COSTS_PAID"},
     OBLIGATION |-> {"OBLIGATION_REWARDS_PAYABLE", "OBLIGATION_CAPACITY_RESERVED",
                     "OBLIGATION_EQUITY"},
     REVENUE |-> {"REVENUE_ACCOUNT_FEES", "REVENUE_ADDON_FEES", "REVENUE_RECEIVABLE",
                  "CONTRA_REVENUE_DISCOUNTS", "CONTRA_REVENUE_REFUNDS",
                  "COST_PROCESSOR_FEES", "COST_ADDON_DELIVERY", "COST_PROVIDER_FEES"}]
Ledgers == DOMAIN Chart
AccountCodes == UNION {Chart[l] : l \in Ledgers}

Debit(a, n) == [b \in AccountCodes |-> IF b = a THEN n ELSE 0]
Credit(a, n) == Debit(a, -n)
f ++ g == [a \in AccountCodes |-> f[a] + g[a]]
Draft(k, l, lines) == [key |-> k, ledger |-> l, reverses |-> <<>>, lines |-> lines]

\* assertBalanced, assertNoSimulatedRevenue: an entry that fails aborts the
\* transaction that posts it.
Valid(e) ==
    /\ \E a \in AccountCodes : e.lines[a] # 0
    /\ SumOver(e.lines, AccountCodes) = 0
    /\ \A a \in AccountCodes : e.lines[a] # 0 => a \in Chart[e.ledger]

PurchaseEntries(s, t) ==
    {Draft(<<s, "revenue">>, "REVENUE",
        Debit("REVENUE_RECEIVABLE", t.fee + t.addon - t.discount)
        ++ Debit("CONTRA_REVENUE_DISCOUNTS", t.discount)
        ++ Credit("REVENUE_ACCOUNT_FEES", t.fee)
        ++ Credit("REVENUE_ADDON_FEES", t.addon)),
     \* Net and fee of the processor together are what was charged.
     Draft(<<s, "cash">>, "CASH",
        Debit("CASH_PROCESSOR_HELD",
              t.fee + t.addon - t.discount + t.tax - t.charge)
        ++ Debit("CASH_PROCESSOR_FEES_PAID", t.charge)
        ++ Credit("CASH_AVAILABLE", t.fee + t.addon - t.discount + t.tax))}

PayoutEntries(r, gross) ==
    LET half == gross \div 2 IN
    {Draft(<<r, "sim">>, "SIMULATION",
        Debit("SIM_PROGRAM_COUNTERPARTY", gross) ++ Credit("SIM_ACCOUNT_EQUITY", gross)),
     Draft(<<r, "cash">>, "CASH",
        Debit("CASH_TRADER_REWARDS_PAID", half) ++ Credit("CASH_AVAILABLE", half)),
     Draft(<<r, "obligation">>, "OBLIGATION",
        Debit("OBLIGATION_REWARDS_PAYABLE", half) ++ Credit("OBLIGATION_EQUITY", half))}

ObligationEntry(r, gross) ==
    Draft(<<r, "accrue">>, "OBLIGATION",
        Debit("OBLIGATION_EQUITY", gross \div 2)
        ++ Credit("OBLIGATION_REWARDS_PAYABLE", gross \div 2))

AdjustmentEntry(x, n) ==
    Draft(<<x, "reset-sim">>, "SIMULATION",
        Debit("SIM_ACCOUNT_EQUITY", n) ++ Credit("SIM_PROGRAM_COUNTERPARTY", n))

\* Faulty variant: the correction repeats the entry.
CompensatingEntryRepeated(e) ==
    [e EXCEPT !.key = Append(e.key, "compensate"), !.reverses = e.key]

CompensatingEntry(e) ==
    [key |-> Append(e.key, "compensate"), ledger |-> e.ledger, reverses |-> e.key,
     lines |-> [a \in AccountCodes |-> -e.lines[a]]]

-----------------------------------------------------------------------------

\* postEntry, postEntries: an entry whose key is taken is not posted again.
PostEntries(drafts) ==
    /\ \A e \in drafts : Valid(e)
    /\ entries' = entries \union
          {e \in drafts : \A f \in entries : f.key # e.key}

\* markOrderPaid, for a first confirmation and for one of another payment of the
\* same order, whose processor fee may differ.
Sell(s) ==
    \E t \in SaleTerms :
        /\ sale[s] = NotSold \/ [t EXCEPT !.charge = sale[s].charge] = sale[s]
        \* debit refuses a negative amount: of revenue, of cash net of the fee.
        /\ t.fee + t.addon >= t.discount
        /\ t.fee + t.addon - t.discount + t.tax >= t.charge
        /\ PostEntries(PurchaseEntries(s, t))
        /\ sale' = [sale EXCEPT ![s] = IF @ = NotSold THEN t ELSE @]
        /\ UNCHANGED <<reward, refill>>

Owe(r) ==
    /\ reward[r].at \in {"none", "owed"}
    /\ \E g \in Grosses :
          /\ reward[r].at = "owed" => g = reward[r].gross
          /\ PostEntries({ObligationEntry(r, g)})
          /\ reward' = [reward EXCEPT ![r] = [at |-> "owed", gross |-> g]]
    /\ UNCHANGED <<sale, refill>>

\* buildPayoutEntries refuses a gross amount whose half is not exact.
PayReward(r) ==
    /\ reward[r].at \in {"owed", "paid"}
    /\ reward[r].gross % 2 = 0
    /\ PostEntries(PayoutEntries(r, reward[r].gross))
    /\ reward' = [reward EXCEPT ![r].at = "paid"]
    /\ UNCHANGED <<sale, refill>>

\* The part of applyReset that posts: a delta of zero posts nothing.
Refill(x) ==
    /\ refill[x] = NotReset
    /\ \E n \in Deltas :
          /\ IF n = 0 THEN UNCHANGED entries ELSE PostEntries({AdjustmentEntry(x, n)})
          /\ refill' = [refill EXCEPT ![x] = [done |-> TRUE, by |-> n]]
    /\ UNCHANGED <<sale, reward>>

Corrections == {e \in entries : e.reverses # <<>>}

\* A correction by hand; no handler makes one.
Compensate ==
    /\ Cardinality(Corrections) < MaxCorrections
    /\ \E e \in entries \ Corrections : PostEntries({CompensatingEntry(e)})
    /\ UNCHANGED <<sale, reward, refill>>

BooksNext ==
    \/ \E s \in Sales : Sell(s)
    \/ \E r \in Rewards : Owe(r) \/ PayReward(r)
    \/ \E x \in Refills : Refill(x)
    \/ Compensate

-----------------------------------------------------------------------------
(* What is read back.                                                      *)

\* accountBalances, verifyLedgersBalance.
Balance(a, posted) == SumOver([e \in posted |-> e.lines[a]], posted)
LedgerNet(l) == SumOver([a \in AccountCodes |-> Balance(a, entries)], Chart[l])

\* ledgerTotal of the admin console: debits and credits are added up.
LedgerTotal(a) ==
    SumOver([e \in entries |-> IF e.lines[a] < 0 THEN -e.lines[a] ELSE e.lines[a]], entries)

\* Order.status as markOrderPaid writes it.
OrderStatus(s) == IF sale[s] = NotSold THEN "PENDING_PAYMENT" ELSE "PAID"

\* netPositionSince: orders are read with the status "paid", which none has.
NetPosition ==
    LET fees == LedgerTotal("REVENUE_ACCOUNT_FEES") + LedgerTotal("REVENUE_ADDON_FEES")
        ordered == SumOver([s \in Sales |-> sale[s].fee + sale[s].addon - sale[s].discount
                                     + sale[s].tax], {s \in Sales : OrderStatus(s) = "paid"}) IN
    [paid |-> LedgerTotal("CASH_TRADER_REWARDS_PAID"),
     net |-> fees - LedgerTotal("CASH_TRADER_REWARDS_PAID")
                  - LedgerTotal("CASH_PROCESSOR_FEES_PAID"),
     unreconciled |-> ordered # fees]

-----------------------------------------------------------------------------
(* Properties.                                                             *)

Reversed == {e.reverses : e \in Corrections}
Standing == {e \in entries \ Corrections : e.key \notin Reversed}
OwedIn(S) ==
    SumOver([r \in Rewards |-> IF reward[r].at \in S THEN reward[r].gross \div 2 ELSE 0],
            Rewards)
Adjusted == SumOver([x \in Refills |-> refill[x].by], Refills)
Receivable ==
    SumOver([s \in Sales |-> sale[s].fee + sale[s].addon - sale[s].discount], Sales)

\* Four ledgers, written by four handlers and their retries, say one thing.
\* Each balances to zero; what is paid in cash is half of what was deducted in
\* simulated units and is no longer owed, and none of it is revenue; revenue is
\* fees less discounts whatever the processor took; a compensated entry counts
\* as if it had never been posted, and retries count once.
BooksAgree ==
    /\ \A l \in Ledgers : LedgerNet(l) = 0
    /\ \A a \in AccountCodes : Balance(a, entries) = Balance(a, Standing)
    /\ Corrections = {} =>
          /\ Balance("CASH_TRADER_REWARDS_PAID", entries) = OwedIn({"paid"})
          /\ -Balance("OBLIGATION_REWARDS_PAYABLE", entries) = OwedIn({"owed"})
          /\ Balance("SIM_PROGRAM_COUNTERPARTY", entries) = 2 * OwedIn({"paid"}) - Adjusted
          /\ Balance("REVENUE_RECEIVABLE", entries) = Receivable
          /\ NetPosition.paid = OwedIn({"paid"})

=============================================================================
