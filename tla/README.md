# Verification of the simulated-funding platform

TLA+ specifications of this repository's own logic, the TLC runs that check them on small instances, and TLAPS proofs of the properties that matter most. Every definition is translated from the source; `PROJECT.json` maps each of them to its lines, lists the components, the hazards with the properties that cover them, the runs and the theorems.

## 1. The system

Customers buy a simulated trading account (a plan), trade it at an external provider, and withdraw simulated profit: a *gross* withdrawal is deducted from the simulated balance and half of it is paid to the customer in cash. Business rules are pure functions in `src/domain`; `src/server/services` applies them to database rows in small transactions; work that calls an outside system is a row in a job table which worker processes claim.

| Component | State it keeps | Operations | What makes it correct | Module |
|---|---|---|---|---|
| Payout saga (`payout-service.ts`) | requests, reservations | request, validate, submit, record outcome, reconcile, close at cap | cash bounded by the caps, deduction before cash, books that say what happened, every request decided | `Payout` |
| Payout capacity (`reservation.ts`) | reservations | reserve, consume, release | caps hold, settled is final | `Reservation` |
| Polling and loss enforcement (`risk-service.ts`, `handlers.ts`) | account row, provider events, risk events | sync, ingest, enforce, mark stale, roll the session | marks only rise, a breach is recorded, enforced and terminal, news arrives | `Risk` |
| Resets (`reset-service.ts`) | `AccountReset`, account row | offer, charge, adjust, apply | applied once per paid order, makes no profit | `Risk` |
| Checkout (`checkout-service.ts`) | quotes, acceptances, orders, charges, payments | quote, sign, order, charge, mark paid | charged what was signed, coupons within limits, paid once | `Checkout` |
| Job queue (`server/jobs`) | `Job` rows | enqueue, claim, complete, fail, recover | at least once, one row per key, bounded attempts | `Provisioning`, `Payout` |
| Provisioning (`provisioning-service.ts`) | `ProvisioningJob`, `TradingAccount` | run, retry, verify limits, re-queue | one verified account per order, retries end | `Provisioning` |
| Credentials (`credential-service.ts`) | one credential per account | issue, view, acknowledge, re-issue | readable until it was read | `Credentials` |
| Ledger (`domain/ledger`, `ledger-service.ts`) | entries and lines | build, post, compensate | four ledgers that balance and agree | `Books` |
| Catalog (`catalog-service.ts`) | plan versions | publish, revise, retire, sell | a sold account keeps its terms | `Catalog` |
| Pricing, coupons, money (`domain/pricing`, `catalog`, `money`) | none | quote, allocate, refund, reset price | no cent appears or vanishes | `Pricing` |
| Promotions (`domain/promotions`) | drafts (tests only) | evaluate, override, choose | the worst case stays below the ceiling | `Promotions` |
| Exposure (`domain/risk/exposure.ts`) | none | evaluate a new order | fills never exceed the ceiling | `Exposure` |
| Calendar (`domain/risk/session.ts`) | none | label, start, end, reopen | sessions tile the time over both clock changes | `Calendar` |
| Accounts of people (`api/auth`, `domain/customer`) | user, profile, sessions | register, sign in and out, save the profile | one user per address, the lock works | `Access` |
| Reports (`domain/analytics`, `admin-analytics.ts`, `dashboard-view.ts`) | none | statistics, correlations, overview, detail | figures of one page agree although they were read one after the other | `Analytics`, `Overview` |
| Forecasts (`domain/economics`, `stress.ts`) | none | sensitivity, scenarios | break-even figures are tight | `Forecast` |
| Broker adapter (`tradovate.ts`, `types.ts`) | access token | provision, configure and read back, flatten, lock | what is reported as done is done | `Broker` |
| Settings (`config.ts`, `registry.ts`, `middleware.ts`) | environment of a process | start, choose adapters, launch checklist | no mock behind real orders | `Site` |

### How the parts interact

* `createOrder` writes the order, the coupon redemption and the provisioning job in one transaction; `markOrderPaid` writes payment, order, postings and the `PROVISION_ACCOUNT` job in another. A worker runs `runProvisioning`, which ends by fulfilling the order and issuing the sign-in. `Fulfilment` composes the three modules along these transactions.
* `requestPayout` writes request, reservation and a `SUBMIT_PAYOUT` job. A worker runs `validateAndApprove`, which enqueues a second job that runs `submitPayout`: it deducts at the provider and then locally. No payment rail is configured: `markPayoutPaid`, `markPayoutOutcomeUnknown` and `resolveReconciliation` are for a person, and only tests call them.
* Every minute a job calls `syncAccount` for each ACTIVE or DAILY_PAUSED account. It overwrites the balance that the payout path decides on and also writes; closing at the cap, loss enforcement, rolls and resets all write `tradingStatus`.

### What is hard

Handlers are sequences of awaits over shared rows; most read a row, decide, and write later without a condition; workers die between awaits and their claims are recovered after five minutes, dead or not; providers apply a call and the answer is lost; people submit twice, in two tabs, or while a deploy changes prices and rules; reports are assembled from several queries outside a transaction. `PROJECT.json` lists 40 hazards at their lines.

## 2. Modules

| Module | Models |
|---|---|
| `PayoutStates`, `PayoutRules`, `RiskRules`, `CashTotal` | the payout table, remaining capacity and maximum gross, trailing threshold and session loss, `sumWhere` |
| `Sums` | the sum of a function over a finite set, as a fold of the community modules |
| `Reservation` | abstract specification of the cash capacity |
| `Payout`, `PayoutInvariant`, `MCPayout` | the saga with callers, workers, operators, poller, provider and rail; the inductive invariant of its proofs; instances |
| `Risk`, `MCRisk` | one account: pollers, the session roll, trading, and the reset with its payment and tabs |
| `Checkout`, `MCCheckout` | pages, calls of `completeCheckout`, coupon, deploys |
| `ProvisioningStates`, `Provisioning`, `Credentials`, `Fulfilment`, `MCFulfilment` | the job table and `runProvisioning` await by await; the sign-in; the composition with `Checkout` |
| `Exposure`, `Calendar`, `Books`, `Pricing`, `Promotions`, `Catalog`, `Access`, `Analytics`, `Overview`, `Forecast`, `Broker`, `Site` | one topic each, see the table above; every one is a machine of its own, not a list of functions |
| `Rules`, `MCRules` | the sum of these topics and `Reservation`: a behaviour picks one topic and follows it, the others rest. The topics share no state, so nothing is lost, and TLC explores the sum of their states instead of the product |
| `ReservationProofs`, `SumProofs`, `TotalsProofs`, `PayoutProofs`, `RiskProofs`, `CheckoutProofs`, `FulfilmentProofs`, `RulesProofs` | theorems |

One action is one transaction or one read between two awaits. Definitions that begin with "Faulty variant" are not part of the model: each is a plausible bug, stands before the definition it would replace, and documents which property would notice it.

### How `Payout` corresponds to the code

One account. A request row is named by the call that creates it, so `state[c] = NoRow` until then.

| Variable | In the code |
|---|---|
| `acct` | `TradingAccount` (balance, high-water mark, threshold, session fields, `lastSequence`, `dataStale`, `tradingStatus`), whether the latest `PositionSnapshot` is flat, and `paused`: the sessions with a DAILY_LOSS_BREACH event |
| `prov` | the provider's account; `done` is its set of applied adjustment keys |
| `call`, `worker`, `oper`, `sync` | the next await of each running handler and what it has read |
| `state`, `resv`, `rday` | `PayoutRequest.state`, `PayoutReservation.status` and `.sessionDate` |
| `jobs` | the two `SUBMIT_PAYOUT` rows of a request: `payout-validate:` and `payout-submit:` keys |
| `ledger` | entries by kind: `accrue` (obligation), `sim`, `cash`, `settle` |
| `rail` | what really happened to the cash: outside the program |

`RequestRead`, `RequestValidate` and `RequestReserve` are `requestPayout`; `V_*` are the awaits of `validateAndApprove` in order, `S_*` those of `submitPayout`; `PaidRead`, `PaidMark`, `PaidPost`, `CloseRead`, `CloseWrite` are `markPayoutPaid`; `UnknownRead`, `UnknownMark` are `markPayoutOutcomeUnknown`; `NotPaidRead`, `FailMark`, `FailCredit`, `FailLocal` are `resolveReconciliation`; `SyncFetch`, `SyncRead`, `SyncWrite`, `EnforceDaily`, `EnforceTrailing`, `GoStale` are the poller; `Claim`, `Finish`, `Recover` are the job table.

Abstractions, and what they cost:

* `getPayoutView` makes three reads. The account row is one step; the reservations and the positions are read in the same step as the decision taken on them. The caps do not depend on it: they are re-read in the reserving transaction.
* Balance and equity are one number: a withdrawal needs a flat account, and the payout path always changes both together.
* `gross` is fixed before the call; a refusal that leaves no trace is a call that does not start.
* A handler that throws has its job put back to PENDING: a `WorkerCrash` followed by `Recover`. Attempts and DEAD jobs are in `Provisioning`.
* The provider answers, does not answer, or answers "not confirmed"; in the last two cases the adjustment may or may not have been applied.
* Transactions are atomic and serialisable, in every module. SQLite gives that; a PostgreSQL deployment must ask for it (a listed hazard).

Assumed of people and of the rail (`SendCash`, `PaidRead`, `UnknownRead`, `NotPaidRead`): cash is handed over only for a submitted request that nobody else is handling; paid is recorded only when the rail says sent, not paid only when the cash was never handed over or bounced; "unknown" only while the request is submitted. The code cannot enforce these; what is violated under them is violated by the program alone.

### How the other machines correspond

* `Risk`: `acct` is the `TradingAccount` row with its latest snapshot; `prov` the account at the provider; `seen` the recorded provider events; `breaches` the breach events by kind and session; `alarms` the operator alerts; `poll` one run of `syncAccount` and what it has read: `Fetch`, `FetchFails`, `Unreachable`, `IngestRead`, `IngestRecord`, `IngestWrite`, `MarkStale`, then `Enforce`, `EnforceCommit`, `EnforceAlarm` per limit. `RollRead`/`RollWrite` are ROLL_TRADING_SESSION; `ResetOffer` to `ResetCommit` are `purchaseReset` and `applyReset`. `PayoutOpens`/`PayoutEnds` are the only thing a reset sees of a payout. Time is a tick: even ticks lie in market hours, odd ones between the session boundary and the reopen.
* `Checkout`: a page names its quote, its order and its charge, since the rendered page carries the idempotency key. `SubmitStart`, `Sign`, `OrderCheck`, `OrderCommit` (or `OrderExists`, `OrderRefused`), `Charge`, `RecordPayment`, `PaymentKnown`, `MarkOrderPaid` are the awaits of `completeCheckout`. Prices and rules are version numbers; `Deploy` changes the code's, `Publish` those in the database.
* `Provisioning`: a worker's `pc` is its next await; `transition()` is two steps (`CheckEdge`, `WriteEdge`), as in the code. A job row is its key: `provision:`, `provision-retry:n`, a re-queueing, `sync-initial:`.
* `Credentials`: a password is the number of its issue; `shown` is what each browser tab still displays, `known` what the customer has ever been shown.
* `Exposure` keeps positions and working orders in micro-equivalents; `evaluateNewOrder` decides, then anything may fill. `Calendar` runs a clock hour by hour over both transitions of one zone. `Books` posts sales, rewards, resets and compensations under keys, in any order and again. `Pricing` quotes baskets from the code's own tables, refunds lines in any order and resets the account. `Catalog` runs the publish scripts of several deploys side by side. `Access` runs overlapping requests of one e-mail address. `Analytics` closes trades one by one and derives the reports after each: the stable sort is a rank, a group stands at the place of its anchor, and a cluster is the groups whose anchors share a root. `Overview` moves accounts between the queries of one page. `Forecast` evaluates the owner's inputs in the domain module and in the browser's copy of it. `Broker` interleaves the HTTP requests of concurrent adapter calls. `Site` starts processes with one set of environment variables after another.

## 3. Runs

All runs say `CHECK_DEADLOCK FALSE`: once the bounds are used up, the system may rest.

| Run | Instance | Shows |
|---|---|---|
| `Rules` | the topics of `MCRules` | caps under four concurrent reservations and two sessions; ceilings under fills; sessions over both clock changes with the boundary at 0, 3 and 17 h; balanced books; quotes, refunds, resets and promotions; catalog deploys side by side; registrations, sign-ins and saves that overlap; reports; forecasts; adapter calls; settings |
| `Core` | 2 requests, 2 workers, 1 operator, 1 death | deduction before cash, truthful books, capacity of live requests, legal edges, and the inductive invariant of the proofs |
| `Sessions` | 3 calls (two share a key), 2 sessions | idempotency, attribution to a session, refinement of `Reservation` |
| `Account` | 1 call, poller, 1 trade, 2 sessions, 2 balances | a payout never reaches into the retained buffer while nothing else moves the balance |
| `Live` | 1 call, 2 workers, 1 operator, 2 deaths | every job completes; without deaths requests are decided, payments posted, failures compensated |
| `Risk` | 1 poller, 1 reset order, 2 trades, 3 ticks, 1 death, rolls | breaches recorded and terminal, doubts alarmed, resets paid once and without profit, marks only rise, news is applied |
| `Checkout` | 2 pages of a customer, 3 submissions, coupon for one, 1 deploy, 1 death | coupon limits, the signed price, agreement of payment, order and books, success is applied |
| `Fulfilment` | 1 page, 2 workers, 1 provider failure, 1 death, 1 re-queueing, 1 re-issue | nothing unpaid, one verified account, sign-ins that work, retries bounded, paid orders decided, the queue drains |

Bounds and why they are enough. Money is scaled in `MCPayout` (starting balance 10, buffer 2, drawdown 4, gross 2 or 4 paying 1 or 2): with a daily cap of 2 and a lifetime cap of 3 one request fits, two small ones fit the day, and any pair with a large one does not, so the caps bind in every run about them. Two calls are the least with which a cap can break, two workers the least with which a claim can race, one death per run reaches each point between two awaits. In `MCRisk` one loss of 4 both pauses and breaches, a gain of 2 raises the threshold. In `MCCheckout` both pages want the one redemption that is left. `MaxRetries` and `MaxAttempts` are 2, so that both a retry and its exhaustion happen. What the sizes leave open the theorems close for the safety properties.

Fairness. `Fairness` and `ShopFairness`: a worker polls every second and recovers stale claims at each poll (`worker.ts`), so claiming, recovering and the steps of a started handler are weakly fair; so are the steps of a request or an operator's handler once started. `RiskFairness` adds that the provider answers again and again (strong fairness of `Fetch`): the reconciliation job polls every minute, and without an answer no program could apply news. Requests, deaths, deploys, trading, refusals, people starting anything, and the clock are not fair.

### Where the code does not do what it says

Each of these runs checks one statement of a document or comment, quoted in `PROJECT.json`, and TLC prints a behaviour of the code that violates it.

| Run | What happens |
|---|---|
| `StaleCaps` | a slow worker whose claim was recovered (`SlowWorkers`: nothing bounds a handler to five minutes) writes late and revives a failed request whose capacity was given away: the caps are exceeded |
| `SecondBreach` | a breach of an account that was reset after an earlier breach is recorded nowhere and the account trades on |
| `MovedTerms` | the rules change between signing and ordering, and the order freezes rules the customer never saw |
| `StrandedOrder` | a worker that dies inside `runProvisioning` leaves a paid order neither delivered nor shown to anybody |

### Observed while modelling, without a run

What the models show, or what made a property need a premise. Paths are below `src/src`.

*Payouts* (`server/services/payout-service.ts`).
* Two pending requests are approved against the same balance and the second deduction comes out of the retained buffer (:363); `BufferKept` is about one request, however often it is submitted and deducted. A request that was parked before any deduction and is then recorded as not paid is credited at the provider all the same.
* A process that dies between two transactions leaves a state that the retry refuses: `validating` or `approved` for ever, paid but not posted, failed with its capacity kept (:350, :526, :732); `NothingIsLostAlive` is about runs without a death.
* Two operators overwrite each other's outcome (:60); `LegalEdges` is checked and proved for one.
* A deduction that was never made is reversed (:744), and the obligation of a failed payout is never compensated: `buildCompensatingEntry` has no caller (:751).
* A poll between the provider's deduction and the local one takes a withdrawal for a trading loss and pauses the account (:487).

*Polling and resets.*
* With two pollers the older snapshot may be written last, and the marks fall back; `MarksRise` assumes one.
* A provider event is recorded before it is applied (`risk-service.ts:118`), so a death in between loses the news: `NewsIsApplied` excuses it. A quiet account stays `dataStale` after an outage, because only a newer snapshot clears it. An account marked stale by an old snapshot raises no alert.
* Breached accounts are not polled: a last snapshot with a position keeps the reset refused. A failed payout bars resets for ever. A reset may be charged and then refused by the re-check. A reset account cannot trade at the provider: nothing enables it again. Two orders for the same reset (another tab, or a form without a key, which makes a key of its own, `app/dashboard/reset-actions.ts:31`) each compute their difference from a row that may not show the other's (`reset-service.ts:150`) under a key of their own (:161), so the customer may end above what was earned: `ProfitIsEarned` holds until a second adjustment.
* Nothing enqueues ROLL_TRADING_SESSION; were it enqueued, it resumes by id also what was breached in between, which is why `BreachIsTerminal` names it.

*Checkout.*
* A retry after a death behind `createOrder` is refused at the revalidation, because the quote is used; the order stays PENDING_PAYMENT. An UNKNOWN charge is never asked about again; a FAILED one sticks to its key.
* `bookedCount` of a slot is compared (`checkout-service.ts:416`) and never incremented. The mock's charge reference keeps nine characters of the order id.
* Two tabs render two keys and can charge twice: the model has two pages for it.

*Provisioning and credentials.*
* A death between `active` and the opening of the account leaves it PENDING for ever; `manual_review` with an account row cannot be resumed by the job; the console counts stuck jobs without `provisioning` (`views/admin-view.ts:167`). A recovered claim beside a re-queued job leaves the edges of the table, and so do two re-queueings beside each other: `ProvisioningEdgesKept` holds without deaths and with at most one re-queueing. A recovered claim starts again from `manual_review` without an operator, so the attempts of a row have no bound; those of a job do.
* Two tabs, or a lost answer to a re-issue, acknowledge a password nobody read (`credential-service.ts:212`): `SeenBeforeDestroyed` assumes neither.

*Exposure and calendar.*
* `evaluateNewOrder` has no caller. Two-sided one-cancels-other groups on top of a position are underestimated, reduce orders are ignored.
* A limit broken between 17:00 and 18:00 locks for less than an hour of the same session. East of Greenwich `instantFromZoned` (`domain/risk/session.ts:105`) reads a time in the spring gap as the hour before the jump, and the repeated autumn hour as its second occurrence, against its own comment; a session boundary there would leave instants outside the session they are labelled with. West of Greenwich, where the code's New York lies, both are as documented, whatever the boundary (`ZoneAssumption`).

*Books.*
* The console's net position filters orders by `status: 'paid'` (`views/admin-analytics.ts:114`) while orders carry `'PAID'` (`checkout-service.ts:617`): it reports unreconciled books after the first sale. It compares discounted totals with gross fees, and `netMinor` ignores discounts.
* `LedgerTotal` adds debits and credits. Paid resets post no revenue. A free order cannot be booked, and the recovery read of `postEntry` would run inside a failed PostgreSQL transaction.

*Prices, promotions, catalog.*
* A refund gives back `lineTotal`, without the share of tax its comment names (`domain/pricing/quote.ts:325`). A reset undercuts a new account only under the standing coupon. A TIER_UPGRADE with a fixed amount above the list price raises the price.
* A withdrawn plan that is launched again cannot be published; an older deploy republishes old terms as a newer version; add-on versions never rise.

*People.* Two overlapping saves clear `completedAt`, which "is never cleared afterwards" (`app/dashboard/profile/actions.ts:29`); concurrent wrong passwords are counted once; a death after `user.create` leaves a user without a profile, which the next save creates.

*Reports.*
* `matchedTrades` depends on the order in which the database returns rows; a trade claimed by one group can separate others (0 s, 5 s and 10 s: the third is in no cluster, against the "overlapping pairs" of `domain/analytics/correlation.ts:138`). A country code alone links customers by address. A zero-second trade is in no duration bucket.
* "Theoretical maximum the firm could still owe" (`domain/analytics/exposure.ts:115`) leaves out cash in flight and breached accounts that a reset revives; `OverviewCoversCaps` adds the first. The cap is the one in the code, not in the sold version. The detail page's headroom uses the base limit (:545 of `admin-analytics.ts`).
* The dashboard's `payoutEligible` ignores the preconditions of a request. The break-even probability plus one point may still round to zero contribution.

*Broker adapter* (never run against a key).
* `provisionAccount` ignores its idempotency key, which "makes a retried provisioning call safe" (`types.ts:107`). The position ceiling is neither read back nor is the answer to its update looked at, so `verified` says nothing of it. `provisioning-service.ts` passes a balance level where `tradovate.ts:15` means an allowance, which the read-back cannot notice.
* A later configuration undoes the zero limit of a lock-out, only `doNotUnlock` stays; a token revoked early is used until its expiry; a snapshot is two requests and its sequence is the time of its end; a missing failure reason counts as confirmed.
* The mode of the adapter follows TRADOVATE_ENVIRONMENT and not APP_MODE: a production site with a staging broker runs DOCUMENTED code, which `types.ts:32` says is refused.

*Site.* A configured payment provider throws on every call, so PRODUCTION can start and never charge. `ready` is never true: the tax group is fixed (`views/admin-view.ts:85`). The launch blockers are consulted by the console only, though `config.ts:311` calls them "hard gates on production checkout". An old password's cookie works again if that password comes back within thirty days.

## 4. Proofs

Assumptions: the named ASSUMEs of the modules, which TLC evaluates in every run. Numbers of calls, workers, operators, pages, tabs, sessions, retries and deaths are arbitrary, where a theorem does not restrict them.

* `SumProofs`: what the other modules need to know of finite sums: a term may be taken out, sums of equal terms are equal, of smaller terms smaller, of two functions the sum of both. `SumOver` is a fold, hence a recursive function on the subsets; the induction on the size of the set, which the provers cannot instantiate as a theorem about a predicate, is done each time by showing that no subset is a smallest counterexample (`SmallestSet`).
* `ReservationProofs`: a set of reservations takes what it took before and the added one's amount; the caps are inductive together with the types: `Reserve` tests what is left, the other actions only take away from what is held. `ReservationTyped`, `CapsHold`, `SettledForGood`.
* `TotalsProofs`, what is proved by adding up; the theorems of the whole are stated in `RulesProofs`. The ceiling: a filled order adds to the position what it no longer adds to what is pending, and its siblings go with it, so that the worst case of every group only falls with a fill or a cancel; that any set of fills which exclude each other stays below the worst case is a smallest counterexample (`FillsStayBelowCeilingAlways`; the orders of one one-cancels-other set are on one instrument and side, `OrdersAgree`). The ledgers: each entry lies in one ledger and adds up to zero, so that rows and columns cancel (`ColumnsCancel`); keys are unique and the key of a correction is that of the entry it reverses, so that a correction takes the same from the accounts and from what stands (`StandingInv`); while nothing was corrected, which keys are taken follows from the rows, and each posting moves the accounts by as much as it moves the sums of the rows (`EntriesInv`, `AmountsInv`). `BooksAgreeAlways`. The prices: the floors of an allocation leave over fewer units than there are lines (`DividedSum`), and in a strict order exactly k members have fewer than k ahead of them (`RanksFill`), so that the largest remainders give out exactly the rest (`AllocationIsExact`); a line reaches its own price only if everything is discounted, when nothing is left over; and a promotion that was not overridden was approved for every tier it names (`PromotionsInv`), the list price itself being within the ceiling, which is an assumption on the constant. `PricesAreSoundAlways`.
* The same module, on the reports; `ReportsAddUpAlways`. A report drawn from disjoint parts adds up because each figure is a sum over trades and a sum over parts is the sum over their union (`SplitAddsUp`). The stable sort puts a row at its rank (`SortedIs`). What the sweep has claimed only grows and comes from the groups before it (`ClaimsGrow`, `ClaimsComeFrom`), so groups are disjoint; of two copies opened together, whatever claimed one had either claimed the other or belongs to the other's account, because both match an anchor or neither does (`CopyJoins`, `PairIsTogether`). Union-find: a group's accounts keep one root (`TiedShareRoots`), and no root is shared across a border that no group crosses (`RootsStayApart`), so clusters are disjoint and connected. Both sweeps are recursive functions, whose existence is shown by a least number of steps that cannot be followed (`StepsCanBeFollowed`). A page: each figure it has read is what stood at one moment, and the figures that are compared never fall (`BooksGrow`), so what was read later is no less (`OverviewFacts`). A forecast: a quotient is the one number whose multiple lies so close (`QuotientIs`), which turns break-even prices into products.
* `PayoutProofs`: `PayoutTyped`, and `SafetyInv` is inductive. The properties alone are not: that no cash is sent without a deduction depends on a worker about to mark a request `submitted` having deducted (`WorkerPhase`), on no second worker holding the same job (`ExclusiveInv`), on no job existing for a row that does not exist (`JobInv`), on an operator that marks a request failed knowing that no cash moved (`OperatorPhase`), and on how reservation, ledger, rail and state go together (`MoneyInv`). `DeductionFirst`, `LedgerIsTruthful`, `LiveRequestsHold` follow; `RequestsAreIdempotent` has an invariant of its own. `EdgesAreLegal` is about one operator at a time: what it is about to record is still a legal outcome, because workers only move rows that are not submitted yet (`SettlingInv`, `WorkerEdges`). All assume `~SlowWorkers`; `StaleCaps` shows that they are false without.
* The same module, on the buffer: `BufferIsKept` needs that the provider's balance, the row and the two marks move together (`Kept`): each deduction either has reached the provider, or the row, or both, and whoever still has to make it leaves room for it. A refreshed row is never above the provider's by more than the deduction in flight (`ProviderKept`, `LocalKept`), the threshold never passes what was deducted from (`MarksKept`), and a request past its checks fits into the room they computed (`RoomKept`).
* The same module, on the refinement: with `SafetyInv` each step of the saga is a step of `Reservation` or a stutter: `RequestReserve` reserves, `PaidPost` consumes (or repeats), `FailLocal` releases (or repeats). `SagaImplementsReservation` is that refinement, `CapsAreKept` carries the caps through it, `CashIsBounded` bounds the cash on the rail.
* `RiskProofs`: `RiskTyped`; `ResetsArePaid`, for which a tab's stage and its order's state go together and applied orders count the resets; `BreachLasts`, for which a roll has read the account paused or not; `BreachesAreRecorded` and `DoubtIsAlarmed` for any number of pollers: what is proved is that at each moment a row at or below its threshold has its event or a poll that will write it, and that this poll cannot be sent astray by another; the drawdown must be positive, else an account starts breached. `MarksRise` assumes one poller and says what it read is what stands. `ProfitsAreEarned` has an invariant about whoever has read the account's equity (a row, a poll in flight, a tab about to adjust): what was read lies below the provider's by at most what was earned since, until an adjustment (`ViewsInv`, `ProfitInv`).
* `CheckoutProofs`: `CheckoutTyped`; `CouponIsLimited`, since the redemptions are counted in the transaction that adds one and a page redeems once; `ChargesAreSigned` and `PaymentsAreCharged` from `CheckoutInv`: a quote keeps the price it was given, an order was signed at the price of its quote, a charge has an order, and each call stands where the rows allow it to stand (`CallAgrees`): the price it will freeze was compared with the quote's, and at `paid` the charge has succeeded. Rows only advance under other calls, so a waiting call keeps what it has established (`CallKeeps`).
* `FulfilmentProofs`, about the composition: `OneAccountEach`, `VerifiedFirst`, `DeliveredIsPaid`, `CredentialsSignIn`, and `SeenBeforeDestroyed` for one tab that receives every answer. `ShopAgrees` adds to `CheckoutInv` that a job row, or a provisioning state past `payment_pending`, exists only for what was bought; that limits are confirmed only for accounts that exist; and, for each await of `runProvisioning`, what the worker has established (`WorkerAgrees`): an account at the provider before the row, the row before the limits, the limits before the activation, the open account before the fulfilment. All of that lasts whoever moves (`ShopAdvances`), which is why any number of workers, recovered claims and re-queued jobs may overlap. `RetriesEnd` and `EdgesKept` need more about the queue (`QueueAgrees`): a claimed job has one worker, an order has one live job unless somebody died or queued it twice, and a job that is still live has retries left.
* `RulesProofs`, about the topics of `Rules`, which share no state, so that each is inductive by itself. `SessionsAreSoundAlways`: an instant is at or after the instant of a time on the wall exactly when the wall shows that time or a later one (`WallReaches`), and the two passes of `instantFromZoned` compute just that instant (`InstantFromZonedIs`); both need a zone west of Greenwich, and that the clock does not jump over the reopen. `CatalogIsOneContractAlways`: versions are only added and keep their terms, a deploy about to supersede has seen a version that exists (`SeenInv`), and an undisturbed deploy has done each job behind it (`DeploysInv`), which holds because its script publishes an item before it revises it (`ScriptShape`). `GatesHoldAlways` has an invariant for each gate: a token's renewal is due before it lapses and no request outlives it (`BadgeInv`, `RequestInv`), what a clerk was told is what the broker last applied, the adapters of a process are those of the configuration it read, and what an overlapping save or sign-in has read is still so unless the overlap was recorded.

Only model-checked: of the runs' properties, liveness alone (`JobsFinish`, `NothingIsLostAlive`, `NewsIsApplied`, `SuccessIsApplied`, `PaidIsDecidedAlive`, `JobsEnd`), which is out of the prover's reach.

## 5. Not modelled

* Text and presentation: React pages, the catalog view, e-mail templates, legal documents, policies, PDF, formatting and parsing of money, the promotion wording lint.
* Audit rows: append-only, and nothing reads them back; requiring a reason or a second approval is a check before an unconditional write.
* Password hashing, cookies, CSRF tokens and roles; the database client; the seeding scripts.
* `rithmic.ts` refuses every call; the e-mail outbox only collects messages.
* The exposure events and checkpoints that a poll appends; review notes and the transition log of payouts; the `RECONCILE_PAYOUT` job, which returns a text.
* Isolation below serialisable: the transactions are atomic in every module.

## 6. What is left

1. `LegalEdges` for any number of operators, excluding the racing outcomes by name.
2. `Risk` and `Payout` in one machine: a reset racing a withdrawal with both handlers in full.
3. A specification of the job queue (one effect per key, at least once) that `Provisioning` implements.
