------------------------------- MODULE Forecast -------------------------------
(***************************************************************************)
(* The owner's arithmetic of a sale: src/domain/economics/sensitivity.ts,    *)
(* the calculator that repeats it in the browser                            *)
(* (src/components/SensitivityCalculator.tsx), and the payout rates of       *)
(* src/domain/analytics/stress.ts.  Money is in whole units and the          *)
(* probability in parts of Whole, 10 000 in the code; the browser's decimals  *)
(* are counted in the same parts.                                            *)
(***************************************************************************)
EXTENDS Integers, FiniteSets, FiniteSetsExt

CONSTANTS
    Assumptions,    \* what an owner may enter
    Whole,          \* certainty, in basis points
    Margin          \* 500 basis points: below it the calculator warns

ASSUME ForecastAssumption ==
    /\ Whole \in Nat \ {0} /\ Whole % 2 = 0 /\ Margin \in Nat
    /\ Assumptions \subseteq
           [price : Nat, costs : Nat, acquisition : Nat, bps : Int, payout : Nat,
            overhead : Nat, active : Nat, sales : Nat, reserves : Nat]

VARIABLE forecast   \* the assumptions on the screen

NoForecast == [price |-> 0, costs |-> 0, acquisition |-> 0, bps |-> 0, payout |-> 0,
               overhead |-> 0, active |-> 0, sales |-> 0, reserves |-> 0]

ForecastInit == forecast = NoForecast

None == -1      \* a figure that does not exist

HalfUp(n, d) == (2 * n + d) \div (2 * d)
CeilingOf(n, d) == -((-n) \div d)

ComputeSensitivity(x) ==
    LET cost == HalfUp(x.payout * x.bps, Whole)
        margin == x.price - x.costs
        after == margin - cost - x.acquisition
        available == margin - x.acquisition
        evenAt == IF available > 0 /\ x.payout > 0
                  THEN (available * Whole) \div x.payout ELSE None IN
    [expectedPayoutCost |-> cost,
     contribution |-> margin - cost,
     afterAcquisition |-> after,
     profit |-> after * x.sales - x.overhead,
     breakEvenSales |-> IF after > 0 THEN CeilingOf(x.overhead, after) ELSE None,
     breakEvenBps |-> evenAt,
     obligation |-> cost * x.active,
     runoff |-> IF x.overhead > 0 THEN x.reserves \div x.overhead ELSE None,
     warnings |-> {w \in {"loses", "thin", "short"} :
        \/ w = "loses" /\ margin - cost <= 0
        \/ w = "thin" /\ evenAt # None /\ evenAt - x.bps < Margin
        \/ w = "short" /\ cost * x.active > x.reserves}]

\* The same in the browser, which keeps fractions of a cent.
Calculate(x) ==
    LET cost == x.payout * x.bps            \* in parts of Whole
        margin == (x.price - x.costs) * Whole
        after == margin - cost - x.acquisition * Whole
        available == x.price - x.costs - x.acquisition IN
    [breakEvenSales |-> IF after > 0 THEN CeilingOf(x.overhead * Whole, after) ELSE None,
     warnings |-> {w \in {"loses", "thin", "short"} :
        \/ w = "loses" /\ margin - cost <= 0
        \/ w = "thin" /\ available > 0 /\ x.payout > 0
               /\ available * Whole - x.bps * x.payout < Margin * x.payout
        \/ w = "short" /\ cost * x.active > x.reserves * Whole}]

\* A cohort in which rate (of Whole) of the buyers take use (of Whole) of a cap.
RunScenario(price, cap, sold, rate, use) ==
    LET payers == HalfUp(sold * rate, Whole)
        out == ((cap * use) \div Whole) * payers IN
    [payers |-> payers, out |-> out, net |-> price * sold - out]
ClusterWorstCase(price, cap, n) == [out |-> cap * n, net |-> price * n - cap * n]

Enter ==
    /\ forecast = NoForecast
    /\ \E x \in Assumptions :
        /\ x.bps \in 0..Whole       \* anything else is an error
        /\ forecast' = x
ForecastNext == Enter

\* The break-even figures are tight: so many sales cover the overhead and one
\* fewer does not; at the break-even probability a sale still pays for itself,
\* and one point above, its payouts cost more than it leaves.
BreakEvenIsTight ==
    LET x == forecast
        r == ComputeSensitivity(x) IN
    /\ r.breakEvenSales # None =>
        /\ r.breakEvenSales * r.afterAcquisition >= x.overhead
        /\ x.overhead > 0 => (r.breakEvenSales - 1) * r.afterAcquisition < x.overhead
        /\ ComputeSensitivity([x EXCEPT !.sales = r.breakEvenSales]).profit >= 0
    /\ r.breakEvenBps \in 0..Whole =>
        /\ ComputeSensitivity([x EXCEPT !.bps = r.breakEvenBps]).afterAcquisition >= 0
        /\ (r.breakEvenBps + 1) * x.payout > Whole * (x.price - x.costs - x.acquisition)
    /\ r.runoff # None => r.runoff * x.overhead <= x.reserves
    /\ "loses" \in r.warnings => r.breakEvenSales = None

\* The module and the calculator agree wherever the expected payout is a whole
\* amount, and nowhere differ by more than the rounding of one sale.
CalculatorAgrees ==
    LET x == forecast
        r == ComputeSensitivity(x)
        c == Calculate(x) IN
    /\ (x.payout * x.bps) % Whole = 0 =>
        /\ c.breakEvenSales = r.breakEvenSales
        /\ {"loses", "short"} \cap c.warnings = {"loses", "short"} \cap r.warnings
    /\ "thin" \in c.warnings <=> "thin" \in r.warnings
    /\ 2 * (r.expectedPayoutCost * Whole - x.payout * x.bps) \in -Whole..Whole

\* No scenario costs more than every buyer taking the whole cap, which is what
\* a cluster of copiers may do; and at full use the firm breaks even exactly
\* where payers take in what buyers paid.
ScenariosAreBounded ==
    LET x == forecast
        s == RunScenario(x.price, x.payout, x.sales, x.bps, Whole)
        worst == ClusterWorstCase(x.price, x.payout, x.sales) IN
    /\ s.payers <= x.sales /\ s.out <= worst.out /\ s.net >= worst.net
    /\ x.bps = Whole => s.net = worst.net
    /\ RunScenario(x.price, x.payout, x.sales, x.bps, Whole \div 2).net >= s.net
=============================================================================
