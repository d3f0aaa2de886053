-------------------------------- MODULE MCRules --------------------------------
(***************************************************************************)
(* A small instance of each of the parts that stand on their own.           *)
(***************************************************************************)
EXTENDS Rules, TLC

Offset == -5        \* New York

Grouping == [mes |-> "es", es |-> "es", nq |-> "nq", gc |-> "gc"]
Micros == [mes |-> 1, es |-> 2, nq |-> 1, gc |-> 1]
Signed == {1, -1, 2, -2}

\* A plain sale with tax, and a discounted one of two processor fees.
Terms == {[fee |-> 4, addon |-> 0, discount |-> 0, tax |-> 1, charge |-> 1],
          [fee |-> 4, addon |-> 2, discount |-> 1, tax |-> 0, charge |-> 1],
          [fee |-> 4, addon |-> 2, discount |-> 1, tax |-> 0, charge |-> 2]}
Adjustments == {-1, 0, 2}

Promo(code, kind, bps, fixed, tiers, starts, ends) ==
    [code |-> code, kind |-> kind, bps |-> bps, fixed |-> fixed, tiers |-> tiers,
     starts |-> starts, ends |-> ends]
PromotionDrafts ==
    {Promo(1, "PERCENT_OFF_ACCOUNT", 2500, 0, {}, 0, 9),
     Promo(2, "PERCENT_OFF_ACCOUNT", 4000, 0, {"SIM_300K"}, 1, 2),
     Promo(3, "FIXED_OFF_ACCOUNT", 0, 100, {}, 0, 2),
     Promo(4, "FIXED_OFF_ACCOUNT", 0, 349, {"SIM_25K"}, 0, 9),
     Promo(5, "TIER_UPGRADE", 0, 349, {"SIM_50K"}, 0, 9),
     Promo(6, "REFERRAL", 5000, 0, {"SIM_50K"}, 1, 1),
     Promo(7, "FREE_RESET", 10000, 0, {}, 0, 9)}

\* The cap of p is undecided, then decided, then raised; q and x are withdrawn.
Amount(n) == [price |-> 3, kind |-> "APPROVED_AMOUNT", cap |-> n]
Catalogs ==
    "old"  :> ("p" :> [Amount(2) EXCEPT !.kind = "UNRESOLVED"] @@ "q" :> Amount(1)
               @@ "x" :> [Amount(0) EXCEPT !.kind = "none"]) @@
    "new"  :> ("p" :> Amount(1) @@ "q" :> [Amount(1) EXCEPT !.kind = "APPROVED_UNCAPPED"]) @@
    "late" :> ("p" :> Amount(2))

\* Eighteen on the day of registration, or born on a leap day and not quite.
Date(y, m, d) == [y |-> y, m |-> m, d |-> d]
BirthDates == {Date(2008, 2, 28), Date(2008, 2, 29)}
Registered == Date(2026, 2, 28)

\* Copiers, a scalper, a chain of trades each within reach of the next only,
\* and a position closed in the second it was opened.
Trade(id, account, side, opened, hold, pnl) ==
    [id |-> id, account |-> account, symbol |-> IF id > 5 THEN "es" ELSE "mnq",
     side |-> side, price |-> 7, opened |-> opened, hold |-> hold, pnl |-> pnl, fee |-> 1]
Closed == {Trade(1, "a1", "LONG", 3597, 42, 5), Trade(2, "a2", "LONG", 3597, 300, -2),
           Trade(3, "a3", "LONG", 3602, 0, 0), Trade(4, "a1", "LONG", 3602, 60, -5),
           Trade(5, "a4", "LONG", 3607, 61, 3), Trade(6, "a2", "SHORT", 18000, 7201, 4),
           Trade(7, "a4", "SHORT", 18001, 90, 4)}
OwnerOf == [a1 |-> "ann", a2 |-> "ann", a3 |-> "bob", a4 |-> "cyd"]
Home == <<"1 example st", "plain">>
Postcode == <<"2000", "plain">>
Country == <<"us", "plain">>
AddressBook == {<<Home, Postcode, Country>>,
                <<<<"1 example st", "capitals">>, Postcode, Country>>,
                <<<<"", "blanks">>, <<"", "plain">>, Country>>}

\* A plan with an amount and a plan without.
Policies == [a |-> [kind |-> "APPROVED_AMOUNT", cap |-> 1],
             u |-> [kind |-> "APPROVED_UNCAPPED", cap |-> 0]]
Prices == [a |-> 3, u |-> 5]
Swings == {4, -5}

Entries == [price : {3, 4}, costs : {1}, acquisition : {0, 1}, bps : {0, 1, 3, 5, 10, 11},
            payout : {0, 1, 5}, overhead : {0, 7}, active : {0, 2}, sales : {0, 3},
            reserves : {6}]

Limits == {[daily |-> 2, drawdown |-> 4, ceiling |-> 3]}

\* An open site, a developer's machine, and what may be set otherwise on either.
OpenSite == [mode |-> "PRODUCTION", payments |-> TRUE, tradovate |-> "PRODUCTION",
             email |-> TRUE, secret |-> TRUE, address |-> "public", vercel |-> FALSE,
             forced |-> FALSE, company |-> TRUE, password |-> "p"]
Laptop == [mode |-> "DEMO", payments |-> FALSE, tradovate |-> "none", email |-> FALSE,
           secret |-> FALSE, address |-> "none", vercel |-> FALSE, forced |-> FALSE,
           company |-> FALSE, password |-> ""]
Environments ==
    {[OpenSite EXCEPT !.mode = m, !.tradovate = t] :
        m \in {"DEMO", "SANDBOX", "PRODUCTION", "misnamed"},
        t \in {"none", "partial", "STAGING", "PRODUCTION", "misnamed"}}
    \union {[OpenSite EXCEPT !.payments = a, !.email = b, !.company = c, !.secret = d] :
        a \in BOOLEAN, b \in BOOLEAN, c \in BOOLEAN, d \in BOOLEAN}
    \union {[Laptop EXCEPT !.address = a, !.vercel = v, !.secret = d] :
        a \in {"none", "localhost", "public", "malformed"}, v \in BOOLEAN, d \in BOOLEAN}
    \union {[Laptop EXCEPT !.forced = TRUE], [Laptop EXCEPT !.mode = "SANDBOX"],
            [Laptop EXCEPT !.password = "q", !.tradovate = "STAGING"]}
Governed == [f \in GovernedTerms |-> IF f = "positionCeiling" THEN "PROPOSED" ELSE "CONFIRMED"]
PlansOnSale == [a |-> Governed @@ [cap |-> "approved-amount"],
                u |-> Governed @@ [cap |-> "unresolved"]]

=============================================================================
