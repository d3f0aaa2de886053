-------------------------------- MODULE Catalog --------------------------------
(***************************************************************************)
(* Versioned plan terms: src/server/services/catalog-service.ts.  Deploys   *)
(* publish the catalog of their own code, each with its reads and writes in *)
(* turn and possibly side by side, while accounts are sold under published  *)
(* versions and paid out under the version they were sold on.               *)
(*                                                                         *)
(* A version is its index in the sequence of an item's versions, so that    *)
(* unique(planKey, version) forbids writing an index that is taken.         *)
(***************************************************************************)
EXTENDS Integers, Sequences, SequencesExt

CONSTANTS
    PlanItems, AddOnItems,
    Deploys,        \* runs of scripts/publish-catalog.mjs
    CatalogOf,      \* the code of each: terms of the items it offers
    AccountsSold,   \* accounts that may be sold
    MaxPaid         \* bound on the cash paid to an account

Items == PlanItems \union AddOnItems

VARIABLES
    versions,   \* of each item: status and terms of every version
    deploy,     \* progress of each deploy, and the version it has read
    disturbed,  \* deploys during or after which another one wrote
    soldUnder,  \* each account: plan, version and terms it was sold under
    paidOut     \* lifetime cash paid to each account

catalogVars == <<versions, deploy, disturbed, soldUnder, paidOut>>

NoTerms == [price |-> 0, kind |-> "none", cap |-> 0]
Unsold == [plan |-> "none", version |-> 0, terms |-> NoTerms]

CapKinds == {"APPROVED_AMOUNT", "APPROVED_UNCAPPED", "UNRESOLVED", "none"}
CatalogTerms == [price : Nat, kind : CapKinds, cap : Nat]

ASSUME CatalogAssumption ==
    /\ IsFiniteSet(PlanItems) /\ IsFiniteSet(AddOnItems)
    /\ \A d \in Deploys : /\ DOMAIN CatalogOf[d] \subseteq Items
                          /\ \A i \in DOMAIN CatalogOf[d] : CatalogOf[d][i] \in CatalogTerms
    /\ MaxPaid \in Nat

CatalogInit ==
    /\ versions = [i \in Items |-> <<>>]
    /\ deploy = [d \in Deploys |-> [step |-> 1, read |-> FALSE, seen |-> 0]]
    /\ disturbed = {}
    /\ soldUnder = [a \in AccountsSold |-> Unsold]
    /\ paidOut = [a \in AccountsSold |-> 0]

-----------------------------------------------------------------------------
(* The script: retire and publish plans, retire and publish add-ons, then   *)
(* publish revised plans.                                                   *)

Each(op, S) == SetToSeq({[op |-> op, item |-> i] : i \in S})
Script == [d \in Deploys |->
    LET offered == DOMAIN CatalogOf[d] IN
    <<[op |-> "retire", item |-> "plans"]>> \o Each("first", PlanItems \intersect offered)
    \o <<[op |-> "retire", item |-> "addons"]>> \o Each("first", AddOnItems \intersect offered)
    \o Each("revise", PlanItems \intersect offered)]

Ended(d) == deploy[d].step > Len(Script[d])
Failed == 0
Running(d) == deploy[d].step # Failed /\ ~ Ended(d)
Doing(d, op) == Running(d) /\ Script[d][deploy[d].step].op = op
ItemOf(d) == Script[d][deploy[d].step].item
Advance(d) == deploy' = [deploy EXCEPT ![d] = [step |-> @.step + 1, read |-> FALSE, seen |-> 0]]
Remember(d, v) == deploy' = [deploy EXCEPT ![d] = [@ EXCEPT !.read = TRUE, !.seen = v]]
\* A unique violation is thrown and ends the script.
Throw(d) ==
    deploy' = [deploy EXCEPT ![d] = [step |-> Failed, read |-> FALSE, seen |-> 0]]
Disturb(d) ==
    disturbed' = disturbed \union {e \in Deploys \ {d} : deploy[e].step > 1}

PublishedOf(i) == {v \in DOMAIN versions[i] : versions[i][v].status = "PUBLISHED"}
Latest(S) == CHOOSE v \in S : \A w \in S : w <= v
Published(terms) == [status |-> "PUBLISHED", terms |-> terms]

\* retireWithdrawnPlans, and the same for add-ons.
Retire(d) ==
    /\ Doing(d, "retire")
    /\ LET kind == IF ItemOf(d) = "plans" THEN PlanItems ELSE AddOnItems
           gone == kind \ DOMAIN CatalogOf[d] IN
       versions' = [i \in Items |-> [v \in DOMAIN versions[i] |->
           IF i \in gone /\ v \in PublishedOf(i) THEN [versions[i][v] EXCEPT !.status = "RETIRED"]
           ELSE versions[i][v]]]
    /\ Advance(d) /\ Disturb(d)
    /\ UNCHANGED <<soldUnder, paidOut>>

\* publishCatalogIfEmpty, one item.
FirstRead(d) ==
    /\ Doing(d, "first") /\ ~ deploy[d].read
    /\ IF PublishedOf(ItemOf(d)) # {} THEN Advance(d) ELSE Remember(d, 0)
    /\ UNCHANGED <<versions, disturbed, soldUnder, paidOut>>

FirstWrite(d) ==
    /\ Doing(d, "first") /\ deploy[d].read
    /\ LET i == ItemOf(d) IN
       IF versions[i] # <<>> THEN Throw(d) /\ UNCHANGED <<versions, disturbed>>
       ELSE /\ versions' = [versions EXCEPT ![i] = <<Published(CatalogOf[d][i])>>]
            /\ Advance(d) /\ Disturb(d)
    /\ UNCHANGED <<soldUnder, paidOut>>

\* publishCatalogRevisions, one plan.
ReviseRead(d) ==
    /\ Doing(d, "revise") /\ ~ deploy[d].read
    /\ LET i == ItemOf(d) IN
       IF PublishedOf(i) # {}
             /\ versions[i][Latest(PublishedOf(i))].terms # CatalogOf[d][i]
       THEN Remember(d, Latest(PublishedOf(i))) ELSE Advance(d)
    /\ UNCHANGED <<versions, disturbed, soldUnder, paidOut>>

\* Faulty variant: the number of the new version is taken from the table.
ReviseWriteAnyVersion(d) ==
    /\ Doing(d, "revise") /\ deploy[d].read
    /\ LET i == ItemOf(d) IN
       versions' = [versions EXCEPT ![i] = Append(
           [@ EXCEPT ![deploy[d].seen].status = "SUPERSEDED"], Published(CatalogOf[d][i]))]
    /\ Advance(d) /\ Disturb(d)
    /\ UNCHANGED <<soldUnder, paidOut>>

\* Superseding the version read and creating its successor are one transaction.
ReviseWrite(d) ==
    /\ Doing(d, "revise") /\ deploy[d].read
    /\ LET i == ItemOf(d) IN
       IF Len(versions[i]) > deploy[d].seen THEN Throw(d) /\ UNCHANGED <<versions, disturbed>>
       ELSE /\ versions' = [versions EXCEPT ![i] = Append(
                  [@ EXCEPT ![deploy[d].seen].status = "SUPERSEDED"], Published(CatalogOf[d][i]))]
            /\ Advance(d) /\ Disturb(d)
    /\ UNCHANGED <<soldUnder, paidOut>>

-----------------------------------------------------------------------------

\* getPublishedPlanVersion, and the order that keeps its id.
SellUnder(a) ==
    /\ soldUnder[a] = Unsold
    /\ \E p \in PlanItems :
          /\ PublishedOf(p) # {}
          /\ soldUnder' = [soldUnder EXCEPT ![a] =
                LET v == Latest(PublishedOf(p)) IN
                [plan |-> p, version |-> v, terms |-> versions[p][v].terms]]
    /\ UNCHANGED <<versions, deploy, disturbed, paidOut>>

\* toRuleSnapshot, lifetimeCapForPayout: an amount, "none" for an approved
\* policy without a cap, "refused" for anything else.
LifetimeCapForPayout(terms) ==
    CASE terms.kind = "APPROVED_AMOUNT" -> [limit |-> TRUE, amount |-> terms.cap]
      [] terms.kind = "APPROVED_UNCAPPED" -> [limit |-> FALSE, amount |-> MaxPaid]
      [] OTHER -> [limit |-> TRUE, amount |-> 0]

\* A payout reads the version the account points at, not the current one.
PayAccount(a) ==
    /\ soldUnder[a] # Unsold
    /\ LET s == soldUnder[a]
           stored == LifetimeCapForPayout(versions[s.plan][s.version].terms) IN
       paidOut[a] < stored.amount
    /\ paidOut' = [paidOut EXCEPT ![a] = @ + 1]
    /\ UNCHANGED <<versions, deploy, disturbed, soldUnder>>

CatalogNext ==
    \/ \E d \in Deploys : \/ Retire(d)
                          \/ FirstRead(d) \/ FirstWrite(d)
                          \/ ReviseRead(d) \/ ReviseWrite(d)
    \/ \E a \in AccountsSold : SellUnder(a) \/ PayAccount(a)

-----------------------------------------------------------------------------
(* Properties.                                                             *)

\* However deploys of different code interleave, at most the newest version of
\* an item is on sale, what an account was sold on is what its payouts are
\* limited by ("a customer's contract cannot be rewritten after the fact"), an
\* undecided cap pays nothing, and a deploy that ends undisturbed has put on
\* sale the plans of its code and no others.
CatalogIsOneContract ==
    /\ \A i \in Items : PublishedOf(i) \subseteq {Len(versions[i])}
    /\ \A a \in AccountsSold : LET s == soldUnder[a] IN
          s # Unsold =>
             /\ versions[s.plan][s.version].terms = s.terms
             /\ s.terms.kind = "APPROVED_AMOUNT" => paidOut[a] <= s.terms.cap
             /\ s.terms.kind = "UNRESOLVED" => paidOut[a] = 0
    /\ \A d \in Deploys : Ended(d) /\ d \notin disturbed =>
          \A p \in PlanItems :
             {versions[p][v].terms : v \in PublishedOf(p)} =
                 (IF p \in DOMAIN CatalogOf[d] THEN {CatalogOf[d][p]} ELSE {})

=============================================================================
