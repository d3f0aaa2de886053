-------------------------------- MODULE Broker --------------------------------
(***************************************************************************)
(* The Tradovate adapter (src/server/providers/trading/tradovate.ts) and the *)
(* capability gate in front of it (types.ts).  One adapter serves all jobs    *)
(* and web requests of a process; a call of it is a sequence of HTTP          *)
(* requests, each with the shared access token, so that calls interleave      *)
(* between their requests.  The broker behind it is external: it may refuse,  *)
(* accept without applying, or apply and lose the answer.  Time counts in     *)
(* steps of ten minutes.                                                      *)
(***************************************************************************)
EXTENDS Integers, Sequences, FiniteSets

CONSTANTS
    Clerks,         \* calls of the adapter
    LimitSets,      \* risk configurations: [daily, drawdown, ceiling]
    TokenLife,      \* how long the broker honours a token
    TokenMargin,    \* renewed this long before the end the broker states
    TokenRenewal,   \* renewed after this long when the broker states none
    LastTick        \* bound on the clock

ASSUME BrokerAssumption ==
    /\ {TokenLife, TokenMargin, TokenRenewal, LastTick} \subseteq Nat \ {0}
    /\ TokenMargin < TokenLife /\ TokenRenewal < TokenLife
    /\ LimitSets \subseteq [daily : Nat, drawdown : Nat, ceiling : Nat]

\* DOCUMENTED_CAPABILITIES.
Capability ==
    [provisionSimulatedAccount |-> "DOCUMENTED", configureRisk |-> "DOCUMENTED",
     readBackRiskConfiguration |-> "DOCUMENTED", authoritativeEquityStream |-> "DOCUMENTED",
     disableTrading |-> "DOCUMENTED", flattenPositions |-> "DOCUMENTED",
     secureCredentialDelivery |-> "UNVERIFIED", adjustSimBalance |-> "UNVERIFIED"]

CAPABILITIES_REQUIRED_FOR_LAUNCH == DOMAIN Capability

VARIABLES
    brokerMode, \* of the process: "SANDBOX" or "PRODUCTION"
    tick,
    badge,      \* the cached token: when it lapses, and when to renew it
    desk,       \* progress of each call
    served,     \* the account and the users as the broker has them
    lapsed      \* whether a request ever arrived with a token that had lapsed

brokerVars == <<brokerMode, tick, badge, desk, served, lapsed>>

NoBadge == [lapses |-> 0, until |-> 0]
UnsetLimits == [daily |-> 0, drawdown |-> 0, ceiling |-> 0]
Idle == [at |-> "idle", op |-> "none", k |-> 1, limits |-> UnsetLimits, lapses |-> 0, since |-> 0,
         user |-> 0, account |-> 0, netPos |-> 0, said |-> "nothing", disturbed |-> FALSE]

Thrown == [Idle EXCEPT !.at = "thrown"]

\* Account numbers are positions in owners; the first is the one that trades.
BrokerInit ==
    /\ brokerMode \in {"SANDBOX", "PRODUCTION"}
    /\ tick = 0
    /\ badge = NoBadge
    /\ desk = [c \in Clerks |-> Idle]
    /\ served = [daily |-> 0, drawdown |-> 0, mode |-> "EOD", ceiling |-> 0,
                 doNotUnlock |-> FALSE, netPos |-> 1, ordered |-> FALSE,
                 users |-> 1, owners |-> <<1>>]
    /\ lapsed = FALSE

-----------------------------------------------------------------------------

\* requireCapability for an adapter that is not a mock.
RequireCapability(cap) ==
    \/ Capability[cap] = "VERIFIED"
    \/ Capability[cap] = "DOCUMENTED" /\ brokerMode # "PRODUCTION"

\* The requests of each operation in order, with the capability asked before.
HttpCalls ==
    [provision |-> <<[send |-> "createUser",    needs |-> {"provisionSimulatedAccount"}],
                     [send |-> "createAccount", needs |-> {}]>>,
     configure |-> <<[send |-> "autoLiq",       needs |-> {"configureRisk"}],
                     [send |-> "positionLimit", needs |-> {}],
                     [send |-> "readBack",      needs |-> {"readBackRiskConfiguration"}]>>,
     snapshot  |-> <<[send |-> "balance",       needs |-> {"authoritativeEquityStream"}],
                     [send |-> "positions",     needs |-> {}]>>,
     disable   |-> <<[send |-> "lockOut",       needs |-> {"disableTrading"}]>>,
     flatten   |-> <<[send |-> "liquidate",     needs |-> {"flattenPositions"}]>>,
     adjust    |-> <<[send |-> "nothing",       needs |-> {"adjustSimBalance"}]>>]

Request(c) == HttpCalls[desk[c].op][desk[c].k]

\* Where a call stands before its k-th request: it throws without the capability.
Ready(op, k) ==
    IF \A cap \in HttpCalls[op][k].needs : RequireCapability(cap) THEN "asking" ELSE "thrown"

Begin(c) ==
    /\ desk[c].at = "idle"
    /\ \E op \in DOMAIN HttpCalls, limits \in LimitSets :
          desk' = [desk EXCEPT ![c] = [@ EXCEPT !.at = Ready(op, 1), !.op = op,
                      !.limits = IF op = "configure" THEN limits ELSE UnsetLimits]]
    /\ UNCHANGED <<tick, badge, served, lapsed>>

\* accessToken: the cached token while it is fresh, else one is asked for.
AccessToken(c) ==
    /\ desk[c].at = "asking"
    /\ desk' = [desk EXCEPT ![c] =
          IF badge.until > tick
          THEN [@ EXCEPT !.at = "sent", !.lapses = badge.lapses, !.since = tick]
          ELSE [@ EXCEPT !.at = "authenticating", !.since = tick]]
    /\ UNCHANGED <<tick, badge, served, lapsed>>

\* expiresAt: from the time that the broker states, or from the time of the call.
Renewed(began, lapses) == {lapses - TokenMargin, began + TokenRenewal}

\* The answer replaces the cached token, whichever of two calls it belongs to.
Authenticated(c) ==
    /\ desk[c].at = "authenticating"
    /\ \/ \E until \in Renewed(desk[c].since, tick + TokenLife) :
             /\ badge' = [lapses |-> tick + TokenLife, until |-> until]
             /\ desk' = [desk EXCEPT ![c] = [@ EXCEPT
                            !.at = "sent", !.lapses = tick + TokenLife, !.since = tick]]
       \/ desk' = [desk EXCEPT ![c] = Thrown] /\ UNCHANGED badge
    /\ UNCHANGED <<tick, served, lapsed>>

-----------------------------------------------------------------------------

\* What the broker may make of a request that it accepts.
Effects(c) ==
    LET name == Request(c).send
        limits == desk[c].limits
    IN CASE name = "createUser" -> {[served EXCEPT !.users = @ + 1]}
         [] name = "createAccount" -> {[served EXCEPT !.owners = Append(@, desk[c].user)]}
         [] name = "autoLiq" ->
                {served, [served EXCEPT !.daily = limits.daily, !.drawdown = limits.drawdown,
                                        !.mode = "RealTime"]}
         [] name = "positionLimit" -> {served, [served EXCEPT !.ceiling = limits.ceiling]}
         [] name = "lockOut" -> {[served EXCEPT !.daily = 0, !.doNotUnlock = TRUE]}
         [] name = "liquidate" -> {[served EXCEPT !.ordered = TRUE]}
         [] OTHER -> {served}

\* Faulty variant: only the drawdown is compared.
VerifiedByDrawdown(limits) == served.drawdown = limits.drawdown

\* configureRisk: what is read back, compared with what was sent.  The position
\* ceiling is neither read back nor are the answers to the updates looked at.
Verified(limits) ==
    /\ served.daily = limits.daily
    /\ served.drawdown = limits.drawdown
    /\ served.mode = "RealTime"

\* What a call makes of an answer.
Noted(c) ==
    LET d == desk[c]
        name == Request(c).send
    IN CASE name = "createUser" -> [d EXCEPT !.user = served'.users]
         [] name = "createAccount" ->
                [d EXCEPT !.account = Len(served'.owners), !.said = "confirmed"]
         [] name = "readBack" ->
                [d EXCEPT !.said = IF Verified(d.limits) THEN "confirmed" ELSE "unconfirmed"]
         [] name = "positions" -> [d EXCEPT !.netPos = served.netPos, !.said = "confirmed"]
         [] name \in {"lockOut", "liquidate"} -> [d EXCEPT !.said = "confirmed"]
         [] OTHER -> d

Answered(d) ==
    LET done == [d EXCEPT !.lapses = 0, !.since = 0] IN
    IF d.k = Len(HttpCalls[d.op]) THEN [done EXCEPT !.at = "returned"]
    ELSE [done EXCEPT !.k = @ + 1, !.at = Ready(d.op, d.k + 1)]

Told(c, op) == desk[c].op = op /\ desk[c].at = "returned" /\ desk[c].said = "confirmed"

\* Calls that have their verdict learn that the account was changed since.
Disturbing(c) ==
    [e \in Clerks \ {c} |->
        IF Told(e, "configure") /\ served' # served
        THEN [desk[e] EXCEPT !.disturbed = TRUE] ELSE desk[e]]
With(c, d) == desk' = [e \in Clerks |-> IF e = c THEN d ELSE Disturbing(c)[e]]

\* An expired token is refused by the broker; nothing asks for another.
Arrive(c) == desk[c].at = "sent" /\ UNCHANGED <<tick, badge>>
TooLate(c) ==
    /\ Arrive(c) /\ desk[c].lapses <= tick
    /\ desk' = [desk EXCEPT ![c] = Thrown]
    /\ lapsed' = TRUE
    /\ UNCHANGED served

InTime(c) == Arrive(c) /\ desk[c].lapses > tick /\ UNCHANGED lapsed

Accepted(c) ==
    /\ InTime(c)
    /\ served' \in Effects(c)
    /\ With(c, Answered(Noted(c)))

\* Applied, and the answer does not arrive.
AnswerLost(c) ==
    /\ InTime(c)
    /\ served' \in Effects(c)
    /\ With(c, Thrown)

\* errorText or failureReason in an answer: it throws, is reported, or is not
\* looked at, according to the request.  Any other failure of HTTP throws.
RefusalOf(c) ==
    LET name == Request(c).send IN
    IF name \in {"lockOut", "liquidate"}
    THEN Answered([desk[c] EXCEPT !.said = "unconfirmed"])
    ELSE IF name \in {"autoLiq", "positionLimit"} THEN Answered(desk[c])
    ELSE Thrown

RefusedByBroker(c) ==
    /\ InTime(c)
    /\ UNCHANGED served
    /\ desk' \in {[desk EXCEPT ![c] = RefusalOf(c)], [desk EXCEPT ![c] = Thrown]}

-----------------------------------------------------------------------------

\* The market fills what was ordered, in its own time.
Liquidated ==
    /\ served.ordered /\ served.netPos # 0
    /\ served' = [served EXCEPT !.netPos = 0]
    /\ UNCHANGED <<tick, badge, desk, lapsed>>

\* A request is answered, or given up by the HTTP client, within a tick.
Later ==
    /\ tick < LastTick
    /\ \A c \in Clerks : desk[c].at \in {"authenticating", "sent"} => desk[c].since = tick
    /\ tick' = tick + 1
    /\ UNCHANGED <<badge, desk, served, lapsed>>

BrokerNext ==
    /\ \/ \E c \in Clerks :
             \/ Begin(c) \/ AccessToken(c) \/ Authenticated(c)
             \/ TooLate(c) \/ Accepted(c) \/ AnswerLost(c) \/ RefusedByBroker(c)
       \/ Liquidated
       \/ Later
    /\ UNCHANGED brokerMode

-----------------------------------------------------------------------------

\* A request does not reach the broker with a lapsed token, whichever of two
\* answers was cached last (accessToken, "renew at 80 to leave room for a slow
\* call").
TokensAreFresh == ~ lapsed

\* What is reported as done is done: limits that were verified are in force until
\* another call changes the account, though a lock-out may have run in between;
\* a locked account is never released by a later configuration; and a
\* liquidation or an account that is reported exists at the broker.
ReportedIsDone ==
    \A c \in Clerks :
        /\ Told(c, "configure") /\ ~ desk[c].disturbed =>
               /\ served.daily = desk[c].limits.daily
               /\ served.drawdown = desk[c].limits.drawdown
               /\ served.mode = "RealTime"
        /\ Told(c, "disable") => served.doNotUnlock
        /\ Told(c, "flatten") => served.ordered
        /\ Told(c, "provision") =>
               /\ served.owners[desk[c].account] = desk[c].user
               /\ \A e \in Clerks \ {c} : Told(e, "provision") => desk[e].account # desk[c].account

\* Code that never ran against the broker does not run in production: no token
\* is asked for and nothing is changed (requireCapability).
ProductionIsUntouched ==
    brokerMode = "PRODUCTION" =>
        badge = NoBadge /\ \A c \in Clerks : desk[c].at \in {"idle", "thrown"}

=============================================================================
