--------------------------------- MODULE Site ---------------------------------
(***************************************************************************)
(* One deployment of the site: its settings and what it makes of them         *)
(* (src/server/config.ts), the adapters it selects (providers/registry.ts),    *)
(* the password before an unopened site (src/middleware.ts) and the launch     *)
(* checklist (server/views/admin-view.ts, planLaunchBlockers).  A deployment   *)
(* starts a process with other settings; nothing changes them under it.        *)
(***************************************************************************)
EXTENDS Broker

CONSTANTS
    Settings,       \* environments: what is set, and to what kind of value
    PlanTerms,      \* plan -> its governed terms and cap policy
    TrailingStop,   \* status of the trailing stop policy
    MaxDeploys      \* bound on deployments

\* What each setting may be: absent, half set, a value of either kind, or a typo.
Environment ==
    [mode : STRING, payments : BOOLEAN, email : BOOLEAN, secret : BOOLEAN,
     tradovate : {"none", "partial", "STAGING", "PRODUCTION", "misnamed"},
     address : {"none", "localhost", "public", "malformed"}, vercel : BOOLEAN,
     forced : BOOLEAN, company : BOOLEAN, password : STRING]

ASSUME SiteAssumption ==
    /\ MaxDeploys \in Nat
    /\ Settings \subseteq Environment

Platforms == {"TRADOVATE", "RITHMIC"}
NoPassword == ""
NoConfig == [mode |-> "none"]
NoReport == [infrastructure |-> 0]

VARIABLES
    settings,   \* process.env
    config,     \* what getConfig has cached
    adapters,   \* the adapters made so far: "payment" and one per platform
    cookie,     \* the password whose token a visitor's browser holds
    typed,      \* passwords the visitor has typed
    inside,     \* the password in force when the visitor last saw a page
    report,     \* the launch checklist as last shown
    deploys

siteVars == <<settings, config, adapters, cookie, typed, inside, report, deploys>>

NoAdapters == [a \in Platforms \union {"payment"} |-> "none"]

SiteInit ==
    /\ settings \in Settings
    /\ config = NoConfig /\ adapters = NoAdapters /\ report = NoReport
    /\ cookie = NoPassword /\ typed = {} /\ inside = NoPassword
    /\ deploys = 0

-----------------------------------------------------------------------------

\* tradingConfigured: a key, a secret, a CID and an environment, or the mock stays.
TradingConfigured(e) == e.tradovate \in {"STAGING", "PRODUCTION"}

Unconfigured(e) ==
    {p \in {"payments", "trading", "email"} :
        CASE p = "payments" -> ~ e.payments
          [] p = "trading" -> ~ TradingConfigured(e)
          [] p = "email" -> ~ e.email}

\* readBaseUrl: what is set, what the host injects, or the developer's machine.
BaseUrl(e) ==
    IF e.address # "none" THEN e.address ELSE IF e.vercel THEN "public" ELSE "localhost"

IsLocalDevelopment(e) == ~ e.vercel /\ BaseUrl(e) = "localhost"

\* The published secret serves on localhost only.
SessionSecret(e) ==
    IF e.secret THEN "own"
    ELSE IF e.mode = "DEMO" /\ IsLocalDevelopment(e) THEN "published" ELSE "none"

\* getConfig throws, and caches nothing.
Refuses(e) ==
    \/ e.mode \notin {"DEMO", "SANDBOX", "PRODUCTION"}
    \/ e.tradovate = "misnamed"
    \/ e.mode = "PRODUCTION" /\ Unconfigured(e) # {}
    \/ SessionSecret(e) = "none"

ReadConfig(e) ==
    [mode |-> e.mode,
     unconfigured |-> Unconfigured(e),
     environment |-> IF TradingConfigured(e) THEN e.tradovate ELSE "none",
     companyIncomplete |-> ~ e.company,
     sessionSecret |-> SessionSecret(e),
     secureCookies |-> e.mode # "DEMO" \/ ~ IsLocalDevelopment(e) \/ e.forced]

\* getConfig, as the first step of whatever needs it.
Booted ==
    /\ ~ Refuses(settings)
    /\ config' = IF config = NoConfig THEN ReadConfig(settings) ELSE config

GetConfig ==
    /\ config = NoConfig /\ Booted
    /\ UNCHANGED <<settings, adapters, cookie, typed, inside, report, deploys>>

\* A configured payment provider has no adapter: it throws.
GetPaymentProvider ==
    /\ adapters["payment"] = "none" /\ Booted
    /\ adapters' = [adapters EXCEPT !["payment"] =
          IF "payments" \in config'.unconfigured /\ config'.mode # "PRODUCTION"
          THEN "mock" ELSE "none"]
    /\ UNCHANGED <<settings, cookie, typed, inside, report, deploys>>

\* The adapter of a platform; Rithmic's answers every call by throwing.
TradingProvider(c, platform) ==
    IF "trading" \in c.unconfigured
    THEN IF c.mode = "PRODUCTION" THEN "none" ELSE "mock"
    ELSE LET scope == IF platform = "RITHMIC" THEN c.mode ELSE c.environment
         IN IF scope = "PRODUCTION" THEN "PRODUCTION" ELSE "SANDBOX"

GetTradingProvider(platform) ==
    /\ adapters[platform] = "none" /\ Booted
    /\ adapters' = [adapters EXCEPT ![platform] = TradingProvider(config', platform)]
    /\ UNCHANGED <<settings, cookie, typed, inside, report, deploys>>

-----------------------------------------------------------------------------

Gated == settings.password # NoPassword

\* The unlock form: the cookie is a digest of the password, not the password.
Unlock(word) ==
    /\ Gated
    /\ typed' = typed \union {word}
    /\ cookie' = IF word = settings.password THEN word ELSE cookie
    /\ UNCHANGED <<settings, config, adapters, inside, report, deploys>>

\* Every other request: a page, or the form instead of it.
Visit ==
    /\ Gated => cookie = settings.password
    /\ inside' = settings.password
    /\ UNCHANGED <<settings, config, adapters, cookie, typed, report, deploys>>

CookieExpires ==
    /\ cookie # NoPassword
    /\ cookie' = NoPassword
    /\ UNCHANGED <<settings, config, adapters, typed, inside, report, deploys>>

-----------------------------------------------------------------------------

GovernedTerms == {"listPrice", "positionCeiling", "drawdownAllowance", "dailyLossLimit",
                  "retainedBuffer", "dailyCashPayoutCap"}

\* planLaunchBlockers, over all plans.
PlanLaunchBlockers ==
    Cardinality({t \in (DOMAIN PlanTerms) \X GovernedTerms : PlanTerms[t[1]][t[2]] # "CONFIRMED"})
    + Cardinality({p \in DOMAIN PlanTerms : PlanTerms[p].cap = "unresolved"})
    + (IF TrailingStop = "CONFIRMED" THEN 0 ELSE Cardinality(DOMAIN PlanTerms))

\* staticLaunchBlockers: one for each provider, one for the company's details.
StaticLaunchBlockers(c) ==
    Cardinality(c.unconfigured) + (IF c.companyIncomplete THEN 1 ELSE 0)

UnverifiedLaunchCapabilities(adapter) ==
    {cap \in CAPABILITIES_REQUIRED_FOR_LAUNCH :
        adapter = "mock" \/ Capability[cap] # "VERIFIED"}

\* getLaunchReadiness: the blocking entries of each group.  Tax blocks for ever,
\* and the instruments that are not approved do not block.
GetLaunchReadiness ==
    /\ Booted
    /\ LET provider == TradingProvider(config', "TRADOVATE") IN
       /\ provider # "none"
       /\ adapters' = [adapters EXCEPT !["TRADOVATE"] = provider]
       /\ \E drafts \in {0, 1} :
             report' = [infrastructure |-> StaticLaunchBlockers(config'),
                        capabilities |-> Cardinality(UnverifiedLaunchCapabilities(provider)),
                        plans |-> PlanLaunchBlockers, documents |-> drafts, tax |-> 1]
    /\ UNCHANGED <<settings, cookie, typed, inside, deploys>>

\* A new process: nothing cached survives; the browser's cookie does.
Deploy ==
    /\ deploys < MaxDeploys
    /\ deploys' = deploys + 1
    /\ settings' \in Settings
    /\ config' = NoConfig /\ adapters' = NoAdapters /\ report' = NoReport
    /\ UNCHANGED <<cookie, typed, inside>>

SiteNext ==
    \/ GetConfig \/ GetPaymentProvider \/ GetLaunchReadiness \/ Visit \/ CookieExpires
    \/ \E platform \in Platforms : GetTradingProvider(platform)
    \/ \E e \in Settings : e.password # NoPassword /\ Unlock(e.password)
    \/ Deploy

-----------------------------------------------------------------------------

\* The process that takes real orders has no mock behind it, not even one made by
\* a page of the console; the published secret and plain cookies stay on the
\* developer's machine (getConfig, registry).
DefaultsStayLocal ==
    /\ settings.mode = "PRODUCTION" => \A a \in DOMAIN adapters : adapters[a] # "mock"
    /\ config # NoConfig =>
          /\ config.mode = settings.mode /\ config.sessionSecret # "none"
          /\ config.sessionSecret = "published" \/ ~ config.secureCookies =>
                 ~ settings.vercel /\ settings.address \in {"none", "localhost"}

\* Whoever sees a page of a site behind a password has typed the very password
\* that was in force, and no cookie of an earlier one is enough (middleware).
CurtainHolds == inside # NoPassword => inside \in typed

\* The checklist and the start of the process agree: where it shows nothing
\* missing, the same settings start in PRODUCTION once there is a secret.
ChecklistAgrees ==
    report # NoReport /\ report.infrastructure = 0 /\ settings.secret =>
        ~ Refuses([settings EXCEPT !.mode = "PRODUCTION"])

=============================================================================
