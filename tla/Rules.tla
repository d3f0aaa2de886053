--------------------------------- MODULE Rules ---------------------------------
(***************************************************************************)
(* The parts that stand on their own.  None of these machines shares state   *)
(* with another: a behaviour follows one of them, its topic, and the others  *)
(* rest in an initial state.                                                 *)
(***************************************************************************)
EXTENDS Reservation, Exposure, Calendar, Books, Promotions, Catalog, Access,
        Analytics, Overview, Forecast, Site

VARIABLE topic


\* A topic that rests does so in one of its initial states.
RulesInit ==
    /\ topic \in {"capacity", "exposure", "calendar", "books", "pricing",
                  "promotions", "catalog", "access", "analytics", "overview", "forecast",
                  "broker", "site"}
    /\ ReservationInit /\ BookInit /\ CalendarInit /\ BooksInit
    /\ PricingInit /\ PromotionsInit /\ CatalogInit /\ AccessInit
    /\ AnalyticsInit /\ OverviewInit /\ ForecastInit
    /\ BrokerInit /\ SiteInit
    /\ topic # "capacity" => /\ \A c \in Calls : rday[c] = CHOOSE d \in Sessions : TRUE
                             /\ \A c \in Calls : cash[c] = 1
    /\ topic # "calendar" => boundary = 0
    /\ topic # "broker" => brokerMode = "SANDBOX"
    /\ topic # "site" => settings = CHOOSE e \in Settings : TRUE

\* The variables of every topic but the one that moves.
rulesVars == <<resvVars, bookVars, calendarVars, booksVars, priceVars,
               promotionVars, catalogVars, accessVars, analyticsVars, overviewVars,
               forecast, brokerVars, siteVars>>
Only(name) ==
    /\ topic = name
    /\ name # "capacity" => UNCHANGED resvVars
    /\ name # "exposure" => UNCHANGED bookVars
    /\ name # "calendar" => UNCHANGED calendarVars
    /\ name # "books" => UNCHANGED booksVars
    /\ name # "pricing" => UNCHANGED priceVars
    /\ name # "promotions" => UNCHANGED promotionVars
    /\ name # "catalog" => UNCHANGED catalogVars
    /\ name # "access" => UNCHANGED accessVars
    /\ name # "analytics" => UNCHANGED analyticsVars
    /\ name # "overview" => UNCHANGED overviewVars
    /\ name # "forecast" => UNCHANGED forecast
    /\ name # "broker" => UNCHANGED brokerVars
    /\ name # "site" => UNCHANGED siteVars

RulesNext ==
    /\ \/ Only("capacity") /\ ReservationNext
       \/ Only("exposure") /\ BookNext
       \/ Only("calendar") /\ CalendarNext
       \/ Only("books") /\ BooksNext
       \/ Only("pricing") /\ PricingNext
       \/ Only("promotions") /\ PromotionsNext
       \/ Only("catalog") /\ CatalogNext
       \/ Only("access") /\ AccessNext
       \/ Only("analytics") /\ AnalyticsNext
       \/ Only("overview") /\ OverviewNext
       \/ Only("forecast") /\ ForecastNext
       \/ Only("broker") /\ BrokerNext
       \/ Only("site") /\ SiteNext
    /\ UNCHANGED topic

\* The figures of the console are those of the rows they are drawn from.
ReportsAddUp ==
    /\ topic = "analytics" =>
           /\ moves = 0 => StatsAddUp /\ EvidenceIsSound /\ CopiersAreTogether
           /\ tape = <<>> => SharedAddressIsSeen
    /\ topic = "overview" =>
           HeadroomIsExact /\ OverviewCoversCaps /\ DetailNeverFlatters /\ ProgressIsTrue
    /\ topic = "forecast" => BreakEvenIsTight /\ CalculatorAgrees /\ ScenariosAreBounded

\* Nobody comes past a gate that is shut: a customer's, the site's own, or that of
\* an adapter that was never tried (auth routes, config, middleware, types.ts).
GatesHold ==
    /\ topic = "access" => AccessIsSound
    /\ topic = "broker" => TokensAreFresh /\ ReportedIsDone /\ ProductionIsUntouched
    /\ topic = "site" => DefaultsStayLocal /\ CurtainHolds /\ ChecklistAgrees

RulesSpec == RulesInit /\ [][RulesNext]_<<topic, rulesVars>>
=============================================================================
