------------------------------ MODULE AppServer -------------------------------
(*****************************************************************************)
(* The full application's process (app.py, runtime_guard.py): startup builds *)
(* the feeds one after the other and isolates the optional ones, the service *)
(* watchdog feeds systemd's while the process serves, systemd restarts it    *)
(* when the pings stop, shutdown stops the feeds, and /public/health.json    *)
(* reports each feed by the hours it trades in.                              *)
(*****************************************************************************)
EXTENDS Integers, Sequences, FiniteSets

CONSTANTS
    Grace, WatchdogSec,     \* startup grace and systemd's limit, in watchdog intervals
    MaxSlow,                \* bound: intervals one startup step may take
    MaxTroubles,            \* bound: wedges, resource overruns, SIGTERMs
    MaxBroken,              \* bound: parts that cannot start
    UniverseSize, ShardCount, ShardWidth,  \* the stocks, and how the live-a.. routes slice them
    None

\* What startup() builds, in its order.  "settings" and "session" end the startup when they
\* raise; every other part has its own try block.
StartOrder ==
    <<"settings", "recorder", "session", "index_layer", "archive", "indicators", "index_options",
      "index_depth", "midcap", "underlying_indicators", "index_futures", "stock_options_nifty50",
      "stock_depth_nifty50", "global_context", "rbi_news">>
Parts == {StartOrder[k] : k \in 1..Len(StartOrder)}
Core == {"settings", "session"}

\* What the code gives these constants; the instances assume it.
ServerAssumption ==
    /\ Grace \in Nat /\ WatchdogSec \in Nat \ {0} /\ MaxSlow \in Nat
    /\ UniverseSize \in Nat /\ ShardCount \in Nat /\ ShardWidth \in Nat \ {0}
    /\ UniverseSize <= ShardCount * ShardWidth /\ None \notin Parts

\* A part that is built on another one and is not built without it.
Provider(part) ==
    CASE part = "index_depth" -> "index_options"
      [] part = "stock_depth_nifty50" -> "stock_options_nifty50"
      [] OTHER -> None

\* shutdown(): the archive's last copy first, then readers before what they read, the session last.
StopOrder ==
    <<"archive", "recorder", "indicators", "index_layer", "rbi_news", "global_context", "stock_depth_nifty50",
      "stock_options_nifty50", "index_futures", "underlying_indicators", "midcap", "index_depth",
      "index_options", "session">>

VARIABLES
    pc,             \* "down", "starting", "serving" or "stopping"
    step,           \* position in StartOrder or StopOrder
    running,        \* the parts that run
    broken,         \* the parts that would raise in this start
    config_error,
    hours,          \* the sessions that are open: equity, derivatives
    up, silent,     \* intervals since the process started, since systemd last heard of it
    slow,           \* intervals the current startup step has taken
    wedged, over,   \* HTTP does not answer; descriptors or memory past the watchdog's budget
    troubles,
    health,         \* /public/health.json: the overall status given, and what failed when it was
    clean           \* the process started within the grace and answered every interval since

vars == <<pc, step, running, broken, config_error, hours, up, silent, slow, wedged, over, troubles, health, clean>>

Init ==
    /\ pc = "down" /\ step = 0 /\ running = {} /\ broken = {} /\ config_error = FALSE
    /\ hours \in {{}, {"equity", "derivatives"}, {"derivatives"}}
    /\ up = 0 /\ silent = 0 /\ slow = 0 /\ wedged = FALSE /\ over = FALSE /\ troubles = 0
    /\ health = None /\ clean = FALSE

\* systemd starts the process; the lifespan starts the watchdog, which pings at once.
Exec ==
    /\ pc = "down"
    /\ pc' = "starting" /\ step' = 1 /\ running' = {} /\ config_error' = FALSE /\ up' = 0 /\ silent' = 0 /\ slow' = 0
    /\ broken' \in {b \in SUBSET Parts : Cardinality(b) <= MaxBroken}
    /\ wedged' = FALSE /\ over' = FALSE /\ health' = None /\ clean' = TRUE
    /\ UNCHANGED <<hours, troubles>>

\* startup(): one part.
Fails(part) == part \in broken \/ (Provider(part) # None /\ Provider(part) \notin running)
Fatal_Any(part) == part \in Core \/ part = "index_layer"
Fatal(part) == part \in Core
StartPart ==
    /\ pc = "starting" /\ step <= Len(StartOrder)
    /\ LET part == StartOrder[step]
       IN  /\ running' = IF Fails(part) THEN running ELSE running \cup {part}
           /\ config_error' = (Fails(part) /\ Fatal(part))
           /\ step' = IF Fails(part) /\ Fatal(part) THEN Len(StartOrder) + 1 ELSE step + 1
    /\ slow' = 0
    /\ UNCHANGED <<pc, broken, hours, up, silent, wedged, over, troubles, health, clean>>

\* The lifespan yields: the server listens, with or without a configuration error.
Serve ==
    /\ pc = "starting" /\ step > Len(StartOrder) /\ pc' = "serving"
    /\ UNCHANGED <<step, running, broken, config_error, hours, up, silent, slow, wedged, over, troubles, health, clean>>

\* ServiceWatchdog.check() and tick(), once an interval; after stop() it pings no more.
check == pc = "serving" /\ ~wedged /\ ~over
InGrace == up < Grace
Interval ==
    /\ pc # "down" /\ silent < WatchdogSec
    /\ pc = "starting" => slow < MaxSlow
    /\ up' = IF up < Grace THEN up + 1 ELSE up
    /\ silent' = IF pc # "stopping" /\ (check \/ InGrace) THEN 0 ELSE silent + 1
    /\ slow' = IF pc = "starting" THEN slow + 1 ELSE slow
    /\ clean' = (clean /\ (check \/ (pc = "starting" /\ up < Grace)))
    /\ UNCHANGED <<pc, step, running, broken, config_error, hours, wedged, over, troubles, health>>

\* systemd kills what has been silent for WatchdogSec (or does not stop in time) and restarts it.
Kill ==
    /\ pc # "down" /\ silent >= WatchdogSec
    /\ pc' = "down" /\ running' = {} /\ wedged' = FALSE /\ over' = FALSE /\ health' = None /\ clean' = FALSE
    /\ UNCHANGED <<step, broken, config_error, hours, up, silent, slow, troubles>>

Trouble ==
    /\ pc = "serving" /\ troubles < MaxTroubles /\ troubles' = troubles + 1
    /\ \/ wedged' = TRUE /\ UNCHANGED over
       \/ over' = TRUE /\ UNCHANGED wedged
    /\ UNCHANGED <<pc, step, running, broken, config_error, hours, up, silent, slow, health, clean>>
HoursTurn ==
    /\ hours' \in {{}, {"equity", "derivatives"}, {"derivatives"}} \ {hours}
    /\ troubles < MaxTroubles /\ troubles' = troubles + 1
    /\ UNCHANGED <<pc, step, running, broken, config_error, up, silent, slow, wedged, over, health, clean>>

\* SIGTERM: the watchdog stops, then shutdown() stops the parts in its order.
Sigterm ==
    /\ pc = "serving" /\ ~wedged /\ troubles < MaxTroubles /\ troubles' = troubles + 1
    /\ pc' = "stopping" /\ step' = 1 /\ clean' = FALSE
    /\ UNCHANGED <<running, broken, config_error, hours, up, silent, slow, wedged, over, health>>
StopPart ==
    /\ pc = "stopping" /\ step <= Len(StopOrder)
    /\ running' = running \ {StopOrder[step]} /\ step' = step + 1
    /\ UNCHANGED <<pc, broken, config_error, hours, up, silent, slow, wedged, over, troubles, health, clean>>
Exit ==
    /\ pc = "stopping" /\ step > Len(StopOrder)
    /\ pc' = "down" /\ running' = {} /\ health' = None /\ clean' = FALSE
    /\ UNCHANGED <<step, broken, config_error, hours, up, silent, slow, wedged, over, troubles>>

\* _build_health_payload(): a part that is None is an error; _out_of_session() closes it when
\* its own session is closed.  The archive and the recorder are not components.
AlwaysOn == {"global_context", "rbi_news"}
Derivatives == {"index_options", "index_depth", "index_futures", "stock_options_nifty50", "stock_depth_nifty50"}
Components == Parts \ {"settings", "archive", "recorder"}
_out_of_session(part) ==
    part \notin AlwaysOn /\ (IF part \in Derivatives THEN "derivatives" ELSE "equity") \notin hours
Shown(part) ==
    IF part \in running THEN "FRESH" ELSE IF _out_of_session(part) THEN "CLOSED" ELSE "ERROR"
_build_health_payload ==
    LET shown == {Shown(part) : part \in Components}
    IN  IF "ERROR" \in shown THEN IF "FRESH" \in shown THEN "DEGRADED" ELSE "DOWN"
        ELSE IF shown = {"CLOSED"} THEN "MARKET_CLOSED" ELSE "HEALTHY"
Health ==
    /\ pc = "serving" /\ ~wedged /\ health = None
    /\ health' = [overall |-> _build_health_payload, open |-> hours, failed |-> Components \ running]
    /\ UNCHANGED <<pc, step, running, broken, config_error, hours, up, silent, slow, wedged, over, troubles, clean>>
HealthSent ==
    /\ health # None /\ health' = None
    /\ UNCHANGED <<pc, step, running, broken, config_error, hours, up, silent, slow, wedged, over, troubles, clean>>

\* The routes.  Every one but the two health routes answers a configuration error first, then
\* the absence of the part it reads, then what that part says; `said` is the status in the
\* part's payload.
Routes ==
    {"live", "live_shard", "stock", "breadth", "sectors", "index", "indicators", "indicators_stock",
     "indicators_shard", "options", "depth", "futures", "stock_options_listing", "stock_options",
     "stock_depth_listing", "stock_depth", "underlying_indicators", "global_context", "rbi_news"}
Reads(route) ==
    CASE route = "index" -> "index_layer"
      [] route \in {"indicators", "indicators_stock", "indicators_shard"} -> "indicators"
      [] route = "options" -> "index_options" [] route = "depth" -> "index_depth"
      [] route = "futures" -> "index_futures"
      [] route \in {"stock_options_listing", "stock_options"} -> "stock_options_nifty50"
      [] route \in {"stock_depth_listing", "stock_depth"} -> "stock_depth_nifty50"
      [] route \in {"underlying_indicators", "global_context", "rbi_news"} -> route
      [] OTHER -> "session"
Said == {"LIVE", "OK", "MARKET_CLOSED", "STARTING", "ERROR"}
\* The statuses a route passes on with HTTP 200; the equity routes and the listings pass on all.
ServableStatuses(route) ==
    CASE route \in {"options", "depth", "futures", "stock_options", "stock_depth"} -> {"LIVE", "MARKET_CLOSED"}
      [] route = "underlying_indicators" -> {"OK"}
      [] route \in {"global_context", "rbi_news"} -> {"LIVE"}
      [] route = "index" -> Said \ {"ERROR"}
      [] OTHER -> Said
_error_response == config_error
Respond(route, said) ==
    IF _error_response THEN [code |-> 200, status |-> "CONFIG_ERROR"]
    ELSE IF Reads(route) \notin running THEN [code |-> 503, status |-> "UNAVAILABLE"]
    ELSE [code |-> IF said \in ServableStatuses(route) THEN 200 ELSE 503, status |-> said]

\* The slice of the universe each of the live-a.. and indicators-a.. routes serves.
Least(a, b) == IF a < b THEN a ELSE b
SHARD_RANGES == [k \in 0..ShardCount-1 |-> k * ShardWidth .. Least((k + 1) * ShardWidth, UniverseSize) - 1]

\* What DhanState.snapshot() can say: the session, the feed, and how many stocks ticked within
\* max_live_age_seconds; the last tick is that recent exactly when some stock is.
Snapshots == [session : {"LIVE", "WAITING"}, feed : {"CONNECTED", "RECONNECTING"},
              subscribed : {"some", "all"}, live : {"none", "some", "all"}, thread : BOOLEAN]
stream_health(snap) ==
    CASE snap.session = "LIVE" /\ snap.live = "none" -> IF snap.feed = "CONNECTED" THEN "CONNECTED_NO_LIVE_QUOTES" ELSE snap.feed
      [] snap.session = "LIVE" /\ snap.live = "all" -> "FULL_LIVE"
      [] snap.session = "LIVE" /\ snap.live = "some" -> "PARTIAL_LIVE"
      [] OTHER -> snap.feed
Fresh(snap) == snap.session = "LIVE" /\ snap.live # "none"
\* /health: HTTP 200 always, the status says the truth.
_service_health_payload(snap) ==
    LET faults == "equity" \in hours /\ (snap.session # "LIVE" \/ snap.feed # "CONNECTED" \/ ~snap.thread \/ ~Fresh(snap))
    IN  IF config_error THEN "CONFIG_ERROR" ELSE IF faults \/ over THEN "DEGRADED" ELSE "OK"
\* /ready
ReadyNow(snap) ==
    snap.session = "LIVE" /\ snap.feed = "CONNECTED" /\ snap.subscribed = "all" /\ stream_health(snap) = "FULL_LIVE"
ready(snap) ==
    IF _error_response THEN [code |-> 200, ready |-> FALSE]
    ELSE [code |-> IF ReadyNow(snap) THEN 200 ELSE 503, ready |-> ReadyNow(snap)]

Next ==
    \/ Exec \/ StartPart \/ Serve \/ Interval \/ Kill
    \/ Trouble \/ HoursTurn \/ Sigterm \/ StopPart \/ Exit \/ Health \/ HealthSent
Spec == Init /\ [][Next]_vars
\* systemd's and the watchdog's timers run on, and a startup or a shutdown makes progress.
Process == Exec \/ StartPart \/ Serve \/ StopPart \/ Exit

-----------------------------------------------------------------------------
TypeOK ==
    /\ pc \in {"down", "starting", "serving", "stopping"}
    /\ running \subseteq Parts /\ broken \subseteq Parts
    /\ step \in 0..Len(StartOrder)+1 /\ up \in 0..Grace /\ silent \in 0..WatchdogSec /\ slow \in 0..MaxSlow
    /\ pc = "down" => running = {}

\* Startup isolates the optional feeds: a process whose settings and session could start
\* runs every part that could start and whose provider runs, whichever others raised; and at
\* every moment of startup and shutdown a depth feed runs only while the option chains it
\* reads its strikes from do.
IsolatedStart ==
    /\ pc = "serving" /\ broken \cap Core = {} =>
         \A part \in Parts : part \in running <=> part \notin broken /\ (Provider(part) # None => Provider(part) \in running)
    /\ \A part \in running : Provider(part) # None => Provider(part) \in running

\* systemd's limit is never reached by a process that started within the grace and has
\* answered every check since: the pings of the grace period bridge a startup that is longer
\* than the limit.
CleanKept == clean => silent < WatchdogSec

\* A process whose HTTP server stops answering is restarted: it does not stay wedged.
Answering == ~wedged

\* A feed that failed to start is never hidden while its own session is open, and the hours of
\* the other sessions do not matter for it (app.py: _out_of_session).
FailedShown ==
    health # None =>
        /\ (\E part \in health.failed : part \in AlwaysOn
               \/ (IF part \in Derivatives THEN "derivatives" ELSE "equity") \in health.open)
             => health.overall \in {"DEGRADED", "DOWN"}
        /\ health.open = {} /\ health.failed \cap AlwaysOn = {} => health.overall \in {"HEALTHY", "MARKET_CLOSED"}

\* The health report covers the routes: while every session is open and the report is HEALTHY,
\* every route finds its part and no stock is in no shard or in two of the fixed live-a.. slices.
HealthCoversRoutes ==
    pc = "serving" /\ hours = {"equity", "derivatives"} /\ _build_health_payload = "HEALTHY" =>
        /\ \A route \in Routes : \E said \in Said : Respond(route, said) = [code |-> 200, status |-> said]
        /\ \A stock \in 0..UniverseSize-1 :
               \E k \in DOMAIN SHARD_RANGES : \A j \in DOMAIN SHARD_RANGES : stock \in SHARD_RANGES[j] <=> j = k

\* The two probes agree: in market hours, when /ready says the whole universe is live and the
\* feed's thread runs, /health has no fault to report but the process's own.
ProbesAgree ==
    pc = "serving" /\ "equity" \in hours /\ ~over =>
        \A snap \in Snapshots : ready(snap).ready /\ snap.thread => _service_health_payload(snap) = "OK"
=============================================================================
