--------------------------- MODULE FeedSupervisor ---------------------------
(***************************************************************************)
(* The feed supervisor of a Live Core node (live_core.runtime              *)
(* .LiveCoreRuntime): the session thread that starts, maintains and ends   *)
(* the session and judges the feed once a second, the token authority's    *)
(* background thread that replaces the feed after a renewal, and the feed  *)
(* thread and its monitor (live_core.feed.LiveCoreFeed), which change the  *)
(* state under both.                                                       *)
(*                                                                         *)
(* Only _replace_feed, _start_session and _end_session hold _lock; a       *)
(* supervisor pass reads the state and acts on what it read later, with    *)
(* the time its tick began (epoch) as "now".  A time is kept as an age or  *)
(* as the time left, capped where no comparison can tell more; how long    *)
(* ago epoch was is the thread's own age.  A "since epoch e" condition is  *)
(* kept as evidence: what arrived since e.  One trading day is modelled.   *)
(***************************************************************************)
EXTENDS Integers, Sequences, FiniteSets

CONSTANTS
    Stocks,         \* stocks of the partition
    Need,           \* min(RECOVERY_MIN_STOCKS, stocks): fresh stocks needed for LIVE
    None,           \* Python's None
    Authority,      \* does this node verify and renew the token itself?
    Stuck,          \* FEED_STUCK_SECONDS
    StuckLimit,     \* FEED_STUCK_LIMIT_COOLDOWN_SECONDS
    Zombie,         \* ZOMBIE_SECONDS and SILENCE_RECONNECT_SECONDS
    HardReset,      \* HARD_RESET_SILENCE_SECONDS
    RecoveryTimeout,\* RECOVERY_TIMEOUT_SECONDS
    Spacing,        \* RESET_SPACING_SECONDS
    RefillDelay,    \* GAP_REFILL_DELAY_SECONDS
    MaxPass,        \* bound: time units one pass of a thread may span
    Arrivals,       \* bound: market phases in which the process may start
    Messages,       \* bound: may a message that is not accepted be a quote?
    Errors          \* bound: may an error text mention a Dhan limit?

ASSUME SupervisorAssumption ==
    /\ Need \in Nat \ {0} /\ Need <= Cardinality(Stocks) /\ Authority \in BOOLEAN
    /\ Stuck \in Nat /\ StuckLimit \in Nat /\ Stuck <= StuckLimit
    /\ Zombie \in Nat /\ HardReset \in Nat /\ Zombie <= HardReset
    /\ RecoveryTimeout \in Nat /\ RefillDelay \in Nat /\ MaxPass \in Nat
    /\ Arrivals \subseteq {"pre", "opening", "open", "closed"}
    /\ Messages \subseteq BOOLEAN /\ Errors \subseteq BOOLEAN
    /\ Spacing \in Seq(Nat) /\ Spacing # <<>>
    /\ \A i, j \in 1 .. Len(Spacing) : i <= j => Spacing[i] <= Spacing[j]

\* A spacing of TLC's instances: a first replacement at once, then one time unit apart.
ShortSpacing == <<0, 1>>

VARIABLES
    market,     \* the exchange clock: before the open, opening minute, later, closed
    started,    \* _started_for_date is today's date
    session,    \* state.session_status
    opened,     \* _market_opened_date is today's date
    sup,        \* supervisor_state
    sock,       \* the current feed: none, between cycles, dialing, redialing, connected
    status,     \* state.feed_status
    limited,    \* last_feed_error mentions a Dhan limit
    quoted,     \* last_quote_packet_epoch is not None
    silence,    \* age of the last accepted packet or connect
    msgAge,     \* age of the last message
    recovery,   \* _recovery_started (its age and the evidence since), or None
    watch,      \* age of _feed_watch, or None
    newCycle,   \* a connection attempt or a feed that no supervisor pass has seen
    resets,     \* _resets_since_live, capped at Len(Spacing)
    resetIn,    \* time until _next_reset_allowed
    noted,      \* reconnects that no maintenance pass has seen
    refillIn,   \* time until _gap_refill_at, or None
    thread,     \* per thread: where it is, its epoch (age, evidence), what it read, a renewal?
    lock,       \* the thread that holds _lock, or None
    sinceReset  \* history variable: age of the last unforced replacement (its epoch)

sessionVars == <<market, started, session, opened>>
feedVars == <<sock, status, limited, quoted, silence, msgAge, newCycle>>
judgeVars == <<sup, recovery, watch, resets, resetIn, sinceReset>>
refillVars == <<noted, refillIn>>
vars == <<sessionVars, feedVars, judgeVars, refillVars, thread, lock>>

Threads == {"session", "token"}
ASSUME NoneAssumption == None \notin Threads /\ None \notin Int

\* Evidence since some moment: did a valid frame arrive, and which stocks had a packet accepted?
Nothing == [frame |-> FALSE, fresh |-> {}]

MaxSpacing == Spacing[Len(Spacing)]
SpacingAfter(n) == IF n < Len(Spacing) THEN Spacing[n + 1] ELSE MaxSpacing

Unread == [feed |-> FALSE, status |-> "STOPPED", limited |-> FALSE, receiving |-> FALSE,
           silent |-> 0, newCycle |-> FALSE, market |-> "pre", live |-> FALSE]
AtRest == [pc |-> "idle", age |-> 0, ev |-> Nothing, renew |-> FALSE, obs |-> Unread]

Init ==
    /\ market \in Arrivals /\ started = FALSE /\ session = "CLOSED" /\ opened = FALSE
    /\ sock = "none" /\ status = "STOPPED" /\ limited = FALSE /\ quoted = FALSE
    /\ newCycle = FALSE
    /\ silence = HardReset + MaxPass /\ msgAge = Stuck + MaxPass
    /\ sup = "CLOSED" /\ recovery = None /\ watch = None
    /\ resets = 0 /\ resetIn = -MaxPass /\ sinceReset = MaxSpacing + MaxPass
    /\ noted = FALSE /\ refillIn = None
    /\ thread = [x \in Threads |-> AtRest]
    /\ lock = None

-----------------------------------------------------------------------------
(* Time.                                                                   *)

Older(age, limit) == IF age = None THEN None ELSE IF age < limit THEN age + 1 ELSE age
Sooner(left) == IF left = None THEN None ELSE IF left > -MaxPass THEN left - 1 ELSE left
Working(x) == thread[x].pc \notin {"idle", "verifying"}

Second ==
    /\ \A x \in Threads : Working(x) => thread[x].age < MaxPass
    /\ silence' = Older(silence, HardReset + MaxPass)
    /\ msgAge' = Older(msgAge, Stuck + MaxPass)
    /\ recovery' = IF recovery = None THEN None
                   ELSE [recovery EXCEPT !.age = Older(@, RecoveryTimeout + MaxPass)]
    /\ watch' = Older(watch, StuckLimit + MaxPass)
    /\ sinceReset' = Older(sinceReset, MaxSpacing + MaxPass)
    /\ resetIn' = Sooner(resetIn)
    /\ refillIn' = Sooner(refillIn)
    /\ thread' = [x \in Threads |->
                     IF Working(x) THEN [thread[x] EXCEPT !.age = @ + 1] ELSE thread[x]]
    /\ UNCHANGED <<sessionVars, sock, status, limited, quoted, newCycle, sup, resets, noted,
                   lock>>

Phases == <<"pre", "opening", "open", "closed">>

MarketMoves ==
    /\ \E i \in 1 .. 3 : market = Phases[i] /\ market' = Phases[i + 1]
    /\ UNCHANGED <<started, session, opened, feedVars, judgeVars, refillVars, thread, lock>>

InMarket(m) == m \in {"opening", "open"}

-----------------------------------------------------------------------------
(* The feed thread and its monitor.                                        *)

\* _build_feed: a new connection cycle.
FeedCycle ==
    /\ sock = "idle"
    /\ sock' = "dialing" /\ status' = "CONNECTING" /\ newCycle' = TRUE
    /\ UNCHANGED <<sessionVars, limited, quoted, silence, msgAge, judgeVars, refillVars, thread,
                   lock>>

\* _on_connect: the first connect of the cycle, or one dhanhq makes on its own (note_reconnect).
FeedConnects ==
    /\ sock \in {"dialing", "redialing", "up"}
    /\ sock' = "up" /\ status' = "CONNECTED" /\ limited' = FALSE
    /\ silence' = 0
    /\ noted' = (noted \/ sock # "dialing")
    /\ UNCHANGED <<sessionVars, quoted, msgAge, newCycle, judgeVars, refillIn, thread, lock>>

\* _open_if_due: a PRE_OPEN session turns LIVE on the first packet after the open.
OpenIfDue == IF session = "PRE_OPEN" /\ InMarket(market) THEN "LIVE" ELSE session

\* What every pending "since" condition learns of a message.
Adds(ev, frame, fresh) == [frame |-> ev.frame \/ frame, fresh |-> ev.fresh \cup fresh]
Shows(frame, fresh) ==
    /\ recovery' = IF recovery = None THEN None
                   ELSE [recovery EXCEPT !.ev = Adds(@, frame, fresh)]
    /\ thread' = [x \in Threads |->
                     IF Working(x) THEN [thread[x] EXCEPT !.ev = Adds(@, frame, fresh)]
                     ELSE thread[x]]

\* record_feed_message for a message that update_quote accepts nothing from; is it a quote?
FeedFrame(quote) ==
    /\ sock = "up"
    /\ session' = OpenIfDue
    /\ msgAge' = 0
    /\ quoted' = (quoted \/ quote)
    /\ Shows(quote \/ ~quoted, {})
    /\ status' = IF quote /\ status = "ERROR" THEN "CONNECTED" ELSE status
    /\ UNCHANGED <<market, started, opened, sock, limited, silence, newCycle, sup, watch,
                   resets, resetIn, sinceReset, refillVars, lock>>

\* A quote of stock s that update_quote accepts: record_live_quote.
FeedAccepts(s) ==
    /\ sock = "up" /\ OpenIfDue = "LIVE"
    /\ session' = "LIVE"
    /\ msgAge' = 0 /\ silence' = 0 /\ quoted' = TRUE
    /\ Shows(TRUE, {s})
    /\ status' = IF status = "ERROR" THEN "CONNECTED" ELSE status
    /\ UNCHANGED <<market, started, opened, sock, limited, newCycle, sup, watch, resets,
                   resetIn, sinceReset, refillVars, lock>>

\* _on_error, an error packet, the no-quote watchdog: the socket may live on.
FeedErrs ==
    /\ sock \in {"dialing", "redialing", "up"}
    /\ status' = "ERROR" /\ limited' \in Errors
    /\ UNCHANGED <<sessionVars, sock, quoted, silence, msgAge, newCycle, judgeVars, refillVars,
                   thread, lock>>

\* monitor_tick: a connection with no accepted packet for too long is told to end.
MonitorEnds ==
    /\ sock = "up" /\ session = "LIVE" /\ silence > Zombie
    /\ status' = "ERROR" /\ limited' = FALSE
    /\ UNCHANGED <<sessionVars, sock, quoted, silence, msgAge, newCycle, judgeVars, refillVars,
                   thread, lock>>

\* mark_websocket_reconnecting: the peer closes the socket (_on_close) and dhanhq redials, or the
\* feed loop ends and waits for its back-off.
FeedDrops ==
    /\ \/ sock = "up" /\ sock' = "redialing"
       \/ sock \in {"dialing", "redialing", "up"} /\ sock' = "idle"
    /\ status' = "RECONNECTING" /\ limited' \in Errors
    /\ noted' = TRUE
    /\ UNCHANGED <<sessionVars, quoted, silence, msgAge, newCycle, judgeVars, refillIn, thread,
                   lock>>

-----------------------------------------------------------------------------
(* Session start and end (session thread).                                 *)

\* _recovery_started = epoch, by thread x.
Since(x) == [age |-> thread[x].age, ev |-> thread[x].ev]

\* NodeState.reset and begin: every feed value of the session is forgotten.
ForgetFeed ==
    /\ limited' = FALSE /\ quoted' = FALSE /\ noted' = FALSE
    /\ silence' = HardReset + MaxPass /\ msgAge' = Stuck + MaxPass

\* _start_session up to begin(): the settings or the instruments cannot be loaded.
ConfigFails ==
    /\ thread["session"].pc = "idle" /\ market # "closed" /\ ~started /\ lock = None
    /\ session' = "CONFIG_ERROR" /\ status' = "STOPPED"
    /\ ForgetFeed
    /\ UNCHANGED <<market, started, opened, sock, newCycle, judgeVars, refillIn, thread, lock>>

StartSession ==
    /\ thread["session"].pc = "idle" /\ market # "closed" /\ ~started /\ lock = None
    /\ lock' = "session"
    /\ thread' = [thread EXCEPT !["session"] =
                     [AtRest EXCEPT !.pc = "starting", !.obs.market = market]]
    /\ session' = "AUTHENTICATING" /\ status' = "AUTHENTICATING" /\ sup' = "AUTHENTICATING"
    /\ ForgetFeed
    /\ UNCHANGED <<market, started, opened, sock, newCycle, recovery, watch, resets, resetIn,
                   sinceReset, refillIn>>

\* The token or the data plan is refused, or the feed cannot be started: a later tick starts again.
StartFails ==
    /\ thread["session"].pc = "starting"
    /\ \/ session' = "AUTH_ERROR" /\ status' = "AUTH_ERROR" /\ sup' = "AUTHENTICATING"
       \/ session' = "FEED_ERROR" /\ status' = "ERROR" /\ sup' = "CONNECTING"
    /\ lock' = None
    /\ thread' = [thread EXCEPT !["session"] = AtRest]
    /\ UNCHANGED <<market, started, opened, sock, limited, quoted, silence, msgAge,
                   newCycle, recovery, watch, resets, resetIn, sinceReset, refillVars>>

\* The session is LIVE, and today's bars are fetched now, later or not at all, by what the clock
\* said when the tick began.
StartDone ==
    /\ thread["session"].pc = "starting"
    /\ LET now == thread["session"].obs.market
       IN  /\ session' = IF InMarket(now) THEN "LIVE" ELSE "PRE_OPEN"
           /\ opened' = (opened \/ InMarket(now))
           /\ refillIn' = IF now = "opening" THEN RefillDelay - thread["session"].age ELSE None
    /\ started' = TRUE
    /\ sock' = "idle" /\ newCycle' = TRUE
    /\ sup' = "CONNECTING" /\ watch' = None /\ resets' = 0 /\ resetIn' = -MaxPass
    /\ recovery' = Since("session")
    /\ lock' = None
    /\ thread' = [thread EXCEPT !["session"] = AtRest]
    /\ UNCHANGED <<market, status, limited, quoted, silence, msgAge, sinceReset, noted>>

EndSession ==
    /\ thread["session"].pc = "idle" /\ market = "closed" /\ lock = None
    /\ started \/ sock # "none" \/ session # "CLOSED"
    /\ started' = FALSE /\ session' = "CLOSED" /\ opened' = FALSE
    /\ sock' = "none" /\ status' = "STOPPED" /\ newCycle' = FALSE
    /\ ForgetFeed
    /\ sup' = "CLOSED" /\ recovery' = None /\ watch' = None
    /\ resets' = 0 /\ resetIn' = -MaxPass
    /\ refillIn' = None
    /\ UNCHANGED <<market, sinceReset, thread, lock>>

-----------------------------------------------------------------------------
(* A supervisor pass (session thread): tick, _maintain, _supervise.        *)

Continue(x, pc) == thread' = [thread EXCEPT ![x].pc = pc]

\* Is the session of today running? (tick)
Maintains_Always == TRUE
Maintains == started

\* A tick of a started session; a follower may find the token renewed (_watch_token).
Tick ==
    /\ thread["session"].pc = "idle" /\ market # "closed" /\ Maintains
    /\ \E renew \in {FALSE, ~Authority} :
          thread' = [thread EXCEPT !["session"] =
                        [AtRest EXCEPT !.pc = IF renew THEN "replace" ELSE "read",
                                       !.renew = renew, !.obs.market = market]]
    /\ UNCHANGED <<sessionVars, feedVars, judgeVars, refillVars, lock>>

SupAtOpen == IF sup = "LIVE" THEN "RECOVERING" ELSE sup

\* _open_market when it is due, and the reads of _supervise.
ReadFeed ==
    /\ thread["session"].pc = "read"
    /\ LET now == thread["session"].obs.market
           age == thread["session"].age
           opens == InMarket(now) /\ ~opened
       IN  /\ opened' = (opened \/ opens)
           /\ session' = IF opens /\ session = "PRE_OPEN" THEN "LIVE" ELSE session
           /\ recovery' = IF opens THEN Since("session") ELSE recovery
           /\ sup' = IF opens THEN SupAtOpen ELSE sup
           /\ thread' = [thread EXCEPT !["session"].pc = "act", !["session"].obs =
                 [feed |-> sock # "none", status |-> status, limited |-> limited,
                  receiving |-> msgAge - age < Stuck, silent |-> silence - age,
                  newCycle |-> newCycle, market |-> now, live |-> session' = "LIVE"]]
    /\ newCycle' = FALSE
    /\ UNCHANGED <<market, started, sock, status, limited, quoted, silence, msgAge,
                   watch, resets, resetIn, sinceReset, refillVars, lock>>

\* _supervise, after its reads.
Judging == thread["session"].pc = "act"
Seen == thread["session"].obs
PassAge == thread["session"].age

\* A pass that decided ends in _replace_feed or goes on to the gap refill.
Decide(replace) ==
    thread' = [thread EXCEPT !["session"].pc = IF replace THEN "replace" ELSE "refill"]

NoFeed ==
    /\ Judging /\ ~Seen.feed
    /\ Decide(TRUE)
    /\ UNCHANGED <<sessionVars, feedVars, judgeVars, refillVars, lock>>

Rearm_EveryPass(watching) == TRUE
Rearm(watching) == watching = None \/ Seen.newCycle

NotConnected ==
    /\ Judging /\ Seen.feed /\ Seen.status # "CONNECTED"
    /\ recovery' = IF recovery = None THEN Since("session") ELSE recovery
    /\ sup' = IF Seen.status = "ERROR" THEN "DEGRADED" ELSE "RECONNECTING"
    /\ watch' = IF Seen.receiving THEN None ELSE IF Rearm(watch) THEN PassAge ELSE watch
    /\ Decide(/\ ~Seen.receiving /\ ~Rearm(watch)
              /\ watch - PassAge >= IF Seen.limited THEN StuckLimit ELSE Stuck)
    /\ UNCHANGED <<sessionVars, feedVars, resets, resetIn, sinceReset, refillVars, lock>>

\* recovery_stages: connected, a valid packet, an accepted packet, several fresh stocks.
Stages(e) ==
    /\ status = "CONNECTED"
    /\ e.frame
    /\ session # "PRE_OPEN" => Cardinality(e.fresh) >= Need

Recovered ==
    /\ Judging /\ Seen.feed /\ Seen.status = "CONNECTED" /\ recovery # None
    /\ Stages(recovery.ev)
    /\ sup' = "LIVE" /\ recovery' = None /\ resets' = 0 /\ resetIn' = -MaxPass /\ watch' = None
    /\ sinceReset' = MaxSpacing + MaxPass
    /\ Decide(FALSE)
    /\ UNCHANGED <<sessionVars, feedVars, refillVars, lock>>

Recovering ==
    /\ Judging /\ Seen.feed /\ Seen.status = "CONNECTED" /\ recovery # None
    /\ ~Stages(recovery.ev)
    /\ sup' = "RECOVERING" /\ watch' = None
    /\ Decide(InMarket(Seen.market) /\ recovery.age - PassAge >= RecoveryTimeout)
    /\ UNCHANGED <<sessionVars, feedVars, recovery, resets, resetIn, sinceReset, refillVars, lock>>

WatchLive ==
    /\ Judging /\ Seen.feed /\ Seen.status = "CONNECTED" /\ recovery = None
    /\ watch' = None
    /\ LET judged == InMarket(Seen.market) /\ session = "LIVE"
           zombie == judged /\ Seen.silent >= Zombie /\ Seen.silent < HardReset
       IN  /\ recovery' = IF zombie THEN Since("session") ELSE recovery
           /\ sup' = IF zombie THEN "DEGRADED" ELSE IF judged THEN sup ELSE "LIVE"
           /\ Decide(judged /\ Seen.silent >= HardReset)
    /\ UNCHANGED <<sessionVars, feedVars, resets, resetIn, sinceReset, refillVars, lock>>

\* _gap_refill_at after this pass looked at the reconnects.
RefillDue_EveryPass == IF noted \/ refillIn # None THEN RefillDelay - PassAge ELSE None
RefillDue == IF noted THEN RefillDelay - PassAge ELSE refillIn

\* The end of _maintain: a new reconnect (re)sets the refill; a due refill enqueues every stock.
Refill ==
    /\ thread["session"].pc = "refill"
    /\ LET fetch == RefillDue # None /\ RefillDue + PassAge <= 0 /\ Seen.live
       IN  refillIn' = IF fetch THEN None ELSE RefillDue
    /\ noted' = FALSE
    /\ thread' = [thread EXCEPT !["session"] = AtRest]
    /\ UNCHANGED <<market, started, session, opened, feedVars, judgeVars, lock>>

-----------------------------------------------------------------------------
(* _replace_feed, by either thread.                                        *)

Returns(x) ==
    thread' = [thread EXCEPT ![x] =
        IF x = "token" THEN AtRest
        ELSE [@ EXCEPT !.pc = IF thread[x].renew THEN "read" ELSE "refill",
                       !.renew = FALSE]]

MayReplace_Ended(x) == thread[x].renew \/ resetIn + thread[x].age <= 0
MayReplace(x) == started /\ (thread[x].renew \/ resetIn + thread[x].age <= 0)

Refused(x) ==
    /\ thread[x].pc = "replace" /\ lock = None /\ ~MayReplace(x)
    /\ Returns(x)
    /\ UNCHANGED <<sessionVars, feedVars, judgeVars, refillVars, lock>>

\* The old feed is taken away and stopped; _lock stays held.
Detach(x) ==
    /\ thread[x].pc = "replace" /\ lock = None /\ MayReplace(x)
    /\ lock' = x
    /\ thread' = [thread EXCEPT ![x].pc = "restart"]
    /\ sock' = "none"
    /\ status' = IF sock = "none" THEN status ELSE "STOPPED"
    /\ sup' = "RECONNECTING"
    /\ sinceReset' = IF thread[x].renew THEN sinceReset ELSE thread[x].age
    /\ UNCHANGED <<sessionVars, limited, quoted, silence, msgAge, newCycle, recovery, watch,
                   resets, resetIn, refillVars>>

Allow_First(n) == SpacingAfter(n)
Allow(n) == IF SpacingAfter(n) > SpacingAfter(n + 1) THEN SpacingAfter(n) ELSE SpacingAfter(n + 1)

\* A new feed is built and started, or cannot be.
Restart(x) ==
    /\ thread[x].pc = "restart"
    /\ IF thread[x].renew
       THEN UNCHANGED <<resets, resetIn>>
       ELSE /\ resets' = IF resets < Len(Spacing) THEN resets + 1 ELSE resets
            /\ resetIn' = Allow(resets) - thread[x].age
    /\ noted' = TRUE
    /\ recovery' = Since(x) /\ watch' = None
    /\ \/ sock' = "idle" /\ newCycle' = TRUE /\ sup' = "CONNECTING" /\ UNCHANGED <<status, limited>>
       \/ /\ sock' = "none" /\ status' = "ERROR" /\ limited' \in Errors /\ sup' = "RECONNECTING"
          /\ UNCHANGED newCycle
    /\ lock' = None
    /\ Returns(x)
    /\ UNCHANGED <<sessionVars, quoted, silence, msgAge, sinceReset, refillIn>>

-----------------------------------------------------------------------------
(* The token authority's verification (token thread).                      *)

\* _verify_own_token starts a check of the running session's token ...
VerifyToken ==
    /\ Authority /\ started /\ market # "closed" /\ thread["session"].pc = "idle"
    /\ thread["token"].pc = "idle"
    /\ Continue("token", "verifying")
    /\ UNCHANGED <<sessionVars, feedVars, judgeVars, refillVars, lock>>

\* ... which finds it good, fails, or renews it and replaces the feed with the time of the renewal.
TokenKept ==
    /\ thread["token"].pc = "verifying"
    /\ Continue("token", "idle")
    /\ UNCHANGED <<sessionVars, feedVars, judgeVars, refillVars, lock>>

TokenRenewed ==
    /\ thread["token"].pc = "verifying"
    /\ thread' = [thread EXCEPT !["token"] = [AtRest EXCEPT !.pc = "replace", !.renew = TRUE]]
    /\ UNCHANGED <<sessionVars, feedVars, judgeVars, refillVars, lock>>

-----------------------------------------------------------------------------
FeedMoves == FeedCycle \/ FeedErrs \/ MonitorEnds \/ FeedDrops
FeedMessage == (\E quote \in Messages : FeedFrame(quote)) \/ (\E s \in Stocks : FeedAccepts(s))

Supervise == NoFeed \/ NotConnected \/ Recovered \/ Recovering \/ WatchLive

SessionThread ==
    \/ StartSession \/ StartFails \/ StartDone \/ EndSession
    \/ Tick \/ ReadFeed \/ Supervise \/ Refill
    \/ Refused("session") \/ Detach("session") \/ Restart("session")

TokenThread ==
    \/ TokenKept \/ TokenRenewed \/ Refused("token") \/ Detach("token") \/ Restart("token")

Next ==
    \/ Second \/ MarketMoves
    \/ FeedMoves \/ FeedConnects \/ FeedMessage
    \/ SessionThread \/ ConfigFails
    \/ VerifyToken \/ TokenThread

Spec == Init /\ [][Next]_vars

\* The loop of the session thread ticks once a second and every wait of a pass is bounded; a token
\* check ends.  Nothing is assumed of the feed thread, the exchange or the token authority.
FairSpec ==
    /\ Spec
    /\ SF_vars(Second)
    /\ WF_vars(SessionThread)
    /\ WF_vars(TokenThread)

-----------------------------------------------------------------------------
(* Properties.                                                             *)

Ages(limit) == 0 .. limit
Evidence == [frame : BOOLEAN, fresh : SUBSET Stocks]
Observed ==
    [feed : BOOLEAN, limited : BOOLEAN, receiving : BOOLEAN, newCycle : BOOLEAN, live : BOOLEAN,
     status : {"STOPPED", "CONNECTING", "CONNECTED", "ERROR", "RECONNECTING", "AUTHENTICATING"},
     silent : -MaxPass .. HardReset + MaxPass,
     market : {"pre", "opening", "open", "closed"}]
ThreadState ==
    [pc : {"idle", "starting", "read", "act", "replace", "restart", "refill", "verifying"},
     age : Ages(MaxPass), ev : Evidence, renew : BOOLEAN, obs : Observed]

\* Type correctness, with the caps of every age and timer.
TypeOK ==
    /\ market \in {"pre", "opening", "open", "closed"}
    /\ started \in BOOLEAN /\ opened \in BOOLEAN
    /\ session \in {"CLOSED", "CONFIG_ERROR", "AUTHENTICATING", "AUTH_ERROR", "FEED_ERROR",
                    "PRE_OPEN", "LIVE"}
    /\ sup \in {"CLOSED", "AUTHENTICATING", "CONNECTING", "RECOVERING", "LIVE", "DEGRADED",
                "RECONNECTING"}
    /\ sock \in {"none", "idle", "dialing", "redialing", "up"}
    /\ status \in {"STOPPED", "AUTHENTICATING", "AUTH_ERROR", "CONNECTING", "CONNECTED", "ERROR",
                   "RECONNECTING"}
    /\ limited \in BOOLEAN /\ quoted \in BOOLEAN /\ newCycle \in BOOLEAN /\ noted \in BOOLEAN
    /\ silence \in Ages(HardReset + MaxPass) /\ msgAge \in Ages(Stuck + MaxPass)
    /\ recovery \in [age : Ages(RecoveryTimeout + MaxPass), ev : Evidence] \cup {None}
    /\ watch \in Ages(StuckLimit + MaxPass) \cup {None}
    /\ resets \in 0 .. Len(Spacing) /\ resetIn \in -MaxPass .. MaxSpacing
    /\ sinceReset \in Ages(MaxSpacing + MaxPass)
    /\ refillIn \in -MaxPass .. RefillDelay \cup {None}
    /\ thread \in [Threads -> ThreadState]
    /\ lock \in Threads \cup {None}

\* Outside a session no Dhan feed is held open, however late a token renewal gets the lock that
\* the end of the session held (_replace_feed, _end_session).
FeedOnlyInSession == ~started => sock = "none"

\* Hard resets are spaced: between two unforced replacements with no LIVE between them lies the
\* spacing of RESET_SPACING_SECONDS for that many resets, whatever token renewals, failed restarts
\* and slow passes come between (_replace_feed).
ReplacementsSpaced ==
    [][(Detach("session") /\ ~thread["session"].renew /\ resets > 0)
         => sinceReset - thread["session"].age >= SpacingAfter(resets)]_vars

\* No state waits forever: during market hours a feed that is not connected and delivers nothing,
\* or is connected and has nothing accepted, gets a new connection attempt or a replacement
\* (_supervise).
Hung ==
    /\ started /\ InMarket(market) /\ sock # "none" /\ ~newCycle
    /\ IF status = "CONNECTED" THEN silence >= HardReset ELSE msgAge >= Stuck
FeedNeverStuck == []<>~Hung

\* A gap is refilled: once the reconnects stop, the refill they asked for is made (_maintain).
GapRefilled == []<>(noted \/ refillIn = None \/ session # "LIVE")

\* What the comment in _supervise says of "no feed is running": a replacement that could not start
\* is tried again; a running feed is not replaced for it.
RetryOnlyWithoutFeed ==
    [][(Detach("session") /\ ~thread["session"].renew /\ ~Seen.feed) => sock = "none"]_vars

=============================================================================
