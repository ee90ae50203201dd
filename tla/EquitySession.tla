---------------------------- MODULE EquitySession ----------------------------
(***************************************************************************)
(* The market session of the full application: the session thread          *)
(* (session.SessionManager), the store it begins and wipes                 *)
(* (state.PsygridState), the feed thread it starts and stops               *)
(* (feed_runtime.LiveFeed), the loaders of today's 1-minute history, the   *)
(* backfill workers (backfill.HistoricalBackfill) and stop(), which the    *)
(* application calls from another thread.                                  *)
(*                                                                         *)
(* Time is counted in minutes.  A candle is its minute and its source: no  *)
(* property here depends on prices or volumes.  A REST request is a pair   *)
(* of steps, so that everything else can happen while it is in flight.     *)
(***************************************************************************)
EXTENDS Integers, SequencesExt, FiniteSetsExt

CONSTANTS
    Sids,           \* security ids of the instruments
    None,           \* Python's None
    DayLen,         \* minutes of a day
    Open, Close,    \* market_start and market_end, as minutes of a day
    Days,           \* bound: days of a behaviour
    StopDays,       \* bound: days on which the application may be stopped
    Holidays,       \* days that are not trading days
    Slots,          \* bound: feed threads that can be alive together
    Workers,        \* the threads of backfill._executor (WORKERS)
    Retries,        \* HISTORY_BOOTSTRAP_RETRIES
    MaxReconnects   \* bound: reconnects of a session

ASSUME SessionAssumption ==
    /\ DayLen \in Nat \ {0} /\ Open \in Nat /\ Close \in Nat
    /\ Open < Close /\ Close < DayLen /\ 2 * (Close - Open) < DayLen /\ Days \in Nat \ {0}
    /\ Retries \in Nat \ {0} /\ MaxReconnects \in Nat
    /\ IsFiniteSet(Sids)

Times == 0..(Days * DayLen - 1)
DayOf(t) == t \div DayLen
OpenOf(d) == d * DayLen + Open

Sources == {"WS", "HIST"}
Candle == [minute : Times, src : Sources]

ASSUME NoneAssumption ==
    None \notin Int /\ None \notin [sid : Sids, from : Nat, to : Nat]

VARIABLES
    now,        \* the wall clock
    state,      \* PsygridState: date, status, candles, cur, reconnects
    spc, stick, \* the session thread and the time its pass began
    started, lastSeen, cooling,    \* its _started_for_date, _last_reconnect_seen, _auth_retry_at
    mpc,        \* the thread that calls stop()
    flags,      \* the events that are set: stop_event, history_stop, _stop_requested, _closed
    fth, fcur,  \* feed threads, and the one LiveFeed._thread names
    hist, pass, \* history loaders, and the sweep _load_1m_history is in
    queue, queued, wk              \* backfill

sessionVars == <<spc, stick, started, lastSeen, cooling>>
feedVars == <<fth, fcur>>
histVars == <<hist, pass>>
bfVars == <<queue, queued, wk>>
vars == <<now, state, sessionVars, mpc, flags, feedVars, histVars, bfVars>>

-----------------------------------------------------------------------------
(* state.PsygridState *)

is_trading_day(d) == d \notin Holidays
in_market(t) == /\ is_trading_day(DayOf(t))
                /\ t % DayLen >= Open /\ t % DayLen < Close

\* the instruments are known exactly while date is
NewState == [date |-> None, status |-> "CLOSED", reconnects |-> 0,
             candles |-> [s \in Sids |-> {}], cur |-> [s \in Sids |-> None]]

reset == NewState

\* Mutant of begin: what is in memory is kept.
begin_Keeps(d) == [state EXCEPT !.date = d, !.status = "AUTHENTICATING", !.reconnects = 0]

begin(d) == [reset EXCEPT !.date = d, !.status = "AUTHENTICATING"]

MinutesOf(rows) == {c.minute : c \in rows}

\* Mutant of Prefer: the latest writer of a minute wins.
Prefer_Latest(rows, new) == {c \in rows : c.minute \notin MinutesOf(new)} \cup new

\* _append_completed_1m_locked and the merge loop: one candle per minute, and a
\* historical one is never replaced by one the feed built
Prefer(rows, new) ==
    LET kept == {c \in rows : \A n \in new :
                    n.minute = c.minute => c.src = "HIST" /\ n.src # "HIST"}
    IN  kept \cup {n \in new : n.minute \notin MinutesOf(kept)}

merge_today_1m_history(st, s, minutes) ==
    LET rows == Prefer(st.candles[s], {[minute |-> m, src |-> "HIST"] : m \in minutes})
    IN  [st EXCEPT !.candles[s] = rows,
                   !.cur[s] = IF @ \in MinutesOf(rows) THEN None ELSE @]

Built(m) == {[minute |-> m, src |-> "WS"]}

update_quote(st, s, m) ==
    IF st.cur[s] = None THEN [st EXCEPT !.cur[s] = m]
    ELSE IF m <= st.cur[s] THEN st
    ELSE [st EXCEPT !.candles[s] = Prefer(@, Built(st.cur[s])),
                    !.cur[s] = m]

finalize_current(st) ==
    [st EXCEPT !.candles = [s \in Sids |->
                    IF st.cur[s] = None THEN st.candles[s]
                    ELSE Prefer(st.candles[s], Built(st.cur[s]))],
               !.cur = [s \in Sids |-> None]]

\* feed.LiveFeed._parse_ltt: the packet carries a time of day only, and the nearest
\* day is assumed; a time that would lie in the future is refused
ParseLtt(t) ==
    LET dist(x) == IF x >= now THEN x - now ELSE now - x
        candidates == {(DayOf(now) + k) * DayLen + (t % DayLen) : k \in {-1, 0, 1}}
        nearest == CHOOSE x \in candidates : \A y \in candidates : dist(x) <= dist(y)
    IN  IF nearest <= now /\ nearest >= 0 THEN nearest ELSE None

-----------------------------------------------------------------------------
(* feed_runtime.LiveFeed *)

Alive(i) == i # None /\ fth[i] # "dead"
Set(flag) == flags' = flags \cup {flag}

\* start(): a thread that is alive is left alone
StartFeed ==
    IF Alive(fcur) THEN UNCHANGED feedVars
    ELSE \E i \in Slots : /\ fth[i] = "dead"
                          /\ fth' = [fth EXCEPT ![i] = "connect"]
                          /\ fcur' = i

FeedConnects(i) ==
    /\ fth[i] = "connect"
    /\ fth' = [fth EXCEPT ![i] = "open"]
    /\ UNCHANGED <<now, state, sessionVars, mpc, flags, fcur, histVars, bfVars>>

\* a failed connect, a dropped connection or an error packet: counted once, or twice
\* when on_close reports it before the loop does, and the thread backs off and
\* connects again; told to stop, it ends instead and counts nothing
FeedFails(i) ==
    /\ fth[i] \in {"connect", "open"}
    /\ fth' = [fth EXCEPT ![i] = IF "feed" \in flags THEN "dead" ELSE "connect"]
    /\ IF "feed" \in flags THEN UNCHANGED state
       ELSE \E k \in {1, 2} : /\ state.reconnects + k <= MaxReconnects
                              /\ state' = [state EXCEPT !.reconnects = @ + k]
    /\ UNCHANGED <<now, sessionVars, mpc, flags, fcur, histVars, bfVars>>

\* external: the exchange trades until a while after market_end
Traded(t) == is_trading_day(DayOf(t)) /\ t % DayLen >= Open /\ t % DayLen <= Close

\* _handle_packet: a Full packet whose last trade was at t
Packet(i, s, t) ==
    /\ fth[i] = "open" /\ state.status = "LIVE" /\ state.date # None
    /\ ParseLtt(t) # None
    /\ state' = update_quote(state, s, ParseLtt(t))
    /\ UNCHANGED <<now, sessionVars, mpc, flags, feedVars, histVars, bfVars>>

-----------------------------------------------------------------------------
(* backfill.HistoricalBackfill *)

LastCompleted(s) == Max(MinutesOf(state.candles[s]))

\* enqueue_gap: the sids with a gap between their last completed minute and t
Gaps(t) == {s \in Sids : /\ state.candles[s] # {}
                         /\ LastCompleted(s) + 1 < t
                         /\ s \notin queued}

Gap(s, t) == [sid |-> s, from |-> LastCompleted(s) + 1, to |-> t]

enqueue_gap(t) ==
    IF "backfill" \in flags THEN UNCHANGED bfVars
    ELSE /\ queued' = queued \cup Gaps(t)
         /\ queue' = queue \o [i \in 1 .. Cardinality(Gaps(t)) |-> Gap(SetToSeq(Gaps(t))[i], t)]
         /\ UNCHANGED wk

\* _worker takes the next job; once closed, only workers already running do
WorkerTakes(w) ==
    /\ wk[w] = None /\ queue # <<>> /\ "backfill" \notin flags
    /\ wk' = [wk EXCEPT ![w] = Head(queue)]
    /\ queue' = Tail(queue)
    /\ UNCHANGED <<now, state, sessionVars, mpc, flags, feedVars, histVars, queued>>

\* Mutant of WorkerEnds: the key is given back only after a merge.
WorkerEnds_KeepsKey(w) ==
    /\ wk[w] # None
    /\ \E rows \in {{}, wk[w].from..(wk[w].to - 1)} :
          /\ state' = IF rows = {} THEN state
                      ELSE merge_today_1m_history(state, wk[w].sid, rows)
          /\ queued' = IF rows = {} THEN queued ELSE queued \ {wk[w].sid}
    /\ wk' = [wk EXCEPT ![w] = IF queue = <<>> THEN None ELSE Head(queue)]
    /\ queue' = IF queue = <<>> THEN queue ELSE Tail(queue)
    /\ UNCHANGED <<now, sessionVars, mpc, flags, feedVars, histVars>>

\* the request ends with rows, with none or with an error; the worker goes on with
\* the next job
WorkerEnds(w) ==
    /\ wk[w] # None
    /\ \E rows \in {{}, wk[w].from..(wk[w].to - 1)} :
          state' = IF rows = {} THEN state
                   ELSE merge_today_1m_history(state, wk[w].sid, rows)
    /\ queued' = queued \ {wk[w].sid}
    /\ wk' = [wk EXCEPT ![w] = IF queue = <<>> THEN None ELSE Head(queue)]
    /\ queue' = IF queue = <<>> THEN queue ELSE Tail(queue)
    /\ UNCHANGED <<now, sessionVars, mpc, flags, feedVars, histVars>>

-----------------------------------------------------------------------------
(* The loaders of today's history *)

Stopped == flags \cap {"stop", "history"} # {}
Loader0(pc) == [pc |-> pc, left |-> 0, at |-> 0]
NoLoader == Loader0("done")
NewLoader == [pc |-> "ask", left |-> Retries, at |-> 0]
Loading == \E s \in Sids : hist[s].pc \in {"ask", "asked"}

\* one attempt of _load_one_1m_history: given up when stopped or out of the market
LoaderAsks(s) ==
    /\ hist[s].pc = "ask"
    /\ hist' = [hist EXCEPT ![s] =
                  IF Stopped \/ ~in_market(now) THEN Loader0("failed")
                  ELSE [pc |-> "asked", left |-> @.left - 1, at |-> now]]
    /\ UNCHANGED <<now, state, sessionVars, mpc, flags, feedVars, pass, bfVars>>

\* load_today_completed_intraday answered: completed minutes of the day it asked for,
\* nothing, or an error; merged without looking at the session again
LoaderAnswered(s) ==
    /\ hist[s].pc = "asked"
    /\ \E rows \in {{}, OpenOf(DayOf(hist[s].at))..(hist[s].at - 1)} :
          /\ state' = IF rows = {} THEN state ELSE merge_today_1m_history(state, s, rows)
          /\ hist' = [hist EXCEPT ![s] =
                        IF rows # {} THEN NoLoader
                        ELSE IF @.left = 0 THEN Loader0("failed")
                        ELSE [@ EXCEPT !.pc = "ask", !.at = 0]]
    /\ UNCHANGED <<now, sessionVars, mpc, flags, feedVars, pass, bfVars>>

\* _load_1m_history: when the first sweep is over, a second one for what failed
SecondSweep ==
    /\ pass = 1 /\ ~Loading
    /\ pass' = 2
    /\ hist' = [s \in Sids |->
                  IF hist[s].pc = "failed" /\ ~Stopped /\ in_market(now)
                  THEN NewLoader ELSE NoLoader]
    /\ UNCHANGED <<now, state, sessionVars, mpc, flags, feedVars, bfVars>>

-----------------------------------------------------------------------------
(* session.SessionManager._loop *)

\* _start_session, up to the authentication
BeginSession ==
    /\ spc = "wait" /\ "stop" \notin flags
    /\ in_market(now) /\ started # DayOf(now)
    /\ stick' = now
    /\ IF cooling THEN /\ spc' = "check" /\ UNCHANGED <<state, flags>>
       ELSE /\ spc' = "auth"
            /\ flags' = flags \ {"history"}
            /\ state' = begin(DayOf(now))
    /\ UNCHANGED <<now, started, lastSeen, cooling, mpc, feedVars, histVars, bfVars>>

\* rate limited, refused or unreachable: retried after a while
AuthFails ==
    /\ spc = "auth"
    /\ \E why \in {"AUTH_WAITING", "AUTH_ERROR"} : state' = [state EXCEPT !.status = why]
    /\ cooling' = TRUE
    /\ spc' = "check"
    /\ UNCHANGED <<now, stick, started, lastSeen, mpc, flags, feedVars, histVars, bfVars>>

AuthSucceeds ==
    /\ spc = "auth"
    /\ state' = [state EXCEPT !.status = "LIVE"]
    /\ started' = DayOf(stick)
    /\ cooling' = FALSE
    /\ lastSeen' = state.reconnects
    /\ spc' = "snapshot"
    /\ UNCHANGED <<now, stick, mpc, flags, feedVars, histVars, bfVars>>

\* the quote snapshot was applied or failed: the feed and the loaders start
OpenFeed ==
    /\ spc = "snapshot"
    /\ StartFeed
    /\ flags' = IF Alive(fcur) THEN flags ELSE flags \ {"feed"}
    /\ hist' = [s \in Sids |-> NewLoader]
    /\ pass' = 1
    /\ spc' = "check"
    /\ UNCHANGED <<now, state, stick, started, lastSeen, cooling, mpc, bfVars>>

\* a pass of a session that runs goes straight to the check
Maintain ==
    /\ spc = "wait" /\ "stop" \notin flags
    /\ in_market(now) /\ started = DayOf(now)
    /\ stick' = now
    /\ spc' = "check"
    /\ UNCHANGED <<now, state, started, lastSeen, cooling, mpc, flags, feedVars, histVars, bfVars>>

_check_for_feed_interruption ==
    /\ spc = "check"
    /\ spc' = "wait" /\ stick' = 0
    /\ lastSeen' = Max({lastSeen, state.reconnects})
    /\ IF state.reconnects > lastSeen /\ state.status = "LIVE"
       THEN enqueue_gap(stick) ELSE UNCHANGED bfVars
    /\ UNCHANGED <<now, state, started, cooling, mpc, flags, feedVars, histVars>>

\* Mutant of EndSession: the feed is not told to stop.
EndSession_FeedRuns ==
    /\ spc = "wait" /\ "stop" \notin flags
    /\ ~in_market(now) /\ started # None
    /\ flags' = flags \cup {"history"}
    /\ spc' = "joinfeed"
    /\ UNCHANGED <<now, state, stick, started, lastSeen, cooling, mpc, feedVars, histVars, bfVars>>

\* _end_session: history_stop, then feed.stop()
EndSession ==
    /\ spc = "wait" /\ "stop" \notin flags
    /\ ~in_market(now) /\ started # None
    /\ flags' = flags \cup {"history", "feed"}
    /\ spc' = "joinfeed"
    /\ UNCHANGED <<now, state, stick, started, lastSeen, cooling, mpc, feedVars, histVars, bfVars>>

\* the joins wait for 8 and 10 seconds: the thread has ended, or it has not
JoinFeed ==
    /\ spc = "joinfeed"
    /\ fcur' = None
    /\ spc' = "joinhistory"
    /\ UNCHANGED <<now, state, stick, started, lastSeen, cooling, mpc, flags, fth, histVars, bfVars>>

\* finalize_current, then the hook that archives the day
FinalizeDay ==
    /\ spc = "joinhistory"
    /\ state' = finalize_current(state)
    /\ spc' = "archived"
    /\ UNCHANGED <<now, stick, started, lastSeen, cooling, mpc, flags, feedVars, histVars, bfVars>>

WipeDay ==
    /\ spc = "archived"
    /\ state' = reset
    /\ started' = None /\ lastSeen' = 0 /\ cooling' = FALSE
    /\ spc' = "wait"
    /\ UNCHANGED <<now, stick, mpc, flags, feedVars, histVars, bfVars>>

LoopEnds ==
    /\ spc = "wait" /\ "stop" \in flags
    /\ spc' = "gone"
    /\ UNCHANGED <<now, state, stick, started, lastSeen, cooling, mpc, flags, feedVars, histVars, bfVars>>

-----------------------------------------------------------------------------
(* SessionManager.stop, called by another thread *)

StopBegins ==
    /\ mpc = "up" /\ DayOf(now) \in StopDays
    /\ flags' = flags \cup {"stop", "history", "feed"}
    /\ mpc' = "joinfeed"
    /\ UNCHANGED <<now, state, sessionVars, feedVars, histVars, bfVars>>

StopCloses ==
    /\ mpc = "joinfeed"
    /\ fcur' = None
    /\ Set("backfill")
    /\ mpc' = "joinhistory"
    /\ UNCHANGED <<now, state, sessionVars, fth, histVars, bfVars>>

\* the wipe comes before the session thread is joined
StopWipes ==
    /\ mpc = "joinhistory"
    /\ state' = reset
    /\ mpc' = "joinself"
    /\ UNCHANGED <<now, sessionVars, flags, feedVars, histVars, bfVars>>

\* the join of 3 seconds ends; the process exits and its daemon threads with it
StopEnds ==
    /\ mpc = "joinself"
    /\ mpc' = "down"
    /\ spc' = "gone"
    /\ fth' = [i \in Slots |-> "dead"]
    /\ hist' = [s \in Sids |-> NoLoader]
    /\ UNCHANGED <<now, state, stick, started, lastSeen, cooling, flags, fcur, pass, bfVars>>

-----------------------------------------------------------------------------
(* Time *)

\* What a session started is over before the day is: requests and joins are bounded
\* by minutes, the evening lasts hours.
EveningOutlasts ==
    DayOf(now + 1) # DayOf(now) =>
        /\ ~Loading /\ pass # 1 /\ queue = <<>> /\ \A w \in Workers : wk[w] = None
        /\ spc \in {"wait", "gone"} /\ started = None
        /\ \A i \in Slots : fth[i] = "dead"

Tick ==
    /\ now + 1 \in Times /\ mpc # "down"
    /\ EveningOutlasts
    /\ now' = now + 1
    /\ UNCHANGED <<state, sessionVars, mpc, flags, feedVars, histVars, bfVars>>

CooldownEnds ==
    /\ cooling
    /\ cooling' = FALSE
    /\ UNCHANGED <<now, state, spc, stick, started, lastSeen, mpc, flags, feedVars, histVars, bfVars>>

-----------------------------------------------------------------------------
Init ==
    /\ now = Open
    /\ state = NewState
    /\ spc = "wait" /\ stick = 0 /\ started = None /\ lastSeen = 0 /\ cooling = FALSE
    /\ mpc = "up" /\ flags = {}
    /\ fth = [i \in Slots |-> "dead"] /\ fcur = None
    /\ hist = [s \in Sids |-> NoLoader] /\ pass = 0
    /\ queue = <<>> /\ queued = {} /\ wk = [w \in Workers |-> None]

Session == \/ BeginSession \/ AuthFails \/ AuthSucceeds \/ OpenFeed \/ Maintain
           \/ _check_for_feed_interruption
           \/ EndSession \/ JoinFeed \/ FinalizeDay \/ WipeDay \/ LoopEnds
Stop == StopBegins \/ StopCloses \/ StopWipes \/ StopEnds
Feed(i) == \/ FeedConnects(i) \/ FeedFails(i)
           \/ \E s \in Sids, t \in {now, now - 1, now - DayLen} :
                 t >= 0 /\ Traded(t) /\ Packet(i, s, t)
Loader(s) == LoaderAsks(s) \/ LoaderAnswered(s)
Worker(w) == WorkerTakes(w) \/ WorkerEnds(w)

Next ==
    \/ Session \/ Stop \/ Tick \/ CooldownEnds \/ SecondSweep
    \/ \E i \in Slots : Feed(i)
    \/ \E s \in Sids : Loader(s)
    \/ \E w \in Workers : Worker(w)

\* Threads keep running; requests end (every one has a timeout); the clock moves.
Fairness ==
    /\ WF_vars(Session) /\ WF_vars(Stop /\ mpc # "up") /\ WF_vars(Tick) /\ WF_vars(SecondSweep)
    /\ \A i \in Slots : WF_vars("feed" \in flags /\ FeedFails(i))
    /\ \A s \in Sids : WF_vars(Loader(s))
    /\ \A w \in Workers : WF_vars(Worker(w))

Spec == Init /\ [][Next]_vars
FairSpec == Spec /\ Fairness

-----------------------------------------------------------------------------

\* While a session is LIVE every candle in memory, formed or forming, is of the
\* session's own day, although loaders, backfill workers and the feed write without
\* asking whose session it is (state.merge_today_1m_history).
SessionCandles ==
    state.status = "LIVE" =>
        \A s \in Sids : \A m \in MinutesOf(state.candles[s]) \cup ({state.cur[s]} \ {None}) :
            DayOf(m) = state.date

\* The key set that keeps a security from being queued twice names exactly the
\* securities that are queued or in a worker's hands, whatever fails
\* (backfill._queued): a key left behind would end that security's backfill.
QueuedExact ==
    queued = {queue[i].sid : i \in DOMAIN queue} \cup {wk[w].sid : w \in {v \in Workers : wk[v] # None}}

\* A minute the historical API supplied stays as supplied until the state is wiped,
\* whichever of the feed, a loader or a worker writes next (state._prefer_existing).
HistoricalStays ==
    [][state'.date = state.date /\ state.date # None =>
         \A s \in Sids : \A c \in state.candles[s] :
            c.src = "HIST" => c \in state'.candles[s]]_vars

\* After the close the session ends and no feed thread goes on, even when the
\* session thread starts the feed after stop() has stopped it.
EndsDaily == ~in_market(now) ~> \/ in_market(now)
                                \/ started = None /\ \A i \in Slots : fth[i] = "dead"
                                \/ mpc = "down"
=============================================================================
