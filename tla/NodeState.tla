----------------------------- MODULE NodeState -----------------------------
(***************************************************************************)
(* The RAM-only market state of one Live Core node (live_core.state        *)
(* .NodeState) together with the threads that write it:                    *)
(*                                                                         *)
(*   - the session thread (live_core.runtime): begin, seed, finalize_due,  *)
(*     feed replacement and reset;                                         *)
(*   - the feed threads (feed.LiveFeed): each packet makes separate calls, *)
(*     record_feed_message, set_market_reference, update_quote and         *)
(*     record_live_quote, and other threads run between them.  A feed that *)
(*     is replaced is detached (live_core.feed.DetachedState): at most the *)
(*     call it has already resolved still reaches the state;               *)
(*   - the history thread (live_core.history): merge_history, which holds  *)
(*     the state's lock over the whole batch and stores one bar at a time. *)
(*                                                                         *)
(* Every other operation takes the lock once and is one step.  Statistics  *)
(* counters and the connection-health fields are left out (no operation    *)
(* here reads them).  `version` is only ever compared for equality, so the *)
(* model keeps whether the last locked section moved it (`bumped`).  The   *)
(* last traded quantity only tells apart trades that change no candle and  *)
(* is left out of the trade key.                                           *)
(***************************************************************************)
EXTENDS StockSeries, FiniteSets

CONSTANTS
    Stocks,       \* security ids of the partition
    Feeds,        \* identities of feed objects, live or retired
    None,         \* Python's None
    Minute,       \* length of a candle (60 s in the code)
    DayLen,       \* length of a calendar day
    PreopenAt,    \* offset of the pre-open connect window in the day
    OpenAt,       \* offset of MARKET_START in the day
    CloseAt,      \* offset of MARKET_END in the day
    Grace,        \* finalize_grace_seconds
    FutureTol,    \* FUTURE_TIMESTAMP_TOLERANCE_SECONDS
    Prices,       \* finite positive prices up to MAX_PRICE
    BadPrice,     \* a price that is not finite, not positive or absurd
    MaxVol,       \* MAX_CUMULATIVE_VOLUME
    RefValues,    \* reference prices (previous close, today's open)
    HistBars,     \* bars a historical response may hold
    MaxBatch,     \* bars in one response
    MaxClock      \* the horizon of the run

ASSUME TimeAssumption ==
    /\ Minute \in Nat \ {0} /\ DayLen \in Nat \ {0}
    /\ PreopenAt \in Nat /\ OpenAt \in Nat /\ CloseAt \in Nat
    /\ PreopenAt <= OpenAt /\ OpenAt < CloseAt /\ CloseAt <= DayLen
    /\ OpenAt % Minute = 0 /\ DayLen % Minute = 0
    /\ Grace \in Nat /\ FutureTol \in Nat /\ MaxClock \in Nat

ASSUME DataAssumption ==
    /\ Prices \subseteq Nat \ {0} /\ BadPrice \notin Prices
    /\ MaxVol \in Nat /\ MaxBatch \in Nat
    /\ \A b \in HistBars : b \in Forming

\* Bars for TLC's instances: one flat bar per minute of a short day, the one before the
\* open included; and a bar of the first of two days with one before the open of the second.
FlatBar(e) == [epoch |-> e, open |-> 1, high |-> 1, low |-> 1, close |-> 1, volume |-> 1]
BarsOfOneDay == {FlatBar(e) : e \in {0, 2, 4}}
BarsOfTwoDays == {FlatBar(e) : e \in {2, 4}}

\* What the feed and history threads are working on.
FeedWork == [pc : {"idle", "got", "updated"}, sec : Stocks \cup {None}, ltt : Nat \cup {None}]
MergeWork == [sec : Stocks, todo : Seq(HistBars), stored : BOOLEAN, before : Seq(Row)]

\* None is no number, bar, reference, feed, trade or unit of work.
ASSUME NoneAssumption ==
    /\ None \notin Int /\ None \notin Forming /\ None \notin RefValues /\ None \notin Feeds
    /\ None \notin (Stocks \cup {None}) \X (Nat \cup {None}) /\ None \notin Nat \X Nat \X Nat
    /\ None \notin MergeWork

VARIABLES
    clock,      \* time.time()
    runtime,    \* where the session thread is
    inMarket,   \* in_market(now) for the `now` _start_session was called with
    date,       \* session_date; the instruments are registered iff it is not None
    status,     \* session_status
    rows,       \* per stock: its completed candles
    current,    \* per stock: the forming candle or None
    prevVol,    \* per stock: previous_cumulative_volume
    lastKey,    \* per stock: last_trade_key
    lastRecv,   \* per stock: last_received
    refs,       \* per stock: reference prices
    accepted,   \* _accepted
    bumped,     \* did the last locked section increase `version`?
    feed,       \* per feed object: the packet its thread is handling
    attached,   \* the feed that writes this state
    merging,    \* the merge_history call that holds the lock
    baseline,   \* history variable: day volume not attributed to any candle
    evidence    \* history variable: an accepted packet not yet counted as fresh

seriesVars == <<rows, current, prevVol, lastKey, lastRecv, refs, baseline, evidence>>
vars == <<clock, runtime, inMarket, date, status, accepted, bumped, feed, attached, merging,
          seriesVars>>

Day(t) == t \div DayLen
OpenOf(d) == d * DayLen + OpenAt
CloseOf(d) == d * DayLen + CloseAt
MinuteOf(t) == t - (t % Minute)
InSessionDay(t) == date * DayLen <= t /\ t < (date + 1) * DayLen

\* in_session_window: from the pre-open connect window until the market closes.
InWindow == Day(clock) * DayLen + PreopenAt <= clock /\ clock < CloseOf(Day(clock))

\* runtime.tick maintains the running session; otherwise it ends it.
SessionDue == InWindow /\ date = Day(clock)

Idle == [pc |-> "idle", sec |-> None, ltt |-> None]
Unlocked == merging = None

NewSeries ==
    /\ rows' = [s \in Stocks |-> <<>>]
    /\ current' = [s \in Stocks |-> None]
    /\ prevVol' = [s \in Stocks |-> None]
    /\ lastKey' = [s \in Stocks |-> None]
    /\ lastRecv' = [s \in Stocks |-> None]
    /\ refs' = [s \in Stocks |-> None]
    /\ baseline' = [s \in Stocks |-> None]
    /\ evidence' = [s \in Stocks |-> FALSE]

Init ==
    /\ clock = 0
    /\ runtime = "closed" /\ inMarket = FALSE
    /\ date = None /\ status = "CLOSED"
    /\ rows = [s \in Stocks |-> <<>>]
    /\ current = [s \in Stocks |-> None]
    /\ prevVol = [s \in Stocks |-> None]
    /\ lastKey = [s \in Stocks |-> None]
    /\ lastRecv = [s \in Stocks |-> None]
    /\ refs = [s \in Stocks |-> None]
    /\ baseline = [s \in Stocks |-> None]
    /\ evidence = [s \in Stocks |-> FALSE]
    /\ accepted = None /\ bumped = FALSE
    /\ feed = [f \in Feeds |-> Idle]
    /\ attached = None
    /\ merging = None

-----------------------------------------------------------------------------
(* The clock.                                                              *)

Tick ==
    /\ clock < MaxClock
    /\ clock' = clock + 1
    /\ UNCHANGED <<runtime, inMarket, date, status, accepted, bumped, feed, attached, merging,
                   seriesVars>>

-----------------------------------------------------------------------------
(* The session thread.                                                     *)

\* _start_session, the configuration cannot be loaded: reset and CONFIG_ERROR.
ConfigError ==
    /\ Unlocked /\ runtime = "closed" /\ InWindow
    /\ NewSeries
    /\ date' = None /\ status' = "CONFIG_ERROR" /\ accepted' = None /\ bumped' = TRUE
    /\ UNCHANGED <<clock, runtime, inMarket, feed, attached, merging>>

\* _start_session up to the authentication: state.begin and AUTHENTICATING.
Begin ==
    /\ Unlocked /\ runtime = "closed" /\ InWindow
    /\ NewSeries
    /\ date' = Day(clock) /\ status' = "AUTHENTICATING"
    /\ inMarket' = (clock >= OpenOf(Day(clock)))
    /\ accepted' = None /\ bumped' = TRUE
    /\ runtime' = "auth"
    /\ UNCHANGED <<clock, feed, attached, merging>>

\* A failed or rate-limited authentication: the whole start is retried later.
AuthFails ==
    /\ Unlocked /\ runtime = "auth"
    /\ status' \in {"AUTH_ERROR", "AUTH_WAITING"} /\ bumped' = TRUE
    /\ runtime' = "closed"
    /\ UNCHANGED <<clock, inMarket, date, accepted, feed, attached, merging, seriesVars>>

\* The status is decided by the `now` the tick started with, not by the time it is now.
AuthSucceeds ==
    /\ Unlocked /\ runtime = "auth"
    /\ status' = (IF inMarket THEN "LIVE" ELSE "PRE_OPEN") /\ bumped' = TRUE
    /\ runtime' = "seed"
    /\ UNCHANGED <<clock, inMarket, date, accepted, feed, attached, merging, seriesVars>>

\* seed_from_snapshot: references and volume baselines of the stocks the snapshot holds.
SeedFromSnapshot ==
    /\ Unlocked /\ runtime = "seed"
    /\ \E S \in SUBSET Stocks, r \in RefValues : \E v \in [S -> 0 .. MaxVol] :
        /\ refs' = [s \in Stocks |-> IF s \in S THEN r ELSE refs[s]]
        /\ prevVol' = [s \in Stocks |-> IF s \in S /\ prevVol[s] = None THEN v[s] ELSE prevVol[s]]
        /\ baseline' = [s \in Stocks |-> IF s \in S /\ prevVol[s] = None THEN v[s] ELSE baseline[s]]
        /\ bumped' = \E s \in S : refs[s] # r
    /\ runtime' = "feed"
    /\ UNCHANGED <<clock, inMarket, date, status, rows, current, lastKey, lastRecv, evidence,
                   accepted, feed, attached, merging>>

StartFeed(f) ==
    /\ runtime = "feed" /\ feed[f] = Idle
    /\ attached' = f /\ runtime' = "run"
    /\ UNCHANGED <<clock, inMarket, date, status, accepted, bumped, feed, merging, seriesVars>>

FeedStartFails ==
    /\ Unlocked /\ runtime = "feed"
    /\ status' = "FEED_ERROR" /\ bumped' = TRUE /\ runtime' = "closed"
    /\ UNCHANGED <<clock, inMarket, date, accepted, feed, attached, merging, seriesVars>>

\* _maintain at the open: a PRE_OPEN session turns LIVE without waiting for a packet.
OpenMarket ==
    /\ Unlocked /\ runtime = "run" /\ SessionDue
    /\ status = "PRE_OPEN" /\ clock >= OpenOf(date)
    /\ status' = "LIVE" /\ bumped' = TRUE
    /\ UNCHANGED <<clock, runtime, inMarket, date, accepted, feed, attached, merging, seriesVars>>

\* _complete_current for the stocks of S, under one lock.
CompleteCurrent(S) ==
    /\ rows' = [s \in Stocks |->
                 IF s \in S THEN PutCompleted(rows[s], Completed(current[s], SOURCE_WEBSOCKET))
                            ELSE rows[s]]
    /\ bumped' = \E s \in S : ~Refused(rows[s], Completed(current[s], SOURCE_WEBSOCKET))

\* Mutant of IsDue: only the very second at which the grace period ends counts.
IsDue_ExactSecond(s) == current[s] # None /\ current[s].epoch = clock - Minute - Grace

IsDue(s) == current[s] # None /\ current[s].epoch <= clock - Minute - Grace

\* finalize_due: every forming candle whose minute ended at least Grace ago is published.
FinalizeDue ==
    /\ Unlocked /\ runtime = "run" /\ SessionDue /\ status = "LIVE"
    /\ \E s \in Stocks : IsDue(s)
    /\ CompleteCurrent({s \in Stocks : IsDue(s)})
    /\ current' = [s \in Stocks |-> IF IsDue(s) THEN None ELSE current[s]]
    /\ UNCHANGED <<clock, runtime, inMarket, date, status, prevVol, lastKey, lastRecv, refs,
                   baseline, evidence, accepted, feed, attached, merging>>

\* A retired feed finishes the one call it had already resolved, or none.
Retire(f, resolved) ==
    feed' = [feed EXCEPT ![f] = IF resolved THEN feed[f] ELSE Idle]

\* _replace_feed: the old feed is detached and a new one started.
ReplaceFeed(f, g, resolved) ==
    /\ runtime = "run" /\ attached = f /\ g # f /\ feed[g] = Idle
    /\ Retire(f, resolved)
    /\ attached' = g
    /\ UNCHANGED <<clock, runtime, inMarket, date, status, accepted, bumped, merging, seriesVars>>

\* _end_session, first half: feed.stop() detaches the feed; it may take many seconds.
StopFeed(f, resolved) ==
    /\ runtime = "run" /\ attached = f /\ ~SessionDue
    /\ Retire(f, resolved)
    /\ attached' = None /\ runtime' = "ending"
    /\ UNCHANGED <<clock, inMarket, date, status, accepted, bumped, merging, seriesVars>>

\* _end_session, second half: state.reset().
Reset ==
    /\ Unlocked
    /\ runtime = "ending" \/ (runtime = "closed" /\ ~InWindow /\ status # "CLOSED")
    /\ NewSeries
    /\ date' = None /\ status' = "CLOSED" /\ accepted' = None /\ bumped' = TRUE
    /\ runtime' = "closed"
    /\ UNCHANGED <<clock, inMarket, feed, attached, merging>>

-----------------------------------------------------------------------------
(* The feed threads.                                                       *)

\* The status after _open_if_due.
OpenIfDue ==
    IF status = "PRE_OPEN" /\ clock >= OpenOf(date) THEN "LIVE" ELSE status

RecordFeedMessage(f) ==
    /\ Unlocked /\ attached = f /\ feed[f].pc = "idle"
    /\ status' = OpenIfDue /\ bumped' = (OpenIfDue # status)
    /\ feed' = [feed EXCEPT ![f].pc = "got"]
    /\ UNCHANGED <<clock, runtime, inMarket, date, accepted, attached, merging, seriesVars>>

\* _handle_packet returns early: another packet type, an unknown id, an unparsable value.
DropPacket(f) ==
    /\ feed[f].pc = "got"
    /\ feed' = [feed EXCEPT ![f] = Idle]
    /\ UNCHANGED <<clock, runtime, inMarket, date, status, accepted, bumped, attached, merging,
                   seriesVars>>

\* set_market_reference: a previous-close packet ends here, a quote packet goes on.
SetMarketReference(f, s, r) ==
    /\ Unlocked /\ feed[f].pc = "got" /\ date # None
    /\ refs' = [refs EXCEPT ![s] = r]
    /\ bumped' = (refs[s] # r)
    /\ feed' \in {feed, [feed EXCEPT ![f] = Idle]}
    /\ f # attached => feed'[f] = Idle
    /\ UNCHANGED <<clock, runtime, inMarket, date, status, rows, current, prevVol, lastKey,
                   lastRecv, baseline, evidence, accepted, attached, merging>>

\* The validation of update_quote that does not depend on the stock.
Valid(q) == q.ltp \in Prices /\ q.volume <= MaxVol /\ q.ltt > 0 /\ InSessionDay(q.ltt)

NoTradeToday(s, q) == q.volume = 0 /\ prevVol[s] \in {None, 0}

\* Mutant of BeforeOpen: the trade's own time is not compared with the open.
BeforeOpen_StatusOnly(q, st) == st = "PRE_OPEN"

BeforeOpen(q, st) == st = "PRE_OPEN" \/ q.ltt < OpenOf(date)

\* Mutant of VolumeRegressed: a falling day volume is accepted.
VolumeRegressed_Never(s, q) == FALSE

VolumeRegressed(s, q) == prevVol[s] # None /\ q.volume < prevVol[s]

\* Mutant of LateMinute: off by one against the newest published minute.
LateMinute_OffByOne(s, q) ==
    \/ current[s] # None /\ MinuteOf(q.ltt) < current[s].epoch
    \/ /\ current[s] = None /\ rows[s] # <<>>
       /\ MinuteOf(q.ltt) < rows[s][Len(rows[s])].epoch

\* The trade belongs to a minute before the forming one, or to a published one.
LateMinute(s, q) ==
    \/ current[s] # None /\ MinuteOf(q.ltt) < current[s].epoch
    \/ /\ current[s] = None /\ rows[s] # <<>>
       /\ MinuteOf(q.ltt) <= rows[s][Len(rows[s])].epoch

\* Mutant of RepeatsLastTrade: every late packet is taken for a repetition.
RepeatsLastTrade_Always(s, q) == TRUE

RepeatsLastTrade(s, q) == prevVol[s] = None \/ q.volume = prevVol[s]

\* What update_quote decides about the packet, its branches in the order of the code.
Verdict(s, q, st) ==
    IF date = None \/ st \notin {"LIVE", "PRE_OPEN"} THEN "ignored"
    ELSE IF ~Valid(q) THEN "rejected"
    ELSE IF NoTradeToday(s, q) THEN "no_trade_today"
    ELSE IF BeforeOpen(q, st)
         THEN IF VolumeRegressed(s, q) THEN "rejected"
              ELSE IF st = "PRE_OPEN" THEN "preopen" ELSE "preopen_trade"
    ELSE IF LateMinute(s, q)
         THEN IF RepeatsLastTrade(s, q) THEN "repeated" ELSE "rejected"
    ELSE IF VolumeRegressed(s, q) THEN "rejected" ELSE "trade"

\* Packets that count as live evidence of the stock.
Evidence == {"no_trade_today", "preopen_trade", "repeated", "trade"}

\* Packets that move the volume baseline and touch no candle.
Rebaselining == {"no_trade_today", "preopen", "preopen_trade", "repeated"}

\* The trade rolls the forming candle over to a new minute.
RollsOver(s, q) == current[s] # None /\ MinuteOf(q.ltt) > current[s].epoch

DeltaVolume(s, q) == IF prevVol[s] = None THEN 0 ELSE q.volume - prevVol[s]

MaxOf(a, b) == IF a > b THEN a ELSE b
MinOf(a, b) == IF a < b THEN a ELSE b

\* The forming candle after an applied trade.
Folded(s, q) ==
    IF current[s] = None \/ RollsOver(s, q)
    THEN [epoch |-> MinuteOf(q.ltt), open |-> q.ltp, high |-> q.ltp, low |-> q.ltp,
          close |-> q.ltp, volume |-> DeltaVolume(s, q)]
    ELSE [current[s] EXCEPT !.high = MaxOf(@, q.ltp), !.low = MinOf(@, q.ltp),
                            !.close = q.ltp, !.volume = @ + DeltaVolume(s, q)]

TradeKey(q) == <<q.ltt, q.volume, q.ltp>>

\* A packet that is not a trade changes at most the volume baseline.
NotATrade(s, q, st) ==
    /\ IF Verdict(s, q, st) \in Rebaselining
       THEN /\ prevVol' = [prevVol EXCEPT ![s] = q.volume]
            /\ baseline' = [baseline EXCEPT ![s] =
                             IF prevVol[s] = None THEN q.volume
                             ELSE IF Verdict(s, q, st) = "repeated" THEN @
                             ELSE @ + q.volume - prevVol[s]]
       ELSE UNCHANGED <<prevVol, baseline>>
    /\ bumped' = (st # status)
    /\ UNCHANGED <<rows, current, lastKey>>

\* A trade: the forming candle rolls over if its minute has passed, then takes the trade
\* unless it repeats the last one.
Trade(s, q, st) ==
    /\ IF RollsOver(s, q)
       THEN LET done == Completed(current[s], SOURCE_WEBSOCKET)
            IN  /\ rows' = [rows EXCEPT ![s] = PutCompleted(@, done)]
                /\ bumped' = (st # status \/ ~Refused(rows[s], done))
       ELSE /\ rows' = rows /\ bumped' = (st # status)
    /\ prevVol' = [prevVol EXCEPT ![s] = q.volume]
    /\ baseline' = [baseline EXCEPT ![s] = IF prevVol[s] = None THEN q.volume ELSE @]
    /\ lastKey' = [lastKey EXCEPT ![s] = TradeKey(q)]
    /\ current' = [current EXCEPT ![s] =
                    IF TradeKey(q) # lastKey[s] THEN Folded(s, q)
                    ELSE IF RollsOver(s, q) THEN None ELSE @]

\* Quotes the feed can hand over: _parse_ltt refuses times far in the future.
Quote == [ltp : Prices \cup {BadPrice}, ltt : 0 .. MaxClock + FutureTol, volume : 0 .. MaxVol + 1]

UpdateQuote(f, s, q) ==
    LET st == OpenIfDue
        v  == Verdict(s, q, st)
    IN  /\ Unlocked /\ feed[f].pc = "got" /\ q.ltt <= clock + FutureTol
        /\ status' = st
        /\ accepted' = IF v \in Evidence THEN <<s, q.ltt>> ELSE None
        /\ evidence' = [evidence EXCEPT ![s] = @ \/ v \in Evidence]
        /\ IF v = "trade" THEN Trade(s, q, st) ELSE NotATrade(s, q, st)
        /\ feed' = [feed EXCEPT ![f] = IF f = attached
                                       THEN [pc |-> "updated", sec |-> s, ltt |-> q.ltt] ELSE Idle]
        /\ UNCHANGED <<clock, runtime, inMarket, date, lastRecv, refs, attached, merging>>

\* Mutant of RecordLiveQuote: fresh whatever update_quote decided.
RecordLiveQuote_Unchecked(f) ==
    /\ Unlocked /\ feed[f].pc = "updated"
    /\ feed' = [feed EXCEPT ![f] = Idle]
    /\ bumped' = FALSE
    /\ IF date = None \/ status # "LIVE"
       THEN UNCHANGED <<accepted, lastRecv, evidence>>
       ELSE /\ accepted' = None
            /\ lastRecv' = [lastRecv EXCEPT ![feed[f].sec] = clock]
            /\ evidence' = [evidence EXCEPT ![feed[f].sec] = FALSE]
    /\ UNCHANGED <<clock, runtime, inMarket, date, status, rows, current, prevVol, lastKey, refs,
                   baseline, attached, merging>>

\* record_live_quote: the stock is fresh only if its packet is the one just accepted.
RecordLiveQuote(f) ==
    /\ Unlocked /\ feed[f].pc = "updated"
    /\ feed' = [feed EXCEPT ![f] = Idle]
    /\ bumped' = FALSE
    /\ IF date = None \/ status # "LIVE"
       THEN UNCHANGED <<accepted, lastRecv, evidence>>
       ELSE /\ accepted' = None
            /\ IF accepted = <<feed[f].sec, feed[f].ltt>>
               THEN /\ lastRecv' = [lastRecv EXCEPT ![feed[f].sec] = clock]
                    /\ evidence' = [evidence EXCEPT ![feed[f].sec] = FALSE]
               ELSE UNCHANGED <<lastRecv, evidence>>
    /\ UNCHANGED <<clock, runtime, inMarket, date, status, rows, current, prevVol, lastKey, refs,
                   baseline, attached, merging>>

-----------------------------------------------------------------------------
(* The history thread.                                                     *)

\* merge_history drops a bar outside the day, before the open or with impossible values.
ValidBar(b) ==
    /\ {b.open, b.high, b.low, b.close} \subseteq Prices
    /\ b.volume <= MaxVol
    /\ b.high >= MaxOf(b.open, b.close) /\ b.low <= MinOf(b.open, b.close)
    /\ InSessionDay(MinuteOf(b.epoch)) /\ MinuteOf(b.epoch) >= OpenOf(date)

Batches == UNION {[1 .. n -> HistBars] : n \in 1 .. MaxBatch}

\* merge_history takes the lock for bars of the session d they were requested for.  The
\* response holds completed bars only, in order of time (load_today_completed_intraday).
MergeHistory(s, d, bars) ==
    /\ Unlocked /\ runtime \in {"run", "ending"}
    /\ d = date
    /\ \A i \in DOMAIN bars : bars[i].epoch + Minute <= clock
    /\ \A i \in 1 .. Len(bars) - 1 : bars[i].epoch < bars[i + 1].epoch
    /\ merging' = [sec |-> s, todo |-> bars, stored |-> FALSE, before |-> rows[s]]
    /\ bumped' = FALSE
    /\ UNCHANGED <<clock, runtime, inMarket, date, status, accepted, feed, attached, seriesVars>>

\* One round of its loop.
MergeRow ==
    /\ merging # None /\ merging.todo # <<>>
    /\ LET b == Head(merging.todo)
           s == merging.sec
           bar == Completed([b EXCEPT !.epoch = MinuteOf(@)], SOURCE_HISTORICAL)
       IN  IF ValidBar(b)
           THEN /\ rows' = [rows EXCEPT ![s] = PutCompleted(@, bar)]
                /\ merging' = [merging EXCEPT !.todo = Tail(@), !.stored = TRUE]
           ELSE /\ merging' = [merging EXCEPT !.todo = Tail(@)]
                /\ rows' = rows
    /\ UNCHANGED <<clock, runtime, inMarket, date, status, current, prevVol, lastKey, lastRecv,
                   refs, baseline, evidence, accepted, bumped, feed, attached>>

\* Mutant of MergeEnd: `version` is not moved for historical bars.
MergeEnd_NoVersion ==
    /\ merging # None /\ merging.todo = <<>>
    /\ LET s == merging.sec
       IN  current' = [current EXCEPT ![s] =
                        IF @ # None /\ @.epoch \in Epochs(rows[s]) THEN None ELSE @]
    /\ bumped' = FALSE
    /\ merging' = None
    /\ UNCHANGED <<clock, runtime, inMarket, date, status, rows, prevVol, lastKey, lastRecv, refs,
                   baseline, evidence, accepted, feed, attached>>

\* Its end: the forming candle gives way to a historical bar of its minute.
MergeEnd ==
    /\ merging # None /\ merging.todo = <<>>
    /\ LET s == merging.sec
       IN  current' = [current EXCEPT ![s] =
                        IF @ # None /\ @.epoch \in Epochs(rows[s]) THEN None ELSE @]
    /\ bumped' = merging.stored
    /\ merging' = None
    /\ UNCHANGED <<clock, runtime, inMarket, date, status, rows, prevVol, lastKey, lastRecv, refs,
                   baseline, evidence, accepted, feed, attached>>

-----------------------------------------------------------------------------
SessionThread ==
    \/ ConfigError \/ Begin \/ AuthFails \/ AuthSucceeds \/ SeedFromSnapshot \/ FeedStartFails
    \/ OpenMarket \/ FinalizeDue \/ Reset
    \/ \E f \in Feeds : StartFeed(f)
    \/ \E f, g \in Feeds, resolved \in BOOLEAN : ReplaceFeed(f, g, resolved)
    \/ \E f \in Feeds, resolved \in BOOLEAN : StopFeed(f, resolved)

FeedThread(f) ==
    \/ RecordFeedMessage(f) \/ DropPacket(f) \/ RecordLiveQuote(f)
    \/ \E s \in Stocks, r \in RefValues : SetMarketReference(f, s, r)
    \/ \E s \in Stocks, q \in Quote : UpdateQuote(f, s, q)

HistoryThread ==
    \/ MergeRow \/ MergeEnd
    \/ \E s \in Stocks, d \in 0 .. Day(clock), bars \in Batches : MergeHistory(s, d, bars)

Next == Tick \/ SessionThread \/ (\E f \in Feeds : FeedThread(f)) \/ HistoryThread

Spec == Init /\ [][Next]_vars
-----------------------------------------------------------------------------
(* Properties.                                                             *)

Runtimes == {"closed", "auth", "seed", "feed", "run", "ending"}
Statuses == {"CLOSED", "CONFIG_ERROR", "AUTHENTICATING", "AUTH_ERROR", "AUTH_WAITING",
             "FEED_ERROR", "PRE_OPEN", "LIVE"}

SeriesType ==
    /\ rows \in [Stocks -> Seq(Row)]
    /\ current \in [Stocks -> Forming \cup {None}]
    /\ prevVol \in [Stocks -> Nat \cup {None}]
    /\ lastKey \in [Stocks -> (Nat \X Nat \X Nat) \cup {None}]
    /\ lastRecv \in [Stocks -> Nat \cup {None}]
    /\ refs \in [Stocks -> RefValues \cup {None}]
    /\ baseline \in [Stocks -> Int \cup {None}]
    /\ evidence \in [Stocks -> BOOLEAN]

ThreadsType ==
    /\ clock \in Nat
    /\ runtime \in Runtimes /\ inMarket \in BOOLEAN
    /\ date \in Nat \cup {None} /\ status \in Statuses
    /\ accepted \in (Stocks \X Nat) \cup {None}
    /\ bumped \in BOOLEAN
    /\ feed \in [Feeds -> FeedWork]
    /\ attached \in Feeds \cup {None}
    /\ merging \in MergeWork \cup {None}

\* Every variable has its type; in particular no candle ever gets a negative volume from a
\* falling day volume (volumes are natural numbers).
TypeOK == SeriesType /\ ThreadsType

\* The candles of a stock are in strictly increasing order, one per minute, whatever the
\* order in which put_completed got trades, rollovers and historical bars: bisect_left on
\* the epochs column is meaningful, and no minute is published twice.
EpochsSorted == \A s \in Stocks : Sorted(rows[s])

\* A WebSocket-built candle is published only for a minute before the forming one
\* (update_quote's late_minute rule): this is why a trade can never rewrite it.
WebSocketBehindForming ==
    \A s \in Stocks : current[s] # None =>
        \A i \in DOMAIN rows[s] :
            rows[s][i].source = SOURCE_WEBSOCKET => rows[s][i].epoch < current[s].epoch

\* A minute of the session: on its day, not before the open.
InSession(m) == date # None /\ OpenOf(date) <= m /\ InSessionDay(m)

\* No candle, published or forming, lies before the open or outside the session's day,
\* from any source, even when a packet or a response arrives in another session.
CandlesInSession ==
    \A s \in Stocks :
        /\ \A i \in DOMAIN rows[s] : InSession(rows[s][i].epoch)
        /\ current[s] # None => InSession(current[s].epoch)

FormingVolume(s) == IF current[s] = None THEN 0 ELSE current[s].volume

\* Dhan's day volume is attributed to WebSocket-built candles at most once: their volumes
\* never exceed what the cumulative volume has grown by, and equal it until a historical
\* bar takes a minute over (a dropped late trade's volume is carried into the next delta).
VolumeCountedOnce ==
    \A s \in Stocks : prevVol[s] # None =>
        LET counted == WebSocketVolume(rows[s]) + FormingVolume(s)
        IN  /\ counted <= prevVol[s] - baseline[s]
            /\ (\A i \in DOMAIN rows[s] : rows[s][i].source = SOURCE_WEBSOCKET)
                   => counted = prevVol[s] - baseline[s]

\* A stock becomes fresh only on a packet of that very stock which update_quote accepted,
\* and one accepted packet is counted once (_accepted is a hand-over between two calls).
FreshOnEvidence ==
    [][\A s \in Stocks : lastRecv'[s] # lastRecv[s] /\ lastRecv'[s] # None => evidence[s]]_vars

\* What a reader that takes the lock can see (render.snapshot); during a merge, what it saw
\* before the merge took the lock.
Visible ==
    [date |-> date, status |-> status, refs |-> refs,
     rows |-> IF merging = None THEN rows ELSE [rows EXCEPT ![merging.sec] = merging.before]]

\* Whenever published content changes, `version` moves before the lock is released: a peer
\* that holds the same version holds the same content (the not_modified answer).
VersionTracksContent ==
    [][(merging' = None /\ Visible' # Visible) => bumped']_vars

\* The candle of a minute.
RowAt(rs, m) == rs[CHOOSE i \in DOMAIN rs : rs[i].epoch = m]

Book(rs) == [m \in Epochs(rs) |-> RowAt(rs, m)]

Published == INSTANCE CandleBook WITH
    book <- [s \in Stocks |-> Book(rows[s])], Historical <- SOURCE_HISTORICAL

\* The node implements its abstract promise: a published candle changes only by a
\* historical correction and never disappears before the session is dropped.
PublishesCandleBook == Published!Spec

-----------------------------------------------------------------------------
(* Progress.  The session thread's 1 s loop and the history thread's loop  *)
(* keep running; nothing makes packets arrive.  The steps of the session   *)
(* thread that need the lock get strong fairness: the feed and history     *)
(* threads hold it briefly and wait (for a packet, or the request          *)
(* interval) between two uses, so a waiting thread is not starved.         *)

Fairness ==
    /\ WF_vars(Tick)
    /\ SF_vars(FinalizeDue)
    /\ WF_vars(MergeRow \/ MergeEnd)

FairSpec == Spec /\ Fairness

\* A forming candle is published without waiting for the stock's next trade (finalize_due),
\* unless the session ends first.  The minutes are those that end, with their grace period,
\* before the run's horizon.
FormingCandlePublished ==
    \A s \in Stocks : \A m \in {t \in 0 .. MaxClock - Minute - Grace : t % Minute = 0} :
        (current[s] # None /\ current[s].epoch = m)
            ~> (m \in Epochs(rows[s]) \/ status # "LIVE")
=============================================================================
