------------------------------ MODULE IndexLayer ------------------------------
(***************************************************************************)
(* One index of index_layer: the feed thread builds the forming minute     *)
(* from ticks (IndexState.update_quote), the session thread begins and     *)
(* ends the day and once a minute merges the whole day so far from Dhan's  *)
(* intraday API, and underlying_indicators recomputes the indicators when  *)
(* the served candles look different.                                      *)
(*                                                                         *)
(* Time is in minutes; a candle is its minute and its source, "ws" for a   *)
(* candle of ticks, "api" for Dhan's own.                                  *)
(***************************************************************************)
EXTENDS Integers, FiniteSets, FiniteSetsExt

CONSTANTS
    DayLen, OpenAt, CloseAt,    \* minutes of a day, market hours within it
    LastMinute,                 \* bound: of the clock
    None

\* What the code gives these constants; the instances assume it.
IndexAssumption ==
    /\ DayLen \in Nat /\ OpenAt \in Nat /\ CloseAt \in Nat /\ OpenAt < CloseAt /\ CloseAt < DayLen
    /\ LastMinute \in Nat /\ None \notin Nat

VARIABLES
    now,
    live,       \* live_candles: minute -> source
    current,    \* minute of current_1m, None without one
    status,     \* session_status
    feed,       \* the feed thread delivers ticks
    started,    \* day of started_for_date, None when there is none
    filled,     \* last_backfill_minute
    asked,      \* minute at which the request under way was made, None without one
    covered,    \* history: minute of the last request that was merged in this session
    basis       \* candles the served indicators were computed from
vars == <<now, live, current, status, feed, started, filled, asked, covered, basis>>

Day(t) == t \div DayLen
_in_market(t) == t % DayLen >= OpenAt /\ t % DayLen < CloseAt

\* _store_complete: a minute already filled from the API keeps the official candle
_store_complete(m) ==
    [x \in DOMAIN live \cup {m} |-> IF x \in DOMAIN live THEN live[x] ELSE "ws"]

\* Dhan's candles of the day up to the minute the request was made
load_today_completed_intraday(t) == {m \in Day(t) * DayLen + OpenAt .. t - 1 : _in_market(m)}

\* merge_today_1m: Dhan's candles replace the ones of ticks
merge_today_1m(ms) ==
    [m \in ms \cup DOMAIN live |-> IF m \in ms THEN "api" ELSE live[m]]

\* the reset of IndexState, before and after a session
Blank == live' = <<>> /\ current' = None

-----------------------------------------------------------------------------
(* The feed thread *)

\* a tick of this minute or a late one of the minute before
update_quote ==
    /\ feed /\ status = "LIVE"
    /\ \E m \in {now, now - 1} :
           /\ _in_market(m) /\ (current # None => m >= current)
           /\ live' = IF current # None /\ m > current THEN _store_complete(current) ELSE live
           /\ current' = m
    /\ <<live, current>>' # <<live, current>>
    /\ UNCHANGED <<now, status, feed, started, filled, asked, covered, basis>>

-----------------------------------------------------------------------------
(* The session thread *)

\* _start_session: begin, then the day so far is asked for ...
StartSession ==
    /\ _in_market(now) /\ started # Day(now) /\ asked = None
    /\ Blank /\ status' = "LIVE" /\ covered' = None
    /\ started' = Day(now) /\ asked' = now
    /\ UNCHANGED <<now, feed, filled, basis>>
\* ... once a minute again, by backfill_recent_candles
Backfill ==
    /\ _in_market(now) /\ started = Day(now) /\ asked = None /\ filled # now
    /\ filled' = now /\ asked' = now
    /\ UNCHANGED <<now, live, current, status, feed, started, covered, basis>>

\* Mutant of Merge: only the minute before is asked for.
Merge_Lookback ==
    /\ asked # None
    /\ live' = merge_today_1m(load_today_completed_intraday(asked) \cap {asked - 1})
    /\ covered' = asked /\ asked' = None /\ feed' = TRUE
    /\ UNCHANGED <<now, current, status, started, filled, basis>>

\* the answer is merged; the first one also starts the feed
Merge ==
    /\ asked # None
    /\ live' = merge_today_1m(load_today_completed_intraday(asked))
    /\ covered' = asked /\ asked' = None /\ feed' = TRUE
    /\ UNCHANGED <<now, current, status, started, filled, basis>>
\* or there is none
RequestFails ==
    /\ asked # None /\ asked' = None /\ feed' = TRUE
    /\ UNCHANGED <<now, live, current, status, started, filled, covered, basis>>

\* _end_session: the feed stops, the last minute is closed, the day handed to on_session_end and wiped
EndSession ==
    /\ ~_in_market(now) /\ started # None /\ asked = None
    /\ feed' = FALSE
    /\ Blank /\ status' = "CLOSED" /\ started' = None /\ covered' = None
    /\ UNCHANGED <<now, filled, asked, basis>>

-----------------------------------------------------------------------------
(* The indicator thread *)

\* the last candle and how many there are
_fingerprint_of(c) == IF c = <<>> THEN None ELSE <<Max(DOMAIN c), c[Max(DOMAIN c)], Cardinality(DOMAIN c)>>

_sync_once ==
    /\ live # <<>> /\ _fingerprint_of(live) # _fingerprint_of(basis)
    /\ basis' = live
    /\ UNCHANGED <<now, live, current, status, feed, started, filled, asked, covered>>

Tick ==
    /\ now < LastMinute /\ now' = now + 1
    /\ UNCHANGED <<live, current, status, feed, started, filled, asked, covered, basis>>

Init ==
    /\ now = 0 /\ live = <<>> /\ current = None /\ status = "CLOSED" /\ feed = FALSE
    /\ started = None /\ filled = None /\ asked = None /\ covered = None
    /\ basis = <<>>
Next ==
    \/ update_quote \/ StartSession \/ Backfill \/ Merge \/ RequestFails \/ EndSession
    \/ _sync_once \/ Tick
Spec == Init /\ [][Next]_vars
FairSpec == Spec /\ WF_vars(_sync_once)

-----------------------------------------------------------------------------
Minutes == 0..LastMinute
TypeOK ==
    /\ now \in Minutes /\ current \in Minutes \cup {None}
    /\ \A c \in {live, basis} : DOMAIN c \subseteq Minutes /\ \A m \in DOMAIN c : c[m] \in {"ws", "api"}
    /\ status \in {"LIVE", "CLOSED"} /\ feed \in BOOLEAN
    /\ {started, filled, asked, covered} \subseteq Minutes \cup {None}

\* "a minute already filled from Dhan's intraday API keeps the official candle", and the
\* request covers the whole day: once a backfill has been merged, every minute before it
\* is served with Dhan's candle, however ticks and merges interleave afterwards.
OfficialSinceOpen ==
    covered # None => \A m \in load_today_completed_intraday(covered) : m \in DOMAIN live /\ live[m] = "api"
=============================================================================
