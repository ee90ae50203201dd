------------------------------ MODULE IndexNode -------------------------------
(*****************************************************************************)
(* The index node (live_core/index_node.py): once it has a token it polls    *)
(* each index's completed candles every minute of the session and a little   *)
(* longer, and the daily bars until it has them; requests fail, answer       *)
(* nothing or take longer than a minute.                                     *)
(*****************************************************************************)
EXTENDS Integers, Sequences, FiniteSets

CONSTANTS
    Count,          \* of INDICES, polled in their order
    Close,          \* the minute, counted from the open, in which the last candle is complete
    PollMinutes,    \* CANDLE_POLL_UNTIL after it
    HealthFrom,     \* the minute from which health() judges the candles
    StaleMinutes,   \* STALE_CANDLE_MINUTES
    LastDay,        \* bound: days
    MaxFaults,      \* bound: failed, empty or slow requests and token errors of a day
    None

\* What the code gives these constants; the instances assume it.
IndexAssumption ==
    /\ Count \in Nat /\ Close \in Nat \ {0} /\ PollMinutes \in Nat
    /\ HealthFrom \in Nat /\ StaleMinutes \in Nat
    /\ StaleMinutes + 1 < HealthFrom + Close       \* a candle of yesterday is stale
    /\ LastDay \in Nat \ {0} /\ MaxFaults \in Nat
    /\ None \notin Int /\ None \notin Nat \X Nat

Indices == 1..Count
PollUntil == Close + PollMinutes
Evening == PollUntil + 1

VARIABLES
    day, t,             \* the day, and the minute since the open; Evening after the polls
    settings,           \* the token was loaded and the managers run
    token_error,
    _last_candle_minute,
    queue,              \* the indices left of this poll
    index,              \* IndexCandles, per index
    faults, late,       \* of this day; and those since the close
    early,              \* the node had its settings before today's close
    reply               \* /public/all.json under construction: what was read of each index

vars == <<day, t, settings, token_error, _last_candle_minute, queue, index, faults, late, early, reply>>

Blank(d) == [date |-> d, candles |-> None, held |-> 0, previous |-> None, major |-> None, updated |-> None, error |-> FALSE]

Init ==
    /\ day = 1 /\ t = 0 /\ settings = FALSE /\ token_error = FALSE
    /\ _last_candle_minute = None /\ queue = {} /\ faults = 0 /\ late = 0 /\ early = FALSE
    /\ index = [i \in Indices |-> Blank(None)] /\ reply = None

Fault == /\ faults < MaxFaults /\ faults' = faults + 1
         /\ late' = IF t >= Close THEN late + 1 ELSE late
NoFault == UNCHANGED <<faults, late>>

\* _ensure_started(): no manager and no poll before the token source answered.
_ensure_started ==
    /\ ~settings
    /\ \/ settings' = TRUE /\ token_error' = FALSE /\ early' = (t < Close) /\ NoFault
       \/ token_error' = TRUE /\ Fault /\ UNCHANGED <<settings, early>>
    /\ UNCHANGED <<day, t, _last_candle_minute, queue, index, reply>>

\* _poll_token(): the error is kept until the source answers again.
_poll_token ==
    /\ settings /\ queue = {}
    /\ \/ ~token_error /\ token_error' = TRUE /\ Fault
       \/ token_error /\ token_error' = FALSE /\ NoFault
    /\ UNCHANGED <<day, t, settings, _last_candle_minute, queue, index, early, reply>>

\* _loop(): a poll a minute inside the window; after it one, if the node never polled.  The
\* minute is taken before the poll, so a failed poll is not repeated in its minute.
InPollWindow == t <= PollUntil
Due ==
    /\ settings /\ queue = {}
    /\ \/ InPollWindow /\ _last_candle_minute # <<day, t>>
       \/ ~InPollWindow /\ _last_candle_minute = None
_loop ==
    /\ Due
    /\ _last_candle_minute' = <<day, t>> /\ queue' = Indices
    /\ UNCHANGED <<day, t, settings, token_error, index, faults, late, early, reply>>

reset_KeepMajor(i) == IF index[i].date # day THEN [Blank(day) EXCEPT !.previous = index[i].previous, !.major = index[i].major] ELSE index[i]
\* poll_candles(), one index: a new day starts blank; an exception of either request leaves
\* what is there; an answer without candles keeps the candles and still counts as an update.
reset(i) == IF index[i].date # day THEN Blank(day) ELSE index[i]
Completed == IF t < Close THEN t ELSE Close
poll_candles ==
    /\ queue # {}
    /\ LET i == CHOOSE k \in queue : \A o \in queue : k <= o
           s == reset(i)
           d == IF s.previous = None \/ s.major = None THEN [s EXCEPT !.previous = day - 1, !.major = day - 1] ELSE s
       IN  /\ queue' = queue \ {i}
           /\ \/ index' = [index EXCEPT ![i] = [s EXCEPT !.error = TRUE]] /\ Fault
              \/ index' = [index EXCEPT ![i] = [d EXCEPT !.error = TRUE]] /\ Fault
              \/ index' = [index EXCEPT ![i] = [d EXCEPT !.updated = t, !.error = FALSE]]
                 /\ IF Completed = 0 THEN NoFault ELSE Fault
              \/ /\ Completed > 0 /\ NoFault
                 /\ index' = [index EXCEPT ![i] = [d EXCEPT !.candles = day, !.held = Completed, !.updated = t, !.error = FALSE]]
    /\ UNCHANGED <<day, t, settings, token_error, _last_candle_minute, early, reply>>

\* The clock: a poll that is not over in its minute is a fault of the requests.
Minute ==
    /\ t < Evening /\ ~Due /\ t' = t + 1
    /\ IF queue # {} THEN Fault ELSE NoFault
    /\ UNCHANGED <<day, settings, token_error, _last_candle_minute, queue, index, early, reply>>
NextDay ==
    /\ t = Evening /\ ~Due /\ queue = {} /\ day < LastDay
    /\ day' = day + 1 /\ t' = 0 /\ faults' = 0 /\ late' = 0 /\ early' = settings
    /\ UNCHANGED <<settings, token_error, _last_candle_minute, queue, index, reply>>

Order == <<"live", "levels">>
everything ==
    /\ reply = None
    /\ reply' = [live |-> <<>>, levels |-> <<>>]
    /\ UNCHANGED <<day, t, settings, token_error, _last_candle_minute, queue, index, faults, late, early>>
ReadIndex ==
    /\ reply # None
    /\ LET part == IF Len(reply[Order[1]]) < Count THEN Order[1] ELSE Order[2]
           i == Len(reply[part]) + 1
       IN  reply' = IF i > Count THEN None
                    ELSE [reply EXCEPT ![part] = Append(@, [date |-> index[i].date, candles |-> index[i].candles,
                                                            held |-> index[i].held, major |-> index[i].major])]
    /\ UNCHANGED <<day, t, settings, token_error, _last_candle_minute, queue, index, faults, late, early>>

Next == \/ everything \/ ReadIndex
        \/ _ensure_started \/ _poll_token \/ _loop \/ poll_candles \/ Minute \/ NextDay
Spec == Init /\ [][Next]_vars

-----------------------------------------------------------------------------
\* health(): the age is of the last candle, not of the last answer.
Age(i) == IF index[i].candles = None THEN None ELSE IF index[i].candles = day THEN t - index[i].held ELSE t + Close
health ==
    LET open == t < Close
        stale == {i \in Indices : Age(i) = None \/ (Age(i) # None /\ Age(i) > StaleMinutes + 1)}
    IN  IF ~settings \/ token_error \/ (open /\ t >= HealthFrom /\ stale # {}) THEN "DEGRADED" ELSE "OK"

TypeOK ==
    /\ day \in 1..LastDay /\ t \in 0..Evening /\ queue \subseteq Indices /\ faults \in 0..MaxFaults
    /\ \A i \in Indices : index[i].held \in 0..Close

\* payload() never mixes days: the candles are of the session it names, and the previous close
\* and the major levels of the day before that one.
DaysAgree ==
    \A i \in Indices : LET s == index[i] IN
        /\ s.candles # None => s.candles = s.date
        /\ s.previous # None => s.previous = s.date - 1
        /\ s.major # None => s.major = s.date - 1

\* The node ends the day with all of it: every index holds the whole session in the evening
\* when the node had its token before the close and fewer polls failed after it than the
\* PollMinutes + 1 that are made, whatever failed during the session.
EndsWhole ==
    t = Evening /\ ~Due /\ queue = {} /\ early /\ late <= PollMinutes
        => \A i \in Indices : index[i].candles = day /\ index[i].held = Close

\* Answers without candles cannot hide: /health is not OK while some index's last candle of
\* today is older than it may be, although each of them refreshes updated_at.
StaleShown ==
    health = "OK" /\ HealthFrom <= t /\ t < Close
        => \A i \in Indices : index[i].candles = day /\ t - index[i].held <= StaleMinutes + 1

\* In /public/all.json the levels of an index are never of older candles than the candles
\* beside them, and never mix days, although a poll may replace either between the reads.
LevelsFollowCandles ==
    reply # None => \A i \in DOMAIN reply.levels : LET lev == reply.levels[i] IN
        /\ lev.candles # None => lev.candles = lev.date
        /\ lev.major # None => lev.major = lev.date - 1
        /\ i \in DOMAIN reply.live /\ reply.live[i].date = lev.date => lev.held >= reply.live[i].held
        /\ i \in DOMAIN reply.live /\ reply.live[i].date # None => lev.date # None /\ lev.date >= reply.live[i].date
=============================================================================
