---------------------------- MODULE SessionHistory ----------------------------
(*****************************************************************************)
(* What the intelligence service remembers of earlier sessions: which        *)
(* archived days count as sessions (archive.session_days), the baselines     *)
(* built from them (history.py), the cached states of past days, which two   *)
(* threads of the service may write at once, and the matches with earlier    *)
(* sessions (similarity.py).  PSYGRID goes on archiving today meanwhile, and *)
(* the history bootstrap fills days that were missed.                        *)
(*                                                                           *)
(* A day is one price per minute; what is archived of it is a number of      *)
(* minutes.  Returns are differences, and the features are not rescaled.     *)
(*****************************************************************************)
EXTENDS Integers, Sequences, FiniteSets, FiniteSetsExt

CONSTANTS
    Content,            \* per day, the price of each of its minutes
    Other,              \* another day's prices, for comparison
    LastDay, Minutes,
    Written,            \* bound: the minutes at which the archive is written
    Fraction,           \* 1 / MIN_SESSION_FRACTION
    WindowSessions, MinSessions, PoolMinutes,
    Lookback, WindowMinutes, Step, MinMatches, DefaultK,
    Parts,              \* number of files of a folder of states
    MaxKills, None, Torn

Days == 1..LastDay
Threads == {"house", "request"}     \* that load states: housekeeping, and a similarity request

VARIABLES
    rows,       \* per day: minutes in the archive, 0 without an equity file
    today, open,
    summary,    \* per day: the minutes its cached summary was computed from, or None
    folder,     \* per day: None, or the parts and the mark "complete" of its cached states
    tmp,        \* the folder .tmp<pid> that both threads of the process fill
    load,       \* per thread: None, or the day, the next part and, while one is open, where
    kills, raced

vars == <<rows, today, open, summary, folder, tmp, load, kills, raced>>
cache == <<folder, tmp, load>>

NoParts == [part |-> [p \in 1..Parts |-> None], complete |-> FALSE]

-----------------------------------------------------------------------------
(* Sessions: of the archived days, those with a good part of the middle one. *)

available_days(r) == {d \in Days : r[d] > 0}
\* known[len // 2] of the sorted row counts.
Middle(r) ==
    LET days == available_days(r)
        below(d) == {e \in days : r[e] < r[d] \/ (r[e] = r[d] /\ e < d)}
    IN  CHOOSE n \in 1..Minutes : \E d \in days : r[d] = n /\ Cardinality(below(d)) = Cardinality(days) \div 2
session_days(r) == {d \in available_days(r) : Fraction * r[d] >= Middle(r)}
\* The last n of the sessions before a day.
Last(S, n) == {d \in S : Cardinality({e \in S : e > d}) < n}
_earlier_sessions_Own(r, d, n) == Last({e \in session_days(r) : e <= d}, n)
_earlier_sessions(r, d, n) == Last({e \in session_days(r) : e < d}, n)

\* build_baselines: the sessions used, their summaries loaded and cached on the way.
BaselineSessions(r, d) == _earlier_sessions(r, d, WindowSessions)
\* load_summary: from the cache, else of what is archived now.
load_summary(d) == IF summary[d] # None THEN summary[d] ELSE rows[d]
build_baselines ==
    /\ open
    /\ summary' = [d \in Days |-> IF d \in BaselineSessions(rows, today) THEN load_summary(d) ELSE summary[d]]
    /\ summary' # summary
    /\ UNCHANGED <<rows, today, open, cache, kills, raced>>

-----------------------------------------------------------------------------
(* The archive, as PSYGRID and the bootstrap write it. *)

\* The minutes so far, every few minutes.
Archived(n) ==
    /\ open /\ rows[today] < n
    /\ rows' = [rows EXCEPT ![today] = n]
    /\ UNCHANGED <<today, open, summary, cache, kills, raced>>
Bootstrapped(d) ==
    /\ ~open /\ d < today /\ rows[d] = 0
    /\ rows' = [rows EXCEPT ![d] = Minutes]
    /\ UNCHANGED <<today, open, summary, cache, kills, raced>>
Close ==
    /\ open /\ open' = FALSE
    /\ UNCHANGED <<rows, today, summary, cache, kills, raced>>
NextDay ==
    /\ ~open /\ today < LastDay /\ today' = today + 1 /\ open' = TRUE
    /\ UNCHANGED <<rows, summary, cache, kills, raced>>

-----------------------------------------------------------------------------
(* The cached states of a day: a folder of files, written under another name *)
(* and renamed; the name is the process's, so both of its threads use it.    *)

Cached(d) == folder[d] # None /\ folder[d].complete
\* load_states without a cached folder: the states of what is archived now.
Begin(k, d) ==
    /\ load[k] = None /\ ~Cached(d) /\ rows[d] > 0
    /\ load' = [load EXCEPT ![k] = [day |-> d, of |-> rows[d], next |-> 0, open |-> None]]
    /\ UNCHANGED <<rows, today, open, summary, folder, tmp, kills, raced>>

WarmHours == ~open
warm_similarity ==
    /\ WarmHours
    /\ \E d \in Last({e \in available_days(rows) : e <= today}, Lookback) : Begin("house", d)
\* market_matches, instrument_matches: a request loads the sessions it searches.
Search == \E d \in _earlier_sessions(rows, today, Lookback) : Begin("request", d)

Writing(k) == load[k] # None /\ load[k].open = None
Mkdir(k) ==
    /\ Writing(k) /\ load[k].next = 0
    /\ load' = [load EXCEPT ![k].next = 1]
    /\ tmp' = [tmp EXCEPT ![load[k].day] = IF @ = None THEN NoParts ELSE @]
    /\ UNCHANGED <<rows, today, open, summary, folder, kills, raced>>
MarkAt == Parts + 1
OpenPart(k) ==
    /\ Writing(k) /\ load[k].next \in 1..(MarkAt - 1)
    /\ LET d == load[k].day IN
         IF tmp[d] = None THEN load' = [load EXCEPT ![k] = None] /\ UNCHANGED tmp
         ELSE /\ tmp' = [tmp EXCEPT ![d].part[load[k].next] = Torn]
              /\ load' = [load EXCEPT ![k].open = "tmp"]
    /\ UNCHANGED <<rows, today, open, summary, folder, kills, raced>>
\* Written; torn still while the other thread has the same file open.
ClosePart(k) ==
    /\ load[k] # None /\ load[k].open # None
    /\ LET me == load[k]
           other == \E j \in Threads \ {k} : /\ load[j] # None
                                             /\ load[j].day = me.day /\ load[j].next = me.next /\ load[j].open = me.open
           written == IF other THEN Torn ELSE me.of
       IN  /\ load' = [load EXCEPT ![k].next = @ + 1, ![k].open = None]
           /\ IF me.open = "tmp"
              THEN tmp' = [tmp EXCEPT ![me.day].part[me.next] = written] /\ UNCHANGED folder
              ELSE folder' = [folder EXCEPT ![me.day].part[me.next] = written] /\ UNCHANGED tmp
    /\ UNCHANGED <<rows, today, open, summary, kills, raced>>
\* The mark, after every file.
Mark(k) ==
    /\ Writing(k) /\ load[k].next = MarkAt
    /\ LET d == load[k].day IN
         IF tmp[d] = None THEN load' = [load EXCEPT ![k] = None] /\ UNCHANGED tmp
         ELSE /\ tmp' = [tmp EXCEPT ![d].complete = TRUE]
              /\ load' = [load EXCEPT ![k].next = Parts + 2]
    /\ UNCHANGED <<rows, today, open, summary, folder, kills, raced>>
\* os.replace: a file that is open in the folder moves with it; a folder in the way is kept
\* and the new one removed.
Rename(k) ==
    /\ Writing(k) /\ load[k].next = Parts + 2
    /\ LET d == load[k].day
           moves == tmp[d] # None /\ folder[d] = None
       IN  /\ folder' = IF moves THEN [folder EXCEPT ![d] = tmp[d]] ELSE folder
           /\ tmp' = [tmp EXCEPT ![d] = None]
           /\ load' = [j \in Threads |->
                 IF j = k THEN None
                 ELSE IF load[j] # None /\ load[j].day = d /\ load[j].open = "tmp"
                      THEN IF moves THEN [load[j] EXCEPT !.open = "folder"] ELSE None
                 ELSE load[j]]
    /\ UNCHANGED <<rows, today, open, summary, kills, raced>>

\* The service is killed and starts under another process id.
Killed ==
    /\ kills < MaxKills /\ kills' = kills + 1
    /\ raced' = (raced \/ \E k \in Threads : load[k] # None /\ load[k].open = "folder")
    /\ load' = [k \in Threads |-> None] /\ tmp' = [d \in Days |-> None]
    /\ UNCHANGED <<rows, today, open, summary, folder>>

Init ==
    /\ rows = [d \in Days |-> 0] /\ today = 1 /\ open = TRUE
    /\ summary = [d \in Days |-> None]
    /\ folder = [d \in Days |-> None] /\ tmp = [d \in Days |-> None]
    /\ load = [k \in Threads |-> None] /\ kills = 0 /\ raced = FALSE

Next ==
    \/ build_baselines \/ Close \/ NextDay \/ Killed
    \/ \E d \in Days : Bootstrapped(d)
    \/ \E n \in Written : Archived(n)
    \/ warm_similarity \/ Search
    \/ \E k \in Threads : Mkdir(k) \/ OpenPart(k) \/ ClosePart(k) \/ Mark(k) \/ Rename(k)

Spec == Init /\ [][Next]_vars

-----------------------------------------------------------------------------
(* Matching: the state of a minute uses only bars up to it, its outcome the  *)
(* bars after it in its own session.                                         *)

\* state_series, from the first n minutes: the last minute's return and the session's.
state_series(price, n) ==
    [m \in 1..n |-> [lag |-> IF m > 1 THEN price[m] - price[m - 1] ELSE None, session |-> price[m] - price[1]]]
\* market_outcomes, instrument_outcomes: the return of the next minute.
_forward_return(price, n) == [m \in 1..n |-> IF m < n THEN price[m + 1] - price[m] ELSE None]

\* A session's nearest minutes; a minute without a known feature is no candidate.
Known(s) == s.lag # None
Distance(s, q) == (s.lag - q.lag) * (s.lag - q.lag) + (s.session - q.session) * (s.session - q.session)
Near(kept, m, n) == {i \in kept : i <= n /\ i - m <= WindowMinutes /\ m - i <= WindowMinutes}
\* np.argmin: the closest minute of a session, the first of equals.
Closest(states, near, q) ==
    LET known == {i \in near : Known(states[i])}
        best == {i \in known : \A j \in known : Distance(states[i], q) <= Distance(states[j], q)}
    IN  Min(best)

\* _match: the k sessions whose closest minute is closest, the earlier of equals first.
_match(q, sessions, states, outcomes, near) ==
    LET usable == {s \in sessions : \E i \in near[s] : Known(states[s][i])}
        d(s) == Distance(states[s][Closest(states[s], near[s], q)], q)
        before(s) == {e \in usable : d(e) < d(s) \/ (d(e) = d(s) /\ e < s)}
    IN  IF ~Known(q) THEN [status |-> "INSUFFICIENT_DATA", matches |-> {}]
        ELSE IF Cardinality(usable) < MinMatches THEN [status |-> "INSUFFICIENT_HISTORY", matches |-> {}]
        ELSE [status |-> "OK",
              matches |-> LET Match(s, i) == [session |-> s, minute |-> i, outcome |-> outcomes[s][i]]
                          IN  {Match(s, Closest(states[s], near[s], q)) :
                                 s \in {e \in usable : Cardinality(before(e)) < DefaultK}}]

\* What is searched of a session: its cached states, else those of its archived minutes.
StatesOf(d) == IF Cached(d) /\ folder[d].part[1] \notin {None, Torn} THEN folder[d].part[1] ELSE rows[d]
Matches(content, d, m, kept) ==
    LET sessions == _earlier_sessions(rows, d, Lookback)
        states == [s \in sessions |-> state_series(content[s], StatesOf(s))]
        outcomes == [s \in sessions |-> _forward_return(content[s], StatesOf(s))]
    IN  _match(state_series(content[d], m)[m], sessions, states, outcomes, [s \in sessions |-> Near(kept, m, StatesOf(s))])
market_matches(content, d, m) == Matches(content, d, m, 1..Minutes)
instrument_matches(content, d, m) == Matches(content, d, m, {i \in 1..Minutes : (i - 1) % Step = 0})

-----------------------------------------------------------------------------
(* The baselines of a minute of the day: the middle of a quantity over the   *)
(* earlier sessions and the minutes around.                                  *)

\* summarise_day: the size of the minute's return.
summarise_day(price, n) ==
    [m \in 1..n |-> IF m = 1 THEN None ELSE IF price[m] < price[m - 1] THEN price[m - 1] - price[m] ELSE price[m] - price[m - 1]]
\* Twice the median of v over a set of pairs: its middle value, or the two of them.
TwiceMedian(S, v) ==
    LET before(p) == {q \in S : v[q] < v[p] \/ (v[q] = v[p] /\ (q[1] < p[1] \/ (q[1] = p[1] /\ q[2] < p[2])))}
        at(i) == v[CHOOSE p \in S : Cardinality(before(p)) = i]
    IN  at((Cardinality(S) - 1) \div 2) + at(Cardinality(S) \div 2)
\* _robust_core, lookup: no value with fewer than MinSessions sessions at this very minute.
lookup(content, d, m) ==
    LET sessions == BaselineSessions(rows, d)
        field == [s \in sessions |-> summarise_day(content[s], load_summary(s))]
        has(s, i) == i \in DOMAIN field[s] /\ field[s][i] # None
        pooled == {p \in sessions \X ((m - PoolMinutes)..(m + PoolMinutes)) : has(p[1], p[2])}
    IN  IF Cardinality({s \in sessions : has(s, m)}) < MinSessions THEN None
        ELSE TwiceMedian(pooled, [p \in pooled |-> field[p[1]][p[2]]])

-----------------------------------------------------------------------------
TypeOK ==
    /\ rows \in [Days -> 0..Minutes] /\ today \in Days /\ open \in BOOLEAN
    /\ \A d \in Days : summary[d] = None \/ summary[d] \in 1..Minutes
    /\ \A k \in Threads : load[k] = None \/ load[k].next \in 0..(Parts + 2)

\* A folder that says it is complete is: when no thread has one of its files open, each
\* of them was written to its end, although both threads fill one folder and either may
\* rename it under the other; the exception is a kill while a renamed folder was written.
CacheWhole ==
    \A d \in Days : Cached(d) /\ ~raced
        => \A p \in 1..Parts : \/ folder[d].part[p] \notin {None, Torn}
                              \/ \E k \in Threads : load[k] # None /\ load[k].day = d /\ load[k].next = p /\ load[k].open = "folder"

\* Nothing remembered of a day is older than the day's archive: the summaries and states
\* in the cache, which are never computed again, are of all that was archived of it.
CachedIsFinal ==
    \A d \in Days :
        /\ summary[d] # None => summary[d] = rows[d]
        /\ Cached(d) => \A p \in 1..Parts : folder[d].part[p] \in {None, Torn, rows[d]}

\* "no match can carry information from after as_of": the matches and the baselines of a
\* minute of today are the same whatever today's later bars and the later days hold.
OnlyThePast ==
    \A m \in 1..rows[today] :
        LET changed == [d \in Days |->
                          IF d < today THEN Content[d]
                          ELSE [i \in 1..Minutes |-> IF d = today /\ i <= m THEN Content[d][i] ELSE Other[i]]]
        IN  /\ market_matches(Content, today, m) = market_matches(changed, today, m)
            /\ instrument_matches(Content, today, m) = instrument_matches(changed, today, m)
            /\ lookup(Content, today, m) = lookup(changed, today, m)
=============================================================================
