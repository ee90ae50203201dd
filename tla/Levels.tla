------------------------------- MODULE Levels --------------------------------
(*****************************************************************************)
(* Support and resistance of one session (levels.py, levels_worker.py).  The *)
(* worker asks for each stock's daily bars once, retrying what failed; the   *)
(* intraday levels are computed from the candles held at a request, where a  *)
(* minute without a trade has none.                                          *)
(*****************************************************************************)
EXTENDS Integers, Sequences, FiniteSetsExt

CONSTANTS
    Symbols,            \* the stocks of the worker
    Daily,              \* the completed daily bars before today: day, week, month, high, low, close, oldest first
    Week, Month,        \* today's
    Prices,             \* of a minute; farther apart than the merge and confluence bands
    LastMinute,         \* bound: minutes of the session, counted from the open
    BarMinutes, OpeningMinutes, Side, Keep, RangeSessions,
    MaxFailures,        \* bound: failed requests for daily bars
    None

VARIABLES
    now,        \* minutes since the open
    candle,     \* per minute: the price it traded at, or None
    major,      \* LevelsWorker.major, per stock: the rows its levels are of (major_levels)
    todo,       \* the stocks left in this pass
    worker,     \* "pass", "wait" or "done"
    failures

vars == <<now, candle, major, todo, worker, failures>>

Held == {m \in DOMAIN candle : candle[m] # None}

-----------------------------------------------------------------------------
\* Major levels, in sixths of a price so that pivots and CPR are exact.
_floor_pivots(high, low, close) ==
    LET pp == 2 * (high + low + close)
    IN  [PP |-> pp, R1 |-> 2 * pp - 6 * low, S1 |-> 2 * pp - 6 * high, R2 |-> pp + 6 * (high - low),
         S2 |-> pp - 6 * (high - low), R3 |-> 6 * high + 2 * (pp - 6 * low), S3 |-> 6 * low - 2 * (6 * high - pp)]

\* Dhan's daily answer holds today's bar as well, once the day has one.
Today == {candle[m] : m \in Held}
rows == Daily \o (IF Today = {} THEN <<>>
                  ELSE <<[day |-> Len(Daily) + 1, week |-> Week, month |-> Month, high |-> Max(Today), low |-> Min(Today), close |-> candle[Max(Held)]]>>)
daily_rows_before(rs) ==
    LET out[n \in 0..Len(rs)] ==
            IF n = 0 THEN <<>> ELSE IF rs[n].day <= Len(Daily) THEN Append(out[n-1], rs[n]) ELSE out[n-1]
    IN  out[Len(rs)]

HiLo(rs) == [high |-> Max({rs[i].high : i \in DOMAIN rs}), low |-> Min({rs[i].low : i \in DOMAIN rs}),
             close |-> rs[Len(rs)].close]
HiLoOf(rs) == IF rs = <<>> THEN None ELSE HiLo(rs)
\* the rows of the latest value of a calendar field (week, month) before today's
Latest(rs, span, today) ==
    LET before == {rs[i][span] : i \in DOMAIN rs} \ {today}
    IN  IF before = {} THEN <<>> ELSE SelectSeq(rs, LAMBDA r : r[span] = Max(before))
LastRows(rs, k) == SubSeq(rs, Max({1, Len(rs) - k + 1}), Len(rs))

\* _swings: the only extreme among side bars on either side.
Near(bs, i, side) == i - side..i + side
_swings(bs, side) ==
    LET inner == side + 1..Len(bs) - side
    IN  [tops |-> {i \in inner : \A j \in Near(bs, i, side) \ {i} : bs[j].high < bs[i].high},
         bottoms |-> {i \in inner : \A j \in Near(bs, i, side) \ {i} : bs[j].low > bs[i].low}]
\* _cluster: equal prices merge.  _ranked_swings: by touches, then by the latest bar.
_cluster(points, price) == {[price |-> p, last |-> Max({i \in points : price[i] = p})] : p \in {price[i] : i \in points}}
Touches(c, price) == Cardinality({i \in DOMAIN price : price[i] = c.price})
Before(c, d, price) == Touches(c, price) > Touches(d, price) \/ (Touches(c, price) = Touches(d, price) /\ c.last > d.last)
Ranked(points, price, keep) ==
    LET cs == _cluster(points, price) IN {c \in cs : Cardinality({d \in cs : Before(d, c, price)}) < keep}
_ranked_swings(bs, side, keep) ==
    [highs |-> Ranked(_swings(bs, side).tops, [i \in DOMAIN bs |-> bs[i].high], keep),
     lows |-> Ranked(_swings(bs, side).bottoms, [i \in DOMAIN bs |-> bs[i].low], keep)]

Cpr(pp, bc) == LET tc == 2 * pp - bc IN IF tc > bc THEN [tc |-> tc, bc |-> bc] ELSE [tc |-> bc, bc |-> tc]
major_levels(ds) ==
    LET prev == ds[Len(ds)]
        week == Latest(ds, "week", Week)
        month == Latest(ds, "month", Month)
    IN  [prev |-> HiLo(<<prev>>),
         daily |-> _floor_pivots(prev.high, prev.low, prev.close),
         cpr |-> Cpr(2 * (prev.high + prev.low + prev.close), 3 * (prev.high + prev.low)),
         last_week |-> HiLoOf(week),
         weekly |-> IF week = <<>> THEN None
                    ELSE [k \in {"PP", "R1", "S1", "R2", "S2"} |-> _floor_pivots(HiLo(week).high, HiLo(week).low, HiLo(week).close)[k]],
         last_month |-> HiLoOf(month),
         range |-> HiLo(LastRows(ds, RangeSessions)),
         swings |-> _ranked_swings(ds, Side, Keep),
         week_prior_days |-> HiLoOf(SelectSeq(ds, LAMBDA r : r.week = Week))]

-----------------------------------------------------------------------------
\* Intraday levels from the candles held.
\* _bars: the buckets of BarMinutes that hold a candle, in time order.
Buckets(c) == {m \div BarMinutes : m \in {k \in DOMAIN c : c[k] # None}}
Bar(c, k) == LET at == {c[m] : m \in {h \in DOMAIN c : c[h] # None /\ h \div BarMinutes = k}}
             IN  [key |-> k, high |-> Max(at), low |-> Min(at)]
_bars(c) ==
    LET add(k, bs) == IF k \in Buckets(c) THEN Append(bs, Bar(c, k)) ELSE bs
        upto[k \in -1..LastMinute \div BarMinutes] == IF k < 0 THEN <<>> ELSE add(k, upto[k-1])
    IN  upto[LastMinute \div BarMinutes]

Opening(c) == {m \in DOMAIN c : c[m] # None /\ m < OpeningMinutes}
OpeningRange(c) ==
    LET open == {c[m] : m \in Opening(c)}
    IN  IF open = {} THEN None
        ELSE [high |-> Max(open), low |-> Min(open), provisional |-> Cardinality(Opening(c)) < OpeningMinutes]
intraday_levels(week) ==
    LET prices == {candle[m] : m \in Held}
    IN  [day |-> [high |-> Max(prices), low |-> Min(prices), open |-> candle[0]],
         week |-> IF week = None THEN [high |-> Max(prices), low |-> Min(prices)]
                  ELSE [high |-> Max({week.high} \cup prices), low |-> Min({week.low} \cup prices)],
         opening |-> OpeningRange(candle),
         swings |-> _ranked_swings(_bars(candle), Side, Keep)]

-----------------------------------------------------------------------------
Init ==
    /\ now = 0 /\ candle = [m \in 0..LastMinute-1 |-> None]
    /\ major = [s \in Symbols |-> None] /\ todo = Symbols /\ worker = "pass" /\ failures = 0

\* A minute ends, traded or not.
NextMinute ==
    /\ now < LastMinute /\ now' = now + 1
    /\ \E p \in Prices \cup {None} : candle' = [candle EXCEPT ![now] = p]
    /\ UNCHANGED <<major, todo, worker, failures>>
\* run_pass and fetch_one: a failure leaves the stock for the next pass; _run waits between
\* passes until every stock has its levels.
Fetch(s) ==
    /\ worker = "pass" /\ s \in todo /\ todo' = todo \ {s}
    /\ \/ /\ failures < MaxFailures /\ failures' = failures + 1 /\ UNCHANGED major
       \/ /\ major[s] = None
          /\ LET prior == daily_rows_before(rows)
             IN  major' = IF prior = <<>> THEN major ELSE [major EXCEPT ![s] = prior]
          /\ UNCHANGED failures
    /\ UNCHANGED <<now, candle, worker>>
Finished == \A s \in Symbols : major[s] # None
PassEnds ==
    /\ worker = "pass" /\ todo = {}
    /\ worker' = IF Finished THEN "done" ELSE "wait"
    /\ UNCHANGED <<now, candle, major, todo, failures>>
Retry ==
    /\ worker = "wait" /\ worker' = "pass" /\ todo' = {s \in Symbols : major[s] = None}
    /\ UNCHANGED <<now, candle, major, failures>>

Next ==
    \/ NextMinute \/ PassEnds \/ Retry
    \/ \E s \in Symbols : Fetch(s)
Spec == Init /\ [][Next]_vars

-----------------------------------------------------------------------------
TypeOK ==
    /\ now \in 0..LastMinute /\ candle \in [0..LastMinute-1 -> Prices \cup {None}] /\ todo \subseteq Symbols
    /\ worker \in {"pass", "wait", "done"} /\ failures \in 0..MaxFailures
    /\ \A m \in 0..LastMinute-1 : m >= now => candle[m] = None
    /\ Held # {} => LET v == intraday_levels(None) IN \A c \in v.swings.highs : c.price \in v.day.low..v.day.high

\* Every minute of a bar, or of enough bars on its right, is over.
Whole(bs, i) == (bs[i].key + 1) * BarMinutes <= now
Settled(bs, i) == Whole(bs, i) /\ i + Side <= Len(bs) /\ Whole(bs, i + Side)

\* A swing high whose bars on the right are over is never taken back or moved, and an opening
\* range that is not provisional is never changed: later minutes do not reach behind them.
NoRepaint ==
    [][candle' # candle =>
         /\ \A i \in _swings(_bars(candle), Side).tops :
               Settled(_bars(candle), i) => i \in _swings(_bars(candle'), Side).tops /\ _bars(candle')[i] = _bars(candle)[i]
         /\ OpeningRange(candle) # None =>
               OpeningRange(candle).provisional \/ OpeningRange(candle') = OpeningRange(candle)]_vars

\* The major levels of a session are those of the days before it, whenever in the session the
\* request got through: Dhan's answer has today's bar too once the day has one.
PastLevels == major_levels(Daily)
MajorOfThePast == \A s \in Symbols : major[s] # None => major_levels(major[s]) = PastLevels
=============================================================================
