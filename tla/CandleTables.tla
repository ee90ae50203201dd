----------------------------- MODULE CandleTables -----------------------------
(***************************************************************************)
(* The candle tables of the archive: what the history bootstrap makes of   *)
(* the exchange's answers (history_bootstrap.parse_candles, _spans,        *)
(* _download, assemble), what the integrity check and the reader           *)
(* say of the table (archive_integrity._check_table, archive._to_bars), and*)
(* the frame a moment of the day is given (frame.frame_at).  The state     *)
(* machine takes one instrument's answers through them.                    *)
(*                                                                         *)
(* Time is in half minutes; day d of the archive is [d * DayLen,           *)
(* (d + 1) * DayLen), its session [d * DayLen + Open, d * DayLen + Close). *)
(* A row is <<time, open, high, low, close, volume>>; NaN is a value that  *)
(* is not a number.                                                        *)
(***************************************************************************)
EXTENDS Integers, SequencesExt, FiniteSetsExt

CONSTANTS
    DayLen, Open, Close,
    Wanted,         \* the days to be archived
    MaxSpan,        \* MAX_SPAN_DAYS
    Candles,        \* <<time of day, open, high, low, close, volume>> that may be answered
    MaxRows,        \* rows of an answer
    NaN

VARIABLES
    answered,   \* the rows answered so far
    staged,     \* rows downloaded so far, in order
    todo,       \* the day the next span to download starts
    table       \* <<>>, then the archived rows of each wanted day
vars == <<answered, staged, todo, table>>

FirstDay == Min(Wanted)
LastDay == Max(Wanted)
DayOf(t) == t \div DayLen
Of(row, d) == DayOf(row[1]) = d

\* _spans: spans of at most MaxSpan days, one after the other
_span(start) == start..Min({LastDay, start + MaxSpan - 1})
\* Mutant of NextStart: the next span begins on the last day of this one.
NextStart_Overlap(start) == Max({start + 1, Max(_span(start))})
NextStart(start) == Min({LastDay, start + MaxSpan - 1}) + 1

Numbers(row) == \A i \in 2..6 : row[i] # NaN
InSession(t) == t % DayLen >= Open /\ t % DayLen < Close
Whole(t) == t % 2 = 0
\* high and low around open and close
Geometry(row) ==
    row[3] >= Max({row[2], row[5]}) /\ row[4] <= Min({row[2], row[5]}) /\ row[6] >= 0

\* the rows parse_candles can use
Usable(row) ==
    /\ Numbers(row) /\ Whole(row[1]) /\ InSession(row[1])
    /\ Geometry(row) /\ row[4] > 0

\* the elements of a set by their keys, which differ
Sorted(S, key) ==
    [n \in 1..Cardinality(S) |-> CHOOSE x \in S : Cardinality({y \in S : key[y] < key[x]}) = n - 1]

\* parse_candles: the usable rows, the first of each minute
parse_candles(rows) ==
    {rows[i] : i \in {k \in DOMAIN rows :
        Usable(rows[k]) /\ \A j \in 1..(k - 1) : Usable(rows[j]) => rows[j][1] # rows[k][1]}}

\* the rows an answer for a span may hold: of its days, in any order and state
Answerable(span) == {[c EXCEPT ![1] = d * DayLen + c[1]] : d \in span, c \in Candles}

\* _download, one span: the rows of wanted days are kept, sorted by time
Download(rows) ==
    /\ todo <= LastDay /\ todo' = NextStart(todo)
    /\ LET kept == {r \in parse_candles(rows) : DayOf(r[1]) \in Wanted}
       IN  staged' = staged \o Sorted(kept, [r \in kept |-> r[1]])
    /\ answered' = answered \cup {rows[i] : i \in DOMAIN rows}
    /\ UNCHANGED table

\* assemble: each staged row to the file of its day, in order
writer(d) ==
    LET places == {i \in DOMAIN staged : Of(staged[i], d)}
        order == Sorted(places, [i \in places |-> i])
    IN  [n \in DOMAIN order |-> staged[order[n]]]
assemble ==
    /\ todo > LastDay /\ table = <<>> /\ table' = <<[d \in Wanted |-> writer(d)]>>
    /\ UNCHANGED <<answered, staged, todo>>

Init == answered = {} /\ staged = <<>> /\ todo = FirstDay /\ table = <<>>
Next ==
    \/ assemble
    \/ \E n \in 0..MaxRows : \E rows \in [1..n -> Answerable(_span(todo))] : Download(rows)
Spec == Init /\ [][Next]_vars

-----------------------------------------------------------------------------
(* The readers. *)

\* _check_table: the rows of day d with a problem
_check_table(rows, d) ==
    {i \in DOMAIN rows :
        \/ ~Of(rows[i], d) \/ ~Whole(rows[i][1]) \/ ~InSession(rows[i][1])
        \/ \E j \in 1..(i - 1) : rows[j][1] = rows[i][1]
        \/ ~Numbers(rows[i]) \/ ~Geometry(rows[i]) \/ rows[i][3] < rows[i][4] \/ rows[i][4] <= 0}

_is_filler(row) == row[6] = 0 /\ Cardinality({row[i] : i \in 2..5}) = 1

\* _to_bars: the valid first row of each minute, without the exchange's filler
_to_bars(rows) ==
    {rows[i] : i \in {k \in DOMAIN rows :
        /\ Numbers(rows[k]) /\ Geometry(rows[k]) /\ rows[k][3] >= rows[k][4] /\ ~_is_filler(rows[k])
        /\ \A j \in 1..(k - 1) : rows[j][1] = rows[k][1] => _is_filler(rows[j])}}

\* session_grid: bars from the open that had ended by then
session_grid(d, t) ==
    {m \in (d * DayLen + Open)..(Min({t, d * DayLen + Close}) - 2) : m % 2 = 0}

\* frame_at: the bars on the grid
frame_at(bars, d, t) == {b \in bars : b[1] \in session_grid(d, t)}

-----------------------------------------------------------------------------
TypeOK ==
    /\ todo \in FirstDay..(LastDay + 1)
    /\ Len(table) <= 1 /\ \A i \in DOMAIN staged : Len(staged[i]) = 6

Rows(d) == table[1][d]

\* What the bootstrap archives, the integrity check finds nothing wrong with and the
\* reader takes whole, apart from the exchange's filler: however the answers were cut
\* into spans, ordered, repeated or damaged.  Every wanted minute that was answered with
\* a usable row is in the table.
TableRoundTrip ==
    table # <<>> =>
        \A d \in Wanted :
            /\ _check_table(Rows(d), d) = {}
            /\ _to_bars(Rows(d)) = {r \in ToSet(Rows(d)) : ~_is_filler(r)}
            /\ {r[1] : r \in {q \in answered : Usable(q) /\ Of(q, d)}} = {r[1] : r \in ToSet(Rows(d))}

\* "a live frame and a replayed frame of the same data are identical": the frame of a
\* moment is the same from the bars that had ended by then as from the whole day.
FrameSame ==
    table # <<>> =>
        \A d \in Wanted : \A t \in (d * DayLen)..((d + 1) * DayLen) :
            LET bars == _to_bars(Rows(d))
                ended == {b \in bars : b[1] + 2 <= t}
            IN  frame_at(bars, d, t) = frame_at(ended, d, t)
=============================================================================
