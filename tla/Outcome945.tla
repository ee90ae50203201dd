------------------------------ MODULE Outcome945 ------------------------------
(***************************************************************************)
(* intelligence.selector945.outcomes and decision_outcome: what became of  *)
(* the selected stock, from the bars after 09:45.  Bars may be missing.    *)
(* A return is a difference of prices: only its sign and order are used.   *)
(***************************************************************************)
EXTENDS Integers, FiniteSetsExt

CONSTANTS
    Candles,        \* [open, high, low, close] of a bar
    Horizons,       \* HORIZONS, in minutes
    EntryWithin,    \* the entry bar is one of the first minutes
    None

Minutes == 0..(Max(Horizons \cup {EntryWithin}) - 1)

VARIABLES
    bars,       \* of each minute after 09:45: a bar, or None
    sign,       \* of the decision: 1 is UP
    outcome     \* None, then the result of each horizon
vars == <<bars, sign, outcome>>

Traded(S) == {m \in S : bars[m] # None}
Entries == Traded(0..(EntryWithin - 1))
entry_col == Min(Entries)
entry == bars[entry_col].open

\* the bars of a horizon, from the entry on
Columns(h) == Traded({m \in 0..(h - 1) : m >= entry_col})

\* outcomes: exit at the last close, excursions of a LONG from the entry
forward(h) == bars[Max(Columns(h))].close - entry
up(h) == Max({bars[m].high - entry : m \in Columns(h)})
down(h) == Min({bars[m].low - entry : m \in Columns(h)})
mfe(h) == Max({up(h), 0})
mae(h) == Min({down(h), 0})
t_mfe(h) == Min({m \in Columns(h) : bars[m].high - entry = up(h)}) + 1
t_mae(h) == Min({m \in Columns(h) : bars[m].low - entry = down(h)}) + 1

\* a SHORT swaps them
Excursions(h) ==
    IF sign = 1 THEN [mfe |-> mfe(h), mae |-> mae(h), t_mfe |-> t_mfe(h), t_mae |-> t_mae(h)]
    ELSE [mfe |-> -mae(h), mae |-> -mfe(h), t_mfe |-> t_mae(h), t_mae |-> t_mfe(h)]

\* decision_outcome: a horizon without an entry or a bar has no result
decision_outcome ==
    /\ outcome = None
    /\ outcome' = [h \in Horizons |->
           IF Entries = {} THEN None
           ELSE IF Columns(h) = {} THEN None
           ELSE [return |-> sign * forward(h), of |-> Excursions(h)]]
    /\ UNCHANGED <<bars, sign>>

Init ==
    /\ bars \in [Minutes -> Candles \cup {None}] /\ sign \in {1, -1} /\ outcome = None
Next == decision_outcome
Spec == Init /\ [][Next]_vars

-----------------------------------------------------------------------------
TypeOK == bars \in [Minutes -> Candles \cup {None}] /\ sign \in {1, -1}

\* In either direction the return lies between the adverse and the favourable excursion,
\* whose minute is one of the horizon's; a longer horizon widens them.
ReturnBracketed ==
    outcome # None =>
        \A h \in Horizons :
            outcome[h] # None =>
                /\ outcome[h].of.mae <= outcome[h].return /\ outcome[h].return <= outcome[h].of.mfe
                /\ outcome[h].of.t_mfe \in 1..h /\ outcome[h].of.t_mae \in 1..h
                /\ \A g \in Horizons : g > h =>
                       /\ outcome[g].of.mfe >= outcome[h].of.mfe
                       /\ outcome[g].of.mae <= outcome[h].of.mae
=============================================================================
