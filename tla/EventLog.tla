------------------------------- MODULE EventLog -------------------------------
(***************************************************************************)
(* intelligence.events.EventEngine and event_store.EventStore: an engine   *)
(* steps through the minutes of a session, builds the candidate events of  *)
(* each and stores those that are due.  The live runner and a replay of    *)
(* the same session work on one store, each with its own cooldown state;   *)
(* either is restarted and begins again at the open, with the cooldown     *)
(* state the store gives it.                                               *)
(*                                                                         *)
(* Events of different (type, subject, counterpart) do not meet; this is   *)
(* one of them.  What the pipeline finds in a minute is the same in every  *)
(* run: candidate[m] is the severity rank it gives minute m, 0 for none.   *)
(***************************************************************************)
EXTENDS Integers, FiniteSetsExt

CONSTANTS
    Engines,        \* of the session: the live runner, a replay
    LastBar,        \* bars 0 .. LastBar of the session
    Ranks,          \* SEVERITY_RANK of the candidates, 1 is LOW
    Cooldown,       \* COOLDOWN_MINUTES
    MaxRestarts,
    MaxErrors,      \* failed transactions
    None

\* What the code gives these constants; the instances assume it.
LogAssumption ==
    LastBar \in Nat /\ Cooldown \in Nat \ {0} /\ Ranks \subseteq Nat \ {0} /\ None \notin Int \cup (Int \X Int)

Bars == 0..LastBar

VARIABLES
    candidate,
    store,      \* the bars with a stored event
    next,       \* of each engine: the bar it steps next
    last,       \* its _last: <<bar, rank>> of the last event, or None
    session,    \* whether it has begun the session (_start_session)
    adding,     \* its bar between the cooldown check and the store's transaction, or None
    restarts, errors

vars == <<candidate, store, next, last, session, adding, restarts, errors>>

\* last_fired: the event of the latest bar in the store
last_fired == IF store = {} THEN None ELSE <<Max(store), candidate[Max(store)]>>

\* _due: no event yet, the cooldown is over, or more severe
Due(l, m) == IF l = None THEN TRUE ELSE m - l[1] >= Cooldown \/ candidate[m] > l[2]

\* _start_session: the cooldown state of the store, once per session
Cooling(e) == IF session[e] THEN last[e] ELSE last_fired

\* build: candidates that are due enter the cooldown state; with one, the store is next
Build(e) ==
    /\ adding[e] = None /\ next[e] \in Bars
    /\ session' = [session EXCEPT ![e] = TRUE]
    /\ LET m == next[e]
           due == candidate[m] > 0 /\ Due(Cooling(e), m)
       IN  /\ last' = [last EXCEPT ![e] = IF due THEN <<m, candidate[m]>> ELSE Cooling(e)]
           /\ adding' = [adding EXCEPT ![e] = IF due THEN m ELSE None]
           /\ next' = [next EXCEPT ![e] = IF due THEN m ELSE m + 1]
    /\ UNCHANGED <<candidate, store, restarts, errors>>

\* store.add: one transaction; an id already stored is ignored
Add(e) ==
    /\ adding[e] # None
    /\ store' = store \cup {adding[e]}
    /\ adding' = [adding EXCEPT ![e] = None] /\ next' = [next EXCEPT ![e] = @ + 1]
    /\ UNCHANGED <<candidate, last, session, restarts, errors>>

\* the transaction fails: the step raises, and the minute is stepped again
AddFails(e) ==
    /\ adding[e] # None /\ errors < MaxErrors /\ errors' = errors + 1
    /\ adding' = [adding EXCEPT ![e] = None]
    /\ UNCHANGED <<candidate, store, next, last, session, restarts>>

\* the process is restarted, or killed anywhere: it begins again at the open
Restart(e) ==
    /\ session[e] /\ restarts < MaxRestarts /\ restarts' = restarts + 1
    /\ next' = [next EXCEPT ![e] = 0] /\ last' = [last EXCEPT ![e] = None]
    /\ session' = [session EXCEPT ![e] = FALSE] /\ adding' = [adding EXCEPT ![e] = None]
    /\ UNCHANGED <<candidate, store, errors>>

Init ==
    /\ candidate \in [Bars -> Ranks \cup {0}]
    /\ store = {} /\ next = [e \in Engines |-> 0] /\ last = [e \in Engines |-> None]
    /\ session = [e \in Engines |-> FALSE] /\ adding = [e \in Engines |-> None]
    /\ restarts = 0 /\ errors = 0

Next == \E e \in Engines : Build(e) \/ Add(e) \/ AddFails(e) \/ Restart(e)
Spec == Init /\ [][Next]_vars

-----------------------------------------------------------------------------
TypeOK ==
    /\ candidate \in [Bars -> Ranks \cup {0}] /\ store \subseteq Bars
    /\ next \in [Engines -> 0..(LastBar + 1)] /\ session \in [Engines -> BOOLEAN]
    /\ adding \in [Engines -> Bars \cup {None}]
    /\ \A e \in Engines : last[e] # None => last[e] \in Bars \X Ranks

\* The last event, after bar m, of a run that is never interrupted.
LastOf[m \in -1..LastBar] ==
    IF m = -1 THEN None
    ELSE LET l == LastOf[m - 1]
         IN  IF candidate[m] > 0 /\ (IF l = None THEN TRUE ELSE m - l[1] >= Cooldown \/ candidate[m] > l[2])
             THEN <<m, candidate[m]>> ELSE l

Fires(m) == LastOf[m] # None /\ LastOf[m] # LastOf[m - 1]

\* The store holds what one uninterrupted run would have stored, wherever the live runner
\* and a replay of the session were cut off and started again at the open, and in
\* whatever order they reach the minutes: nothing more, and nothing less of the minutes
\* an engine has behind it.
OneRun ==
    errors = 0 =>
        /\ \A m \in store : Fires(m)
        /\ \A e \in Engines, m \in Bars : m < next[e] /\ Fires(m) => m \in store
=============================================================================
