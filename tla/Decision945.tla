----------------------------- MODULE Decision945 -----------------------------
(***************************************************************************)
(* The daily 09:45 decision: LiveRunner.run_945 and finalise_945,          *)
(* intelligence.pipeline945 (decide_day, finish_day, reconstruct) and the  *)
(* files of selector945.DecisionStore.  The live service decides each day  *)
(* once, tracks the outcome and, after the close, adds the day to the      *)
(* training records, which it shares with the replay tool; the replay      *)
(* decides the archived days again in a namespace of its own.  Either may  *)
(* be killed between any two writes.                                       *)
(*                                                                         *)
(* What a decision says is determined by the day and by the training       *)
(* records it was made with: a decision is the set of those records' days. *)
(***************************************************************************)
EXTENDS Integers, FiniteSets

CONSTANTS
    LastDay,
    MaxFaults,      \* exceptions of the pipeline
    MaxKills,
    MaxReplays,     \* runs of the replay tool
    Warm,           \* warm_sessions: earlier sessions a replayed decision needs
    None,
    Empty           \* what a file holds that was created and not written

Days == 1..LastDay
Phases == {"morning", "session", "closed"}   \* before the 09:44 bar, until 15:45, after

VARIABLES
    day, phase,
    archive,    \* days with an archived equity file
    decision,   \* of each day: the live file: None, Empty or what it says
    outcome,    \* of each day: none, provisional, unmarked or final
    training,   \* days with a training record
    pc,         \* of the live service: down, idle, create, write, outcome, training, mark
    made,       \* the decision it is about to store
    _failed,    \* _945_failed, _945_finalised
    _finalised,
    replayed,   \* of each day: the replay namespace's decision file
    at,         \* the day the replay is at, None when it does not run
    replays, faults, kills

live == <<pc, made, _failed, _finalised>>
tool == <<replayed, at, replays>>
vars == <<day, phase, archive, decision, outcome, training, live, tool, faults, kills>>

Loaded(file) == file # None /\ file # Empty     \* load_decision is not None

\* load_training(before = d)
load_training(d) == {e \in training : e < d}

-----------------------------------------------------------------------------
(* The live service. *)

\* run_945: no decision could be loaded and none failed today; a failure is reported once
run_945 ==
    /\ pc = "idle" /\ phase # "morning" /\ ~Loaded(decision[day]) /\ _failed # day
    /\ \/ pc' = "create" /\ UNCHANGED <<_failed, faults>>
       \/ faults < MaxFaults /\ faults' = faults + 1 /\ _failed' = day /\ UNCHANGED pc
    /\ made' = load_training(day)
    /\ UNCHANGED <<day, phase, archive, decision, outcome, training, _finalised, tool, kills>>

\* os.open(O_CREAT | O_EXCL)
Exclusive(file) == file = None

\* save_decision: a new file, or an exception because the one there cannot be parsed
Create ==
    /\ pc = "create"
    /\ IF Exclusive(decision[day])
       THEN pc' = "write" /\ decision' = [decision EXCEPT ![day] = Empty] /\ UNCHANGED _failed
       ELSE pc' = "idle" /\ _failed' = day /\ UNCHANGED decision
    /\ UNCHANGED <<day, phase, archive, outcome, training, made, _finalised, tool, faults, kills>>

Write ==
    /\ pc = "write" /\ pc' = "idle"
    /\ decision' = [decision EXCEPT ![day] = made]
    /\ UNCHANGED <<day, phase, archive, outcome, training, made, _failed, _finalised, tool, faults, kills>>

\* the outcome while the horizons elapse
Provisional ==
    /\ pc = "idle" /\ phase # "morning" /\ Loaded(decision[day]) /\ outcome[day] # "final"
    /\ outcome' = [outcome EXCEPT ![day] = "provisional"]
    /\ UNCHANGED <<day, phase, archive, decision, training, live, tool, faults, kills>>

\* finalise_945: once a day, whether it can or not
finalise_945 ==
    /\ pc = "idle" /\ phase = "closed" /\ _finalised # day /\ _finalised' = day
    /\ \/ Loaded(decision[day]) /\ day \in archive /\ pc' = "outcome" /\ UNCHANGED faults
       \/ ~(Loaded(decision[day]) /\ day \in archive) /\ UNCHANGED <<pc, faults>>
       \/ faults < MaxFaults /\ faults' = faults + 1 /\ UNCHANGED pc
    /\ UNCHANGED <<day, phase, archive, decision, outcome, training, made, _failed, tool, kills>>

\* finish_day: the outcome, the training record; then the outcome again, marked final
Outcome ==
    /\ pc = "outcome" /\ pc' = "training" /\ outcome' = [outcome EXCEPT ![day] = "unmarked"]
    /\ UNCHANGED <<day, phase, archive, decision, training, made, _failed, _finalised, tool, faults, kills>>
Training ==
    /\ pc = "training" /\ pc' = "mark" /\ training' = training \cup {day}
    /\ UNCHANGED <<day, phase, archive, decision, outcome, made, _failed, _finalised, tool, faults, kills>>
Mark ==
    /\ pc = "mark" /\ pc' = "idle" /\ outcome' = [outcome EXCEPT ![day] = "final"]
    /\ UNCHANGED <<day, phase, archive, decision, training, made, _failed, _finalised, tool, faults, kills>>

Kill ==
    /\ pc # "down" /\ kills < MaxKills /\ kills' = kills + 1 /\ pc' = "down"
    /\ UNCHANGED <<day, phase, archive, decision, outcome, training, made, _failed, _finalised, tool, faults>>
Restart ==
    /\ pc = "down" /\ pc' = "idle" /\ _failed' = None /\ _finalised' = None
    /\ UNCHANGED <<day, phase, archive, decision, outcome, training, made, tool, faults, kills>>

-----------------------------------------------------------------------------
(* The replay tool. *)

reconstruct ==
    /\ at = None /\ replays < MaxReplays /\ replays' = replays + 1 /\ at' = 1
    /\ UNCHANGED <<day, phase, archive, decision, outcome, training, live, replayed, faults, kills>>

\* a day with too few earlier ones only gives a training record
Judged(d) == Cardinality({e \in archive : e < d}) >= Warm
\* Mutant of Conflict: whatever is stored is replaced.
Conflict_Never(d) == FALSE
\* a stored decision that says something else is not replaced
Conflict(d) == replayed[d] # None /\ replayed[d] # load_training(d)

\* Mutant of NextSession: the list of sessions has no end.
NextSession_Past(d) == d + 1
NextSession(d) == IF d = LastDay THEN None ELSE d + 1

\* a day of the archive: decided, stored, and its training record saved
ReplayDay ==
    /\ at \in archive /\ ~(Judged(at) /\ Conflict(at))
    /\ replayed' = IF Judged(at) THEN [replayed EXCEPT ![at] = load_training(at)] ELSE replayed
    /\ training' = training \cup {at} /\ at' = NextSession(at)
    /\ UNCHANGED <<day, phase, archive, decision, outcome, live, replays, faults, kills>>

\* the run ends: at a conflict, which raises, or after the last day of the archive
ReplayEnds ==
    /\ at # None
    /\ IF at \in archive THEN Judged(at) /\ Conflict(at) /\ at' = None
       ELSE at' = NextSession(at)
    /\ UNCHANGED <<day, phase, archive, decision, outcome, training, live, replayed, replays, faults, kills>>

-----------------------------------------------------------------------------
(* The day, external to this code. *)

\* the application archives the day's equity bars in the session, or never
Archived ==
    /\ phase = "session" /\ archive' = archive \cup {day}
    /\ UNCHANGED <<day, phase, decision, outcome, training, live, tool, faults, kills>>

\* a session and a night are long: the service has ticked in each
Settled ==
    \/ pc = "down"
    \/ /\ pc = "idle" /\ (phase = "closed" => _finalised = day)
       /\ phase # "morning" => Loaded(decision[day]) \/ _failed = day

Advance ==
    /\ Settled
    /\ \/ phase = "morning" /\ phase' = "session" /\ UNCHANGED day
       \/ phase = "session" /\ phase' = "closed" /\ UNCHANGED day
       \/ phase = "closed" /\ day < LastDay /\ phase' = "morning" /\ day' = day + 1
    /\ UNCHANGED <<archive, decision, outcome, training, live, tool, faults, kills>>

Init ==
    /\ day = 1 /\ phase = "morning" /\ archive = {} /\ training = {}
    /\ decision = [d \in Days |-> None] /\ outcome = [d \in Days |-> "none"]
    /\ replayed = [d \in Days |-> None] /\ at = None /\ replays = 0
    /\ pc = "idle" /\ made = {} /\ _failed = None /\ _finalised = None /\ faults = 0 /\ kills = 0

Service ==
    run_945 \/ Create \/ Write \/ Provisional \/ finalise_945 \/ Outcome \/ Training \/ Mark
Next == Service \/ Kill \/ Restart \/ reconstruct \/ ReplayDay \/ ReplayEnds \/ Archived \/ Advance
Spec == Init /\ [][Next]_vars

-----------------------------------------------------------------------------
Said == {None, Empty} \cup SUBSET Days
TypeOK ==
    /\ day \in Days /\ phase \in Phases /\ archive \subseteq Days /\ training \subseteq Days
    /\ decision \in [Days -> Said] /\ replayed \in [Days -> Said]
    /\ outcome \in [Days -> {"none", "provisional", "unmarked", "final"}]
    /\ pc \in {"down", "idle", "create", "write", "outcome", "training", "mark"}
    /\ at \in Days \cup {None} /\ _failed \in Days \cup {None} /\ _finalised \in Days \cup {None}

\* "Decisions are immutable: a stored decision is never rewritten" (945.py): not by a
\* restarted service, not after the close, not by a replay with other training records.
DecisionImmutable ==
    [][\A d \in Days : /\ Loaded(decision[d]) => decision'[d] = decision[d]
                       /\ Loaded(replayed[d]) => replayed'[d] = replayed[d]]_vars

\* A decision learns from earlier days only, although the store may already hold the
\* record of its own day and of later ones (a replay of a day the service missed).
LearnsFromThePast ==
    \A d \in Days : /\ Loaded(decision[d]) => decision[d] \subseteq 1..(d - 1)
                    /\ Loaded(replayed[d]) => replayed[d] \subseteq 1..(d - 1)

\* A day that was decided and archived has its final outcome and its training record
\* when the next day begins, if nothing failed and the service was not killed.
DayFinished ==
    faults = 0 /\ kills = 0 =>
        \A d \in Days : d < day /\ d \in archive => outcome[d] = "final" /\ d \in training
=============================================================================
