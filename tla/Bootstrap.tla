------------------------------- MODULE Bootstrap ------------------------------
(***************************************************************************)
(* intelligence/history_bootstrap.py: runs, outside market hours, that     *)
(* download the 1m history of the sessions the archive misses, one staged  *)
(* file per instrument, and then assemble the days.  What is on disk (the  *)
(* day directories, the batch folders with their plan and staged files)    *)
(* outlives a run; a run may be refused by Dhan, fail for an instrument,   *)
(* be stopped before the market opens or be killed, and is started again.  *)
(*                                                                         *)
(* A session is a number, a batch folder is named by its first and last    *)
(* session, a staged file is the set of sessions it holds rows of.  Every  *)
(* instrument is an equity.                                                *)
(***************************************************************************)
EXTENDS Integers, FiniteSets, FiniteSetsExt

CONSTANTS
    Sessions,       \* the wanted sessions: the last of Dhan's calendar before today
    Instruments,    \* those of the universe that Dhan's master resolves
    MaxFaults,      \* failed or refused requests, and stops for the market
    MaxKills        \* kills of a run, and days that lose their digest

\* The last of finitely many days of a calendar; the instances assume it.
CalendarAssumption ==
    Max(Sessions) \in Nat /\ Sessions \subseteq 0..Max(Sessions) /\ MaxFaults \in Nat /\ MaxKills \in Nat

Keys == {k \in Sessions \X Sessions : k[1] <= k[2]}

\* what a day directory holds: nothing, PSYGRID's live archive of it, only the live
\* index file, the bootstrap's files, the bootstrap's with a digest that does not
\* match, what an interrupted removal of the last leaves: no equity file, or no manifest
DirStates == {"none", "live", "indices", "bootstrap", "corrupt", "hollow", "headless"}

VARIABLES
    dir,        \* of each session
    trades,     \* sessions Dhan has equity rows of
    plan,       \* of each batch folder: the sessions of plan.json, {} when there is none
    stage,      \* of each batch folder and instrument: [rows, done]: sessions staged,
                \* "none", "intraday" (staged) or "daily" (its reference too)
    pc,         \* of the run: "idle", "download", "assemble", "place", "replace"
    missing,    \* sessions of the run's batch
    failures,   \* instruments that failed in this run
    todo,       \* sessions not yet placed
    holds,      \* history: instruments in each bootstrap day
    faults, kills,
    torn        \* history: a run was killed while it placed days

vars == <<dir, trades, plan, stage, pc, missing, failures, todo, holds, faults, kills, torn>>

Key(days) == <<Min(days), Max(days)>>
NotStaged == [rows |-> {}, done |-> "none"]

\* archived(): "bootstrap", "live", or nothing without an equity file
archived(d) ==
    CASE dir[d] \in {"bootstrap", "corrupt"} -> "bootstrap"
      [] dir[d] \in {"live", "headless"} -> "live"
      [] OTHER -> "none"

\* targets(): sessions that are not archived, or the bootstrap's own without their digest
targets == {d \in Sessions : archived(d) = "none" \/ dir[d] = "corrupt"}

\* folders in the order of their names
Before(j, k) == j[1] < k[1] \/ (j[1] = k[1] /\ j[2] <= k[2])

\* the sessions of an interrupted batch that are all still missing, or all of them
_resumable(days) ==
    LET found == {k \in Keys : plan[k] # {} /\ plan[k] \subseteq days}
    IN  IF found = {} THEN days
        ELSE plan[CHOOSE k \in found : \A j \in found : Before(k, j)]

\* the batch's plan is kept when it names the same sessions, and replaced otherwise
_load_or_create_plan(days) == [plan EXCEPT ![Key(days)] = days]

\* run(), up to its downloads: guard, preflight, calendar, targets, the batch and its
\* plan; the staged files of a folder stay when its plan is replaced
Start ==
    /\ pc = "idle" /\ targets # {}
    /\ LET days == _resumable(targets) IN missing' = days /\ plan' = _load_or_create_plan(days)
    /\ pc' = "download" /\ failures' = {}
    /\ UNCHANGED <<dir, trades, stage, todo, holds, faults, kills, torn>>

\* rows and digest of an instrument, in one replacement
_write_stage(i, rows) ==
    [stage EXCEPT ![Key(missing)][i] = [rows |-> rows, done |-> "intraday"]]

\* _download: the intraday rows of the batch's sessions, staged with their digest
DownloadIntraday(i) ==
    /\ pc = "download" /\ i \notin failures
    /\ stage[Key(missing)][i].done = "none"
    /\ stage' = _write_stage(i, missing \cap trades)
    /\ UNCHANGED <<dir, trades, plan, pc, missing, failures, todo, holds, faults, kills, torn>>

\* and its daily candles
DownloadDaily(i) ==
    /\ pc = "download" /\ i \notin failures
    /\ stage[Key(missing)][i].done = "intraday"
    /\ stage' = [stage EXCEPT ![Key(missing)][i].done = "daily"]
    /\ UNCHANGED <<dir, trades, plan, pc, missing, failures, todo, holds, faults, kills, torn>>

\* HistoryClient.post gives up after MAX_ATTEMPTS: the other instruments go on
RequestFailed(i) ==
    /\ pc = "download" /\ i \notin failures /\ stage[Key(missing)][i].done # "daily"
    /\ faults < MaxFaults /\ faults' = faults + 1
    /\ failures' = failures \cup {i}
    /\ UNCHANGED <<dir, trades, plan, stage, pc, missing, todo, holds, kills, torn>>

\* Dhan refuses the credentials, or the market is about to open: the run stops
BootstrapBlocked ==
    /\ pc = "download" /\ faults < MaxFaults /\ faults' = faults + 1
    /\ pc' = "idle"
    /\ UNCHANGED <<dir, trades, plan, stage, missing, failures, todo, holds, kills, torn>>

\* every future is done: with a failure the run ends here
Downloaded ==
    /\ pc = "download"
    /\ \A i \in Instruments : i \in failures \/ stage[Key(missing)][i].done = "daily"
    /\ pc' = IF failures = {} THEN "assemble" ELSE "idle"
    /\ UNCHANGED <<dir, trades, plan, stage, missing, failures, todo, holds, faults, kills, torn>>

StagedDays == UNION {stage[Key(missing)][i].rows : i \in Instruments}

\* assemble(), into a temporary folder: a staged day that is not of the batch raises KeyError
Assemble ==
    /\ pc = "assemble"
    /\ IF StagedDays \subseteq missing
       THEN pc' = "place" /\ todo' = missing
       ELSE pc' = "idle" /\ UNCHANGED todo
    /\ UNCHANGED <<dir, trades, plan, stage, missing, failures, holds, faults, kills, torn>>

\* the bootstrap only replaces a directory it wrote
Owned(d) == archived(d) = "bootstrap"

With(d) == {i \in Instruments : d \in stage[Key(missing)][i].rows}

\* the next day: not archived without equity rows, kept when it is not the bootstrap's;
\* a new directory is moved into place at once
Place ==
    /\ pc = "place" /\ todo # {}
    /\ LET d == Min(todo) IN
           CASE With(d) = {} \/ (dir[d] # "none" /\ ~Owned(d)) ->
                    /\ todo' = todo \ {d} /\ UNCHANGED <<dir, holds, pc>>
             [] With(d) # {} /\ dir[d] = "none" ->
                    /\ dir' = [dir EXCEPT ![d] = "bootstrap"] /\ todo' = todo \ {d}
                    /\ holds' = [holds EXCEPT ![d] = With(d)] /\ UNCHANGED pc
             [] OTHER ->            \* shutil.rmtree, one file after the other
                    /\ pc' = "replace" /\ UNCHANGED todo
                    /\ \E left \in {"hollow", "headless"} : dir' = [dir EXCEPT ![d] = left]
                    /\ holds' = [holds EXCEPT ![d] = {}]
    /\ UNCHANGED <<trades, plan, stage, missing, failures, faults, kills, torn>>

\* os.replace after the old directory is gone
Replace ==
    /\ pc = "replace" /\ pc' = "place"
    /\ LET d == Min(todo) IN
           /\ dir' = [dir EXCEPT ![d] = "bootstrap"] /\ todo' = todo \ {d}
           /\ holds' = [holds EXCEPT ![d] = With(d)]
    /\ UNCHANGED <<trades, plan, stage, missing, failures, faults, kills, torn>>

\* the written days verify and the batch folder is removed
Finish ==
    /\ pc = "place" /\ todo = {} /\ pc' = "idle"
    /\ plan' = [plan EXCEPT ![Key(missing)] = {}]
    /\ stage' = [stage EXCEPT ![Key(missing)] = [i \in Instruments |-> NotStaged]]
    /\ UNCHANGED <<dir, trades, missing, failures, todo, holds, faults, kills, torn>>

\* the run is killed
Killed ==
    /\ pc # "idle" /\ kills < MaxKills /\ kills' = kills + 1
    /\ torn' = (torn \/ pc \in {"place", "replace"})
    /\ pc' = "idle"
    /\ UNCHANGED <<dir, trades, plan, stage, missing, failures, todo, holds, faults>>

\* a bad disk: a file of an archived day no longer has its digest
Corrupted(d) ==
    /\ dir[d] = "bootstrap" /\ pc = "idle" /\ kills < MaxKills /\ kills' = kills + 1
    /\ dir' = [dir EXCEPT ![d] = "corrupt"]
    /\ UNCHANGED <<trades, plan, stage, pc, missing, failures, todo, holds, faults, torn>>

Init ==
    /\ dir \in [Sessions -> {"none", "live", "indices"}]
    /\ trades \in SUBSET Sessions
    /\ plan = [k \in Keys |-> {}]
    /\ stage = [k \in Keys |-> [i \in Instruments |-> NotStaged]]
    /\ pc = "idle" /\ missing = {} /\ failures = {} /\ todo = {}
    /\ holds = [d \in Sessions |-> {}] /\ faults = 0 /\ kills = 0 /\ torn = FALSE

Run ==
    \/ \E i \in Instruments : DownloadIntraday(i) \/ DownloadDaily(i)
    \/ Downloaded \/ Assemble \/ Place \/ Replace \/ Finish

Next ==
    \/ Start \/ Run \/ BootstrapBlocked \/ Killed
    \/ \E i \in Instruments : RequestFailed(i)
    \/ \E d \in Sessions : Corrupted(d)

\* The operator starts it again, and a run goes on.
Fairness == WF_vars(Start) /\ WF_vars(Run)

Spec == Init /\ [][Next]_vars
FairSpec == Spec /\ Fairness

-----------------------------------------------------------------------------
TypeOK ==
    /\ dir \in [Sessions -> DirStates] /\ trades \subseteq Sessions
    /\ plan \in [Keys -> SUBSET Sessions]
    /\ stage \in [Keys -> [Instruments -> [rows : SUBSET Sessions, done : {"none", "intraday", "daily"}]]]
    /\ pc \in {"idle", "download", "assemble", "place", "replace"}
    /\ missing \subseteq Sessions /\ failures \subseteq Instruments
    /\ todo \subseteq Sessions /\ (pc \in {"place", "replace"} => todo \subseteq missing)
    /\ holds \in [Sessions -> SUBSET Instruments] /\ faults \in 0..MaxFaults /\ kills \in 0..MaxKills
    /\ torn \in BOOLEAN

\* A directory that PSYGRID's live archive wrote, with or without its equity file, is
\* never touched, however runs are cut off and folders reused.
LiveUntouched == [][\A d \in Sessions : dir[d] \in {"live", "indices"} => dir'[d] = dir[d]]_vars

\* A session the bootstrap archived holds every instrument: none is assembled while a
\* download of it failed, was stopped or was left by a killed run.
CompleteDays == \A d \in Sessions : dir[d] \in {"bootstrap", "corrupt"} => holds[d] = Instruments

AllArchived == \A d \in trades : dir[d] \in {"live", "indices", "bootstrap"}

\* "an interrupted run resumes where it stopped" (module docstring).
Resumes == <>AllArchived
=============================================================================
