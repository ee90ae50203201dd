---------------------------- MODULE DerivativesLog ----------------------------
(*****************************************************************************)
(* What the intelligence runner records once a minute and keeps              *)
(* (intelligence/live.py tick, record_derivatives, housekeeping, backup;     *)
(* intelligence/derivatives.py): the day's snapshot lines, the option chains *)
(* as gzip members within a byte budget, and a bounded number of backups of  *)
(* the event store.  The loop polls more than once a minute; a write may     *)
(* fail, and a crash tears the write in progress.                            *)
(*****************************************************************************)
EXTENDS Integers, Sequences, FiniteSets, FiniteSetsExt

CONSTANTS
    Chains,             \* OPTION_KEYS
    SessionMinutes, DayMinutes, LastMinute,  \* minutes of a session, of a day, and the bound
    Budget,             \* CHAIN_BYTES_PER_DAY, in members
    BackupKeep,         \* backup_keep
    MaxFaults,          \* bound: crashes and failed writes
    None

VARIABLES
    now,            \* the minute
    pc,             \* idle, line, chains, mark, house or down
    options,        \* the chains fetched in this pass and not appended yet
    last,           \* _last_derivatives_minute
    lines,          \* the day's .jsonl: the minute of each line, whether it ends torn, whether it parses
    members,        \* the day's .csv.gz: the minute of each member, and whether it is torn
    backed_up, backups,     \* _backed_up, and the days whose backups are kept
    housekept,      \* _last_housekeeping
    recorded,       \* history: the minutes whose line was written whole, and how often
    faults

\* What the code gives these constants; the instances assume it.
LogAssumption ==
    /\ DayMinutes \in Nat \ {0} /\ BackupKeep \in Nat \ {0} /\ LastMinute \in Nat \ {0}
    /\ Budget \in Nat /\ MaxFaults \in Nat

vars == <<now, pc, options, last, lines, members, backed_up, backups, housekept, recorded, faults>>
keeping == <<backed_up, backups, housekept>>

DayOf(minute) == (minute - 1) \div DayMinutes + 1
_in_session(minute) == (minute - 1) % DayMinutes < SessionMinutes
Files == 1..DayOf(LastMinute)

Init ==
    /\ now = 1 /\ pc = "idle" /\ options = {} /\ last = None
    /\ lines = [d \in Files |-> <<>>] /\ members = [d \in Files |-> <<>>]
    /\ backed_up = None /\ backups = {} /\ housekept = None
    /\ recorded = [m \in 1..LastMinute |-> 0] /\ faults = 0

\* The clock runs on whatever the loop does; a pass works on the minute it began in.
Minute == now < LastMinute /\ pc \in {"idle", "down"} /\ now' = now + 1
          /\ UNCHANGED <<pc, options, last, lines, members, keeping, recorded, faults>>

Due == last # now
record_derivatives ==
    /\ pc = "idle" /\ _in_session(now) /\ Due
    /\ \/ options' = {} /\ last' = now /\ pc' = "house"
       \/ options' \in SUBSET Chains /\ pc' = "line" /\ UNCHANGED last
    /\ UNCHANGED <<now, lines, members, keeping, recorded, faults>>
\* Outside the session, or within a minute already recorded, the pass goes on to the rest.
Skip ==
    /\ pc = "idle" /\ ~(_in_session(now) /\ Due) /\ housekept # now /\ pc' = "house"
    /\ UNCHANGED <<now, options, last, lines, members, keeping, recorded, faults>>

\* DerivativesRecorder.append: one write; the line of a write after a torn one joins it.
Ends(file) == file # <<>> /\ file[Len(file)].torn
Appended(file, minute, torn) ==
    IF Ends(file)
    THEN [file EXCEPT ![Len(file)] = [minute |-> minute, torn |-> torn, parses |-> FALSE]]
    ELSE Append(file, [minute |-> minute, torn |-> torn, parses |-> ~torn])
AppendLine ==
    /\ pc = "line" /\ pc' = "chains"
    /\ lines' = [lines EXCEPT ![DayOf(now)] = Appended(@, now, FALSE)]
    /\ recorded' = [recorded EXCEPT ![now] = @ + 1]
    /\ UNCHANGED <<now, options, last, members, keeping, faults>>
\* ChainRecorder.append of one underlying: nothing once the file has reached the budget.
AppendChain ==
    /\ pc = "chains" /\ \E key \in options :
         /\ options' = options \ {key}
         /\ members' = IF Len(members[DayOf(now)]) >= Budget THEN members
                       ELSE [members EXCEPT ![DayOf(now)] = Append(@, [minute |-> now, torn |-> FALSE])]
    /\ UNCHANGED <<now, pc, last, lines, keeping, recorded, faults>>
Marked ==
    /\ pc = "chains" /\ options = {} /\ last' = now /\ pc' = "house"
    /\ UNCHANGED <<now, options, lines, members, keeping, recorded, faults>>

\* What a write that is cut short leaves, or nothing.
CutShort ==
    \/ pc = "line" /\ lines' = [lines EXCEPT ![DayOf(now)] = Appended(@, now, TRUE)] /\ UNCHANGED members
    \/ /\ pc = "chains" /\ options # {} /\ UNCHANGED lines
       /\ Len(members[DayOf(now)]) < Budget
       /\ members' = [members EXCEPT ![DayOf(now)] = Append(@, [minute |-> now, torn |-> TRUE])]
    \/ UNCHANGED <<lines, members>>
\* An append raises: the pass is not marked, and the next poll records the minute again.
AppendFails ==
    /\ \/ pc = "line"
       \/ pc = "chains" /\ options # {}
    /\ faults < MaxFaults /\ faults' = faults + 1 /\ pc' = "house" /\ options' = {} /\ CutShort
    /\ UNCHANGED <<now, last, keeping, recorded>>

Pruned(days) == {d \in days : Cardinality({e \in days : e > d}) < BackupKeep}
backup(day) == backups' = Pruned(backups \cup {day}) /\ backed_up' = day
housekeeping ==
    /\ pc = "house" /\ pc' = "idle" /\ housekept' = now
    /\ \/ ~_in_session(now) /\ housekept # now /\ backed_up # DayOf(now) /\ backup(DayOf(now)) /\ UNCHANGED faults
       \/ /\ ~_in_session(now) /\ housekept # now /\ backed_up # DayOf(now) /\ faults < MaxFaults
          /\ faults' = faults + 1 /\ UNCHANGED <<backups, backed_up>>
       \/ (_in_session(now) \/ housekept = now \/ backed_up = DayOf(now)) /\ UNCHANGED <<backups, backed_up, faults>>
    /\ UNCHANGED <<now, options, last, lines, members, recorded>>

\* The process is killed.
Crash ==
    /\ pc # "down" /\ faults < MaxFaults /\ faults' = faults + 1 /\ pc' = "down" /\ options' = {} /\ CutShort
    /\ UNCHANGED <<now, last, keeping, recorded>>
Restart ==
    /\ pc = "down" /\ pc' = "idle" /\ last' = None /\ backed_up' = None /\ housekept' = None
    /\ UNCHANGED <<now, options, lines, members, backups, recorded, faults>>

Next ==
    \/ Minute \/ record_derivatives \/ Skip \/ AppendLine \/ AppendChain \/ Marked \/ AppendFails
    \/ housekeeping \/ Crash \/ Restart
Spec == Init /\ [][Next]_vars

-----------------------------------------------------------------------------
Readable(file) == {k \in 1..Len(file) : file[k].parses}
load_derivatives(day) == {lines[day][k].minute : k \in Readable(lines[day])}

TypeOK ==
    /\ now \in 1..LastMinute /\ pc \in {"idle", "line", "chains", "house", "down"} /\ options \subseteq Chains
    /\ backups \subseteq Files /\ faults \in 0..MaxFaults
    /\ \A d \in Files : Len(members[d]) <= Budget

\* A crash costs at most one recorded minute: the line it tears and, because the next line joins
\* it, the one written after the restart; every other recorded minute reads back, and no
\* minute reads back that was never recorded.
LinesSurvive ==
    \A d \in Files :
        LET written == {m \in 1..LastMinute : DayOf(m) = d /\ recorded[m] > 0}
        IN  /\ Cardinality(written \ load_derivatives(d)) <= faults
            /\ load_derivatives(d) \subseteq written

\* However often the loop polls in a minute, a minute is recorded once, and again only after a
\* failed append or a restart: the repeats never outnumber the faults.
RecordedOnce ==
    SumFunction([m \in 1..LastMinute |-> IF recorded[m] > 1 THEN recorded[m] - 1 ELSE 0]) <= faults

\* A day the runner calls backed up has its backup, however often the backup failed or was
\* repeated after a restart, and pruning keeps the newest ones.
BackupsKept ==
    /\ backed_up # None => backed_up \in backups
    /\ Cardinality(backups) <= BackupKeep
=============================================================================
