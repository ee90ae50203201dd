-------------------------------- MODULE Archive -------------------------------
(***************************************************************************)
(* daily_archive.py: copies of the day's completed candles on disk.  The   *)
(* interval thread, the end-of-session hooks of the equity and the index   *)
(* managers and the shutdown each take a snapshot of the state in memory   *)
(* and write it to the day's tables; a manifest records the rows of each   *)
(* table.  A table's content is the number of its rows.  Writes fail, and  *)
(* the process may be killed between any two of them; it then starts again *)
(* with the candles it could fetch.                                        *)
(***************************************************************************)
EXTENDS Integers, Sequences

CONSTANTS
    MaxRows,        \* candles of the day, of each of the two states
    Stocks,         \* rows of the reference table
    MaxFaults       \* write errors and kills

\* the states in memory, and the tables on disk
Sources == {"equity", "index"}
Tables == {"equity", "reference", "index"}
Writers == {"loop", "equity_hook", "index_hook", "shutdown"}

VARIABLES
    status,     \* session_status of each state: "LIVE", "ENDING" (LIVE in the code), "CLOSED"
    ram,        \* completed candles in memory
    file,       \* rows of each table on disk, 0 when there is none
    manifest,   \* rows the manifest on disk records
    lock,       \* DailyArchive._lock: its holder or "free"
    work,       \* of each writer: the tables it has yet to write
    rows,       \* its snapshot of the first of them
    pc,         \* "idle", "snapshot", "table", "manifest"
    read,       \* the manifest it read
    stopped,    \* ArchiveManager.stop_event
    faults,
    failed      \* history: states with a snapshot lost to a write error

\* What the code gives these constants; the instances assume it.
ArchiveAssumption == Stocks \in Nat /\ MaxFaults \in Nat

vars == <<status, ram, file, manifest, lock, work, rows, pc, read, stopped, faults, failed>>

Nothing == [t \in Tables |-> 0]
Tail1(s) == SubSeq(s, 2, Len(s))
\* the state a table is taken from
SourceOf(t) == IF t = "index" THEN "index" ELSE "equity"

\* a completed candle, of a session that is not ending
Candle(s) ==
    /\ status[s] = "LIVE" /\ ram[s] < MaxRows[s]
    /\ ram' = [ram EXCEPT ![s] = @ + 1]
    /\ UNCHANGED <<status, file, manifest, lock, work, rows, pc, read, stopped, faults, failed>>

Begin(w, tables) ==
    /\ work' = [work EXCEPT ![w] = tables]
    /\ pc' = [pc EXCEPT ![w] = "snapshot"]

\* every ARCHIVE_INTERVAL_SECONDS archive_now
_loop ==
    /\ pc["loop"] = "idle" /\ ~stopped
    /\ \E s \in Sources : status[s] # "CLOSED"
    /\ Begin("loop", <<"equity", "index">>)
    /\ UNCHANGED <<status, ram, file, manifest, lock, rows, read, stopped, faults, failed>>

Hook(s) == IF s = "equity" THEN "equity_hook" ELSE "index_hook"

\* on_session_end: the last candle is closed, the state not yet wiped
EndSession(s) ==
    /\ status[s] = "LIVE" /\ status' = [status EXCEPT ![s] = "ENDING"]
    /\ Begin(Hook(s), <<s>>)
    /\ UNCHANGED <<ram, file, manifest, lock, rows, read, stopped, faults, failed>>

\* after the hook: state.reset
Wipe(s) ==
    /\ status[s] = "ENDING" /\ pc[Hook(s)] = "idle"
    /\ status' = [status EXCEPT ![s] = "CLOSED"] /\ ram' = [ram EXCEPT ![s] = 0]
    /\ UNCHANGED <<file, manifest, lock, work, rows, pc, read, stopped, faults, failed>>

\* app.shutdown: archive_now and stop
Shutdown ==
    /\ ~stopped /\ stopped' = TRUE
    /\ Begin("shutdown", <<"equity", "index">>)
    /\ UNCHANGED <<status, ram, file, manifest, lock, rows, read, faults, failed>>

\* the writer goes on with its next table or is done
Continue(w, rest) ==
    /\ work' = [work EXCEPT ![w] = rest]
    /\ pc' = [pc EXCEPT ![w] = IF rest = <<>> THEN "idle" ELSE "snapshot"]
    /\ rows' = [rows EXCEPT ![w] = 0]
    /\ read' = [read EXCEPT ![w] = Nothing]

\* archive_equity, archive_indices: the payload of a live state; no rows are not written
Snapshot(w) ==
    /\ pc[w] = "snapshot"
    /\ LET t == Head(work[w])
           n == IF t = "reference" THEN Stocks ELSE ram[t]
       IN  IF (t # "reference" /\ status[t] = "CLOSED") \/ n = 0
           THEN Continue(w, Tail1(work[w]))
           ELSE /\ rows' = [rows EXCEPT ![w] = n] /\ pc' = [pc EXCEPT ![w] = "table"]
                /\ UNCHANGED <<work, read>>
    /\ UNCHANGED <<status, ram, file, manifest, lock, stopped, faults, failed>>

\* Mutant of Refuses: the rows are not compared with the manifest's.
Refuses_Never(t, n) == FALSE

\* a table that is archived with more rows stays
Refuses(t, n) == manifest[t] > n

\* Mutant of Taken: the lock is not taken.
Taken_Never == FALSE

Taken == lock # "free"

\* _write_table: the manifest is read and the table replaced
WriteTable(w) ==
    /\ pc[w] = "table" /\ ~Taken
    /\ LET t == Head(work[w]) IN
           IF Refuses(t, rows[w])
           THEN /\ Continue(w, Tail1(work[w]))
                /\ UNCHANGED <<file, lock>>
           ELSE /\ file' = [file EXCEPT ![t] = rows[w]]
                /\ lock' = w /\ read' = [read EXCEPT ![w] = manifest]
                /\ pc' = [pc EXCEPT ![w] = "manifest"]
                /\ UNCHANGED <<work, rows>>
    /\ UNCHANGED <<status, ram, manifest, stopped, faults, failed>>

\* and the manifest; after an equity table its reference table, from the same payload
WriteManifest(w) ==
    /\ pc[w] = "manifest"
    /\ LET t == Head(work[w]) IN
           /\ manifest' = [read[w] EXCEPT ![t] = rows[w]]
           /\ Continue(w, IF t = "equity" THEN <<"reference">> \o Tail1(work[w]) ELSE Tail1(work[w]))
    /\ lock' = "free"
    /\ UNCHANGED <<status, ram, file, stopped, faults, failed>>

\* one of the two writes raises: _record notes it, the rest of the payload is given up and
\* archive_now goes on with the indices
WriteFails(w) ==
    /\ pc[w] \in {"table", "manifest"} /\ faults < MaxFaults /\ faults' = faults + 1
    /\ pc[w] = "table" => ~Taken
    /\ Continue(w, IF Tail1(work[w]) = <<"index">> THEN <<"index">> ELSE <<>>)
    /\ failed' = failed \cup {SourceOf(Head(work[w]))}
    /\ lock' = "free"
    /\ UNCHANGED <<status, ram, file, manifest, stopped>>

\* the process is killed and starts again: what it fetches of the day is any part of it
Restart ==
    /\ faults < MaxFaults /\ faults' = faults + 1
    /\ \E e \in 0..ram["equity"], i \in 0..ram["index"] : ram' = [equity |-> e, index |-> i]
    /\ status' = [s \in Sources |-> IF status[s] = "CLOSED" THEN "CLOSED" ELSE "LIVE"]
    /\ lock' = "free" /\ stopped' = FALSE /\ failed' = {}
    /\ work' = [w \in Writers |-> <<>>] /\ rows' = [w \in Writers |-> 0]
    /\ pc' = [w \in Writers |-> "idle"] /\ read' = [w \in Writers |-> Nothing]
    /\ UNCHANGED <<file, manifest>>

Init ==
    /\ status = [s \in Sources |-> "LIVE"] /\ ram = [s \in Sources |-> 0]
    /\ file = Nothing /\ manifest = Nothing /\ lock = "free"
    /\ work = [w \in Writers |-> <<>>] /\ rows = [w \in Writers |-> 0]
    /\ pc = [w \in Writers |-> "idle"] /\ read = [w \in Writers |-> Nothing]
    /\ stopped = FALSE /\ faults = 0 /\ failed = {}

Next ==
    \/ \E s \in Sources : Candle(s) \/ EndSession(s) \/ Wipe(s)
    \/ _loop \/ Shutdown \/ Restart
    \/ \E w \in Writers : Snapshot(w) \/ WriteTable(w) \/ WriteManifest(w) \/ WriteFails(w)

Spec == Init /\ [][Next]_vars

-----------------------------------------------------------------------------
TypeOK ==
    /\ status \in [Sources -> {"LIVE", "ENDING", "CLOSED"}] /\ ram \in [Sources -> Nat]
    /\ file \in [Tables -> Nat] /\ manifest \in [Tables -> Nat]
    /\ lock \in Writers \cup {"free"} /\ pc \in [Writers -> {"idle", "snapshot", "table", "manifest"}]
    /\ work \in [Writers -> Seq(Tables)] /\ rows \in [Writers -> Nat]
    /\ read \in [Writers -> [Tables -> Nat]]
    /\ stopped \in BOOLEAN /\ faults \in 0..MaxFaults /\ failed \subseteq Tables

\* The manifest never records more rows than the table holds, whatever writers overlap
\* and wherever a write fails or the process is killed: the readers of the archive
\* trust the recorded rows.
ManifestHonest == \A t \in Tables : manifest[t] <= file[t]

\* A session's last snapshot is on disk before its state is wiped: the wiped rows are
\* archived unless writing them failed.
ArchivedBeforeWipe ==
    [][\A s \in Sources : status[s] = "ENDING" /\ status'[s] = "CLOSED" =>
           s \in failed \/ (file[s] >= ram[s] /\ manifest[s] >= ram[s])]_vars
=============================================================================
