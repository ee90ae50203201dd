------------------------------- MODULE KeyStore -------------------------------
(***************************************************************************)
(* intelligence.keys.KeyStore: the operator's command creates and revokes  *)
(* keys by rewriting the key file, one command at a time; the API verifies *)
(* keys from a copy of the file that it keeps until the file's mtime       *)
(* changes.  The stat, the read, the replacement of the copy and its use   *)
(* are separate steps of the API's threads, which share the copy without   *)
(* the lock.                                                               *)
(***************************************************************************)
EXTENDS Integers

CONSTANTS
    Keys,
    Threads,        \* of the API
    MaxSaves,       \* rewrites of the file
    None

VARIABLES
    file,       \* each key: none, valid or revoked
    mtime,      \* of the file
    cache,      \* _cache: <<mtime, data>> or None
    command,    \* the data the operator's command is about to save, or None
    ended,      \* keys whose revoke has returned
    pc,         \* of each thread: idle, stat, copy, load, store, check
    stat,       \* the mtime the thread saw
    data,       \* the data it has
    key,        \* the key it verifies
    late        \* the key's revoke had returned when the verification began, and no
                \* thread was between its read of the file and its copy

\* What the code gives these constants; the instances assume it.
KeyAssumption == Keys # {} /\ MaxSaves \in Nat

vars == <<file, mtime, cache, command, ended, pc, stat, data, key, late>>
thread == <<pc, stat, data, key, late>>

\* create: a new identifier, its data saved by Save
create(k) ==
    /\ command = None /\ mtime < MaxSaves /\ file[k] = "none"
    /\ command' = [file EXCEPT ![k] = "valid"]
    /\ UNCHANGED <<file, mtime, cache, ended, thread>>

\* revoke: of a key in the file that is not revoked
revoke(k) ==
    /\ command = None /\ mtime < MaxSaves /\ file[k] = "valid"
    /\ command' = [file EXCEPT ![k] = "revoked"]
    /\ UNCHANGED <<file, mtime, cache, ended, thread>>

\* _save: os.replace puts the new file in place, and the command returns
_save ==
    /\ command # None /\ file' = command /\ mtime' = mtime + 1 /\ command' = None
    /\ ended' = {k \in Keys : command[k] = "revoked"}
    /\ UNCHANGED <<cache, thread>>

\* verify: a request with a key of the right form
verify(t, k) ==
    /\ pc[t] = "idle" /\ pc' = [pc EXCEPT ![t] = "stat"]
    /\ key' = [key EXCEPT ![t] = k] /\ late' = [late EXCEPT ![t] = k \in ended /\ \A u \in Threads : pc[u] # "store"]
    /\ UNCHANGED <<file, mtime, cache, command, ended, stat, data>>

\* the cached copy is of the mtime just seen
Fresh(m) == cache # None /\ cache[1] = m

\* _load: stat, and whether the cached copy is of that mtime
Stat(t) ==
    /\ pc[t] = "stat" /\ stat' = [stat EXCEPT ![t] = mtime]
    /\ pc' = [pc EXCEPT ![t] = IF Fresh(mtime) THEN "copy" ELSE "load"]
    /\ UNCHANGED <<file, mtime, cache, command, ended, data, key, late>>

\* return self._cache[1]: the attribute is read again
Copy(t) ==
    /\ pc[t] = "copy" /\ pc' = [pc EXCEPT ![t] = "check"]
    /\ data' = [data EXCEPT ![t] = cache[2]]
    /\ UNCHANGED <<file, mtime, cache, command, ended, stat, key, late>>

\* the copy is tagged with the mtime that was seen before the read
Tag(t) == stat[t]

\* read_text
Load(t) ==
    /\ pc[t] = "load" /\ pc' = [pc EXCEPT ![t] = "store"]
    /\ data' = [data EXCEPT ![t] = file]
    /\ UNCHANGED <<file, mtime, cache, command, ended, stat, key, late>>

\* self._cache = (mtime, data)
Store(t) ==
    /\ pc[t] = "store" /\ pc' = [pc EXCEPT ![t] = "check"]
    /\ cache' = <<Tag(t), data[t]>>
    /\ UNCHANGED <<file, mtime, command, ended, stat, data, key, late>>

\* the record is in the file and not revoked
Accepts(t) == data[t][key[t]] = "valid"

Check(t) ==
    /\ pc[t] = "check" /\ pc' = [pc EXCEPT ![t] = "idle"]
    /\ UNCHANGED <<file, mtime, cache, command, ended, stat, data, key, late>>

Init ==
    /\ file = [k \in Keys |-> "none"] /\ mtime = 0 /\ cache = None /\ command = None
    /\ ended = {} /\ pc = [t \in Threads |-> "idle"] /\ stat = [t \in Threads |-> 0]
    /\ data = [t \in Threads |-> file] /\ key = [t \in Threads |-> CHOOSE k \in Keys : TRUE]
    /\ late = [t \in Threads |-> FALSE]

Next ==
    \/ _save \/ \E k \in Keys : create(k) \/ revoke(k)
    \/ \E t \in Threads : Stat(t) \/ Copy(t) \/ Load(t) \/ Store(t) \/ Check(t) \/ \E k \in Keys : verify(t, k)
Spec == Init /\ [][Next]_vars

-----------------------------------------------------------------------------
TypeOK ==
    /\ file \in [Keys -> {"none", "valid", "revoked"}] /\ mtime \in 0..MaxSaves
    /\ ended \subseteq Keys /\ pc \in [Threads -> {"idle", "stat", "copy", "load", "store", "check"}]
    /\ stat \in [Threads -> 0..MaxSaves] /\ late \in [Threads -> BOOLEAN]

\* A verification that begins after the key's revoke has returned refuses the key,
\* whichever copy of the file the API's threads left in the cache; a thread that read
\* the file before the revoke may still put its old copy back, so the promise begins when
\* no such thread is left.
RevokedRefused == \A t \in Threads : pc[t] = "check" /\ late[t] => ~Accepts(t)
=============================================================================
