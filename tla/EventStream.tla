----------------------------- MODULE EventStream -----------------------------
(***************************************************************************)
(* The /v2/stream websocket of intelligence.api: a connection takes one of *)
(* the key's slots, starts at a cursor, and then polls the store, sends    *)
(* what passes its filter, the engine's newest snapshot, and a heartbeat.  *)
(* The client may leave anywhere, with messages still on the wire, and     *)
(* connects again with after_seq set to the last sequence number it saw.   *)
(***************************************************************************)
EXTENDS Integers, SequencesExt, FiniteSetsExt

CONSTANTS
    Clients,
    KeyOf,          \* the API key of each client
    MaxStreams,     \* settings.max_streams
    MaxPerKey,      \* settings.max_streams_per_key
    Limit,          \* rows of one search (500 in the code)
    MaxEvents,      \* stored events
    MaxVersion,     \* published snapshots
    MaxWire,        \* messages on the wire before a send waits
    MaxLeaves,      \* disconnections
    None

\* What the code gives these constants; the instances assume it.
StreamAssumption ==
    /\ IsFiniteSet(Clients) /\ MaxStreams \in Nat /\ MaxPerKey \in Nat /\ Limit \in Nat
    /\ MaxEvents \in Nat /\ MaxVersion \in Nat /\ KeyOf = [c \in Clients |-> KeyOf[c]]

Keys == {KeyOf[c] : c \in Clients}

VARIABLES
    log,        \* the store by rowid: does the event pass the clients' filters
    version,    \* of the runner: snapshot_version, which also names the snapshot
    slots,      \* streams: open streams of each key
    pc,         \* of each client's handler: closed, hello, poll, rows, snapshot, compare, mark, wait
    cursor, rows, seen,
    held,       \* the snapshot read from the runner
    gone,       \* the client has left, the handler has not noticed
    wire,       \* messages sent and not received
    received,   \* the client's events over all its connections
    base,       \* cursor of the client's first hello, None before
    resume,     \* the last sequence number the client saw
    shown,      \* the newest snapshot the client saw
    leaves

handler == <<slots, pc, cursor, rows, seen, held>>
client == <<gone, received, base, resume, shown, leaves>>
vars == <<log, version, handler, client, wire>>

\* EventStore.add of the engines: a transaction at a time, in rowid order
Store(passes) ==
    /\ Len(log) < MaxEvents /\ log' = Append(log, passes)
    /\ UNCHANGED <<version, handler, client, wire>>

\* LiveRunner._publish: snapshot and version under the runner's lock
_publish ==
    /\ version < MaxVersion /\ version' = version + 1
    /\ UNCHANGED <<log, handler, client, wire>>

\* under streams_lock: the total of all keys, and the key's own streams
Full(k) == MapThenSumSet(LAMBDA x : slots[x], Keys) >= MaxStreams \/ slots[k] >= MaxPerKey

\* a handshake with a valid key, parameters and rate: refused when full
Connect(c) ==
    /\ pc[c] = "closed" /\ ~gone[c] /\ ~Full(KeyOf[c])
    /\ slots' = [slots EXCEPT ![KeyOf[c]] = @ + 1]
    /\ pc' = [pc EXCEPT ![c] = "hello"]
    /\ cursor' = [cursor EXCEPT ![c] = resume[c]]
    /\ seen' = [seen EXCEPT ![c] = -1]
    /\ UNCHANGED <<log, version, rows, held, client, wire>>

\* send_json waits for the connection to drain
Send(c, message) == Len(wire[c]) < MaxWire /\ wire' = [wire EXCEPT ![c] = Append(@, message)]

\* accept, the starting cursor (latest_seq without after_seq) and the hello message
Hello(c) ==
    /\ pc[c] = "hello" /\ pc' = [pc EXCEPT ![c] = "poll"]
    /\ LET start == IF cursor[c] = None THEN Len(log) ELSE cursor[c]
       IN  cursor' = [cursor EXCEPT ![c] = start] /\ Send(c, <<"hello", start>>)
    /\ UNCHANGED <<log, version, slots, rows, seen, held, client>>

\* Mutant of Search: the last rows instead of the first ones.
Search_Newest(after) ==
    LET found == (after + 1)..Len(log) IN {s \in found : Len(log) - s < Limit}

\* search(after_seq, limit): rowid order, the oldest ones
Search(after) == {s \in (after + 1)..Len(log) : s <= after + Limit}

Poll(c) ==
    /\ pc[c] = "poll" /\ pc' = [pc EXCEPT ![c] = "rows"]
    /\ rows' = [rows EXCEPT ![c] = Search(cursor[c])]
    /\ UNCHANGED <<log, version, slots, cursor, seen, held, client, wire>>

\* the next row: the cursor moves, the filters pass it or not
Row(c) ==
    /\ pc[c] = "rows" /\ rows[c] # {}
    /\ LET s == Min(rows[c])
       IN  /\ cursor' = [cursor EXCEPT ![c] = s]
           /\ rows' = [rows EXCEPT ![c] = @ \ {s}]
           /\ IF log[s] THEN Send(c, <<"event", s>>) ELSE UNCHANGED wire
    /\ UNCHANGED <<log, version, slots, pc, seen, held, client>>

\* snapshot = runner.snapshot
ReadSnapshot(c) ==
    /\ pc[c] = "rows" /\ rows[c] = {}
    /\ held' = [held EXCEPT ![c] = version]
    /\ pc' = [pc EXCEPT ![c] = "compare"]
    /\ UNCHANGED <<log, version, slots, cursor, rows, seen, client, wire>>

\* runner.snapshot_version != seen_version, a second read of the runner
Compare(c) ==
    /\ pc[c] = "compare"
    /\ pc' = [pc EXCEPT ![c] = IF held[c] > 0 /\ version # seen[c] THEN "mark" ELSE "wait"]
    /\ UNCHANGED <<log, version, slots, cursor, rows, seen, held, client, wire>>

\* seen_version = runner.snapshot_version, a third read; the snapshot held is sent
Mark(c) ==
    /\ pc[c] = "mark" /\ pc' = [pc EXCEPT ![c] = "wait"]
    /\ seen' = [seen EXCEPT ![c] = version]
    /\ Send(c, <<"snapshot", held[c]>>)
    /\ UNCHANGED <<log, version, slots, cursor, rows, held, client>>

\* the wait of a second ends; a heartbeat (or a pong) names the cursor
Wait(c) ==
    /\ pc[c] = "wait" /\ ~gone[c] /\ pc' = [pc EXCEPT ![c] = "poll"]
    /\ UNCHANGED wire \/ Send(c, <<"heartbeat", cursor[c]>>)
    /\ UNCHANGED <<log, version, slots, cursor, rows, seen, held, client>>

\* finally: the slot is given back
Released(k) == slots[k] - 1

\* a send or the wait finds that the client left
Closed(c) ==
    /\ gone[c] /\ pc[c] \in {"hello", "rows", "mark", "wait"}
    /\ slots' = [slots EXCEPT ![KeyOf[c]] = Released(KeyOf[c])]
    /\ pc' = [pc EXCEPT ![c] = "closed"] /\ gone' = [gone EXCEPT ![c] = FALSE]
    /\ rows' = [rows EXCEPT ![c] = {}] /\ wire' = [wire EXCEPT ![c] = <<>>]
    /\ UNCHANGED <<log, version, cursor, seen, held, received, base, resume, shown, leaves>>

\* the client takes a message and remembers the last sequence number it saw
Receive(c) ==
    /\ wire[c] # <<>> /\ ~gone[c] /\ wire' = [wire EXCEPT ![c] = Tail(@)]
    /\ LET kind == Head(wire[c])[1]  n == Head(wire[c])[2]
       IN  /\ received' = IF kind = "event" THEN [received EXCEPT ![c] = Append(@, n)] ELSE received
           /\ base' = IF kind = "hello" /\ base[c] = None THEN [base EXCEPT ![c] = n] ELSE base
           /\ resume' = IF kind # "snapshot" THEN [resume EXCEPT ![c] = n] ELSE resume
           /\ shown' = IF kind = "snapshot" THEN [shown EXCEPT ![c] = n] ELSE shown
    /\ UNCHANGED <<log, version, handler, gone, leaves>>

\* the connection breaks: what is on the wire is lost
Leave(c) ==
    /\ pc[c] # "closed" /\ ~gone[c] /\ leaves < MaxLeaves /\ leaves' = leaves + 1
    /\ gone' = [gone EXCEPT ![c] = TRUE] /\ wire' = [wire EXCEPT ![c] = <<>>]
    /\ UNCHANGED <<log, version, handler, received, base, resume, shown>>

Init ==
    /\ log = <<>> /\ version = 0 /\ slots = [k \in Keys |-> 0]
    /\ pc = [c \in Clients |-> "closed"] /\ cursor = [c \in Clients |-> None]
    /\ rows = [c \in Clients |-> {}] /\ seen = [c \in Clients |-> -1]
    /\ held = [c \in Clients |-> 0] /\ gone = [c \in Clients |-> FALSE]
    /\ wire = [c \in Clients |-> <<>>] /\ received = [c \in Clients |-> <<>>]
    /\ base = [c \in Clients |-> None] /\ resume = [c \in Clients |-> None]
    /\ shown = [c \in Clients |-> 0] /\ leaves = 0

Handler(c) ==
    \/ Connect(c) \/ Hello(c) \/ Poll(c) \/ Row(c) \/ ReadSnapshot(c) \/ Compare(c) \/ Mark(c)
    \/ Wait(c) \/ Closed(c)
Next ==
    \/ _publish \/ \E passes \in BOOLEAN : Store(passes)
    \/ \E c \in Clients : Handler(c) \/ Receive(c) \/ Leave(c)

Spec == Init /\ [][Next]_vars
\* The event loop runs every handler and a connected client reads.
FairSpec == Spec /\ \A c \in Clients : WF_vars(Handler(c)) /\ WF_vars(Receive(c))

-----------------------------------------------------------------------------
TypeOK ==
    /\ log \in Seq(BOOLEAN) /\ version \in 0..MaxVersion /\ slots \in [Keys -> Int]
    /\ \A c \in Clients :
        /\ pc[c] \in {"closed", "hello", "poll", "rows", "compare", "mark", "wait"}
        /\ seen[c] \in -1..MaxVersion /\ held[c] \in 0..MaxVersion /\ rows[c] \subseteq 1..MaxEvents
        /\ cursor[c] # None => cursor[c] \in 0..MaxEvents

\* "reconnect with after_seq set to the last seq received; nothing is lost while it is in
\* the store" (docs/intelligence/api.md): whatever broke and wherever, a client that has
\* seen a sequence number has every passing event since its first hello, in storage
\* order and once.
NothingLost ==
    \A c \in Clients :
        base[c] # None =>
            LET due == {s \in (base[c] + 1)..resume[c] : log[s]}
            IN  /\ ToSet(received[c]) = due /\ Len(received[c]) = Cardinality(due)
                /\ \A i \in 1..(Len(received[c]) - 1) : received[c][i] < received[c][i + 1]

\* Whatever way a stream ends, its slot is the key's again, and the limits hold.
SlotsHeld ==
    /\ \A k \in Keys :
        /\ slots[k] = Cardinality({c \in Clients : KeyOf[c] = k /\ pc[c] # "closed"})
        /\ slots[k] <= MaxPerKey
    /\ MapThenSumSet(LAMBDA k : slots[k], Keys) <= MaxStreams
=============================================================================
