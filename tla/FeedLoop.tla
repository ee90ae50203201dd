------------------------------- MODULE FeedLoop -------------------------------
(***************************************************************************)
(* The reconnect loop of a market feed: build a MarketFeed, run it until   *)
(* it ends, close it, wait, again.  The equity feed (feed.py) and the      *)
(* index feed (index_layer.IndexLayerFeed) share its text, not its code;   *)
(* kind tells them apart where they differ: only the index feed runs a     *)
(* thread that closes a connection without quotes, and only it remembers a *)
(* rate-limit packet.                                                      *)
(*                                                                         *)
(* Dhan limits connections: a rejection comes as an exception of the       *)
(* handshake or as an error packet on an open connection.  Back-offs are   *)
(* levels: 0 is NORMAL_INITIAL_BACKOFF, each wait doubles it up to         *)
(* NORMAL_MAX_BACKOFF, Cooldown is RATE_LIMIT_COOLDOWN.                    *)
(***************************************************************************)
EXTENDS Integers

CONSTANTS
    Kinds,          \* of "equity", "index"
    MaxLevel,       \* level of NORMAL_MAX_BACKOFF
    Cooldown,       \* level and length of RATE_LIMIT_COOLDOWN, above MaxLevel
    Silence         \* NO_MESSAGE_WATCHDOG_SECONDS, in units

\* What the code gives these constants; the instances assume it.
LoopAssumption == MaxLevel \in Nat /\ Cooldown \in Nat /\ MaxLevel < Cooldown /\ Silence \in Nat \ {0}

VARIABLES
    kind,       \* which of the two feeds this is
    pc,         \* of the feed thread: "build", "connecting", "connected", "closing", "waiting", "done"
    backoff,    \* _backoff
    left,       \* of the wait
    stop,       \* _stop
    quotes,     \* quote packets arrived on this connection
    age,        \* of the connection
    watch,      \* the watch thread: "none", "await" on_connect, "watching"
    rejected    \* history: Dhan's last word was a rate-limit rejection

vars == <<kind, pc, backoff, left, stop, quotes, age, watch, rejected>>

\* _build_feed, the thread that watches it and run(); the status becomes CONNECTING
Build ==
    /\ pc = "build"
    /\ pc' = IF stop THEN "done" ELSE "connecting"
    /\ quotes' = FALSE /\ age' = 0
    /\ watch' = IF kind = "index" /\ ~stop THEN "await" ELSE "none"
    /\ rejected' = (rejected /\ stop)
    /\ UNCHANGED <<kind, backoff, left, stop>>

\* _on_connect
Connects ==
    /\ pc = "connecting"
    /\ pc' = "connected" /\ backoff' = 0 /\ age' = 0
    /\ watch' = IF watch = "await" THEN "watching" ELSE watch
    /\ UNCHANGED <<kind, left, stop, quotes, rejected>>

\* a packet of a quote type
Quote ==
    /\ pc = "connected" /\ ~quotes
    /\ quotes' = TRUE
    /\ UNCHANGED <<kind, pc, backoff, left, stop, age, watch, rejected>>

\* an error packet closes the connection; the index feed takes the long back-off for a
\* rate or connection limit, the equity feed only says so
ErrorPacket ==
    /\ pc = "connected"
    /\ \E limited \in BOOLEAN :
           /\ rejected' = limited
           /\ backoff' = IF limited /\ kind = "index" THEN Cooldown ELSE backoff
    /\ pc' = "closing"
    /\ UNCHANGED <<kind, left, stop, quotes, age, watch>>

\* run() raises, in the handshake or later
RunFails ==
    /\ pc \in {"connecting", "connected"}
    /\ \E limited \in BOOLEAN :
           /\ rejected' = limited
           /\ backoff' = IF limited THEN Cooldown ELSE backoff
    /\ pc' = "closing"
    /\ UNCHANGED <<kind, left, stop, quotes, age, watch>>

\* run() returns: the peer closed the connection, or stop() did
RunEnds ==
    /\ pc = "connected"
    /\ pc' = "closing"
    /\ UNCHANGED <<kind, backoff, left, stop, quotes, age, watch, rejected>>

\* _watch_connection: after Silence without a quote the connection is closed
Watch ==
    /\ watch = "watching" /\ pc = "connected" /\ age >= Silence
    /\ watch' = "none"
    /\ pc' = IF quotes THEN pc ELSE "closing"
    /\ UNCHANGED <<kind, backoff, left, stop, quotes, age, rejected>>

\* the finally clauses: watch thread joined, feed closed; then the wait, unless stopped
Close ==
    /\ pc = "closing"
    /\ watch' = "none"
    /\ pc' = IF stop THEN "done" ELSE "waiting"
    /\ left' = IF stop THEN left ELSE backoff
    /\ UNCHANGED <<kind, backoff, stop, quotes, age, rejected>>

\* Mutant of Waited: the long back-off is not taken back.
Waited_Stays ==
    /\ pc = "waiting" /\ (left = 0 \/ stop)
    /\ pc' = "build" /\ left' = 0
    /\ backoff' = backoff + 1
    /\ UNCHANGED <<kind, stop, quotes, age, watch, rejected>>

\* the wait is over or stop() ended it
Waited ==
    /\ pc = "waiting" /\ (left = 0 \/ stop)
    /\ pc' = "build" /\ left' = 0
    /\ backoff' = CASE backoff >= Cooldown -> 0
                    [] backoff < Cooldown /\ backoff < MaxLevel -> backoff + 1
                    [] OTHER -> MaxLevel
    /\ UNCHANGED <<kind, stop, quotes, age, watch, rejected>>

\* stop(): the flag, and close_connection on an open feed
Stop ==
    /\ ~stop /\ stop' = TRUE
    /\ pc' = IF pc = "connected" THEN "closing" ELSE pc
    /\ UNCHANGED <<kind, backoff, left, quotes, age, watch, rejected>>

Tick ==
    /\ age' = IF pc = "connected" /\ age < Silence THEN age + 1 ELSE age
    /\ left' = IF left > 0 THEN left - 1 ELSE left
    /\ <<age, left>>' # <<age, left>>
    /\ UNCHANGED <<kind, pc, backoff, stop, quotes, watch, rejected>>

Init ==
    /\ kind \in Kinds /\ pc = "build" /\ backoff = 0 /\ left = 0 /\ stop = FALSE
    /\ quotes = FALSE /\ age = 0 /\ watch = "none" /\ rejected = FALSE

Next ==
    \/ Build \/ Connects \/ Quote \/ ErrorPacket \/ RunFails \/ RunEnds
    \/ Watch \/ Close \/ Waited \/ Stop \/ Tick

\* a handshake ends one way or the other
Handshake == Connects \/ (pc = "connecting" /\ RunFails)

\* The thread runs, a handshake ends, time passes, the watch thread wakes.
Fairness ==
    /\ WF_vars(Build \/ Close \/ Waited) /\ WF_vars(Handshake)
    /\ WF_vars(Tick) /\ WF_vars(Watch)

Spec == Init /\ [][Next]_vars
FairSpec == Spec /\ Fairness

-----------------------------------------------------------------------------
TypeOK ==
    /\ kind \in Kinds
    /\ pc \in {"build", "connecting", "connected", "closing", "waiting", "done"}
    /\ backoff \in 0..MaxLevel \cup {Cooldown} /\ left \in 0..Cooldown
    /\ stop \in BOOLEAN /\ quotes \in BOOLEAN /\ age \in 0..Silence
    /\ watch \in {"none", "await", "watching"} /\ rejected \in BOOLEAN

\* A connection of the index feed that delivers nothing does not stay: it is closed, or
\* a first quote arrives.
NotSilent == kind = "index" /\ pc = "connected" => quotes
=============================================================================
