----------------------------- MODULE PeerClient -----------------------------
(***************************************************************************)
(* One node's view of a peer (live_core.aggregate.PeerClient): the request *)
(* threads that call snapshot() and stock(), the session thread's forget(),*)
(* the peer's conditional answer (live_core.api.LiveCoreService.fragments) *)
(* and an unreliable network between them.                                 *)
(*                                                                         *)
(* A content version stands for the stocks it names (NodeState's           *)
(* VersionTracksContent), so a snapshot is the version of its items and    *)
(* the session state of its header.  Only differences of the monotonic     *)
(* clock matter: the cached snapshot carries its age and the circuit the   *)
(* seconds until _retry_at.                                                *)
(***************************************************************************)
EXTENDS Integers, Sequences

CONSTANTS
    Requests,      \* request threads
    None,          \* Python's None
    CacheSeconds,  \* cache_seconds
    StaleSeconds,  \* stale_seconds
    Backoff,       \* BACKOFF_SCHEDULE_SECONDS
    MaxVersion     \* bound on the peer's content versions in a run

\* What the code gives these constants; the instances assume it.
PeerAssumption ==
    /\ CacheSeconds \in Nat /\ StaleSeconds \in Nat /\ CacheSeconds <= StaleSeconds
    /\ Backoff \in Seq(Nat \ {0}) /\ Backoff # <<>>
    /\ MaxVersion \in Nat \ {0} /\ None \notin Requests /\ None \notin Nat

VARIABLES
    peer,       \* the peer's session state at each content version: its newest is Len(peer)
    lock,       \* the request that holds _fetch_lock, or None
    cache,      \* _snapshot: [ver, live, age, stale] or None
    failures,   \* _consecutive_failures, up to the end of the schedule
    retryIn,    \* seconds until _retry_at
    req,        \* per request: where it is, and the answer it has in hand
    served,     \* the answer the last step returned, or None
    newest,     \* history variable: the newest version any request was given
    failed      \* history variable: the last fetch failed

vars == <<peer, lock, cache, failures, retryIn, req, served, newest, failed>>

Version == Len(peer)
Live == peer[Version]

Idle == [pc |-> "idle", ver |-> None, live |-> FALSE, floor |-> 0]

Init ==
    /\ peer = <<FALSE>>
    /\ lock = None /\ cache = None
    /\ failures = 0 /\ retryIn = 0
    /\ req = [r \in Requests |-> Idle]
    /\ served = None /\ newest = 0 /\ failed = FALSE

-----------------------------------------------------------------------------
(* Time and the peer.                                                      *)

Second ==
    /\ cache' = IF cache = None \/ cache.age > StaleSeconds THEN cache
                ELSE [cache EXCEPT !.age = @ + 1]
    /\ retryIn' = IF retryIn = 0 THEN 0 ELSE retryIn - 1
    /\ served' = None
    /\ UNCHANGED <<peer, lock, failures, req, newest, failed>>

\* The peer completes a minute, or its session state changes: either moves its version.
PeerMoves ==
    /\ Version < MaxVersion
    /\ \E live \in BOOLEAN : peer' = Append(peer, live)
    /\ served' = None
    /\ UNCHANGED <<lock, cache, failures, retryIn, req, newest, failed>>

-----------------------------------------------------------------------------
(* snapshot().                                                             *)

\* _usable_cache.
Usable(c) == c # None /\ c.age <= StaleSeconds

\* The request returns snapshot c and is done.
Answer(r, c) ==
    /\ req' = [req EXCEPT ![r] = Idle]
    /\ served' = [ver |-> c.ver, live |-> c.live, age |-> c.age, stale |-> c.stale,
                  floor |-> req[r].floor]
    /\ newest' = IF c.ver > newest THEN c.ver ELSE newest

\* The request raises PeerUnavailable.
Raise(r) ==
    /\ req' = [req EXCEPT ![r] = Idle]
    /\ served' = None /\ newest' = newest

\* Mutant of Busy: every request fetches for itself.
Busy_Never == FALSE

\* _fetch_lock.acquire(blocking=False) fails.
Busy == lock # None

\* Nobody else is talking to the peer: the request takes the lock.
Enter(r) ==
    /\ req[r].pc = "idle" /\ ~Busy
    /\ lock' = r
    /\ req' = [req EXCEPT ![r] = [Idle EXCEPT !.pc = "locked", !.floor = newest]]
    /\ served' = None
    /\ UNCHANGED <<peer, cache, failures, retryIn, newest, failed>>

\* Another request is talking to the peer: take its last answer, or wait for the lock.  The
\* clock, the failed acquire and the cache are read one after the other without blocking.
EnterBusy(r) ==
    /\ req[r].pc = "idle" /\ Busy
    /\ IF Usable(cache)
       THEN /\ served' = [ver |-> cache.ver, live |-> cache.live, age |-> cache.age,
                          stale |-> cache.stale, floor |-> newest]
            /\ newest' = IF cache.ver > newest THEN cache.ver ELSE newest
            /\ req' = req
       ELSE /\ req' = [req EXCEPT ![r] = [Idle EXCEPT !.pc = "waiting", !.floor = newest]]
            /\ served' = None /\ newest' = newest
    /\ UNCHANGED <<peer, lock, cache, failures, retryIn, failed>>

Acquire(r) ==
    /\ req[r].pc = "waiting" /\ lock = None
    /\ lock' = r
    /\ req' = [req EXCEPT ![r].pc = "locked"]
    /\ served' = None
    /\ UNCHANGED <<peer, cache, failures, retryIn, newest, failed>>

\* _snapshot_locked up to the HTTP request: a fresh cache or an open circuit ends it here.
Decide(r) ==
    /\ req[r].pc = "locked"
    /\ \/ /\ cache # None /\ ~cache.stale /\ cache.age <= CacheSeconds
          /\ Answer(r, cache)
          /\ lock' = None /\ cache' = cache
       \/ /\ ~(cache # None /\ ~cache.stale /\ cache.age <= CacheSeconds)
          /\ retryIn > 0
          /\ lock' = None
          /\ IF Usable(cache)
             THEN cache' = [cache EXCEPT !.stale = TRUE] /\ Answer(r, [cache EXCEPT !.stale = TRUE])
             ELSE cache' = cache /\ Raise(r)
       \/ /\ ~(cache # None /\ ~cache.stale /\ cache.age <= CacheSeconds)
          /\ retryIn = 0
          /\ req' = [req EXCEPT ![r].pc = "sent", ![r].ver = IF cache = None THEN None ELSE cache.ver]
          /\ served' = None
          /\ UNCHANGED <<lock, cache, newest>>
    /\ UNCHANGED <<peer, failures, retryIn, failed>>

\* The peer answers with a coherent snapshot, or finds that if_version is its current version.
PeerAnswers(r) ==
    /\ req[r].pc = "sent"
    /\ IF req[r].ver = Version
       THEN req' = [req EXCEPT ![r].pc = "unchanged"]
       ELSE req' = [req EXCEPT ![r].pc = "answered", ![r].ver = Version, ![r].live = Live]
    /\ served' = None
    /\ UNCHANGED <<peer, lock, cache, failures, retryIn, newest, failed>>

\* Its not_modified header reads the session state after the version, without the lock.
PeerReadsSession(r) ==
    /\ req[r].pc = "unchanged"
    /\ req' = [req EXCEPT ![r].pc = "answered", ![r].live = Live]
    /\ served' = None
    /\ UNCHANGED <<peer, lock, cache, failures, retryIn, newest, failed>>

Receive(r) ==
    /\ req[r].pc = "answered"
    /\ cache' = [ver |-> req[r].ver, live |-> req[r].live, age |-> 0, stale |-> FALSE]
    /\ Answer(r, cache')
    /\ lock' = None
    /\ failures' = 0 /\ retryIn' = 0 /\ failed' = FALSE
    /\ UNCHANGED peer

\* backoff_after, for 1 up to Len(Backoff) failures; more failures wait as long as that.
BackoffAfter(n) == Backoff[n]

\* Mutant of OpenCircuit: the position in the schedule runs past its end.
OpenCircuit_PastEnd ==
    /\ failures' = failures + 1
    /\ retryIn' = BackoffAfter(Len(Backoff))

\* _open_circuit.
OpenCircuit ==
    /\ failures' = IF failures = Len(Backoff) THEN failures ELSE failures + 1
    /\ retryIn' = BackoffAfter(failures')

\* Mutant of FallBack: the age of what is reused is not looked at.
FallBack_AnyAge(r) ==
    IF cache # None
    THEN cache' = [cache EXCEPT !.stale = TRUE] /\ Answer(r, [cache EXCEPT !.stale = TRUE])
    ELSE cache' = None /\ Raise(r)

\* A failed fetch falls back on the recent snapshot, marked stale.
FallBack(r) ==
    IF Usable(cache)
    THEN cache' = [cache EXCEPT !.stale = TRUE] /\ Answer(r, [cache EXCEPT !.stale = TRUE])
    ELSE cache' = None /\ Raise(r)

\* Mutant of Fail: the lock is not released on the error path.
Fail_KeepsLock(r) ==
    /\ req[r].pc \in {"sent", "unchanged", "answered"}
    /\ OpenCircuit /\ FallBack(r)
    /\ failed' = TRUE
    /\ UNCHANGED <<peer, lock>>

\* No answer, an HTTP error, a truncated body or a peer with another partition.
Fail(r) ==
    /\ req[r].pc \in {"sent", "unchanged", "answered"}
    /\ OpenCircuit /\ FallBack(r)
    /\ lock' = None /\ failed' = TRUE
    /\ UNCHANGED peer

-----------------------------------------------------------------------------
(* stock(): proxied without the lock, through the same circuit.            *)

StockCall(r) ==
    /\ req[r].pc = "idle" /\ retryIn = 0
    /\ req' = [req EXCEPT ![r].pc = "stock"]
    /\ served' = None
    /\ UNCHANGED <<peer, lock, cache, failures, retryIn, newest, failed>>

\* Any HTTP answer, a 5xx included, leaves the circuit as it is.
StockAnswer(r) ==
    /\ req[r].pc = "stock" /\ Raise(r)
    /\ UNCHANGED <<peer, lock, cache, failures, retryIn, failed>>

StockFail(r) ==
    /\ req[r].pc = "stock" /\ Raise(r)
    /\ OpenCircuit
    /\ UNCHANGED <<peer, lock, cache, failed>>

\* forget(): the session thread drops the snapshot under the lock.
Forget ==
    /\ lock = None /\ cache # None
    /\ cache' = None /\ served' = None
    /\ UNCHANGED <<peer, lock, failures, retryIn, req, newest, failed>>

-----------------------------------------------------------------------------
Proceed(r) ==
    \/ Decide(r) \/ PeerReadsSession(r) \/ Receive(r) \/ Fail(r) \/ StockAnswer(r)
    \/ StockFail(r)

Request(r) == Enter(r) \/ EnterBusy(r) \/ StockCall(r) \/ PeerAnswers(r) \/ Acquire(r) \/ Proceed(r)

Next == Second \/ PeerMoves \/ Forget \/ \E r \in Requests : Request(r)

Spec == Init /\ [][Next]_vars

\* Every HTTP call ends (its timeout), and a thread that waits for a lock others keep
\* releasing gets it in the end.
FairSpec == Spec /\ \A r \in Requests : WF_vars(Proceed(r)) /\ SF_vars(Acquire(r))

-----------------------------------------------------------------------------
(* Properties.                                                             *)

Steps == {"idle", "waiting", "locked", "sent", "unchanged", "answered", "stock"}

\* Every variable has its type.
TypeOK ==
    /\ peer \in Seq(BOOLEAN) /\ Len(peer) \in 1 .. MaxVersion
    /\ lock \in Requests \cup {None}
    /\ cache \in [ver : 1 .. MaxVersion, live : BOOLEAN, age : 0 .. StaleSeconds + 1,
                  stale : BOOLEAN] \cup {None}
    /\ failures \in 0 .. Len(Backoff) /\ retryIn \in Nat
    /\ req \in [Requests -> [pc : Steps, ver : (1 .. MaxVersion) \cup {None}, live : BOOLEAN,
                             floor : 0 .. MaxVersion]]
    /\ served \in [ver : 1 .. MaxVersion, live : BOOLEAN, age : 0 .. StaleSeconds + 1,
                   stale : BOOLEAN, floor : 0 .. MaxVersion] \cup {None}
    /\ newest \in 0 .. MaxVersion /\ failed \in BOOLEAN

\* No request is ever given a snapshot older than stale_seconds, on any of the four paths
\* (fresh cache, open circuit, another request fetching, failed fetch).
ServedRecent == served # None => served.age <= StaleSeconds

\* After a failed fetch every answer is marked stale until a fetch succeeds, and an unmarked
\* answer older than cache_seconds is given only while another request is fetching.
ReusedIsMarked ==
    served # None /\ ~served.stale =>
        ~failed /\ (served.age <= CacheSeconds \/ lock # None)

\* A request that starts after another one was given version v is never given an older one,
\* however slow the answers are (one fetch at a time).
MonotonicReads == served # None => served.ver >= served.floor

\* Every request ends: no path keeps _fetch_lock, and no waiter is left behind.
EveryRequestEnds == \A r \in Requests : (req[r].pc # "idle") ~> (req[r].pc = "idle")
=============================================================================
