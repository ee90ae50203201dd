--------------------------- MODULE IntelligenceApi ----------------------------
(*****************************************************************************)
(* The intelligence API's requests (intelligence/api.py) over the runner's   *)
(* published snapshots: authentication, the routes that answer from the      *)
(* snapshot, the similarity searches with their slots and their cache, and   *)
(* the research views (intelligence/research.py), computed once per snapshot *)
(* from a response model that a background thread builds once per session.   *)
(* A request's steps interleave with the other requests, with the runner and *)
(* with the build.                                                           *)
(*****************************************************************************)
EXTENDS Integers, SequencesExt, FiniteSets

CONSTANTS
    Requests,
    Timeline,               \* bound: the session and minute of each snapshot, in order
    Slots,                  \* SIMILARITY_CONCURRENCY
    CacheSize,              \* of similarity_cache
    MaxFaults,              \* bound: computations and builds that fail
    None

VARIABLES
    snapshot,       \* runner.snapshot: its session and as_of, or None
    slots,          \* free similarity slots
    similar,        \* similarity_cache: entries, least recently used first
    minute,         \* ResearchViews._cache: the entry, or None
    models, errors, building,   \* sessions whose model is ready, failed, being built
    built,          \* history: sessions whose build has ended with a model
    req,            \* each request: its position, its route, the snapshot it works on, its reply
    faults

\* What the code gives these constants; the instances assume it.
ApiAssumption ==
    IsFiniteSet(Requests) /\ Slots \in Nat /\ CacheSize \in Nat /\ MaxFaults \in Nat /\ None # "READY"

vars == <<snapshot, slots, similar, minute, models, errors, building, built, req, faults>>
model == <<models, errors, building, built>>
service == <<slots, similar, minute, model>>

Sessions == {Timeline[k][1] : k \in 1..Len(Timeline)}
Routes == {"snapshot", "similar", "research"}
Reply(code, at, status) == [code |-> code, at |-> at, status |-> status]
\* market(), stock() and ranked(): the snapshot's header with the parts of its entry.
ViewOf(entry) == Reply(200, entry.at, entry.status)
Idle == [pc |-> "idle", route |-> None, seen |-> None, reply |-> None]

Init ==
    /\ snapshot = None /\ slots = Slots /\ similar = <<>> /\ minute = None
    /\ models = {} /\ errors = {} /\ building = {} /\ built = {} /\ faults = 0
    /\ req = [q \in Requests |-> Idle]

\* LiveRunner._publish: the next minute, of the same session or of a later one.
_publish ==
    /\ \E k \in 1..Len(Timeline) :
         /\ IF snapshot = None THEN k = 1 ELSE k > 1 /\ Timeline[k - 1] = snapshot
         /\ snapshot' = Timeline[k]
    /\ UNCHANGED <<service, req, faults>>

\* The request answers 200, is refused (the refusal is sent at once), or goes on.
Answered(q, reply) == req' = [req EXCEPT ![q].pc = "done", ![q].seen = IF @ = None THEN reply.at ELSE @, ![q].reply = reply]
Refused(q) == req' = [req EXCEPT ![q] = Idle]
Goes(q, to) == req' = [req EXCEPT ![q].pc = to]
At(q, where) == req[q].pc = where
Seen(q) == req[q].seen

\* The router's dependency: 401 without a valid key, then 429 beyond the key's rate.
authenticate(q) ==
    /\ At(q, "idle")
    /\ \/ \E r \in Routes : req' = [req EXCEPT ![q].pc = "current", ![q].route = r]
       \/ Refused(q)
    /\ UNCHANGED <<snapshot, service, faults>>

\* current(): 503 before the first snapshot.  The plain routes answer from the snapshot they
\* read here, or 404 for a key it does not hold; the others go on with it.
current(q) ==
    /\ At(q, "current")
    /\ \/ snapshot = None /\ Refused(q)
       \/ snapshot # None /\ req[q].route = "snapshot" /\ (Answered(q, Reply(200, snapshot, None)) \/ Refused(q))
       \/ snapshot # None /\ req[q].route # "snapshot" /\ req' = [req EXCEPT ![q].pc = req[q].route, ![q].seen = snapshot]
    /\ UNCHANGED <<snapshot, service, faults>>

-----------------------------------------------------------------------------
CacheKey(at) == at
Entries(at) == {e \in {similar[k] : k \in 1..Len(similar)} : CacheKey(e) = CacheKey(at)}
Without(at) ==
    IF Entries(at) = {} THEN similar
    ELSE RemoveAt(similar, CHOOSE k \in 1..Len(similar) : CacheKey(similar[k]) = CacheKey(at))
\* _LRU.get
get(q) ==
    /\ At(q, "similar")
    /\ IF Entries(Seen(q)) # {}
       THEN \E e \in Entries(Seen(q)) : Answered(q, Reply(200, e, None)) /\ similar' = Append(Without(Seen(q)), e)
       ELSE Goes(q, "slot") /\ UNCHANGED similar
    /\ UNCHANGED <<snapshot, slots, minute, model, faults>>
acquire(q) ==
    /\ At(q, "slot") /\ slots > 0 /\ slots' = slots - 1 /\ Goes(q, "search")
    /\ UNCHANGED <<snapshot, similar, minute, model, faults>>
\* The wait for a slot ends after SIMILARITY_WAIT_SECONDS.
Busy(q) ==
    /\ At(q, "slot") /\ slots = 0 /\ Refused(q)
    /\ UNCHANGED <<snapshot, service, faults>>
Released(ok) == slots + 1
Search(q) ==
    /\ At(q, "search")
    /\ \/ slots' = Released(TRUE) /\ Goes(q, "put") /\ UNCHANGED faults
       \/ faults < MaxFaults /\ faults' = faults + 1 /\ slots' = Released(FALSE) /\ Refused(q)
    /\ UNCHANGED <<snapshot, similar, minute, model>>
\* _LRU.put, and the answer.
put(q) ==
    /\ At(q, "put")
    /\ LET grown == Append(Without(Seen(q)), Seen(q))
       IN  similar' = IF Len(grown) > CacheSize THEN Tail(grown) ELSE grown
    /\ Answered(q, Reply(200, Seen(q), None))
    /\ UNCHANGED <<snapshot, slots, minute, model, faults>>

-----------------------------------------------------------------------------
\* ResearchViews._minute(): the cached entry of the snapshot, or a new one.
_minute(q) ==
    /\ At(q, "research")
    /\ IF minute # None /\ minute.at = Seen(q) THEN Answered(q, ViewOf(minute)) ELSE Goes(q, "model")
    /\ UNCHANGED <<snapshot, service, faults>>
ModelStatus(session) ==
    IF session \in models THEN "READY" ELSE IF session \in errors THEN "UNAVAILABLE" ELSE "WARMING"
_model(q) ==
    /\ At(q, "model")
    /\ LET status == ModelStatus(Seen(q)[1])
       IN  /\ req' = [req EXCEPT ![q].pc = "views", ![q].reply = Reply(None, Seen(q), status)]
           /\ building' = IF status = "WARMING" THEN building \cup {Seen(q)[1]} ELSE building
    /\ UNCHANGED <<snapshot, slots, similar, minute, models, errors, built, faults>>
\* The rest of _minute(): a part that fails is reported in the entry; only this entry is kept.
Views(q) ==
    /\ At(q, "views")
    /\ minute' = [at |-> Seen(q), status |-> req[q].reply.status] /\ Answered(q, ViewOf(minute'))
    /\ UNCHANGED <<snapshot, slots, similar, model, faults>>
Kept(session) == {session}
_build(session) ==
    /\ session \in building /\ building' = building \ {session}
    /\ \/ models' = Kept(session) /\ built' = built \cup {session} /\ UNCHANGED <<errors, faults>>
       \/ faults < MaxFaults /\ faults' = faults + 1 /\ errors' = errors \cup {session} /\ UNCHANGED <<models, built>>
    /\ UNCHANGED <<snapshot, slots, similar, minute, req>>

\* The answer is sent.
Sent(q) == At(q, "done") /\ Refused(q) /\ UNCHANGED <<snapshot, service, faults>>

Step(q) ==
    \/ current(q) \/ get(q) \/ acquire(q) \/ Busy(q) \/ Search(q) \/ put(q)
    \/ _minute(q) \/ _model(q) \/ Views(q) \/ Sent(q)
Next ==
    \/ _publish \/ \E session \in Sessions : _build(session)
    \/ \E q \in Requests : authenticate(q) \/ Step(q)
Spec == Init /\ [][Next]_vars

-----------------------------------------------------------------------------
TypeOK ==
    /\ slots \in 0..Slots /\ Len(similar) <= CacheSize /\ faults \in 0..MaxFaults
    /\ models \cup errors \cup building \cup built \subseteq Sessions /\ Cardinality(models) <= 1

\* What a request answers is of the snapshot it read: a similarity search never passes off the
\* matches of an earlier minute, nor a research view the entry that a slower request of an
\* earlier minute put in the cache, and a model counts as ready only for its own session.
OfOneSnapshot ==
    \A q \in Requests :
        At(q, "done") => req[q].reply.at = Seen(q) /\ (req[q].reply.status = "READY" => Seen(q)[1] \in built)

\* Every slot is free or in the hands of a request that is searching: one that failed or gave
\* up waiting keeps none, so the searches cannot run dry.
SlotsConserved == slots + Cardinality({q \in Requests : At(q, "search")}) = Slots
=============================================================================
