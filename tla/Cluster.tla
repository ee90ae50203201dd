------------------------------- MODULE Cluster --------------------------------
(*****************************************************************************)
(* What one Live Core node (node 0) says of the cluster.  Request threads    *)
(* build /health and /public/health.json from their own state and from each  *)
(* peer's cached health answer, while the nodes and the time of day move     *)
(* between any two steps.                                                    *)
(*****************************************************************************)
EXTENDS Partition, FiniteSets

CONSTANTS
    Size, Count,        \* the universe and the number of nodes
    Configured,         \* peers with a URL
    Requests,           \* threads that build a health answer
    States,             \* what a node can look like: see NodeState below
    CacheSeconds, TimeoutSeconds,
    LateSeconds, StaleSeconds,          \* twice and five times the expected refresh
    MaxChanges,         \* bound: how often a node or the hours change, or a probe does
    None, Down

Nodes == 0..Count-1
Peers == Nodes \ {0}
Old == CacheSeconds + 1         \* every age past the cache time

VARIABLES
    hours,      \* "closed", "preopen" or "market"
    node,       \* the state of each node, or Down
    changes,
    cache,      \* PeerClient._health: age and answer, per peer
    lock,       \* PeerClient._health_lock
    req,        \* per request: pc, the peers left, the summaries so far, seconds left to the timeout
    answer,     \* per request: the cluster view it is about to return
    ready       \* _peer_ready: the last probes found every peer reachable and of this partition

vars == <<hours, node, changes, cache, lock, req, answer, ready>>

-----------------------------------------------------------------------------
\* One node.  A state is a record: config (an error text), host (descriptors, memory, leaked
\* loops, the watchdog, abandoned threads), verified, packets, sup, session, feed, thread,
\* stocks (instruments in RAM), subs (subscribed), fresh (the last tick is recent), heard
\* (seconds since the last feed message, None before one), wrong (a partition of another build).
InMarket == hours = "market"
SizeOf(n) == LET b == partition_bounds(Size, n, Count) IN b.end - b.start

\* validate_partitions() refuses an empty block; a feed subscribes to its own block only.
ClusterAssumption ==
    /\ Size \in Nat \ {0} /\ Count \in Nat \ {0}
    /\ \A n \in Nodes : SizeOf(n) >= 1 /\ \A s \in States : s.subs \in 0..SizeOf(n)
    /\ CacheSeconds \in Nat /\ TimeoutSeconds \in Nat /\ StaleSeconds \in Nat /\ MaxChanges \in Nat
    /\ None # "AUTHENTICATING" /\ None \notin Requests

readiness(n, s) ==
    LET live == s.session \in {"PRE_OPEN", "LIVE"}
    IN  /\ ~s.config /\ s.verified /\ live
        /\ s.stocks = SizeOf(n) /\ s.feed = "CONNECTED" /\ s.subs = SizeOf(n) /\ s.packets
        /\ n = 0 => ready

lifecycle_phase(n, s) ==
    CASE InMarket /\ (s.session # "LIVE" \/ s.sup \in {"DEGRADED", "RECONNECTING"}) -> "DEGRADED"
      [] InMarket /\ s.session = "LIVE" /\ s.sup \notin {"DEGRADED", "RECONNECTING"} ->
            IF s.sup \in {"RECOVERING", "CONNECTING"} THEN "RECOVERING" ELSE "OPEN"
      [] hours = "preopen" -> IF readiness(n, s) THEN "READY" ELSE "PRE_OPEN"
      [] OTHER -> "CLOSED"

Reasons(n, s) ==
    (IF s.host THEN {"host"} ELSE {})
        \cup (IF hours = "preopen" /\ ~readiness(n, s) THEN {"not ready"} ELSE {})
        \cup (IF ~InMarket \/ s.config THEN {}
              ELSE {r \in {"supervisor", "session", "feed", "thread", "subscribed", "stale"} :
                      CASE r = "supervisor" -> s.sup # "LIVE"
                        [] r = "session"    -> s.session # "LIVE"
                        [] r = "feed"       -> s.feed # "CONNECTED"
                        [] r = "thread"     -> ~s.thread
                        [] r = "subscribed" -> s.subs # SizeOf(n)
                        [] r = "stale"      -> ~s.fresh})

node_health(n, s) ==
    [status |-> IF s.config THEN "CONFIG_ERROR" ELSE IF Reasons(n, s) # {} THEN "DEGRADED" ELSE "OK",
     phase  |-> lifecycle_phase(n, s), state |-> s]

_node_summary(h) ==
    [reachable |-> TRUE, healthy |-> h.status = "OK", session |-> h.state.session,
     feed |-> h.state.feed, subs |-> h.state.subs, heard |-> h.state.heard, error |-> FALSE]

Missing == [reachable |-> FALSE, healthy |-> FALSE, session |-> None, feed |-> None, subs |-> 0,
            heard |-> None, error |-> TRUE]

\* A peer's answer as cluster_health takes it.
Summary(p, a) ==
    IF a = Down THEN Missing
    ELSE IF a.state.wrong THEN [_node_summary(a) EXCEPT !.healthy = FALSE, !.error = TRUE]
    ELSE _node_summary(a)

-----------------------------------------------------------------------------
\* The cluster view and the components of /public/health.json.
Total(f) == LET upto[n \in 0..Count] == IF n = 0 THEN 0 ELSE upto[n - 1] + f[n - 1] IN upto[Count]

Covered_AnySession(v) == Total([n \in Nodes |-> IF v[n].reachable /\ ~v[n].error THEN v[n].subs ELSE 0])
Covered(v) ==
    Total([n \in Nodes |-> IF v[n].reachable /\ v[n].session = "LIVE" /\ ~v[n].error THEN v[n].subs ELSE 0])
cluster_health(v) ==
    IF InMarket
    THEN IF (\A n \in Nodes : v[n].healthy) /\ Covered(v) = Size THEN "LIVE_COMPLETE" ELSE "LIVE_INCOMPLETE"
    ELSE IF \A n \in Nodes : v[n].reachable /\ ~v[n].error THEN "IDLE_READY" ELSE "IDLE_NODE_MISSING"

\* health_monitor.component_health: the state of the source first, then the age of its data.
component_health(status, heard) ==
    CASE status \in {None, "ERROR"} -> "ERROR"
      [] status = "AUTHENTICATING" -> "WARNING"
      [] OTHER -> IF heard = None THEN IF status = "LIVE" THEN "FRESH" ELSE "WARNING"
                  ELSE IF heard > StaleSeconds THEN "STALE"
                  ELSE IF heard > LateSeconds THEN "WARNING" ELSE "FRESH"

\* health_monitor.build_health: outside the trading hours what is not FRESH is CLOSED.
build_health(components, out) ==
    LET shown == {IF out /\ c # "FRESH" THEN "CLOSED" ELSE c : c \in components}
    IN  CASE "ERROR" \in shown -> IF "FRESH" \in shown THEN "DEGRADED" ELSE "DOWN"
          [] "ERROR" \notin shown /\ "STALE" \in shown -> "DEGRADED"
          [] shown \cap {"ERROR", "STALE"} = {} /\ "WARNING" \in shown -> "WARNING"
          [] shown = {"CLOSED"} -> "MARKET_CLOSED"
          [] OTHER -> "HEALTHY"

SourceStatus(s) ==
    IF ~s.reachable THEN None
    ELSE IF s.session = "LIVE" /\ s.feed = "CONNECTED" THEN "LIVE" ELSE s.feed

\* Every node is a component; equity_990 is LIVE only when all of them are, and otherwise
\* shows the first that is not.
public_health(v) ==
    LET notLive == {n \in Nodes : SourceStatus(v[n]) # "LIVE"}
        equity  == IF \A n \in Nodes : ~v[n].reachable THEN None
                   ELSE IF notLive = {} THEN "LIVE"
                   ELSE SourceStatus(v[CHOOSE n \in notLive : \A m \in notLive : n <= m])
        heard   == {v[n].heard : n \in Nodes} \ {None}
        newest  == IF heard = {} THEN None ELSE CHOOSE h \in heard : \A o \in heard : h <= o
        parts   == {component_health(SourceStatus(v[n]), v[n].heard) : n \in Nodes}
    IN  build_health(parts \cup {component_health(equity, newest)}, ~InMarket)

-----------------------------------------------------------------------------
Idle == [pc |-> "idle", todo |-> {}, view |-> <<>>, left |-> 0]

Init ==
    /\ hours \in {"preopen", "market"}
    /\ node \in [Nodes -> {s \in States : s.session = (IF InMarket THEN "LIVE" ELSE "PRE_OPEN")}] /\ changes = 0
    /\ cache = [p \in Peers |-> None] /\ lock = [p \in Peers |-> None]
    /\ req = [r \in Requests |-> Idle]
    /\ answer = [r \in Requests |-> None]
    /\ ready \in BOOLEAN

\* The world: nodes fail, recover and change, the market opens and closes.
Change(n) ==
    /\ changes < MaxChanges /\ changes' = changes + 1
    /\ \E s \in States \cup (IF n = 0 THEN {} ELSE {Down}) : s # node[n] /\ node' = [node EXCEPT ![n] = s]
    /\ UNCHANGED <<hours, cache, lock, req, answer, ready>>

ClockTurns ==
    /\ changes < MaxChanges /\ changes' = changes + 1
    /\ hours' = CASE hours = "closed" -> "preopen" [] hours = "preopen" -> "market" [] OTHER -> "closed"
    /\ UNCHANGED <<node, cache, lock, req, answer, ready>>

\* cluster_health(): this node first, then the peers in order.
Ask(r) ==
    /\ req[r].pc = "idle"
    /\ req' = [req EXCEPT ![r] = [pc |-> "peers", todo |-> Peers, left |-> 0,
                                  view |-> [n \in Nodes |-> IF n = 0 THEN _node_summary(node_health(0, node[0])) ELSE Missing]]]
    /\ UNCHANGED <<hours, node, changes, cache, lock, answer, ready>>

First(S) == CHOOSE p \in S : \A q \in S : p <= q
Take(r, p, a) == [req[r] EXCEPT !.pc = "peers", !.todo = @ \ {p}, !.view[p] = Summary(p, a)]
Serves(p) == cache[p] # None /\ cache[p].age <= CacheSeconds

\* PeerClient.health(): the cache while it is fresh; with the lock taken, the old answer.
ReadPeer(r) ==
    /\ req[r].pc = "peers" /\ req[r].todo # {}
    /\ LET p == First(req[r].todo)
       IN  \/ /\ p \notin Configured
              /\ req' = [req EXCEPT ![r] = Take(r, p, Down)] /\ UNCHANGED lock
           \/ /\ p \in Configured /\ (Serves(p) \/ (lock[p] # None /\ cache[p] # None))
              /\ req' = [req EXCEPT ![r] = Take(r, p, cache[p].answer)] /\ UNCHANGED lock
           \/ /\ p \in Configured /\ ~Serves(p) /\ lock[p] = None
              /\ lock' = [lock EXCEPT ![p] = r]
              /\ req' = [req EXCEPT ![r].pc = "fetch", ![r].left = TimeoutSeconds]
           \/ /\ p \in Configured /\ cache[p] = None /\ lock[p] # None
              /\ req' = [req EXCEPT ![r].pc = "wait"] /\ UNCHANGED lock
    /\ UNCHANGED <<hours, node, changes, cache, answer, ready>>

\* The blocking acquire of a first answer; _health_locked looks at the cache again.
Acquire(r) ==
    /\ req[r].pc = "wait"
    /\ LET p == First(req[r].todo)
       IN  /\ lock[p] = None
           /\ IF Serves(p) THEN req' = [req EXCEPT ![r] = Take(r, p, cache[p].answer)] /\ UNCHANGED lock
              ELSE /\ lock' = [lock EXCEPT ![p] = r]
                   /\ req' = [req EXCEPT ![r].pc = "fetch", ![r].left = TimeoutSeconds]
    /\ UNCHANGED <<hours, node, changes, cache, answer, ready>>

\* _health_locked(): the answer or the failure replaces what was cached.
Kept(p, a) == [age |-> 0, answer |-> a]
_health_locked(r) ==
    /\ req[r].pc = "fetch"
    /\ LET p == First(req[r].todo)
       IN  \E a \in {Down} \cup (IF node[p] = Down THEN {} ELSE {node_health(p, node[p])}) :
             /\ cache' = [cache EXCEPT ![p] = Kept(p, a)]
             /\ lock' = [lock EXCEPT ![p] = None]
             /\ req' = [req EXCEPT ![r] = Take(r, p, Kept(p, a).answer)]
    /\ UNCHANGED <<hours, node, changes, answer, ready>>

\* The coverage of the view, and then the components, each by the clock of its moment.
Cover(r) ==
    /\ req[r].pc = "peers" /\ req[r].todo = {}
    /\ req' = [req EXCEPT ![r].pc = "public"]
    /\ answer' = [answer EXCEPT ![r] = [view |-> req[r].view, coverage |-> cluster_health(req[r].view),
                                        overall |-> None, open |-> FALSE]]
    /\ UNCHANGED <<hours, node, changes, cache, lock, ready>>
Publish(r) ==
    /\ req[r].pc = "public" /\ req' = [req EXCEPT ![r].pc = "sent"]
    /\ answer' = [answer EXCEPT ![r].overall = public_health(req[r].view), ![r].open = InMarket]
    /\ UNCHANGED <<hours, node, changes, cache, lock, ready>>

Return(r) ==
    /\ req[r].pc = "sent"
    /\ req' = [req EXCEPT ![r] = Idle] /\ answer' = [answer EXCEPT ![r] = None]
    /\ UNCHANGED <<hours, node, changes, cache, lock, ready>>

\* The session loop's last probe of the peers (PeerViews): true of them when it was made.
Probe ==
    /\ ready' \in {FALSE, \A p \in Configured : node[p] # Down /\ ~node[p].wrong} /\ ready' # ready
    /\ changes < MaxChanges /\ changes' = changes + 1
    /\ UNCHANGED <<hours, node, cache, lock, req, answer>>

\* One second: no request outlasts its timeout, and what a cached answer tells ages.
Older(heard) == IF heard = None THEN None ELSE Smaller(heard + 1, StaleSeconds + 1)
Second ==
    /\ \A r \in Requests : req[r].pc = "fetch" => req[r].left > 0
    /\ req' = [r \in Requests |-> [req[r] EXCEPT !.left = Larger(@ - 1, 0)]]
    /\ cache' = [p \in Peers |->
                   CASE cache[p] = None -> None
                     [] cache[p] # None /\ cache[p].answer = Down -> [cache[p] EXCEPT !.age = Smaller(@ + 1, Old)]
                     [] OTHER -> [cache[p] EXCEPT !.age = Smaller(@ + 1, Old), !.answer.state.heard = Older(@)]]
    /\ UNCHANGED <<hours, node, changes, lock, answer, ready>>

Next ==
    \/ \E n \in Nodes : Change(n)
    \/ ClockTurns \/ Probe \/ Second
    \/ \E r \in Requests : Ask(r) \/ ReadPeer(r) \/ Acquire(r) \/ _health_locked(r) \/ Cover(r) \/ Publish(r) \/ Return(r)

Spec == Init /\ [][Next]_vars

-----------------------------------------------------------------------------
View == [Nodes -> [reachable : BOOLEAN, healthy : BOOLEAN, subs : 0..Size, error : BOOLEAN,
                   heard : (0..StaleSeconds+1) \cup {None}, session : {None, "CLOSED", "PRE_OPEN", "LIVE"},
                   feed : {None, "CONNECTED", "RECONNECTING", "ERROR", "AUTHENTICATING"}]]

TypeOK ==
    /\ node \in [Nodes -> States \cup {Down}] /\ changes \in 0..MaxChanges
    /\ \A p \in Peers : cache[p] # None => cache[p].age \in 0..Old
    /\ \A p \in Peers : lock[p] # None => req[lock[p]].pc = "fetch" /\ First(req[lock[p]].todo) = p
    /\ \A r \in Requests : req[r].pc = "fetch" => req[r].left \in 0..TimeoutSeconds /\ lock[First(req[r].todo)] = r
    /\ \A r \in Requests : answer[r] # None => answer[r].view \in View

\* cluster_health() says LIVE_COMPLETE only of a view in which every node answered, was
\* healthy, had the right partition and a LIVE session.  The answers are from different
\* moments: one cached before the open says OK of a session that was not live yet.
CompleteIsLive ==
    \A r \in Requests : answer[r] # None /\ answer[r].coverage = "LIVE_COMPLETE"
        => \A n \in Nodes : LET s == answer[r].view[n]
                             IN  s.reachable /\ s.healthy /\ ~s.error /\ s.session = "LIVE" /\ s.subs = SizeOf(n)

\* /public/health.json never hides a node that did not answer in market hours, and never
\* reports the quiet after the close as a fault.
HoursDecide ==
    \A r \in Requests : answer[r] # None /\ answer[r].overall # None =>
        IF answer[r].open
        THEN (\E n \in Nodes : ~answer[r].view[n].reachable) => answer[r].overall \in {"DEGRADED", "DOWN"}
        ELSE answer[r].overall \in {"HEALTHY", "MARKET_CLOSED"}
=============================================================================
