------------------------------ MODULE PeerViews -------------------------------
(*****************************************************************************)
(* /public/live.json, its shards and one stock's body (live_core/api.py):    *)
(* the pieces of the asked range are read from the nodes that own them, one  *)
(* after the other, while every node goes on changing; and the session       *)
(* loop's probes of the peers, which the readiness check reads.              *)
(*****************************************************************************)
EXTENDS Partition, Sequences, FiniteSets

CONSTANTS
    Size, Count,        \* the universe and the number of nodes
    Width, Shards,      \* SHARD_SIZE and the length of SHARD_NAMES
    Configured,         \* peers with a URL
    ProbeSeconds,       \* PEER_PROBE_SECONDS
    Backoff,            \* BACKOFF_SCHEDULE_SECONDS
    MaxChanges,         \* bound: how often a node changes its state or a probe is lost
    None, Down

\* What the code gives these constants; the instances assume it.
ViewsAssumption ==
    /\ Size \in Nat \ {0} /\ Count \in Nat \ {0} /\ Width \in Nat /\ Shards \in Nat /\ None # "OK"
    /\ Backoff \in Seq(Nat \ {0}) /\ Backoff # <<>> /\ MaxChanges \in Nat

Nodes == 0..Count-1
Block(n) == partition_bounds(Size, n, Count)
Whole(n) == Block(n).end - Block(n).start
\* What a node answers: the session, how many of its stocks it holds (the first ones of its
\* block), and whether its partition is of another build.
Held(n) ==
    {[session |-> "LIVE", stocks |-> k, wrong |-> FALSE] : k \in {0, Whole(n) - 1, Whole(n)}}
        \cup {[session |-> "PRE_OPEN", stocks |-> Whole(n), wrong |-> FALSE],
               [session |-> "LIVE", stocks |-> Whole(n), wrong |-> TRUE]}

VARIABLES
    node,       \* per node: what it holds, or Down
    changes,
    body,       \* the body under construction: its range, the pieces left and the pieces read
    stock,      \* one stock's body: its index, which node it was asked of, and the answer
    probe,      \* per peer: failures and seconds of back-off left (_health_failures, _health_retry_at)
    sinceProbe,
    ready       \* _peer_ready

vars == <<node, changes, body, stock, probe, sinceProbe, ready>>
pvars == <<probe, sinceProbe, ready>>
Peers == Nodes \ {0}

Fresh == [todo |-> {}, got |-> {}, range |-> None, status |-> None]
Init ==
    /\ node = [n \in Nodes |-> [session |-> "LIVE", stocks |-> Whole(n), wrong |-> FALSE]]
    /\ changes = 0 /\ body = Fresh /\ stock = None
    /\ probe = [p \in Peers |-> [failures |-> 0, left |-> 0]] /\ sinceProbe = ProbeSeconds
    /\ ready = [p \in Peers |-> [reachable |-> FALSE, partition_ok |-> FALSE]]

Change(n) ==
    /\ changes < MaxChanges /\ changes' = changes + 1
    /\ \E s \in Held(n) \cup (IF n = 0 THEN {} ELSE {Down}) : s # node[n] /\ node' = [node EXCEPT ![n] = s]
    /\ UNCHANGED <<body, stock, pvars>>

\* collect(): the pieces of the range one node after the other; each is what its node holds
\* when it is read (the peers' answers are PeerClient's: reused for a while, or none).
Holds(n, s, piece) == IF s = Down THEN {} ELSE {i \in piece.start..piece.end-1 : i - Block(n).start < s.stocks}
Collect(range) ==
    /\ body.todo = {} /\ body.range = None
    /\ body' = [todo |-> nodes_for_range(Size, Count, range.start, range.end), got |-> {}, range |-> range, status |-> None]
    /\ UNCHANGED <<node, changes, stock, pvars>>
CollectPiece ==
    /\ body.todo # {}
    /\ LET piece == CHOOSE q \in body.todo : \A o \in body.todo : q.node <= o.node
           n == piece.node
           there == n = 0 \/ (n \in Configured /\ node[n] # Down /\ ~node[n].wrong)
       IN  body' = [body EXCEPT !.todo = @ \ {piece},
                      !.got = @ \cup {[node |-> n, available |-> there, expected |-> piece.end - piece.start,
                                       items |-> IF there THEN Holds(n, node[n], piece) ELSE {},
                                       session |-> IF there THEN node[n].session ELSE None]}]
    /\ UNCHANGED <<node, changes, stock, pvars>>

\* live_body(): OK, PARTIAL, the session's own status, or no node at all.
Complete(got) == got # {} /\ \A g \in got : g.available /\ Cardinality(g.items) >= g.expected
live_body(got) ==
    LET have == {g \in got : g.available}
    IN  IF have = {} THEN "NODE_UNAVAILABLE"
        ELSE IF Complete(got) /\ \A g \in have : g.session = "LIVE" THEN "OK"
        ELSE IF \E g \in have : g.session = "LIVE" THEN "PARTIAL"
        ELSE "NOT_LIVE"
Body ==
    /\ body.range # None /\ body.todo = {}
    /\ body' = IF body.status = None THEN [body EXCEPT !.status = live_body(body.got)]
               ELSE [todo |-> {}, got |-> {}, range |-> None, status |-> None]
    /\ UNCHANGED <<node, changes, stock, pvars>>

\* stock(): a body of its own stocks; for any other it asks the owner, once, and never for a
\* request that was already proxied.
stock_body(n, i) == IF node[n] # Down /\ i - Block(n).start < node[n].stocks THEN "OK" ELSE "NOT_FOUND"
Stock(i, local_only) ==
    /\ stock = None
    /\ LET owner == owner_of_index(Size, Count, i)
       IN  stock' = [index |-> i, via |-> {0}, local |-> local_only,
                     status |-> CASE owns_index(Block(0), i) -> stock_body(0, i)
                                  [] ~owns_index(Block(0), i) /\ local_only -> "NOT_OWNER"
                                  [] ~owns_index(Block(0), i) /\ ~local_only /\ owner \notin Configured -> "NODE_UNAVAILABLE"
                                  [] OTHER -> None]
    /\ UNCHANGED <<node, changes, body, pvars>>
StockProxy ==
    /\ stock # None /\ stock.status = None
    /\ LET owner == owner_of_index(Size, Count, stock.index)
       IN  stock' = [stock EXCEPT !.via = @ \cup {owner},
                       !.status = IF node[owner] = Down THEN "NODE_UNAVAILABLE"
                                  ELSE IF owns_index(Block(owner), stock.index) THEN stock_body(owner, stock.index)
                                  ELSE "NOT_OWNER"]
    /\ UNCHANGED <<node, changes, body, pvars>>
StockSent ==
    /\ stock # None /\ stock.status # None /\ stock' = None
    /\ UNCHANGED <<node, changes, body, pvars>>

\* _probe_peers(): a probe of its own, not through the cache and not before its back-off ends.
backoff_after(failures) == Backoff[Smaller(failures, Cardinality(DOMAIN Backoff))]
Probed(p, a) == [reachable |-> a # Down, partition_ok |-> a # Down /\ ~a.wrong]
_probe_peers ==
    /\ Configured # {} /\ sinceProbe >= ProbeSeconds /\ sinceProbe' = 0
    /\ \E lost \in SUBSET {p \in Configured : node[p] # Down} :
         /\ lost # {} => changes < MaxChanges
         /\ changes' = IF lost = {} THEN changes ELSE changes + 1
         /\ LET asked == {p \in Configured : probe[p].left = 0}
                a(p)  == IF p \in asked \ lost THEN node[p] ELSE Down
            IN
             /\ ready' = [p \in Peers |-> IF p \in Configured THEN Probed(p, a(p)) ELSE ready[p]]
             /\ probe' = [p \in Peers |->
                  CASE p \notin asked -> probe[p]
                    [] p \in asked /\ a(p) # Down -> [failures |-> 0, left |-> 0]
                    [] OTHER -> LET f == Smaller(probe[p].failures + 1, Cardinality(DOMAIN Backoff))
                                IN  [failures |-> f, left |-> backoff_after(f)]]
    /\ UNCHANGED <<node, body, stock>>

Second ==
    /\ probe' = [p \in Peers |-> [probe[p] EXCEPT !.left = Larger(@ - 1, 0)]]
    /\ sinceProbe' = Smaller(sinceProbe + 1, ProbeSeconds)
    /\ UNCHANGED <<node, changes, body, stock, ready>>

Ranges == {[start |-> 0, end |-> Size]} \cup shard_ranges(Size, Width, Shards)

Next ==
    \/ \E n \in Nodes : Change(n)
    \/ \E range \in Ranges : Collect(range)
    \/ CollectPiece \/ Body
    \/ \E i \in 0..Size-1, local_only \in BOOLEAN : Stock(i, local_only)
    \/ StockProxy \/ StockSent
    \/ _probe_peers \/ Second

Spec == Init /\ [][Next]_vars

-----------------------------------------------------------------------------
TypeOK ==
    /\ \A n \in Nodes : node[n] \in Held(n) \cup {Down}
    /\ changes \in 0..MaxChanges
    /\ \A g \in body.got : g.items \subseteq 0..Size-1
    /\ stock # None => stock.via \subseteq Nodes
    /\ \A p \in Peers : probe[p].failures \in 0..Cardinality(DOMAIN Backoff) /\ probe[p].left >= 0

\* A /public/live.json body or shard says OK only when it holds every stock of its range and
\* every node it read was LIVE; the pieces come from the nodes one after the other.
OkIsWhole ==
    body.status = "OK" =>
        /\ UNION {g.items : g \in body.got} = {i \in 0..Size-1 : body.range.start <= i /\ i < body.range.end}
        /\ \A g \in body.got : g.session = "LIVE"

\* A stock's request ends at its owner: only the node whose block holds the index answers for
\* it, after at most one hop, and NOT_OWNER is said only to a request that was to stay local.
OneHop ==
    stock # None /\ stock.status # None =>
        /\ stock.status = "NOT_OWNER" => stock.local
        /\ stock.status \in {"OK", "NOT_FOUND"} => \E n \in stock.via : owns_index(Block(n), stock.index)

\* The readiness check follows a peer through its back-off: a peer that stays down ends up
\* unreachable there, one that stays up with the right partition ends up ready.
PeerSeen ==
    \A p \in Configured :
        /\ <>[](node[p] = Down) => <>[]~ready[p].reachable
        /\ <>[](node[p] # Down /\ ~node[p].wrong) => <>[]ready[p].partition_ok
=============================================================================
