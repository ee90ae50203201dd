----------------------------- MODULE MCLiveCore -------------------------------
(*****************************************************************************)
(* The parts of a Live Core node that serve what its state holds, in one     *)
(* instance: a behaviour picks one of them and leaves the others in their    *)
(* initial state.  Each keeps its own specification, fairness and            *)
(* properties.                                                               *)
(*****************************************************************************)
EXTENDS Integers, Sequences, FiniteSetTheorems, WellFoundedInduction, TLAPS

CONSTANTS
    Requests, None, Down, Configured, Count,
    NoCache, StaleSeconds, Backoff, MaxPeerVersion,                     \* PeerClient
    Stocks, Refs, RenderSeconds, MaxBodyVersion,                        \* RenderCache
    Size, CacheSeconds, TimeoutSeconds, LateSeconds, MaxChanges,        \* Cluster
    Universe, Width, Shards, ProbeSeconds, MaxViewChanges,              \* PeerViews
    IndexCount, Close, PollMinutes, HealthFrom, StaleMinutes, LastDay, MaxFaults    \* IndexNode

\* A short schedule with the code's shape: it grows, then stays.
ShortBackoff == <<1, 2>>

\* Minutes 1 and 2, each as a trade-built candle (SOURCE_WEBSOCKET) and as its historical
\* correction (SOURCE_HISTORICAL).
TwoMinutes == [epoch : 1 .. 2, source : {0, 1}]

\* A healthy node, one before the open, one of another partition, and one that could not start.
Good ==
    [config |-> FALSE, host |-> FALSE, verified |-> TRUE, packets |-> TRUE, sup |-> "LIVE",
     session |-> "LIVE", feed |-> "CONNECTED", thread |-> TRUE, stocks |-> 2, subs |-> 2,
     fresh |-> TRUE, heard |-> 0, wrong |-> FALSE]
States ==
    {Good, [Good EXCEPT !.session = "PRE_OPEN"], [Good EXCEPT !.wrong = TRUE],
     [Good EXCEPT !.session = "CLOSED", !.config = TRUE, !.feed = "ERROR", !.subs = 0,
                  !.stocks = 0, !.heard = None]}
StillNodes == [n \in 0 .. Count - 1 |-> Good]

VARIABLES
    which,          \* the component at work
    pPeer, pLock, pCache, pFailures, pRetryIn, pReq, pServed, pNewest, pFailed,
    bSession, bSessions, bEnding, bVersion, bRows, bRef, bRevision, bGeneration, bFrag, bReq,
    bKeyLock, bBody, bTail, bServed, bNewest, bContents,
    cHours, cNode, cChanges, cCache, cLock, cReq, cAnswer, cReady,
    vNode, vChanges, vBody, vStock, vProbe, vSinceProbe, vReady,
    iDay, iT, iSettings, iToken_error, i_last_candle_minute, iQueue, iIndex, iFaults, iLate,
    iEarly, iReply

pVars == <<pPeer, pLock, pCache, pFailures, pRetryIn, pReq, pServed, pNewest,
    pFailed>>
bVars == <<bSession, bSessions, bEnding, bVersion, bRows, bRef, bRevision,
    bGeneration, bFrag, bReq, bKeyLock, bBody, bTail, bServed, bNewest,
    bContents>>
cVars == <<cHours, cNode, cChanges, cCache, cLock, cReq, cAnswer, cReady>>
vVars == <<vNode, vChanges, vBody, vStock, vProbe, vSinceProbe, vReady>>
iVars == <<iDay, iT, iSettings, iToken_error, i_last_candle_minute, iQueue,
    iIndex, iFaults, iLate, iEarly, iReply>>
vars == <<which, pVars, bVars, cVars, vVars, iVars>>

Peer == INSTANCE PeerClient WITH
    peer <- pPeer, lock <- pLock, cache <- pCache, failures <- pFailures, retryIn <- pRetryIn,
    req <- pReq, served <- pServed, newest <- pNewest, failed <- pFailed,
    CacheSeconds <- NoCache, MaxVersion <- MaxPeerVersion
Render == INSTANCE RenderCache WITH
    session <- bSession, sessions <- bSessions, ending <- bEnding, version <- bVersion,
    rows <- bRows, ref <- bRef, revision <- bRevision, generation <- bGeneration, frag <- bFrag,
    req <- bReq, keyLock <- bKeyLock, body <- bBody, tail <- bTail, served <- bServed,
    newest <- bNewest, contents <- bContents, Bars <- TwoMinutes, MaxVersion <- MaxBodyVersion
Health == INSTANCE Cluster WITH
    hours <- cHours, node <- cNode, changes <- cChanges, cache <- cCache, lock <- cLock,
    req <- cReq, answer <- cAnswer, ready <- cReady
Views == INSTANCE PeerViews WITH
    node <- vNode, changes <- vChanges, body <- vBody, stock <- vStock, probe <- vProbe,
    sinceProbe <- vSinceProbe, ready <- vReady, Size <- Universe, MaxChanges <- MaxViewChanges
Node == INSTANCE IndexNode WITH
    day <- iDay, t <- iT, settings <- iSettings, token_error <- iToken_error,
    _last_candle_minute <- i_last_candle_minute, queue <- iQueue, index <- iIndex,
    faults <- iFaults, late <- iLate, early <- iEarly, reply <- iReply, Count <- IndexCount

\* The constants are ones the code can have.
ASSUME InstanceAssumption ==
    /\ Peer!PeerAssumption /\ Render!RenderAssumption /\ Health!ClusterAssumption
    /\ Views!ViewsAssumption /\ Node!IndexAssumption

PeerOnly == which = "peer" /\ UNCHANGED <<which, bVars, cVars, vVars, iVars>>
RenderOnly == which = "render" /\ UNCHANGED <<which, pVars, cVars, vVars, iVars>>
HealthOnly == which = "health" /\ UNCHANGED <<which, pVars, bVars, vVars, iVars>>
ViewsOnly == which = "views" /\ UNCHANGED <<which, pVars, bVars, cVars, iVars>>
IndexOnly == which = "index" /\ UNCHANGED <<which, pVars, bVars, cVars, vVars>>

Init ==
    /\ which \in {"peer", "render", "health", "views", "index"}
    /\ Peer!Init
    /\ Render!Init
    /\ Health!Init /\ (which # "health" => cHours = "market" /\ cReady = FALSE /\ cNode = StillNodes)
    /\ Views!Init
    /\ Node!Init
Next ==
    \/ PeerOnly /\ Peer!Next
    \/ RenderOnly /\ Render!Next
    \/ HealthOnly /\ Health!Next
    \/ ViewsOnly /\ Views!Next
    \/ IndexOnly /\ Node!Next

Spec == Init /\ [][Next]_vars

\* The fairness of each component, for its own steps.
Fairness ==
    /\ \A r \in Requests : /\ WF_pVars(which = "peer" /\ Peer!Proceed(r))
                          /\ SF_pVars(which = "peer" /\ Peer!Acquire(r))
    /\ WF_vVars(which = "views" /\ Views!Second) /\ WF_vVars(which = "views" /\ Views!_probe_peers)
FairSpec == Spec /\ Fairness

-----------------------------------------------------------------------------
\* Every variable of every component has its type.
TypesOK ==
    /\ which = "peer" => Peer!TypeOK
    /\ which = "render" => Render!TypeOK
    /\ which = "health" => Health!TypeOK
    /\ which = "views" => Views!TypeOK
    /\ which = "index" => Node!TypeOK

\* What a peer client serves is at most stale_seconds old and says so when it is reused;
\* what a node renders is its content at exactly one version, encoded as from scratch; and a
\* request for a stock ends at the stock's owner.
AnswersCurrent ==
    /\ which = "peer" => Peer!ServedRecent /\ Peer!ReusedIsMarked
    /\ which = "render" => Render!FragmentExact /\ Render!BodyCoherent
    /\ which = "views" => Views!OneHop

\* A later request never gets an older version than an earlier one had got, neither from a
\* peer client's cache nor from the cached bodies.
NeverBackwards ==
    /\ which = "peer" => Peer!MonotonicReads
    /\ which = "render" => Render!MonotonicBodies

\* An answer that calls the cluster complete, a body that says OK and the index node's health
\* are backed by what each node really held.
HealthHonest ==
    /\ which = "health" => Health!CompleteIsLive /\ Health!HoursDecide
    /\ which = "views" => Views!OkIsWhole
    /\ which = "index" => Node!StaleShown

\* The index node serves one trading day at a time, ends it with every candle of it, and its
\* levels are those of the candles served with them.
DayKept == which = "index" => Node!DaysAgree /\ Node!EndsWhole /\ Node!LevelsFollowCandles

\* Every request for a peer's snapshot ends, and a peer that answers again is seen again.
NobodyForgotten == (which = "peer" => Peer!EveryRequestEnds) /\ (which = "views" => Views!PeerSeen)

-----------------------------------------------------------------------------
(* The theorems of the parts, in the node.  A step of the node is a step of  *)
(* the part at work and a stutter of the others, so each part behaves as its *)
(* own specification says.                                                   *)

LEMMA PeerRuns == Spec => Peer!Spec
<1>1. Init => Peer!Init
  BY DEF Init
<1>2. [Next]_vars => [Peer!Next]_(Peer!vars)
  BY DEF Next, vars, pVars, PeerOnly, RenderOnly, HealthOnly, ViewsOnly, IndexOnly, Peer!vars
<1> QED BY <1>1, <1>2, PTL DEF Spec, Peer!Spec

LEMMA RenderRuns == Spec => Render!Spec
<1>1. Init => Render!Init
  BY DEF Init
<1>2. [Next]_vars => [Render!Next]_(Render!vars)
  BY DEF Next, vars, bVars, PeerOnly, RenderOnly, HealthOnly, ViewsOnly, IndexOnly, Render!vars,
         Render!seriesVars
<1> QED BY <1>1, <1>2, PTL DEF Spec, Render!Spec

-----------------------------------------------------------------------------
(* The peer client, for every number of requests and every schedule.        *)

PeerSnapshot == [ver : 1 .. MaxPeerVersion, live : BOOLEAN, age : 0 .. StaleSeconds + 1, stale : BOOLEAN]
PeerThread == [pc : Peer!Steps, ver : (1 .. MaxPeerVersion) \cup {None}, live : BOOLEAN, floor : 0 .. MaxPeerVersion]

\* One request talks to the peer, and it has a version in hand once the peer has answered.
PeerHolding ==
    \A r \in Requests :
        /\ pReq[r].pc \in {"locked", "sent", "unchanged", "answered"} => pLock = r
        /\ pReq[r].pc \in {"unchanged", "answered"} => pReq[r].ver # None

\* What is cached or in hand is at least as new as what any request was given, and what is in
\* hand is at least as new as what is cached.
PeerOrdered ==
    /\ pNewest <= Peer!Version
    /\ pCache # None => pNewest <= pCache.ver /\ pCache.ver <= Peer!Version
    /\ \A r \in Requests :
        /\ pReq[r].floor <= pNewest
        /\ pReq[r].pc \in {"unchanged", "answered"} =>
            /\ pNewest <= pReq[r].ver /\ pReq[r].ver <= Peer!Version
            /\ pCache # None => pCache.ver <= pReq[r].ver

\* A snapshot that outlived a failed fetch is marked.
PeerMarked == pFailed /\ pCache # None => pCache.stale

PeerAnswersHonest == Peer!ServedRecent /\ Peer!ReusedIsMarked /\ Peer!MonotonicReads
PeerInv == Peer!TypeOK /\ PeerHolding /\ PeerOrdered /\ PeerMarked /\ PeerAnswersHonest

LEMMA PeerDelays ==
    ASSUME Peer!PeerAssumption
    PROVE  /\ Len(Backoff) \in Nat /\ Len(Backoff) >= 1
           /\ \A n \in 1 .. Len(Backoff) : Peer!BackoffAfter(n) \in Nat
BY DEF Peer!PeerAssumption, Peer!BackoffAfter

\* The circuit's counter stays within the schedule.
LEMMA PeerCircuit ==
    ASSUME Peer!PeerAssumption, pFailures \in 0 .. Len(Backoff), Peer!OpenCircuit
    PROVE  pFailures' \in 0 .. Len(Backoff) /\ pRetryIn' \in Nat
<1>1. pFailures' \in 1 .. Len(Backoff)
  BY PeerDelays DEF Peer!OpenCircuit
<1> QED BY <1>1, PeerDelays DEF Peer!OpenCircuit

\* What a request returns: the snapshot it has, which is newer than its floor.
LEMMA PeerAnswerFacts ==
    ASSUME Peer!PeerAssumption, PeerInv, NEW r \in Requests, NEW c \in PeerSnapshot, Peer!Answer(r, c),
           pNewest <= c.ver
    PROVE  /\ pNewest' = c.ver /\ pNewest' \in 0 .. MaxPeerVersion
           /\ pReq' = [pReq EXCEPT ![r] = Peer!Idle] /\ pReq' \in [Requests -> PeerThread]
           /\ pServed' \in [ver : 1 .. MaxPeerVersion, live : BOOLEAN, age : 0 .. StaleSeconds + 1,
                            stale : BOOLEAN, floor : 0 .. MaxPeerVersion]
           /\ pServed'.ver >= pServed'.floor /\ pServed'.age = c.age /\ pServed'.stale = c.stale
<1>1. /\ pNewest \in 0 .. MaxPeerVersion /\ pReq \in [Requests -> PeerThread] /\ pReq[r] \in PeerThread
      /\ pReq[r].floor <= pNewest
  BY DEF PeerInv, Peer!TypeOK, PeerThread, PeerOrdered
<1>2. Peer!Idle \in PeerThread
  BY DEF Peer!Idle, PeerThread, Peer!Steps, Peer!PeerAssumption
<1>3. pNewest' = c.ver
  BY <1>1 DEF Peer!Answer, PeerSnapshot
<1>4. pServed' = [ver |-> c.ver, live |-> c.live, age |-> c.age, stale |-> c.stale,
                 floor |-> pReq[r].floor]
  BY DEF Peer!Answer
<1> QED BY <1>1, <1>2, <1>3, <1>4 DEF Peer!Answer, PeerSnapshot, PeerThread

LEMMA PeerStarts == ASSUME Peer!PeerAssumption, Peer!Init PROVE PeerInv
<1>1. Peer!TypeOK
  <2>1. pPeer \in Seq(BOOLEAN) /\ Len(pPeer) = 1 /\ 1 \in 1 .. MaxPeerVersion
    BY DEF Peer!Init, Peer!PeerAssumption
  <2>2. Peer!Idle \in PeerThread
    BY DEF Peer!Idle, PeerThread, Peer!Steps, Peer!PeerAssumption
  <2>3. pReq \in [Requests -> PeerThread]
    BY <2>2 DEF Peer!Init
  <2>4. pFailures \in 0 .. Len(Backoff) /\ pRetryIn \in Nat /\ pNewest \in 0 .. MaxPeerVersion
    BY PeerDelays DEF Peer!Init, Peer!PeerAssumption
  <2> QED BY <2>1, <2>3, <2>4 DEF Peer!Init, Peer!TypeOK, PeerThread
<1>2. PeerHolding /\ PeerOrdered /\ PeerMarked /\ PeerAnswersHonest
  BY DEF Peer!Init, PeerHolding, PeerOrdered, PeerMarked, PeerAnswersHonest, Peer!ServedRecent,
           Peer!ReusedIsMarked, Peer!MonotonicReads, Peer!Idle, Peer!Version
<1> QED BY <1>1, <1>2 DEF PeerInv

\* Time, the peer and forget() move what the requests have only in the right direction.
LEMMA PeerSurroundings ==
    ASSUME Peer!PeerAssumption, PeerInv, Peer!Second \/ Peer!PeerMoves \/ Peer!Forget
    PROVE  PeerInv'
<1> USE DEF PeerInv
<1>1. CASE Peer!Second
  <2>1. pCache' = pCache \/ (pCache # None /\ pCache' = [pCache EXCEPT !.age = @ + 1] /\ pCache.age <= StaleSeconds)
    BY <1>1 DEF Peer!Second, Peer!TypeOK, Peer!PeerAssumption
  <2>2. pCache # None => pCache \in PeerSnapshot
    BY DEF Peer!TypeOK, PeerSnapshot
  <2>3. pCache' \in PeerSnapshot \cup {None}
    BY <2>1, <2>2 DEF PeerSnapshot, Peer!PeerAssumption
  <2>4. Peer!TypeOK'
    BY <1>1, <2>3 DEF Peer!Second, Peer!TypeOK, PeerSnapshot
  <2>5. pCache' # None => pCache # None /\ pCache'.ver = pCache.ver /\ pCache'.stale = pCache.stale
    BY <1>1, <2>1, <2>2 DEF PeerSnapshot, Peer!Second
  <2>6. PeerHolding' /\ PeerOrdered' /\ PeerMarked' /\ PeerAnswersHonest'
    BY <1>1, <2>5 DEF Peer!Second, PeerHolding, PeerOrdered, PeerMarked, PeerAnswersHonest, Peer!ServedRecent,
           Peer!ReusedIsMarked, Peer!MonotonicReads, Peer!Version
  <2> QED BY <2>4, <2>6
<1>2. CASE Peer!PeerMoves
  <2>1. pPeer' \in Seq(BOOLEAN) /\ Len(pPeer') = Len(pPeer) + 1 /\ Len(pPeer') \in 1 .. MaxPeerVersion
    BY <1>2 DEF Peer!PeerMoves, Peer!TypeOK, Peer!Version, Peer!PeerAssumption
  <2>2. Peer!TypeOK'
    BY <1>2, <2>1 DEF Peer!PeerMoves, Peer!TypeOK
  <2>3. Peer!Version' = Peer!Version + 1 /\ Peer!Version \in Nat
    BY <2>1 DEF Peer!Version, Peer!TypeOK
  <2>4. PeerOrdered'
    <3>1. /\ pNewest <= Peer!Version' /\ pNewest \in Int
          /\ pCache # None => pCache.ver \in Int /\ pCache.ver <= Peer!Version'
      BY <2>3 DEF PeerOrdered, Peer!TypeOK
    <3>2. \A r \in Requests : pReq[r].pc \in {"unchanged", "answered"} =>
            pReq[r].ver \in Int /\ pReq[r].ver <= Peer!Version'
      BY <2>3 DEF PeerOrdered, Peer!TypeOK, PeerHolding
    <3> QED BY <1>2, <3>1, <3>2 DEF Peer!PeerMoves, PeerOrdered
  <2>5. PeerHolding' /\ PeerMarked' /\ PeerAnswersHonest'
    BY <1>2 DEF Peer!PeerMoves, PeerHolding, PeerMarked, PeerAnswersHonest, Peer!ServedRecent,
           Peer!ReusedIsMarked, Peer!MonotonicReads
  <2> QED BY <2>2, <2>4, <2>5
<1>3. CASE Peer!Forget
  <2>1. Peer!TypeOK'
    BY <1>3 DEF Peer!Forget, Peer!TypeOK
  <2>2. PeerHolding' /\ PeerOrdered' /\ PeerMarked' /\ PeerAnswersHonest'
    BY <1>3 DEF Peer!Forget, PeerHolding, PeerOrdered, PeerMarked, PeerAnswersHonest, Peer!ServedRecent,
           Peer!ReusedIsMarked, Peer!MonotonicReads, Peer!Version
  <2> QED BY <2>1, <2>2
<1> QED BY <1>1, <1>2, <1>3

\* A request that comes to hold the lock or to wait for it, or calls stock(), with nothing in
\* hand: no answer is given and nothing cached changes.
LEMMA PeerWaits ==
    ASSUME Peer!PeerAssumption, PeerInv, NEW r \in Requests,
           \/ Peer!Enter(r) \/ Peer!Acquire(r) \/ Peer!StockCall(r) \/ Peer!StockAnswer(r) \/ Peer!StockFail(r)
           \/ Peer!EnterBusy(r)
    PROVE  PeerInv'
<1> USE DEF PeerInv
<1>0. /\ pReq \in [Requests -> PeerThread] /\ pReq[r] \in PeerThread /\ pReq[r].floor <= pNewest
      /\ pNewest \in 0 .. MaxPeerVersion
      /\ Peer!Idle \in PeerThread /\ Peer!Idle.pc = "idle" /\ Peer!Idle.floor = 0
  BY DEF Peer!TypeOK, PeerThread, PeerOrdered, Peer!Idle, Peer!Steps, Peer!PeerAssumption
<1>1. ASSUME NEW x \in PeerThread, pReq' = [pReq EXCEPT ![r] = x], x.floor <= pNewest,
             \/ x.pc \in {"idle", "waiting", "stock"} /\ pLock' = pLock
             \/ x.pc = "locked" /\ pLock = None /\ pLock' = r,
             pFailures' \in 0 .. Len(Backoff), pRetryIn' \in Nat, pServed' = None,
             UNCHANGED <<pPeer, pCache, pNewest, pFailed>>
      PROVE  PeerInv'
  <2>1. /\ pReq' \in [Requests -> PeerThread] /\ pReq'[r] = x
        /\ \A q \in Requests : q # r => pReq'[q] = pReq[q]
    BY <1>0, <1>1
  <2>2. Peer!TypeOK'
    BY <1>1, <2>1 DEF Peer!TypeOK, PeerThread
  <2>3. PeerHolding'
    BY <1>1, <2>1 DEF PeerHolding, Peer!PeerAssumption
  <2>4. PeerOrdered'
    BY <1>1, <2>1 DEF PeerOrdered, Peer!Version
  <2>5. PeerMarked' /\ PeerAnswersHonest'
    BY <1>1 DEF PeerMarked, PeerAnswersHonest, Peer!ServedRecent,
           Peer!ReusedIsMarked, Peer!MonotonicReads
  <2> QED BY <2>2, <2>3, <2>4, <2>5
<1>2. CASE Peer!Enter(r)
  <2> DEFINE x == [Peer!Idle EXCEPT !.pc = "locked", !.floor = pNewest]
  <2>0. "locked" \in Peer!Steps
    BY DEF Peer!Steps
  <2>1. x \in PeerThread /\ x.pc = "locked" /\ x.floor = pNewest
    <3> DEFINE i == Peer!Idle
    <3>1. i \in PeerThread
      BY <1>0
    <3>2. x = [i EXCEPT !.pc = "locked", !.floor = pNewest]
      OBVIOUS
    <3> HIDE DEF i, x
    <3> QED BY <1>0, <2>0, <3>1, <3>2 DEF PeerThread
  <2>4. x.floor <= pNewest
    BY <1>0, <2>1
  <2>2. /\ pReq' = [pReq EXCEPT ![r] = x] /\ pLock = None /\ pLock' = r /\ pServed' = None
        /\ UNCHANGED <<pPeer, pCache, pFailures, pRetryIn, pNewest, pFailed>>
    BY <1>2 DEF Peer!Enter, Peer!Busy
  <2>3. pFailures' \in 0 .. Len(Backoff) /\ pRetryIn' \in Nat
    BY <2>2 DEF Peer!TypeOK
  <2> HIDE DEF x
  <2> QED BY <1>1, <2>1, <2>2, <2>3, <2>4
<1>3. CASE Peer!Acquire(r)
  <2> DEFINE x == [pReq[r] EXCEPT !.pc = "locked"]
  <2>1. x \in PeerThread /\ x.pc = "locked" /\ x.floor <= pNewest
    BY <1>0 DEF PeerThread, Peer!Steps
  <2>2. /\ pReq' = [pReq EXCEPT ![r] = x] /\ pLock = None /\ pLock' = r /\ pServed' = None
        /\ UNCHANGED <<pPeer, pCache, pFailures, pRetryIn, pNewest, pFailed>>
    BY <1>0, <1>3 DEF Peer!Acquire
  <2>3. pFailures' \in 0 .. Len(Backoff) /\ pRetryIn' \in Nat
    BY <2>2 DEF Peer!TypeOK
  <2> HIDE DEF x
  <2> QED BY <1>1, <2>1, <2>2, <2>3
<1>4. CASE Peer!StockCall(r)
  <2> DEFINE x == [pReq[r] EXCEPT !.pc = "stock"]
  <2>1. x \in PeerThread /\ x.pc = "stock" /\ x.floor <= pNewest
    BY <1>0 DEF PeerThread, Peer!Steps
  <2>2. /\ pReq' = [pReq EXCEPT ![r] = x] /\ pLock' = pLock /\ pServed' = None
        /\ UNCHANGED <<pPeer, pCache, pFailures, pRetryIn, pNewest, pFailed>>
    BY <1>0, <1>4 DEF Peer!StockCall
  <2>3. pFailures' \in 0 .. Len(Backoff) /\ pRetryIn' \in Nat
    BY <2>2 DEF Peer!TypeOK
  <2> HIDE DEF x
  <2> QED BY <1>1, <2>1, <2>2, <2>3
<1>5. CASE Peer!StockAnswer(r) \/ Peer!StockFail(r)
  <2>1. /\ pReq' = [pReq EXCEPT ![r] = Peer!Idle] /\ pLock' = pLock /\ pServed' = None
        /\ UNCHANGED <<pPeer, pCache, pNewest, pFailed>>
    BY <1>5 DEF Peer!StockAnswer, Peer!StockFail, Peer!Raise
  <2>2. pFailures' \in 0 .. Len(Backoff) /\ pRetryIn' \in Nat
    BY <1>5, PeerCircuit DEF Peer!StockAnswer, Peer!StockFail, Peer!TypeOK
  <2>3. Peer!Idle.floor <= pNewest
    BY <1>0
  <2> QED BY <1>0, <1>1, <2>1, <2>2, <2>3
<1>6. CASE Peer!EnterBusy(r) /\ ~Peer!Usable(pCache)
  <2> DEFINE x == [Peer!Idle EXCEPT !.pc = "waiting", !.floor = pNewest]
  <2>0. "waiting" \in Peer!Steps
    BY DEF Peer!Steps
  <2>1. x \in PeerThread /\ x.pc = "waiting" /\ x.floor = pNewest
    <3> DEFINE i == Peer!Idle
    <3>1. i \in PeerThread
      BY <1>0
    <3>2. x = [i EXCEPT !.pc = "waiting", !.floor = pNewest]
      OBVIOUS
    <3> HIDE DEF i, x
    <3> QED BY <1>0, <2>0, <3>1, <3>2 DEF PeerThread
  <2>4. x.floor <= pNewest
    BY <1>0, <2>1
  <2>2. /\ pReq' = [pReq EXCEPT ![r] = x] /\ pLock' = pLock /\ pServed' = None
        /\ UNCHANGED <<pPeer, pCache, pFailures, pRetryIn, pNewest, pFailed>>
    BY <1>6 DEF Peer!EnterBusy
  <2>3. pFailures' \in 0 .. Len(Backoff) /\ pRetryIn' \in Nat
    BY <2>2 DEF Peer!TypeOK
  <2> HIDE DEF x
  <2> QED BY <1>1, <2>1, <2>2, <2>3, <2>4
<1>7. CASE Peer!EnterBusy(r) /\ Peer!Usable(pCache)
  <2>1. /\ pCache \in PeerSnapshot /\ pCache.age <= StaleSeconds /\ pNewest <= pCache.ver
        /\ pCache.ver <= Peer!Version /\ pCache # None
    BY <1>7 DEF Peer!Usable, Peer!TypeOK, PeerSnapshot, PeerOrdered
  <2>2. pCache.ver \in 1 .. MaxPeerVersion /\ pNewest \in 0 .. MaxPeerVersion
    BY <1>0, <2>1 DEF PeerSnapshot
  <2>3. /\ pNewest' = pCache.ver /\ UNCHANGED <<pPeer, pLock, pCache, pFailures, pRetryIn, pReq, pFailed>>
        /\ pServed' = [ver |-> pCache.ver, live |-> pCache.live, age |-> pCache.age,
                       stale |-> pCache.stale, floor |-> pNewest]
    BY <1>7, <2>1, <2>2 DEF Peer!EnterBusy
  <2>4. Peer!TypeOK'
    BY <1>0, <2>1, <2>3 DEF Peer!TypeOK, PeerSnapshot
  <2>5. PeerHolding' /\ PeerMarked'
    BY <2>3 DEF PeerHolding, PeerMarked
  <2>6. \A q \in Requests : pReq[q].floor \in Nat /\ pReq[q].floor <= pCache.ver
    BY <1>0, <2>1, <2>2 DEF PeerOrdered, PeerThread
  <2>7. PeerOrdered'
    BY <2>1, <2>2, <2>3, <2>6 DEF PeerOrdered, Peer!Version
  <2>8. pServed'.ver >= pServed'.floor /\ pServed'.age = pCache.age /\ pServed'.stale = pCache.stale
    BY <2>1, <2>2, <2>3
  <2>9. PeerAnswersHonest'
    BY <1>7, <2>1, <2>3, <2>8 DEF PeerAnswersHonest, Peer!ServedRecent, Peer!ReusedIsMarked, Peer!MonotonicReads, PeerMarked,
        Peer!EnterBusy, Peer!Busy
  <2> QED BY <2>4, <2>5, <2>7, <2>9
<1> QED BY <1>2, <1>3, <1>4, <1>5, <1>6, <1>7

\* The peer's side of a fetch: the version it answers with is its newest.
LEMMA PeerFetches ==
    ASSUME Peer!PeerAssumption, PeerInv, NEW r \in Requests, Peer!PeerAnswers(r) \/ Peer!PeerReadsSession(r)
    PROVE  PeerInv'
<1> USE DEF PeerInv
<1>0. /\ pReq \in [Requests -> PeerThread] /\ pNewest \in 0 .. MaxPeerVersion /\ pLock = r
      /\ Peer!Version \in 1 .. MaxPeerVersion /\ Peer!Live \in BOOLEAN
  BY DEF Peer!TypeOK, PeerThread, Peer!Version, Peer!Live, Peer!PeerAnswers, Peer!PeerReadsSession, PeerHolding
<1>1. CASE Peer!PeerAnswers(r)
  <2>1. \/ pReq[r].ver = Peer!Version /\ pReq' = [pReq EXCEPT ![r].pc = "unchanged"]
        \/ pReq' = [pReq EXCEPT ![r].pc = "answered", ![r].ver = Peer!Version, ![r].live = Peer!Live]
    BY <1>1 DEF Peer!PeerAnswers
  <2>2. /\ pReq' \in [Requests -> PeerThread]
        /\ pReq'[r].pc \in {"unchanged", "answered"} /\ pReq'[r].ver = Peer!Version /\ pReq'[r].floor = pReq[r].floor
        /\ \A q \in Requests : q # r => pReq'[q] = pReq[q]
    BY <1>0, <2>1 DEF PeerThread, Peer!Steps
  <2>3. UNCHANGED <<pPeer, pLock, pCache, pFailures, pRetryIn, pNewest, pFailed>> /\ pServed' = None
    BY <1>1 DEF Peer!PeerAnswers
  <2>4. Peer!TypeOK'
    BY <2>2, <2>3 DEF Peer!TypeOK, PeerThread
  <2>5. PeerHolding'
    BY <1>0, <2>2, <2>3 DEF PeerHolding, Peer!PeerAssumption
  <2>6. PeerOrdered'
    BY <1>0, <2>2, <2>3 DEF PeerOrdered, Peer!Version
  <2>7. PeerMarked' /\ PeerAnswersHonest'
    BY <2>3 DEF PeerMarked, PeerAnswersHonest, Peer!ServedRecent,
           Peer!ReusedIsMarked, Peer!MonotonicReads
  <2> QED BY <2>4, <2>5, <2>6, <2>7
<1>2. CASE Peer!PeerReadsSession(r)
  <2>1. pReq' \in [Requests -> PeerThread]
    BY <1>0, <1>2 DEF Peer!PeerReadsSession, PeerThread, Peer!Steps
  <2>2. Peer!TypeOK'
    BY <1>2, <2>1 DEF Peer!PeerReadsSession, Peer!TypeOK, PeerThread
  <2>3. PeerHolding' /\ PeerOrdered' /\ PeerMarked' /\ PeerAnswersHonest'
    BY <1>0, <1>2 DEF Peer!PeerReadsSession, PeerHolding, PeerOrdered, PeerMarked, PeerAnswersHonest, Peer!ServedRecent,
        Peer!ReusedIsMarked, Peer!MonotonicReads, PeerThread, Peer!Version
  <2> QED BY <2>2, <2>3
<1> QED BY <1>1, <1>2

\* The steps that end a fetch, or end before it: with the cached snapshot, a new one or none.
LEMMA PeerEnds ==
    ASSUME Peer!PeerAssumption, PeerInv, NEW r \in Requests, Peer!Decide(r) \/ Peer!Receive(r) \/ Peer!Fail(r)
    PROVE  PeerInv'
<1> USE DEF PeerInv
<1>0. /\ pReq \in [Requests -> PeerThread] /\ pReq[r] \in PeerThread /\ pNewest \in 0 .. MaxPeerVersion
      /\ pLock = r /\ \A q \in Requests \ {r} : pReq[q].pc \in {"idle", "waiting", "stock"}
      /\ pCache # None => pCache \in PeerSnapshot
  <2>1. pReq \in [Requests -> PeerThread] /\ pLock = r /\ pNewest \in 0 .. MaxPeerVersion
    BY DEF Peer!TypeOK, PeerThread, Peer!Decide, Peer!Receive, Peer!Fail, PeerHolding
  <2>2. \A q \in Requests \ {r} : pReq[q].pc \in {"idle", "waiting", "stock"}
    BY <2>1 DEF PeerHolding, PeerThread, Peer!Steps
  <2> QED BY <2>1, <2>2 DEF Peer!TypeOK, PeerSnapshot
<1>1. ASSUME NEW c \in PeerSnapshot, Peer!Answer(r, c), pCache' = c, pNewest <= c.ver, c.ver <= Peer!Version,
             pLock' = None, pPeer' = pPeer, c.age <= StaleSeconds,
             pFailures' \in 0 .. Len(Backoff), pRetryIn' \in Nat, pFailed' \in BOOLEAN,
             pFailed' => c.stale, c.stale \/ c.age <= NoCache
      PROVE  PeerInv'
  <2>1. /\ pNewest' = c.ver /\ pNewest' \in 0 .. MaxPeerVersion
        /\ pReq' = [pReq EXCEPT ![r] = Peer!Idle] /\ pReq' \in [Requests -> PeerThread]
        /\ pServed' \in [ver : 1 .. MaxPeerVersion, live : BOOLEAN, age : 0 .. StaleSeconds + 1,
                         stale : BOOLEAN, floor : 0 .. MaxPeerVersion]
        /\ pServed'.ver >= pServed'.floor /\ pServed'.age = c.age /\ pServed'.stale = c.stale
    BY <1>1, PeerAnswerFacts
  <2>2. Peer!TypeOK'
    BY <1>1, <2>1 DEF Peer!TypeOK, PeerSnapshot, PeerThread
  <2>3. \A q \in Requests : /\ pReq'[q].pc \in {"idle", "waiting", "stock"}
                            /\ pReq'[q].floor \in Nat /\ pReq'[q].floor <= pNewest'
    BY <1>0, <1>1, <2>1 DEF Peer!Idle, PeerOrdered, PeerThread, PeerSnapshot
  <2>4. PeerHolding' /\ PeerOrdered'
    BY <1>1, <2>1, <2>3 DEF PeerHolding, PeerOrdered, Peer!Version, PeerSnapshot
  <2>5. PeerMarked' /\ PeerAnswersHonest'
    BY <1>1, <2>1 DEF PeerMarked, PeerAnswersHonest, Peer!ServedRecent,
           Peer!ReusedIsMarked, Peer!MonotonicReads, PeerSnapshot
  <2> QED BY <2>2, <2>4, <2>5
<1>2. ASSUME Peer!Raise(r), pCache' \in {pCache, None}, pLock' = None, pPeer' = pPeer,
             pFailures' \in 0 .. Len(Backoff), pRetryIn' \in Nat, pFailed' \in BOOLEAN,
             pFailed' => pFailed \/ pCache' = None
      PROVE  PeerInv'
  <2>1. pReq' = [pReq EXCEPT ![r] = Peer!Idle] /\ pReq' \in [Requests -> PeerThread] /\ pServed' = None /\ pNewest' = pNewest
    BY <1>0, <1>2 DEF Peer!Raise, Peer!Idle, PeerThread, Peer!Steps, Peer!PeerAssumption
  <2>2. Peer!TypeOK'
    BY <1>2, <2>1 DEF Peer!TypeOK, PeerThread
  <2>3. PeerHolding' /\ PeerOrdered' /\ PeerMarked' /\ PeerAnswersHonest'
    BY <1>0, <1>2, <2>1 DEF PeerHolding, PeerOrdered, PeerMarked, PeerAnswersHonest, Peer!ServedRecent,
           Peer!ReusedIsMarked, Peer!MonotonicReads, Peer!Idle, PeerThread, Peer!Version, Peer!TypeOK
  <2> QED BY <2>2, <2>3
<1>3. CASE Peer!Decide(r)
  <2>1. pFailures' = pFailures /\ pRetryIn' = pRetryIn /\ pFailed' = pFailed /\ pPeer' = pPeer
    BY <1>3 DEF Peer!Decide
  <2>2. pFailures' \in 0 .. Len(Backoff) /\ pRetryIn' \in Nat /\ pFailed' \in BOOLEAN
    BY <2>1 DEF Peer!TypeOK
  <2>3. CASE pCache # None /\ ~pCache.stale /\ pCache.age <= NoCache
    <3>1. Peer!Answer(r, pCache) /\ pLock' = None /\ pCache' = pCache
      BY <1>3, <2>3 DEF Peer!Decide
    <3>2. pCache \in PeerSnapshot /\ pNewest <= pCache.ver /\ pCache.ver <= Peer!Version /\ pCache.age <= StaleSeconds
      BY <1>0, <2>3 DEF PeerOrdered, PeerSnapshot, Peer!PeerAssumption
    <3>3. pFailed' => pCache.stale
      BY <2>1, <2>3 DEF PeerMarked
    <3> QED BY <1>1, <2>1, <2>2, <2>3, <3>1, <3>2, <3>3
  <2>4. CASE ~(pCache # None /\ ~pCache.stale /\ pCache.age <= NoCache) /\ pRetryIn > 0 /\ Peer!Usable(pCache)
    <3> DEFINE c == [pCache EXCEPT !.stale = TRUE]
    <3>1. Peer!Answer(r, c) /\ pLock' = None /\ pCache' = c
      BY <1>3, <2>4 DEF Peer!Decide
    <3>2. c \in PeerSnapshot /\ pNewest <= c.ver /\ c.ver <= Peer!Version /\ c.age <= StaleSeconds /\ c.stale
      BY <1>0, <2>4 DEF PeerOrdered, PeerSnapshot, Peer!Usable
    <3> HIDE DEF c
    <3> QED BY <1>1, <2>1, <2>2, <3>1, <3>2
  <2>5. CASE ~(pCache # None /\ ~pCache.stale /\ pCache.age <= NoCache) /\ pRetryIn > 0 /\ ~Peer!Usable(pCache)
    <3>1. Peer!Raise(r) /\ pLock' = None /\ pCache' = pCache
      BY <1>3, <2>5 DEF Peer!Decide
    <3> QED BY <1>2, <2>1, <2>2, <3>1
  <2>6. CASE ~(pCache # None /\ ~pCache.stale /\ pCache.age <= NoCache) /\ pRetryIn = 0
    <3>1. /\ pReq' = [pReq EXCEPT ![r].pc = "sent", ![r].ver = IF pCache = None THEN None ELSE pCache.ver]
          /\ pServed' = None /\ UNCHANGED <<pLock, pCache, pNewest>>
      BY <1>3, <2>6 DEF Peer!Decide
    <3>2. pReq' \in [Requests -> PeerThread]
      BY <1>0, <3>1 DEF PeerThread, Peer!Steps, PeerSnapshot
    <3>3. Peer!TypeOK'
      BY <2>1, <3>1, <3>2 DEF Peer!TypeOK, PeerThread
    <3>4. /\ \A q \in Requests : pReq'[q].floor = pReq[q].floor
          /\ \A q \in Requests : q # r => pReq'[q] = pReq[q]
          /\ pReq'[r].pc = "sent"
      BY <1>0, <3>1 DEF PeerThread
    <3>5. PeerHolding' /\ PeerOrdered' /\ PeerMarked' /\ PeerAnswersHonest'
      BY <1>0, <2>1, <3>1, <3>4 DEF PeerHolding, PeerOrdered, PeerMarked, PeerAnswersHonest, Peer!ServedRecent,
        Peer!ReusedIsMarked, Peer!MonotonicReads, Peer!Version
    <3> QED BY <3>3, <3>5
  <2>7. pRetryIn \in Nat
    BY DEF Peer!TypeOK
  <2> QED BY <2>3, <2>4, <2>5, <2>6, <2>7
<1>4. CASE Peer!Receive(r)
  <2> DEFINE c == [ver |-> pReq[r].ver, live |-> pReq[r].live, age |-> 0, stale |-> FALSE]
  <2>1. /\ Peer!Answer(r, c) /\ pCache' = c /\ pLock' = None /\ pPeer' = pPeer
        /\ pFailures' = 0 /\ pRetryIn' = 0 /\ pFailed' = FALSE
    BY <1>4 DEF Peer!Receive
  <2>2. c \in PeerSnapshot
    BY <1>0, <1>4 DEF Peer!Receive, PeerHolding, PeerThread, PeerSnapshot, Peer!PeerAssumption
  <2>3. pNewest <= c.ver /\ c.ver <= Peer!Version /\ c.age <= StaleSeconds /\ c.age <= NoCache
    BY <1>4 DEF Peer!Receive, PeerOrdered, Peer!PeerAssumption
  <2>4. 0 \in 0 .. Len(Backoff) /\ 0 \in Nat
    BY PeerDelays
  <2> HIDE DEF c
  <2> QED BY <1>1, <2>1, <2>2, <2>3, <2>4
<1>5. CASE Peer!Fail(r)
  <2>1. pFailures' \in 0 .. Len(Backoff) /\ pRetryIn' \in Nat /\ pFailed' = TRUE /\ pPeer' = pPeer /\ pLock' = None
    BY <1>5, PeerCircuit DEF Peer!Fail, Peer!TypeOK
  <2>2. CASE Peer!Usable(pCache)
    <3> DEFINE c == [pCache EXCEPT !.stale = TRUE]
    <3>1. Peer!Answer(r, c) /\ pCache' = c
      BY <1>5, <2>2 DEF Peer!Fail, Peer!FallBack
    <3>2. c \in PeerSnapshot /\ pNewest <= c.ver /\ c.ver <= Peer!Version /\ c.age <= StaleSeconds /\ c.stale
      BY <1>0, <2>2 DEF PeerOrdered, PeerSnapshot, Peer!Usable
    <3> HIDE DEF c
    <3> QED BY <1>1, <2>1, <3>1, <3>2
  <2>3. CASE ~Peer!Usable(pCache)
    <3>1. Peer!Raise(r) /\ pCache' = None
      BY <1>5, <2>3 DEF Peer!Fail, Peer!FallBack
    <3> QED BY <1>2, <2>1, <3>1
  <2> QED BY <2>2, <2>3
<1> QED BY <1>3, <1>4, <1>5

LEMMA PeerSteady == ASSUME Peer!PeerAssumption, PeerInv, [Peer!Next]_(Peer!vars) PROVE PeerInv'
<1>1. CASE UNCHANGED Peer!vars
  BY <1>1 DEF Peer!vars, PeerInv, Peer!TypeOK, PeerHolding, PeerOrdered, PeerMarked, PeerAnswersHonest, Peer!ServedRecent,
           Peer!ReusedIsMarked, Peer!MonotonicReads, Peer!Version
<1>2. CASE Peer!Second \/ Peer!PeerMoves \/ Peer!Forget
  BY <1>2, PeerSurroundings
<1>3. ASSUME NEW r \in Requests, Peer!Request(r) PROVE PeerInv'
  BY <1>3, PeerWaits, PeerFetches, PeerEnds DEF Peer!Request, Peer!Proceed
<1> QED BY <1>1, <1>2, <1>3 DEF Peer!Next

\* A later request of a node never sees an older version of a peer than an earlier one, an
\* answer is never older than stale_seconds, and what is reused after a failure or beyond
\* cache_seconds says so: for any number of request threads, any schedule and limits, and
\* whatever order answers, failures and forget() come in (aggregate.PeerClient).
THEOREM ReadsHonest ==
    ASSUME Peer!PeerAssumption
    PROVE  Peer!Spec => [](Peer!TypeOK /\ Peer!MonotonicReads /\ Peer!ServedRecent /\ Peer!ReusedIsMarked)
<1>1. Peer!Init => PeerInv
  BY PeerStarts
<1>2. PeerInv /\ [Peer!Next]_(Peer!vars) => PeerInv'
  BY PeerSteady
<1>3. PeerInv => Peer!TypeOK /\ Peer!MonotonicReads /\ Peer!ServedRecent /\ Peer!ReusedIsMarked
  BY DEF PeerInv, PeerAnswersHonest
<1> QED BY <1>1, <1>2, <1>3, PTL DEF Peer!Spec

\* A later request never gets an older version than an earlier one had got, neither from a
\* peer client's cache nor from the cached bodies (aggregate.PeerClient.snapshot,
\* api.LiveCoreService._cached).
THEOREM NothingGoesBackwards == Spec => []NeverBackwards
<1>1. Spec => []Peer!MonotonicReads
  <2>1. Peer!Spec => [](Peer!TypeOK /\ Peer!MonotonicReads /\ Peer!ServedRecent /\ Peer!ReusedIsMarked)
    BY InstanceAssumption, ReadsHonest
  <2> QED BY <2>1, PeerRuns, PTL
<1>2. Spec => []Render!MonotonicBodies
  <2>1. Render!Spec => [](Render!TypeOK /\ Render!FragmentExact /\ Render!BodyCoherent /\ Render!MonotonicBodies)
    BY InstanceAssumption, Render!BodiesHonest
  <2> QED BY <2>1, RenderRuns, PTL
<1> QED BY <1>1, <1>2, PTL DEF NeverBackwards

-----------------------------------------------------------------------------
(* The stocks' owners: a node's block and a stock's owner are computed by    *)
(* different formulas, for every universe and node count.                    *)

Pos == Nat \ {0}

\* Floor division of an integer by a positive one.
LEMMA FloorDivision ==
  ASSUME NEW a \in Int, NEW b \in Pos
  PROVE  /\ a \div b \in Int
         /\ b * (a \div b) <= a
         /\ a < b * (a \div b) + b
  BY SMT DEF Pos

\* Ceiling division, as partition_bounds writes it, is the least integer whose multiple
\* reaches the dividend.
LEMMA CeilingDivision ==
  ASSUME NEW a \in Int, NEW b \in Pos, NEW x \in Int
  PROVE  /\ -((-a) \div b) \in Int
         /\ (-((-a) \div b) <= x) <=> (a <= b * x)
  BY SMT DEF Pos

\* An index lies in a node's block exactly when the node's share of the universe, scaled by
\* the node count, brackets it.
LEMMA BlockOf ==
  ASSUME NEW size \in Pos, NEW count \in Pos, NEW n \in Int, NEW index \in Int
  PROVE  Views!owns_index(Views!partition_bounds(size, n, count), index)
            <=> (n * size <= count * index /\ count * index < (n + 1) * size)
<1>1. (-n) * size = -(n * size) /\ (-(n + 1)) * size = -((n + 1) * size)
  BY SMT DEF Pos
<1>2. n * size \in Int /\ (n + 1) * size \in Int
  BY SMT DEF Pos
<1>3. (-((-(n * size)) \div count) <= index) <=> (n * size <= count * index)
  BY <1>2, CeilingDivision
<1>4. /\ -((-((n + 1) * size)) \div count) \in Int
      /\ (-((-((n + 1) * size)) \div count) <= index) <=> ((n + 1) * size <= count * index)
  BY <1>2, CeilingDivision
<1>5. (index < -((-((n + 1) * size)) \div count)) <=> ~((n + 1) * size <= count * index)
  BY <1>4, SMT
<1>6. count * index \in Int
  BY SMT DEF Pos
<1>7. ~((n + 1) * size <= count * index) <=> count * index < (n + 1) * size
  BY <1>2, <1>6, SMT
<1> QED
  BY <1>1, <1>3, <1>5, <1>7 DEF Views!owns_index, Views!partition_bounds

\* owner_of_index names the node whose block holds the index, and no other node's block
\* holds it: a request for one stock is proxied to the node that has it, and every stock of
\* the universe is served by exactly one node, whatever the universe and the node count
\* (live_core.partition).
THEOREM OwnerOwns ==
  ASSUME NEW size \in Pos, NEW count \in Pos, NEW index \in 0..size-1
  PROVE  /\ Views!owner_of_index(size, count, index) \in 0..count-1
         /\ Views!owns_index(Views!partition_bounds(size, Views!owner_of_index(size, count, index), count), index)
         /\ \A n \in 0..count-1 : Views!owns_index(Views!partition_bounds(size, n, count), index)
                                    => n = Views!owner_of_index(size, count, index)
<1> DEFINE o == (index * count) \div size
<1>1. index \in Int /\ index * count \in Int /\ index * count = count * index
  BY SMT DEF Pos
<1>2. /\ o \in Int
      /\ size * o <= index * count
      /\ index * count < size * o + size
  BY <1>1, FloorDivision
<1>3. o * size <= count * index /\ count * index < (o + 1) * size
  BY <1>1, <1>2, SMT DEF Pos
<1>4. 0 <= count * index /\ count * index < size * count
  BY SMT DEF Pos
<1> HIDE DEF o
<1>5. o >= 0
  <2>1. SUFFICES ASSUME o <= -1 PROVE FALSE
    BY <1>2, SMT
  <2>2. (o + 1) * size <= 0
    BY <1>2, <2>1, SMT DEF Pos
  <2> QED
    BY <1>1, <1>2, <1>3, <1>4, <2>2, SMT DEF Pos
<1>6. o < count
  <2>1. SUFFICES ASSUME o >= count PROVE FALSE
    BY <1>2, SMT DEF Pos
  <2>2. o * size >= count * size
    BY <1>2, <2>1, SMT DEF Pos
  <2> QED
    BY <1>1, <1>2, <1>3, <1>4, <2>2, SMT DEF Pos
<1>7. Views!owns_index(Views!partition_bounds(size, o, count), index)
  BY <1>1, <1>2, <1>3, BlockOf
<1>8. ASSUME NEW n \in 0..count-1, Views!owns_index(Views!partition_bounds(size, n, count), index)
      PROVE  n = o
  <2>0. n \in Int
    BY SMT DEF Pos
  <2>1. n * size <= count * index /\ count * index < (n + 1) * size
    BY <1>1, <1>8, <2>0, BlockOf
  <2>2. n \in Int /\ n * size < (o + 1) * size /\ o * size < (n + 1) * size
    BY <1>1, <1>2, <1>3, <2>1, SMT DEF Pos
  <2>3. n < o + 1
    BY <1>2, <2>2, SMT DEF Pos
  <2>4. o < n + 1
    BY <1>2, <2>2, SMT DEF Pos
  <2> QED
    BY <1>2, <2>2, <2>3, <2>4, SMT
<1> QED
  BY <1>2, <1>5, <1>6, <1>7, <1>8 DEF Views!owner_of_index, o, Pos

LEMMA ViewsRun == Spec => Views!Spec
<1>1. Init => Views!Init
  BY DEF Init
<1>2. [Next]_vars => [Views!Next]_(Views!vars)
  BY DEF Next, vars, vVars, PeerOnly, RenderOnly, HealthOnly, ViewsOnly, IndexOnly, Views!vars,
         Views!pvars
<1> QED BY <1>1, <1>2, PTL DEF Spec, Views!Spec

\* One stock's request: it is at this node, or also at the owner it was passed on to.
Passed ==
    vStock # None =>
        /\ vStock \in [index : 0 .. Universe - 1, via : SUBSET Views!Nodes, local : BOOLEAN,
                       status : {"OK", "NOT_FOUND", "NOT_OWNER", "NODE_UNAVAILABLE", None}]
        /\ 0 \in vStock.via
        /\ vStock.status # None =>
            /\ vStock.status = "NOT_OWNER" => vStock.local
            /\ vStock.status \in {"OK", "NOT_FOUND"} =>
                 \E n \in vStock.via : Views!owns_index(Views!Block(n), vStock.index)

LEMMA PassedOn == Passed /\ [Views!Next]_(Views!vars) => Passed'
<1> SUFFICES ASSUME Passed, [Views!Next]_(Views!vars) PROVE Passed'
  OBVIOUS
<1>1. ASSUME NEW i \in 0 .. Universe - 1, NEW local_only \in BOOLEAN, Views!Stock(i, local_only)
      PROVE  Passed'
  <2> DEFINE owner == Views!owner_of_index(Universe, Count, i)
             own == Views!owns_index(Views!Block(0), i)
             st == CASE own -> Views!stock_body(0, i)
                     [] ~own /\ local_only -> "NOT_OWNER"
                     [] ~own /\ ~local_only /\ owner \notin Configured -> "NODE_UNAVAILABLE"
                     [] OTHER -> None
  <2>1. vStock' = [index |-> i, via |-> {0}, local |-> local_only, status |-> st]
    BY <1>1 DEF Views!Stock
  <2>0. st \in {"OK", "NOT_FOUND", "NOT_OWNER", "NODE_UNAVAILABLE", None}
    BY DEF Views!stock_body
  <2>2. st \in {"OK", "NOT_FOUND"} => own \/ st = None
    BY DEF Views!stock_body
  <2>3. st = "NOT_OWNER" => local_only \/ st = None
    BY DEF Views!stock_body
  <2>4. {0} \subseteq Views!Nodes
    BY InstanceAssumption DEF Views!ViewsAssumption, Views!Nodes
  <2> HIDE DEF st
  <2>5. vStock' \in [index : 0 .. Universe - 1, via : SUBSET Views!Nodes, local : BOOLEAN,
                     status : {"OK", "NOT_FOUND", "NOT_OWNER", "NODE_UNAVAILABLE", None}]
    BY <2>0, <2>1, <2>4, Zenon
  <2>6. /\ vStock'.via = {0} /\ vStock'.index = i /\ vStock'.local = local_only /\ vStock'.status = st
        /\ (Views!Block(0))' = Views!Block(0)
    BY <2>1 DEF Views!Block
  <2> QED BY <2>2, <2>3, <2>5, <2>6 DEF Passed
<1>2. CASE Views!StockProxy
  <2> DEFINE owner == Views!owner_of_index(Universe, Count, vStock.index)
             own == Views!owns_index(Views!Block(owner), vStock.index)
             st == IF vNode[owner] = Down THEN "NODE_UNAVAILABLE"
                   ELSE IF own THEN Views!stock_body(owner, vStock.index) ELSE "NOT_OWNER"
  <2>1. /\ vStock # None /\ vStock.index \in 0 .. Universe - 1 /\ 0 \in vStock.via
        /\ vStock \in [index : 0 .. Universe - 1, via : SUBSET Views!Nodes, local : BOOLEAN,
                       status : {"OK", "NOT_FOUND", "NOT_OWNER", "NODE_UNAVAILABLE", None}]
        /\ vStock' = [vStock EXCEPT !.via = vStock.via \cup {owner}, !.status = st]
    BY <1>2 DEF Views!StockProxy, Passed
  <2>2. own /\ owner \in Views!Nodes
    BY <2>1, InstanceAssumption, OwnerOwns DEF Views!ViewsAssumption, Views!Block, Pos, Views!Nodes
  <2>3. st # "NOT_OWNER"
    BY <2>2 DEF Views!stock_body
  <2>4. st \in {"OK", "NOT_FOUND", "NODE_UNAVAILABLE"}
    BY <2>2 DEF Views!stock_body
  <2> HIDE DEF st, own, owner
  <2>5. /\ vStock' \in [index : 0 .. Universe - 1, via : SUBSET Views!Nodes, local : BOOLEAN,
                        status : {"OK", "NOT_FOUND", "NOT_OWNER", "NODE_UNAVAILABLE", None}]
        /\ vStock'.via = vStock.via \cup {owner} /\ vStock'.status = st
        /\ vStock'.index = vStock.index /\ vStock'.local = vStock.local
    BY <2>1, <2>2, <2>4
  <2>6. Views!owns_index(Views!Block(owner), vStock'.index)
    BY <2>2, <2>5 DEF own
  <2> QED BY <2>1, <2>3, <2>5, <2>6 DEF Passed, Views!Block
<1>3. CASE UNCHANGED vStock
  BY <1>3 DEF Passed, Views!Block
<1>4. CASE Views!StockSent
  BY <1>4 DEF Passed, Views!StockSent
<1> QED BY <1>1, <1>2, <1>3, <1>4 DEF Views!Next, Views!vars, Views!Change, Views!Collect,
              Views!CollectPiece, Views!Body, Views!_probe_peers, Views!Second

\* What a peer client serves is at most stale_seconds old and says so when it is reused; what
\* a node renders is its content at exactly one version, encoded as from scratch; and a request
\* for a stock ends at the stock's owner after at most one hop, whatever the universe and the
\* number of nodes (aggregate.PeerClient, render.snapshot, api.LiveCoreService.stock).
THEOREM AnswersAreCurrent == Spec => []AnswersCurrent
<1>1. Spec => [](Peer!ServedRecent /\ Peer!ReusedIsMarked)
  <2>1. Peer!Spec => [](Peer!TypeOK /\ Peer!MonotonicReads /\ Peer!ServedRecent /\ Peer!ReusedIsMarked)
    BY InstanceAssumption, ReadsHonest
  <2> QED BY <2>1, PeerRuns, PTL
<1>2. Spec => [](Render!FragmentExact /\ Render!BodyCoherent)
  <2>1. Render!Spec => [](Render!TypeOK /\ Render!FragmentExact /\ Render!BodyCoherent /\ Render!MonotonicBodies)
    BY InstanceAssumption, Render!BodiesHonest
  <2> QED BY <2>1, RenderRuns, PTL
<1>3. Spec => []Views!OneHop
  <2>1. Views!Init => Passed
    BY DEF Views!Init, Passed
  <2>2. Passed => Views!OneHop
    BY DEF Passed, Views!OneHop
  <2> QED BY <2>1, <2>2, PassedOn, ViewsRun, PTL DEF Views!Spec
<1> QED BY <1>1, <1>2, <1>3, PTL DEF AnswersCurrent

-----------------------------------------------------------------------------
(* The index node.                                                           *)

IndexRow ==
    [date : Nat \cup {None}, candles : Nat \cup {None}, held : Nat, previous : Nat \cup {None},
     major : Nat \cup {None}, updated : Nat \cup {None}, error : BOOLEAN]
ReadRow == [date : Nat \cup {None}, candles : Nat \cup {None}, held : Nat, major : Nat \cup {None}]

\* The types, the last poll's minute, and what a settled node was early for.
DayTyped ==
    /\ iDay \in 1 .. LastDay /\ iT \in 0 .. Node!Evening /\ iQueue \subseteq Node!Indices
    /\ iFaults \in 0 .. MaxFaults /\ iLate \in Nat
    /\ iEarly \in BOOLEAN /\ iSettings \in BOOLEAN /\ (iEarly => iSettings)
    /\ iIndex \in [Node!Indices -> IndexRow]
    /\ i_last_candle_minute \in (Nat \X Nat) \cup {None}
    /\ i_last_candle_minute # None =>
         \/ i_last_candle_minute[1] < iDay
         \/ i_last_candle_minute[1] = iDay /\ i_last_candle_minute[2] <= iT

\* What one index holds on day d in minute m belongs to one day, and not to the future.
RowOK(s, d, m) ==
    /\ s.candles # None => s.candles = s.date
    /\ s.previous # None => s.previous = s.date - 1
    /\ s.major # None => s.major = s.date - 1
    /\ s.date = None => s.held = 0
    /\ s.date # None => s.date <= d
    /\ s.held <= Close /\ (s.date = d => s.held <= m)
RowsOK == \A i \in Node!Indices : RowOK(iIndex[i], iDay, iT)

\* Every minute from the close on is one poll of every index, or at least one fault: so the
\* whole session is there as soon as the faults are fewer than the minutes.
Whole(i) == iIndex[i].candles = iDay /\ iIndex[i].held = Close
Counted ==
    iEarly /\ iT >= Close =>
        \/ \A i \in Node!Indices : Whole(i)
        \/ iLate >= iT - Close + 1
        \/ /\ iLate >= iT - Close
           /\ i_last_candle_minute = <<iDay, iT>> => \A i \in Node!Indices \ iQueue : Whole(i)

\* The candles read for /public/all.json are no newer than those held since.
NotNewer(e, s) ==
    /\ e.date = None => e.held = 0
    /\ e.date # None => s.date # None /\ s.date >= e.date /\ (s.date = e.date => s.held >= e.held)
ReplyTyped ==
    iReply # None =>
        /\ iReply \in [live : Seq(ReadRow), levels : Seq(ReadRow)]
        /\ Len(iReply.live) <= IndexCount
        /\ Len(iReply.levels) <= Len(iReply.live)
        /\ \A i \in DOMAIN iReply.live : NotNewer(iReply.live[i], iIndex[i])

DayInv == DayTyped /\ RowsOK /\ Counted /\ ReplyTyped /\ Node!LevelsFollowCandles


LEMMA IndexConstants ==
    /\ IndexCount \in Nat /\ Close \in Nat /\ Close > 0 /\ PollMinutes \in Nat
    /\ LastDay \in Nat /\ MaxFaults \in Nat /\ None \notin Int /\ None \notin Nat \X Nat
    /\ Node!PollUntil = Close + PollMinutes /\ Node!Evening = Close + PollMinutes + 1
    /\ Node!Indices = 1 .. IndexCount
BY InstanceAssumption DEF Node!IndexAssumption, Node!PollUntil, Node!Evening, Node!Indices

LEMMA IndexStarts == Node!Init => DayInv
<1> SUFFICES ASSUME Node!Init PROVE DayInv
  OBVIOUS
<1>1. /\ iDay = 1 /\ iT = 0 /\ iSettings = FALSE /\ i_last_candle_minute = None /\ iQueue = {}
      /\ iFaults = 0 /\ iLate = 0 /\ iEarly = FALSE /\ iReply = None
      /\ iIndex = [i \in Node!Indices |->
                     [date |-> None, candles |-> None, held |-> 0, previous |-> None, major |-> None,
                      updated |-> None, error |-> FALSE]]
  BY DEF Node!Init, Node!Blank
<1>2. DayTyped
  <2>1. iIndex \in [Node!Indices -> IndexRow]
    BY <1>1 DEF IndexRow
  <2>2. 1 \in 1 .. LastDay
    BY InstanceAssumption DEF Node!IndexAssumption
  <2>3. iEarly \in BOOLEAN /\ iSettings \in BOOLEAN /\ (iEarly => iSettings)
    BY <1>1, Zenon
  <2>4. /\ iDay \in 1 .. LastDay /\ iT \in 0 .. Node!Evening /\ iQueue \subseteq Node!Indices
        /\ iFaults \in 0 .. MaxFaults /\ iLate \in Nat
    BY <1>1, <2>2, IndexConstants
  <2> QED BY <1>1, <2>1, <2>3, <2>4 DEF DayTyped
<1>3. RowsOK /\ Counted /\ ReplyTyped /\ Node!LevelsFollowCandles
  BY <1>1, IndexConstants DEF RowsOK, RowOK, Counted, ReplyTyped, Node!LevelsFollowCandles
<1> QED BY <1>2, <1>3 DEF DayInv

\* What the index rows of the next state owe to those of this one, for the read candles.
LEMMA ReadKept ==
    ASSUME DayInv, iReply' = iReply,
           \A i \in Node!Indices : NotNewer(iIndex[i], iIndex'[i]),
           iIndex' \in [Node!Indices -> IndexRow]
    PROVE  ReplyTyped' /\ Node!LevelsFollowCandles'
<1>1. Node!LevelsFollowCandles'
  BY DEF DayInv, Node!LevelsFollowCandles
<1>2. ASSUME iReply # None, NEW i \in DOMAIN iReply.live PROVE NotNewer(iReply.live[i], iIndex'[i])
  <2>1. /\ NotNewer(iReply.live[i], iIndex[i]) /\ i \in Node!Indices
        /\ iReply.live[i] \in ReadRow /\ iIndex[i] \in IndexRow
    BY <1>2, IndexConstants DEF DayInv, DayTyped, ReplyTyped
  <2>2. NotNewer(iIndex[i], iIndex'[i]) /\ iIndex'[i] \in IndexRow
    BY <2>1
  <2> DEFINE a == iReply.live[i]
             b == iIndex[i]
             c == iIndex'[i]
  <2> HIDE DEF a, b, c
  <2>3. NotNewer(a, b) /\ NotNewer(b, c) /\ a \in ReadRow /\ b \in IndexRow /\ c \in IndexRow
    BY <2>1, <2>2 DEF a, b, c
  <2>4. NotNewer(a, c)
    BY <2>3, IndexConstants DEF NotNewer, ReadRow, IndexRow
  <2> QED BY <2>4 DEF a, c
<1>3. ReplyTyped'
  BY <1>2 DEF DayInv, ReplyTyped
<1> QED BY <1>1, <1>3

\* The same rows are no newer than themselves.
LEMMA SameRows ==
    ASSUME DayInv, iIndex' = iIndex
    PROVE  iIndex' \in [Node!Indices -> IndexRow]
           /\ \A i \in Node!Indices : NotNewer(iIndex[i], iIndex'[i])
<1>1. ASSUME NEW i \in Node!Indices PROVE NotNewer(iIndex[i], iIndex[i])
  <2>1. iIndex[i] \in IndexRow /\ (iIndex[i].date = None => iIndex[i].held = 0)
    BY DEF DayInv, DayTyped, RowsOK, RowOK
  <2> QED BY <2>1, IndexConstants DEF NotNewer, IndexRow
<1> QED BY <1>1 DEF DayInv, DayTyped

\* Tokens come and go, a poll begins.
LEMMA TokenAndLoop ==
    ASSUME DayInv, Node!_ensure_started \/ Node!_poll_token \/ Node!_loop
    PROVE  DayInv'
<1>0. DayTyped /\ RowsOK /\ Counted
  BY DEF DayInv
<1>1. /\ iDay' = iDay /\ iT' = iT /\ iIndex' = iIndex /\ iReply' = iReply
  BY DEF Node!_ensure_started, Node!_poll_token, Node!_loop
<1>2. /\ iLate' \in Nat /\ iLate' >= iLate /\ iFaults' \in 0 .. MaxFaults
  <2>1. \/ iLate' = iLate /\ iFaults' = iFaults
        \/ (iLate' = iLate \/ iLate' = iLate + 1) /\ iFaults' = iFaults + 1 /\ iFaults < MaxFaults
    BY DEF Node!_ensure_started, Node!_poll_token, Node!_loop, Node!Fault, Node!NoFault
  <2> QED BY <1>0, <2>1, IndexConstants DEF DayTyped
<1>3. /\ iSettings' \in BOOLEAN /\ iEarly' \in BOOLEAN /\ (iEarly' => iSettings')
      /\ iEarly' /\ iT >= Close => iEarly
  <2>1. CASE iSettings' = iSettings /\ iEarly' = iEarly
    BY <1>0, <2>1, Zenon DEF DayTyped
  <2>2. CASE iSettings' = TRUE /\ iEarly' = (iT < Close)
    <3>1. iEarly' \in BOOLEAN
      BY <2>2
    <3>2. iEarly' /\ iT >= Close => iEarly
      BY <1>0, <2>2, IndexConstants DEF DayTyped
    <3> QED BY <2>2, <3>1, <3>2
  <2> QED BY <2>1, <2>2 DEF Node!_ensure_started, Node!_poll_token, Node!_loop
<1>4. \/ i_last_candle_minute' = i_last_candle_minute /\ iQueue' = iQueue
      \/ i_last_candle_minute' = <<iDay, iT>> /\ iQueue' = Node!Indices
  BY DEF Node!_ensure_started, Node!_poll_token, Node!_loop
<1>5. DayTyped'
  <2>1. /\ i_last_candle_minute' \in (Nat \X Nat) \cup {None} /\ iQueue' \subseteq Node!Indices
        /\ i_last_candle_minute' # None =>
             \/ i_last_candle_minute'[1] < iDay
             \/ i_last_candle_minute'[1] = iDay /\ i_last_candle_minute'[2] <= iT
    <3>1. iDay \in Nat /\ iT \in Nat
      BY <1>0, IndexConstants DEF DayTyped
    <3> QED BY <1>0, <1>4, <3>1 DEF DayTyped
  <2> QED BY <1>0, <1>1, <1>2, <1>3, <2>1 DEF DayTyped
<1>6. RowsOK'
  BY <1>0, <1>1 DEF RowsOK, RowOK
<1>7. Counted'
  <2>1. SUFFICES ASSUME iEarly', iT >= Close
        PROVE  \/ \A i \in Node!Indices : Whole(i)
               \/ iLate' >= iT - Close + 1
               \/ /\ iLate' >= iT - Close
                  /\ i_last_candle_minute' = <<iDay, iT>> =>
                        \A i \in Node!Indices \ iQueue' : Whole(i)
    BY <1>1 DEF Counted, Whole
  <2>2. \/ \A i \in Node!Indices : Whole(i)
        \/ iLate >= iT - Close + 1
        \/ /\ iLate >= iT - Close
           /\ i_last_candle_minute = <<iDay, iT>> => \A i \in Node!Indices \ iQueue : Whole(i)
    BY <1>0, <1>3, <2>1 DEF Counted
  <2>3. iLate \in Int /\ iLate' \in Int /\ iT \in Int /\ Close \in Int
    BY <1>0, <1>2, IndexConstants DEF DayTyped
  <2>4. CASE \A i \in Node!Indices : Whole(i)
    BY <2>4
  <2>5. CASE iLate >= iT - Close + 1
    BY <1>2, <2>3, <2>5
  <2>6. CASE /\ iLate >= iT - Close
             /\ i_last_candle_minute = <<iDay, iT>> => \A i \in Node!Indices \ iQueue : Whole(i)
    <3>1. iLate' >= iT - Close
      BY <1>2, <2>3, <2>6
    <3>2. i_last_candle_minute' = <<iDay, iT>> => \A i \in Node!Indices \ iQueue' : Whole(i)
      BY <1>4, <2>6
    <3> QED BY <3>1, <3>2
  <2> QED BY <2>2, <2>4, <2>5, <2>6
<1> QED BY <1>1, <1>5, <1>6, <1>7, ReadKept, SameRows DEF DayInv

\* A minute passes: it held a poll of every index, or a fault.
LEMMA MinutePasses == ASSUME DayInv, Node!Minute PROVE DayInv'
<1>0. DayTyped /\ RowsOK /\ Counted /\ iDay \in Nat /\ iT \in Nat /\ iLate \in Nat
      /\ iT < Close + PollMinutes + 1
  BY IndexConstants DEF DayInv, DayTyped, Node!Minute
<1>1. /\ iT' = iT + 1 /\ iDay' = iDay /\ iIndex' = iIndex /\ iReply' = iReply
      /\ iSettings' = iSettings /\ iEarly' = iEarly /\ iQueue' = iQueue
      /\ i_last_candle_minute' = i_last_candle_minute /\ ~Node!Due
      /\ IF iQueue # {} THEN Node!Fault ELSE Node!NoFault
  BY DEF Node!Minute
<1>2. /\ iFaults' \in 0 .. MaxFaults
      /\ iLate' = iLate \/ (iT < Close /\ iLate' \in Nat) \/ iLate' = iLate + 1
      /\ iT >= Close /\ iQueue # {} => iLate' = iLate + 1
      /\ iLate' \in Nat /\ iLate' >= iLate
  <2>1. CASE iQueue # {}
    <3>1. /\ iFaults < MaxFaults /\ iFaults' = iFaults + 1
          /\ iLate' = IF iT >= Close THEN iLate + 1 ELSE iLate
      BY <1>1, <2>1 DEF Node!Fault
    <3> QED BY <1>0, <2>1, <3>1, IndexConstants DEF DayTyped
  <2>2. CASE iQueue = {}
    BY <1>0, <1>1, <2>2 DEF Node!NoFault, DayTyped
  <2> QED BY <2>1, <2>2
<1>3. DayTyped'
  <2>1. iT' \in 0 .. Node!Evening
    BY <1>0, <1>1, IndexConstants
  <2>2. i_last_candle_minute' # None =>
             \/ i_last_candle_minute'[1] < iDay
             \/ i_last_candle_minute'[1] = iDay /\ i_last_candle_minute'[2] <= iT + 1
    <3>1. ASSUME i_last_candle_minute # None, i_last_candle_minute[2] <= iT
          PROVE  i_last_candle_minute[2] <= iT + 1
      <4>1. i_last_candle_minute[2] \in Nat
        BY <1>0, <3>1 DEF DayTyped
      <4> QED BY <1>0, <3>1, <4>1
    <3> QED BY <1>0, <1>1, <3>1 DEF DayTyped
  <2> QED BY <1>0, <1>1, <1>2, <2>1, <2>2 DEF DayTyped
<1>4. RowsOK'
  <2>1. ASSUME NEW i \in Node!Indices PROVE RowOK(iIndex[i], iDay, iT + 1)
    <3>1. RowOK(iIndex[i], iDay, iT) /\ iIndex[i].held \in Nat
      BY <1>0 DEF RowsOK, DayTyped, IndexRow
    <3> QED BY <1>0, <3>1 DEF RowOK
  <2> QED BY <1>1, <2>1 DEF RowsOK
<1>5. Counted'
  <2>1. SUFFICES ASSUME iEarly, iT + 1 >= Close
        PROVE  \/ \A i \in Node!Indices : Whole(i)
               \/ iLate' >= iT + 1 - Close + 1
               \/ /\ iLate' >= iT + 1 - Close
                  /\ i_last_candle_minute # <<iDay, iT + 1>>
    <3>1. iEarly' => iEarly
      BY <1>1, Zenon
    <3>2. iT' >= Close => iT + 1 >= Close
      BY <1>1
    <3>3. (\A i \in Node!Indices : Whole(i)) => (\A i \in Node!Indices : Whole(i))'
      BY <1>1, Zenon DEF Whole
    <3>4. /\ iLate' >= iT + 1 - Close + 1 => iLate' >= iT' - Close + 1
          /\ iLate' >= iT + 1 - Close => iLate' >= iT' - Close
          /\ i_last_candle_minute # <<iDay, iT + 1>> => i_last_candle_minute' # <<iDay', iT'>>
      <4>1. /\ iT' = iT + 1 /\ iDay' = iDay /\ i_last_candle_minute' = i_last_candle_minute
            /\ iT \in Int /\ Close \in Int /\ iLate' \in Int
        BY <1>0, <1>1, <1>2, IndexConstants
      <4>2. iT + 1 - Close + 1 = iT' - Close + 1 /\ iT + 1 - Close = iT' - Close
        BY <4>1
      <4>3. <<iDay, iT + 1>> = <<iDay', iT'>>
        BY <4>1
      <4> QED BY <4>1, <4>2, <4>3
    <3> QED BY <3>1, <3>2, <3>3, <3>4, Zenon DEF Counted
  <2>2. i_last_candle_minute # <<iDay, iT + 1>>
    <3>1. SUFFICES ASSUME i_last_candle_minute = <<iDay, iT + 1>> PROVE FALSE
      OBVIOUS
    <3>2. i_last_candle_minute # None
      BY <1>0, <3>1, IndexConstants
    <3>3. i_last_candle_minute[1] = iDay /\ i_last_candle_minute[2] = iT + 1
      BY <3>1
    <3> QED BY <1>0, <3>2, <3>3 DEF DayTyped
  <2>3. CASE iT < Close
    BY <1>0, <1>2, <2>1, <2>2, <2>3, IndexConstants
  <2>4. CASE iT >= Close
    <3>1. \/ \A i \in Node!Indices : Whole(i)
          \/ iLate >= iT - Close + 1
          \/ /\ iLate >= iT - Close
             /\ i_last_candle_minute = <<iDay, iT>> => \A i \in Node!Indices \ iQueue : Whole(i)
      BY <1>0, <2>1, <2>4 DEF Counted
    <3>2. CASE iLate >= iT - Close + 1
      BY <1>0, <1>2, <2>2, <3>2, IndexConstants
    <3>3. CASE iQueue # {} /\ iLate >= iT - Close
      <4>1. iLate' = iLate + 1
        BY <1>2, <2>4, <3>3
      <4> QED BY <1>0, <2>2, <3>3, <4>1, IndexConstants
    <3>4. CASE iQueue = {} /\ (i_last_candle_minute = <<iDay, iT>> => \A i \in Node!Indices \ iQueue : Whole(i))
      <4>1. iSettings /\ iT <= Node!PollUntil
        BY <1>0, <2>1, IndexConstants DEF DayTyped
      <4>2. i_last_candle_minute = <<iDay, iT>>
        BY <1>1, <3>4, <4>1 DEF Node!Due, Node!InPollWindow
      <4> QED BY <3>4, <4>2
    <3> QED BY <3>1, <3>2, <3>3, <3>4
  <2> QED BY <1>0, <2>3, <2>4, IndexConstants
<1> QED BY <1>1, <1>3, <1>4, <1>5, ReadKept, SameRows DEF DayInv

\* A new day counts from its own start.
LEMMA DayBegins == ASSUME DayInv, Node!NextDay PROVE DayInv'
<1>0. DayTyped /\ RowsOK /\ iDay \in Nat /\ iDay < LastDay /\ iT \in Nat
  BY IndexConstants DEF DayInv, DayTyped, Node!NextDay
<1>1. /\ iT' = 0 /\ iDay' = iDay + 1 /\ iIndex' = iIndex /\ iReply' = iReply
      /\ iSettings' = iSettings /\ iEarly' = iSettings /\ iQueue' = iQueue
      /\ i_last_candle_minute' = i_last_candle_minute /\ iFaults' = 0 /\ iLate' = 0
  BY DEF Node!NextDay
<1>2. DayTyped'
  <2>1. iDay' \in 1 .. LastDay /\ iT' \in 0 .. Node!Evening /\ iFaults' \in 0 .. MaxFaults /\ iLate' \in Nat
    BY <1>0, <1>1, IndexConstants
  <2>2. i_last_candle_minute # None => i_last_candle_minute[1] < iDay + 1
    <3>1. i_last_candle_minute # None => i_last_candle_minute[1] \in Nat
      BY <1>0 DEF DayTyped
    <3> QED BY <1>0, <3>1 DEF DayTyped
  <2>3. iEarly' \in BOOLEAN /\ iSettings' \in BOOLEAN /\ (iEarly' => iSettings')
    BY <1>0, <1>1, Zenon DEF DayTyped
  <2> QED BY <1>0, <1>1, <2>1, <2>2, <2>3 DEF DayTyped
<1>3. RowsOK'
  <2>1. ASSUME NEW i \in Node!Indices PROVE RowOK(iIndex[i], iDay + 1, 0)
    <3>1. RowOK(iIndex[i], iDay, iT) /\ iIndex[i].date \in Nat \cup {None}
      BY <1>0 DEF RowsOK, DayTyped, IndexRow
    <3> QED BY <1>0, <3>1, IndexConstants DEF RowOK
  <2> QED BY <1>1, <2>1 DEF RowsOK
<1>4. Counted'
  BY <1>1, IndexConstants DEF Counted
<1> QED BY <1>1, <1>2, <1>3, <1>4, ReadKept, SameRows DEF DayInv

\* A poll goes on with the first of the indices it has left.
LEMMA FirstOfSome ==
    ASSUME NEW S \in SUBSET Nat, S # {}
    PROVE  \E p \in S : \A k \in S : p <= k
<1> DEFINE R == OpToRel(<, Nat)
<1>1. IsWellFoundedOn(R, Nat)
  BY NatLessThanWellFounded
<1>2. PICK p \in S : \A k \in S : ~(<<k, p>> \in R)
  <2> HIDE DEF R
  <2> QED BY <1>1, WFMin
<1>3. ASSUME NEW k \in S PROVE p <= k
  <2>1. ~(k < p)
    BY <1>2 DEF OpToRel
  <2> QED BY <2>1
<1> QED BY <1>3

\* A request of a poll: what it leaves of its index.
LEMMA RowAfter ==
    ASSUME NEW s \in IndexRow, NEW d \in Nat \ {0}, NEW m \in Nat, RowOK(s, d, m),
           NEW r \in IndexRow,
           \/ r.date = s.date /\ r.candles = s.candles /\ r.held = s.held
           \/ s.date # d /\ r.date = d /\ r.candles = None /\ r.held = 0
           \/ /\ r.date = d /\ r.candles = d
              /\ r.held = (IF m < Close THEN m ELSE Close),
           r.previous = None \/ r.previous = r.date - 1,
           r.major = None \/ r.major = r.date - 1
    PROVE  RowOK(r, d, m) /\ NotNewer(s, r)
BY IndexConstants DEF RowOK, NotNewer, IndexRow

\* A request of a poll fails and leaves the index's day as it is, or brings the whole of the
\* session so far.
LEMMA RequestEnds == ASSUME DayInv, Node!poll_candles PROVE DayInv'
<1>0. DayTyped /\ RowsOK /\ Counted /\ iDay \in Nat \ {0} /\ iT \in Nat /\ iLate \in Nat
  BY IndexConstants DEF DayInv, DayTyped
<1> DEFINE i == CHOOSE k \in iQueue : \A o \in iQueue : k <= o
           s == Node!reset(i)
           d == IF s.previous = None \/ s.major = None THEN [s EXCEPT !.previous = iDay - 1, !.major = iDay - 1] ELSE s
           n == IF iT < Close THEN iT ELSE Close
<1>1. i \in Node!Indices /\ i \in iQueue
  <2>1. iQueue # {} /\ iQueue \subseteq 1 .. IndexCount
    BY <1>0, IndexConstants DEF Node!poll_candles, DayTyped
  <2>2. PICK k \in iQueue : \A o \in iQueue : k <= o
    BY <2>1, IndexConstants, FirstOfSome
  <2> QED BY <2>1, <2>2, IndexConstants
<1>2. /\ iDay' = iDay /\ iT' = iT /\ iReply' = iReply /\ iSettings' = iSettings /\ iEarly' = iEarly
      /\ i_last_candle_minute' = i_last_candle_minute /\ iQueue' = iQueue \ {i}
      /\ \/ iIndex' = [iIndex EXCEPT ![i] = [s EXCEPT !.error = TRUE]] /\ Node!Fault
         \/ iIndex' = [iIndex EXCEPT ![i] = [d EXCEPT !.error = TRUE]] /\ Node!Fault
         \/ iIndex' = [iIndex EXCEPT ![i] = [d EXCEPT !.updated = iT, !.error = FALSE]]
            /\ IF n = 0 THEN Node!NoFault ELSE Node!Fault
         \/ /\ n > 0 /\ Node!NoFault
            /\ iIndex' = [iIndex EXCEPT ![i] = [d EXCEPT !.candles = iDay, !.held = n, !.updated = iT, !.error = FALSE]]
  BY DEF Node!poll_candles, Node!Completed
<1> DEFINE o == iIndex[i]
<1>3. o \in IndexRow /\ RowOK(o, iDay, iT)
  BY <1>0, <1>1 DEF DayTyped, RowsOK
<1>4. /\ s \in IndexRow /\ s.date = iDay
      /\ \/ s.candles = o.candles /\ s.held = o.held /\ o.date = iDay
         \/ o.date # iDay /\ s.candles = None /\ s.held = 0
      /\ s.previous = None \/ s.previous = s.date - 1
      /\ s.major = None \/ s.major = s.date - 1
  <2>1. CASE o.date # iDay
    <3>1. s = [date |-> iDay, candles |-> None, held |-> 0, previous |-> None, major |-> None,
               updated |-> None, error |-> FALSE]
      BY <2>1 DEF Node!reset, Node!Blank
    <3> HIDE DEF s
    <3> QED BY <1>0, <2>1, <3>1 DEF IndexRow
  <2>2. CASE o.date = iDay
    <3>1. s = o
      BY <2>2 DEF Node!reset
    <3> HIDE DEF s, o
    <3> QED BY <1>3, <2>2, <3>1 DEF RowOK
  <2> QED BY <2>1, <2>2
<1> HIDE DEF s, i, o
<1>5. /\ d \in IndexRow /\ d.date = iDay /\ d.candles = s.candles /\ d.held = s.held
      /\ d.previous = None \/ d.previous = d.date - 1
      /\ d.major = None \/ d.major = d.date - 1
  <2>1. iDay - 1 \in Nat
    BY <1>0
  <2> QED BY <1>4, <2>1 DEF IndexRow
<1> HIDE DEF d
<1>6. n \in Nat
  BY <1>0, IndexConstants
<1> DEFINE r1 == [s EXCEPT !.error = TRUE]
           r2 == [d EXCEPT !.error = TRUE]
           r3 == [d EXCEPT !.updated = iT, !.error = FALSE]
           r4 == [d EXCEPT !.candles = iDay, !.held = n, !.updated = iT, !.error = FALSE]
<1>7. \A r \in {r1, r2, r3, r4} :
        /\ r \in IndexRow /\ r.date = iDay
        /\ r.previous = None \/ r.previous = r.date - 1
        /\ r.major = None \/ r.major = r.date - 1
        /\ \/ r # r4 /\ r.candles = s.candles /\ r.held = s.held
           \/ r = r4 /\ r.candles = iDay /\ r.held = n
  <2>1. r1 \in IndexRow /\ r1.date = iDay /\ r1.candles = s.candles /\ r1.held = s.held
        /\ r1.previous = s.previous /\ r1.major = s.major
    BY <1>4 DEF IndexRow
  <2>2. r2 \in IndexRow /\ r2.date = iDay /\ r2.candles = d.candles /\ r2.held = d.held
        /\ r2.previous = d.previous /\ r2.major = d.major
    BY <1>5 DEF IndexRow
  <2>3. r3 \in IndexRow /\ r3.date = iDay /\ r3.candles = d.candles /\ r3.held = d.held
        /\ r3.previous = d.previous /\ r3.major = d.major
    BY <1>0, <1>5 DEF IndexRow
  <2>4. r4 \in IndexRow /\ r4.date = iDay /\ r4.candles = iDay /\ r4.held = n
        /\ r4.previous = d.previous /\ r4.major = d.major
    <3> HIDE DEF n
    <3> QED BY <1>0, <1>5, <1>6 DEF IndexRow
  <2> HIDE DEF r1, r2, r3, r4, n
  <2> QED BY <1>4, <1>5, <2>1, <2>2, <2>3, <2>4
<1>8. PICK r \in {r1, r2, r3, r4} :
        /\ iIndex' = [iIndex EXCEPT ![i] = r]
        /\ (Node!Fault \/ Node!NoFault)
        /\ r = r4 \/ n = 0 \/ Node!Fault
  BY <1>2
<1> HIDE DEF r1, r2, r3, r4
<1>9. /\ r \in IndexRow /\ r.date = iDay
      /\ \/ r.candles = s.candles /\ r.held = s.held /\ (n = 0 \/ Node!Fault)
         \/ r.candles = iDay /\ r.held = n
      /\ r.previous = None \/ r.previous = r.date - 1
      /\ r.major = None \/ r.major = r.date - 1
  BY <1>7, <1>8
<1>10. RowOK(r, iDay, iT) /\ NotNewer(o, r)
  <2>1. \/ r.date = o.date /\ r.candles = o.candles /\ r.held = o.held
        \/ o.date # iDay /\ r.date = iDay /\ r.candles = None /\ r.held = 0
        \/ r.date = iDay /\ r.candles = iDay /\ r.held = n
    BY <1>4, <1>9
  <2> QED BY <1>0, <1>3, <1>9, <2>1, RowAfter
<1>11. /\ iIndex' \in [Node!Indices -> IndexRow] /\ iIndex'[i] = r
       /\ \A k \in Node!Indices : k # i => iIndex'[k] = iIndex[k]
  BY <1>0, <1>1, <1>8, <1>9 DEF DayTyped
<1>12. /\ iLate' \in Nat /\ iLate' >= iLate /\ iFaults' \in 0 .. MaxFaults
       /\ Node!Fault /\ iT >= Close => iLate' = iLate + 1
  <2>1. \/ /\ iFaults < MaxFaults /\ iFaults' = iFaults + 1
           /\ iLate' = IF iT >= Close THEN iLate + 1 ELSE iLate
        \/ ~Node!Fault /\ iFaults' = iFaults /\ iLate' = iLate
    BY <1>8 DEF Node!Fault, Node!NoFault
  <2> QED BY <1>0, <2>1, IndexConstants DEF DayTyped
<1>13. DayTyped'
  BY <1>0, <1>2, <1>11, <1>12 DEF DayTyped
<1>14. RowsOK'
  <2>1. ASSUME NEW k \in Node!Indices PROVE RowOK(iIndex'[k], iDay, iT)
    BY <1>0, <1>10, <1>11 DEF RowsOK
  <2> QED BY <1>2, <2>1 DEF RowsOK, RowOK
<1>15. \A k \in Node!Indices : NotNewer(iIndex[k], iIndex'[k])
  <2>1. ASSUME NEW k \in Node!Indices PROVE NotNewer(iIndex[k], iIndex'[k])
    <3>1. CASE k = i
      BY <1>10, <1>11, <3>1 DEF o
    <3>2. CASE k # i
      <4>1. iIndex[k] \in IndexRow /\ (iIndex[k].date = None => iIndex[k].held = 0)
        BY <1>0 DEF DayTyped, RowsOK, RowOK
      <4>2. NotNewer(iIndex[k], iIndex[k])
        BY <4>1, IndexConstants DEF NotNewer, IndexRow
      <4> QED BY <1>11, <3>2, <4>2
    <3> QED BY <3>1, <3>2
  <2> QED BY <2>1
<1>16. Counted'
  <2>1. SUFFICES ASSUME iEarly, iT >= Close
        PROVE  \/ \A k \in Node!Indices : iIndex'[k].candles = iDay /\ iIndex'[k].held = Close
               \/ iLate' >= iT - Close + 1
               \/ /\ iLate' >= iT - Close
                  /\ i_last_candle_minute = <<iDay, iT>> =>
                       \A k \in Node!Indices \ iQueue' : iIndex'[k].candles = iDay /\ iIndex'[k].held = Close
    <3>1. iEarly' => iEarly
      BY <1>2, Zenon
    <3> QED BY <1>2, <3>1 DEF Counted, Whole
  <2>2. n = Close /\ Close \in Int /\ Close # 0
    BY <1>0, <2>1, IndexConstants
  <2>3. \A k \in Node!Indices : Whole(k) => iIndex'[k].candles = iDay /\ iIndex'[k].held = Close
    <3>1. ASSUME NEW k \in Node!Indices, Whole(k)
          PROVE  iIndex'[k].candles = iDay /\ iIndex'[k].held = Close
      <4>1. CASE k # i
        BY <1>11, <3>1, <4>1 DEF Whole
      <4>2. CASE k = i
        <5>1. o.candles = iDay /\ o.held = Close
          BY <3>1, <4>2 DEF Whole, o
        <5>2. o.date = iDay
          BY <1>0, <1>3, <5>1, IndexConstants DEF RowOK
        <5>3. s.candles = iDay /\ s.held = Close
          BY <1>4, <5>1, <5>2
        <5> HIDE DEF n
        <5> QED BY <1>9, <1>11, <2>2, <4>2, <5>3
      <4> QED BY <4>1, <4>2
    <3> QED BY <3>1
  <2>4. CASE Node!Fault
    <3>1. iLate' = iLate + 1
      BY <1>12, <2>1, <2>4
    <3>2. iLate >= iT - Close \/ \A k \in Node!Indices : Whole(k)
      BY <1>0, <2>1, <2>2 DEF Counted
    <3> QED BY <1>0, <2>2, <2>3, <3>1, <3>2
  <2>5. CASE ~Node!Fault
    <3>1. iIndex'[i].candles = iDay /\ iIndex'[i].held = Close
      <4> HIDE DEF n
      <4> QED BY <1>9, <1>11, <2>2, <2>5
    <3>2. \/ \A k \in Node!Indices : Whole(k)
          \/ iLate >= iT - Close + 1
          \/ /\ iLate >= iT - Close
             /\ i_last_candle_minute = <<iDay, iT>> => \A k \in Node!Indices \ iQueue : Whole(k)
      BY <1>0, <2>1 DEF Counted
    <3>3. CASE iLate >= iT - Close + 1
      BY <1>0, <1>12, <2>2, <3>3
    <3>4. CASE /\ iLate >= iT - Close
               /\ i_last_candle_minute = <<iDay, iT>> => \A k \in Node!Indices \ iQueue : Whole(k)
      <4>1. iLate' >= iT - Close
        BY <1>0, <1>12, <2>2, <3>4
      <4>2. \A k \in Node!Indices \ iQueue' : k = i \/ k \in Node!Indices \ iQueue
        BY <1>2
      <4> QED BY <2>3, <3>1, <3>4, <4>1, <4>2
    <3> QED BY <2>3, <3>2, <3>3, <3>4
  <2> QED BY <2>4, <2>5
<1> QED BY <1>2, <1>11, <1>13, <1>14, <1>15, <1>16, ReadKept DEF DayInv

\* /public/all.json reads first the candles of every index and then the levels.
LEMMA ReplyReads == ASSUME DayInv, Node!everything \/ Node!ReadIndex PROVE DayInv'
<1>0. DayTyped /\ RowsOK /\ Counted /\ ReplyTyped /\ Node!LevelsFollowCandles
  BY DEF DayInv
<1>1. UNCHANGED <<iDay, iT, iSettings, iToken_error, i_last_candle_minute, iQueue, iIndex, iFaults,
                  iLate, iEarly>>
  BY DEF Node!everything, Node!ReadIndex
<1>2. DayTyped' /\ RowsOK' /\ Counted'
  BY <1>0, <1>1 DEF DayTyped, RowsOK, RowOK, Counted, Whole
<1>3. CASE Node!everything
  <2>1. iReply' = [live |-> <<>>, levels |-> <<>>]
    BY <1>3 DEF Node!everything
  <2> QED BY <1>2, <2>1, IndexConstants DEF DayInv, ReplyTyped, Node!LevelsFollowCandles
<1>4. CASE Node!ReadIndex /\ iReply' = None
  BY <1>2, <1>4 DEF DayInv, ReplyTyped, Node!LevelsFollowCandles
<1>5. CASE Node!ReadIndex /\ iReply' # None
  <2> DEFINE v == iReply.live
             w == iReply.levels
             part == IF Len(v) < IndexCount THEN "live" ELSE "levels"
             i == Len(iReply[part]) + 1
             e == [date |-> iIndex[i].date, candles |-> iIndex[i].candles, held |-> iIndex[i].held,
                   major |-> iIndex[i].major]
  <2>1. /\ iReply # None /\ iReply \in [live : Seq(ReadRow), levels : Seq(ReadRow)]
        /\ v \in Seq(ReadRow) /\ w \in Seq(ReadRow) /\ Len(v) \in Nat /\ Len(w) \in Nat
        /\ Len(v) <= IndexCount /\ Len(w) <= Len(v)
        /\ DOMAIN v = 1 .. Len(v) /\ DOMAIN w = 1 .. Len(w)
        /\ \A k \in 1 .. Len(v) : NotNewer(v[k], iIndex[k])
    <3>1. iReply # None
      BY <1>5 DEF Node!ReadIndex
    <3>2. /\ iReply \in [live : Seq(ReadRow), levels : Seq(ReadRow)]
          /\ Len(v) <= IndexCount /\ Len(w) <= Len(v)
          /\ \A k \in 1 .. Len(v) : NotNewer(v[k], iIndex[k])
      BY <1>0, <3>1 DEF ReplyTyped
    <3> QED BY <3>1, <3>2
  <2>2. i \in Nat /\ i <= IndexCount /\ iReply' = [iReply EXCEPT ![part] = Append(iReply[part], e)]
    <3>1. iReply' = IF i > IndexCount THEN None ELSE [iReply EXCEPT ![part] = Append(iReply[part], e)]
      BY <1>5 DEF Node!ReadIndex, Node!Order
    <3>2. iReply[part] = v \/ iReply[part] = w
      BY <2>1
    <3>3. i \in Nat
      BY <2>1, <3>2
    <3> HIDE DEF i, part, e
    <3> QED BY <1>5, <3>1, <3>3, IndexConstants
  <2>3. i \in Node!Indices
    BY <2>1, <2>2, IndexConstants
  <2> DEFINE s == iIndex[i]
  <2>4. s \in IndexRow /\ RowOK(s, iDay, iT)
    BY <1>0, <2>3 DEF DayTyped, RowsOK
  <2> HIDE DEF s
  <2>5. e = [date |-> s.date, candles |-> s.candles, held |-> s.held, major |-> s.major]
    BY DEF s
  <2> HIDE DEF e
  <2>6. /\ e \in ReadRow /\ e.date = s.date /\ e.candles = s.candles /\ e.held = s.held
        /\ e.major = s.major
    BY <2>4, <2>5 DEF ReadRow, IndexRow
  <2>7. /\ NotNewer(e, s)
        /\ e.candles # None => e.candles = e.date
        /\ e.major # None => e.major = e.date - 1
    BY <2>4, <2>6, IndexConstants DEF NotNewer, RowOK, ReadRow
  <2>8. CASE part = "live"
    <3>1. iReply' = [iReply EXCEPT !.live = Append(v, e)] /\ i = Len(v) + 1
      BY <2>2, <2>8
    <3> DEFINE v2 == Append(v, e)
    <3>2. /\ v2 \in Seq(ReadRow) /\ Len(v2) = Len(v) + 1 /\ v2[Len(v) + 1] = e
          /\ \A k \in 1 .. Len(v) : v2[k] = v[k]
      BY <2>1, <2>6
    <3>3. iReply' \in [live : Seq(ReadRow), levels : Seq(ReadRow)] /\ iReply'.live = v2 /\ iReply'.levels = w
      BY <2>1, <3>1, <3>2
    <3> HIDE DEF v2
    <3>4. ASSUME NEW k \in 1 .. Len(v2) PROVE NotNewer(v2[k], iIndex[k])
      <4>1. CASE k \in 1 .. Len(v)
        BY <2>1, <3>2, <4>1
      <4>2. CASE k = Len(v) + 1
        BY <2>7, <3>1, <3>2, <4>2 DEF s
      <4> QED BY <2>1, <3>2, <4>1, <4>2
    <3>5. ReplyTyped'
      <4>1. DOMAIN v2 = 1 .. Len(v2) /\ Len(v2) <= IndexCount /\ Len(w) <= Len(v2)
        BY <2>1, <2>2, <3>1, <3>2, IndexConstants
      <4> QED BY <1>1, <3>3, <3>4, <4>1 DEF ReplyTyped
    <3>6. Len(v) < IndexCount
      BY <2>8
    <3>7. Node!LevelsFollowCandles'
      <4>1. SUFFICES ASSUME NEW k \in 1 .. Len(w)
            PROVE  LET lev == w[k] IN
                     /\ lev.candles # None => lev.candles = lev.date
                     /\ lev.major # None => lev.major = lev.date - 1
                     /\ k \in DOMAIN v2 /\ v2[k].date = lev.date => lev.held >= v2[k].held
                     /\ k \in DOMAIN v2 /\ v2[k].date # None => lev.date # None /\ lev.date >= v2[k].date
        BY <2>1, <3>3 DEF Node!LevelsFollowCandles
      <4>2. k \in 1 .. Len(v) /\ v2[k] = v[k] /\ k \in DOMAIN v /\ k \in DOMAIN w
        BY <2>1, <3>2
      <4> QED BY <1>0, <2>1, <4>2 DEF Node!LevelsFollowCandles
    <3> QED BY <1>2, <3>5, <3>7 DEF DayInv
  <2>9. CASE part = "levels"
    <3>1. iReply' = [iReply EXCEPT !.levels = Append(w, e)] /\ i = Len(w) + 1 /\ ~(Len(v) < IndexCount)
      BY <2>2, <2>9
    <3> DEFINE w2 == Append(w, e)
    <3>2. /\ w2 \in Seq(ReadRow) /\ Len(w2) = Len(w) + 1 /\ w2[Len(w) + 1] = e
          /\ \A k \in 1 .. Len(w) : w2[k] = w[k]
      BY <2>1, <2>6
    <3>3. iReply' \in [live : Seq(ReadRow), levels : Seq(ReadRow)] /\ iReply'.levels = w2 /\ iReply'.live = v
      BY <2>1, <3>1, <3>2
    <3> HIDE DEF w2
    <3>4. Len(v) = IndexCount /\ i \in 1 .. Len(v) /\ DOMAIN w2 = 1 .. Len(w2)
      BY <2>1, <2>2, <3>1, <3>2, IndexConstants
    <3>5. ReplyTyped'
      <4>1. Len(w2) <= Len(v)
        BY <2>1, <3>1, <3>2, <3>4
      <4> QED BY <1>1, <2>1, <3>3, <4>1 DEF ReplyTyped
    <3>6. Node!LevelsFollowCandles'
      <4>1. SUFFICES ASSUME NEW k \in 1 .. Len(w2)
            PROVE  LET lev == w2[k] IN
                     /\ lev.candles # None => lev.candles = lev.date
                     /\ lev.major # None => lev.major = lev.date - 1
                     /\ k \in DOMAIN v /\ v[k].date = lev.date => lev.held >= v[k].held
                     /\ k \in DOMAIN v /\ v[k].date # None => lev.date # None /\ lev.date >= v[k].date
        BY <2>1, <3>3, <3>4 DEF Node!LevelsFollowCandles
      <4>2. CASE k \in 1 .. Len(w)
        BY <1>0, <2>1, <3>2, <4>2 DEF Node!LevelsFollowCandles
      <4>3. CASE k = Len(w) + 1
        <5>1. w2[k] = e /\ k = i
          BY <3>1, <3>2, <4>3
        <5>2. NotNewer(v[k], s) /\ v[k] \in ReadRow
          BY <2>1, <3>4, <5>1 DEF s
        <5>3. /\ v[k].date = e.date => e.held >= v[k].held
              /\ v[k].date # None => e.date # None /\ e.date >= v[k].date
          BY <2>4, <2>6, <5>2, IndexConstants DEF NotNewer, ReadRow, IndexRow, RowOK
        <5> QED BY <2>7, <5>1, <5>3
      <4> QED BY <2>1, <3>2, <4>2, <4>3
    <3> QED BY <1>2, <3>5, <3>6 DEF DayInv
  <2> QED BY <2>8, <2>9
<1> QED BY <1>3, <1>4, <1>5

LEMMA IndexSteady == DayInv /\ [Node!Next]_(Node!vars) => DayInv'
<1> SUFFICES ASSUME DayInv, [Node!Next]_(Node!vars) PROVE DayInv'
  OBVIOUS
<1>1. CASE UNCHANGED Node!vars
  <2>1. UNCHANGED <<iDay, iT, iSettings, iToken_error, i_last_candle_minute, iQueue, iIndex, iFaults,
                  iLate, iEarly, iReply>>
    BY <1>1 DEF Node!vars
  <2>2. DayTyped' /\ RowsOK' /\ Counted'
    BY <2>1 DEF DayInv, DayTyped, RowsOK, RowOK, Counted, Whole
  <2> QED BY <2>1, <2>2, ReadKept, SameRows DEF DayInv
<1> QED BY <1>1, TokenAndLoop, MinutePasses, DayBegins, RequestEnds, ReplyReads DEF Node!Next

\* The index node serves one trading day at a time, holds the whole session of every index in
\* the evening unless as many requests failed after the close as polls were made, and never
\* puts levels beside candles that are newer: for any number of indices and days, any length of
\* the session and of the polling after it (live_core.index_node.IndexNode).
THEOREM DaysAreKept == Spec => []DayKept
<1>1. Spec => Node!Spec
  <2>1. Init => Node!Init
    BY DEF Init
  <2>2. [Next]_vars => [Node!Next]_(Node!vars)
    BY DEF Next, vars, iVars, PeerOnly, RenderOnly, HealthOnly, ViewsOnly, IndexOnly, Node!vars
  <2> QED BY <2>1, <2>2, PTL DEF Spec, Node!Spec
<1>2. DayInv => Node!DaysAgree /\ Node!LevelsFollowCandles
  BY DEF DayInv, RowsOK, RowOK, Node!DaysAgree
<1>3. DayInv => Node!EndsWhole
  <2>1. SUFFICES ASSUME DayInv, iT = Node!Evening, iEarly, iLate <= PollMinutes
        PROVE  \A i \in Node!Indices : Whole(i)
    BY DEF Node!EndsWhole, Whole
  <2>2. /\ iT = Close + PollMinutes + 1 /\ iLate \in Nat
        /\ ~(iLate >= iT - Close + 1) /\ ~(iLate >= iT - Close) /\ iT >= Close
    BY <2>1, IndexConstants DEF DayInv, DayTyped
  <2> QED BY <2>1, <2>2 DEF DayInv, Counted
<1>4. Spec => []DayInv
  BY <1>1, IndexStarts, IndexSteady, PTL DEF Node!Spec
<1> QED BY <1>2, <1>3, <1>4, PTL DEF DayKept

-----------------------------------------------------------------------------
(* What a node calls complete: the cluster.                                  *)

\* Where the block of node n begins, and the one before it ends.
Start(n) == -(((-n) * Size) \div Count)
Partial(f, m, g) == g = [n \in 0 .. m |-> IF n = 0 THEN 0 ELSE g[n - 1] + f[n - 1]]

LEMMA Blocks ==
    /\ Size \in Nat \ {0} /\ Count \in Nat \ {0} /\ Start(0) = 0 /\ Start(Count) = Size
    /\ \A n \in Health!Nodes : Start(n) \in Int /\ Start(n + 1) \in Int
                               /\ Health!SizeOf(n) = Start(n + 1) - Start(n) /\ Health!SizeOf(n) >= 1
<1>1. Size \in Pos /\ Count \in Pos /\ \A n \in Health!Nodes : Health!SizeOf(n) >= 1
  BY InstanceAssumption DEF Health!ClusterAssumption, Pos
<1>2. ASSUME NEW n \in 0 .. Count PROVE Start(n) \in Int
  <2>1. (-n) * Size \in Int
    BY <1>1, SMT DEF Pos
  <2> QED BY <1>1, <2>1, FloorDivision, SMT DEF Start
<1>3. Start(0) = 0
  BY <1>1, SMT DEF Start, Pos
<1>4. Start(Count) = Size
  <2> DEFINE q == ((-Count) * Size) \div Count
  <2>1. (-Count) * Size \in Int /\ (-Count) * Size = Count * (-Size)
    BY <1>1, SMT DEF Pos
  <2>2. q \in Int /\ Count * q <= Count * (-Size) /\ Count * (-Size) < Count * q + Count
    BY <1>1, <2>1, FloorDivision
  <2>3. -Size \in Int /\ Count * q + Count = Count * (q + 1)
    BY <1>1, <2>2, SMT DEF Pos
  <2> HIDE DEF q
  <2>4. q <= -Size
    <3> SUFFICES ASSUME q >= -Size + 1 PROVE FALSE
      BY <1>1, <2>2, SMT DEF Pos
    <3>1. Count * q >= Count * (-Size + 1)
      BY <1>1, <2>2, SMT DEF Pos
    <3>2. Count * (-Size + 1) = Count * (-Size) + Count
      BY <1>1, SMT DEF Pos
    <3> QED BY <1>1, <2>1, <2>2, <3>1, <3>2, SMT DEF Pos
  <2>5. -Size <= q
    <3> SUFFICES ASSUME q + 1 <= -Size PROVE FALSE
      BY <1>1, <2>2, SMT DEF Pos
    <3>1. Count * (q + 1) <= Count * (-Size)
      BY <1>1, <2>2, SMT DEF Pos
    <3> QED BY <1>1, <2>1, <2>2, <2>3, <3>1, SMT DEF Pos
  <2>6. q = -Size
    BY <1>1, <2>2, <2>4, <2>5, SMT DEF Pos
  <2> QED BY <1>1, <2>6, SMT DEF Start, q, Pos
<1>5. ASSUME NEW n \in Health!Nodes
      PROVE  Start(n) \in Int /\ Start(n + 1) \in Int /\ Health!SizeOf(n) = Start(n + 1) - Start(n)
  <2>1. n \in 0 .. Count /\ n + 1 \in 0 .. Count
    BY <1>1 DEF Health!Nodes, Pos
  <2> QED BY <1>2, <2>1 DEF Health!SizeOf, Health!partition_bounds, Start
<1> QED BY <1>1, <1>3, <1>4, <1>5 DEF Pos

\* The sum over the nodes in their order exists, and grows node by node.
LEMMA Totals ==
    ASSUME NEW f, \A n \in Health!Nodes : f[n] \in Int
    PROVE  \E g : /\ Health!Total(f) = g[Count] /\ g[0] = 0
                  /\ \A n \in Health!Nodes : g[n + 1] = g[n] + f[n]
<1>0. Count \in Nat \ {0} /\ Health!Nodes = 0 .. Count - 1
  BY Blocks DEF Health!Nodes
<1> DEFINE Bad == {m \in Nat : m <= Count /\ ~ \E g : Partial(f, m, g)}
<1>1. Bad = {}
  <2> SUFFICES ASSUME Bad # {} PROVE FALSE
    OBVIOUS
  <2>1. PICK m \in Bad : \A k \in Bad : m <= k
    <3>1. Bad \in SUBSET Nat
      OBVIOUS
    <3> HIDE DEF Bad
    <3> QED BY <3>1, FirstOfSome
  <2>2. m # 0
    <3>1. Partial(f, 0, [n \in 0 .. 0 |-> 0])
      BY DEF Partial
    <3> QED BY <2>1, <3>1
  <2>3. PICK g : Partial(f, m - 1, g)
    <3>1. m - 1 \in Nat /\ m - 1 <= Count /\ m - 1 \notin Bad
      BY <1>0, <2>1, <2>2
    <3> QED BY <3>1
  <2> DEFINE h == [n \in 0 .. m |-> IF n = m THEN g[m - 1] + f[m - 1] ELSE g[n]]
  <2>4. Partial(f, m, h)
    <3>1. \A n \in 0 .. m - 1 : g[n] = IF n = 0 THEN 0 ELSE g[n - 1] + f[n - 1]
      BY <2>3 DEF Partial
    <3>2. ASSUME NEW n \in 0 .. m PROVE h[n] = IF n = 0 THEN 0 ELSE h[n - 1] + f[n - 1]
      BY <2>1, <2>2, <3>1
    <3> HIDE DEF h
    <3>3. h = [n \in 0 .. m |-> h[n]]
      BY DEF h
    <3> QED BY <3>2, <3>3, Zenon DEF Partial
  <2> QED BY <2>1, <2>4
<1>2. \E g : Partial(f, Count, g)
  <2>1. Count \notin Bad
    <3> HIDE DEF Bad
    <3> QED BY <1>1
  <2> QED BY <1>0, <2>1
<1> DEFINE g == CHOOSE g : Partial(f, Count, g)
<1>3. Partial(f, Count, g)
  BY <1>2
<1>4. Health!Total(f) = g[Count]
  BY DEF Health!Total, Partial
<1> HIDE DEF g
<1>5. \A n \in 0 .. Count : g[n] = IF n = 0 THEN 0 ELSE g[n - 1] + f[n - 1]
  BY <1>3 DEF Partial
<1>6. g[0] = 0 /\ \A n \in Health!Nodes : g[n + 1] = g[n] + f[n]
  BY <1>0, <1>5
<1> QED BY <1>4, <1>6

\* Numbers that fit the blocks add up to the universe only when each fills its block.
LEMMA BlocksFilled ==
    ASSUME NEW f, \A n \in Health!Nodes : f[n] \in 0 .. Health!SizeOf(n), Health!Total(f) = Size
    PROVE  \A n \in Health!Nodes : f[n] = Health!SizeOf(n)
<1>0. /\ Count \in Nat \ {0} /\ Health!Nodes = 0 .. Count - 1 /\ Start(0) = 0 /\ Start(Count) = Size
      /\ \A n \in Health!Nodes : f[n] \in Int /\ f[n] <= Start(n + 1) - Start(n)
                                 /\ Start(n) \in Int /\ Start(n + 1) \in Int /\ Health!SizeOf(n) = Start(n + 1) - Start(n)
  BY Blocks DEF Health!Nodes
<1>1. PICK g : Health!Total(f) = g[Count] /\ g[0] = 0 /\ \A n \in Health!Nodes : g[n + 1] = g[n] + f[n]
  BY <1>0, Totals
<1> DEFINE Fits(n) == /\ g[n] \in Int /\ g[n] <= Start(n)
                      /\ g[n] = Start(n) => \A k \in 0 .. n - 1 : f[k] = Health!SizeOf(k)
           Bad == {n \in Nat : n <= Count /\ ~Fits(n)}
<1>2. Bad = {}
  <2> SUFFICES ASSUME Bad # {} PROVE FALSE
    OBVIOUS
  <2>1. PICK m \in Bad : \A k \in Bad : m <= k
    <3>1. Bad \in SUBSET Nat
      OBVIOUS
    <3> HIDE DEF Bad
    <3> QED BY <3>1, FirstOfSome
  <2>2. m # 0
    BY <1>0, <1>1, <2>1
  <2>3. Fits(m - 1) /\ m - 1 \in Health!Nodes /\ m \in Nat
    BY <1>0, <2>1, <2>2
  <2>4. g[m] = g[m - 1] + f[m - 1]
    BY <1>1, <2>3
  <2>5. g[m] \in Int /\ g[m] <= Start(m)
    BY <1>0, <2>3, <2>4
  <2>6. ASSUME g[m] = Start(m) PROVE \A k \in 0 .. m - 1 : f[k] = Health!SizeOf(k)
    <3> DEFINE n == m - 1
    <3>1. /\ n \in Health!Nodes /\ n + 1 = m /\ Fits(n)
          /\ g[m] = g[n] + f[n] /\ g[m] = Start(n + 1)
      BY <2>3, <2>4, <2>6
    <3> HIDE DEF n
    <3>2. /\ f[n] \in Int /\ f[n] <= Start(n + 1) - Start(n) /\ Start(n) \in Int /\ Start(n + 1) \in Int
          /\ Health!SizeOf(n) = Start(n + 1) - Start(n)
      BY <1>0, <3>1
    <3>3. g[n] \in Int /\ g[n] <= Start(n)
      BY <3>1
    <3>4. g[n] = Start(n) /\ f[n] = Health!SizeOf(n)
      BY <3>1, <3>2, <3>3
    <3>5. n \in 0 .. Count - 1 /\ \A k \in 0 .. n - 1 : f[k] = Health!SizeOf(k)
      BY <1>0, <3>1, <3>4
    <3>6. ASSUME NEW k \in 0 .. m - 1 PROVE k = n \/ k \in 0 .. n - 1
      BY <1>0, <3>1, <3>5
    <3> QED BY <3>4, <3>5, <3>6
  <2> QED BY <2>1, <2>5, <2>6
<1>3. Fits(Count)
  <2>1. Count \notin Bad
    <3> HIDE DEF Bad
    <3> QED BY <1>2
  <2> QED BY <1>0, <2>1
<1> QED BY <1>0, <1>1, <1>3

\* A node's state and its cached answer: what a feed subscribes to fits the node's block.
StateOf(n, s) == s.subs \in 0 .. Health!SizeOf(n) /\ \E g \in States : s = [g EXCEPT !.heard = s.heard]
CacheOf(p, c) ==
    c # None =>
        /\ c = [age |-> c.age, answer |-> c.answer]
        /\ c.answer # Down =>
             /\ c.answer = [status |-> c.answer.status, phase |-> c.answer.phase, state |-> c.answer.state]
             /\ StateOf(p, c.answer.state)
CachesOf(c) == c = [p \in Health!Peers |-> c[p]] /\ \A p \in Health!Peers : CacheOf(p, c[p])
\* The summaries of all nodes, and what may be concluded from them.
ViewOf(v) == v = [n \in Health!Nodes |-> v[n]] /\ \A n \in Health!Nodes : v[n].subs \in 0 .. Health!SizeOf(n)
AllLive(v) ==
    \A n \in Health!Nodes :
        v[n].reachable /\ v[n].healthy /\ ~v[n].error /\ v[n].session = "LIVE" /\ v[n].subs = Health!SizeOf(n)
Decided(a) ==
    IF a.open THEN (\E n \in Health!Nodes : ~a.view[n].reachable) => a.overall \in {"DEGRADED", "DOWN"}
    ELSE a.overall \in {"HEALTHY", "MARKET_CLOSED"}
Record(pc, todo, view, left) == [pc |-> pc, todo |-> todo, view |-> view, left |-> left]
AnswerOf(q, a) ==
    /\ a = [view |-> a.view, coverage |-> a.coverage, overall |-> a.overall, open |-> a.open]
    /\ a.coverage = "LIVE_COMPLETE" => AllLive(a.view)
    /\ a.overall # None => Decided(a)
    /\ q.pc = "public" => a.view = q.view /\ a.overall = None
RequestOf(q, a) ==
    /\ q = Record(q.pc, q.todo, q.view, q.left)
    /\ q.todo \subseteq Health!Peers /\ (q.pc \in {"fetch", "wait"} => q.todo # {})
    /\ q.pc # "idle" => ViewOf(q.view)
    /\ IF q.pc \in {"public", "sent"} THEN AnswerOf(q, a) ELSE a = None
HealthInv ==
    /\ cNode = [n \in Health!Nodes |-> cNode[n]] /\ StateOf(0, cNode[0])
    /\ \A n \in Health!Nodes : cNode[n] # Down => StateOf(n, cNode[n])
    /\ CachesOf(cCache)
    /\ cReq = [r \in Requests |-> cReq[r]] /\ cAnswer = [r \in Requests |-> cAnswer[r]]
    /\ \A r \in Requests : RequestOf(cReq[r], cAnswer[r])

LEMMA StatesFit ==
    /\ \A n \in Health!Nodes, s \in States : StateOf(n, s)
    /\ \A n \in Health!Nodes : \A s, h : StateOf(n, s) => StateOf(n, [s EXCEPT !.heard = h])
<1>1. ASSUME NEW g \in States
      PROVE  /\ g = [g EXCEPT !.heard = g.heard]
             /\ \A h, k : [[g EXCEPT !.heard = h] EXCEPT !.heard = k] = [g EXCEPT !.heard = k]
             /\ \A h : [g EXCEPT !.heard = h].heard = h /\ [g EXCEPT !.heard = h].subs = g.subs
  <2> DEFINE Fields == {"config", "host", "verified", "packets", "sup", "session", "feed", "thread", "stocks",
                        "subs", "fresh", "heard", "wrong"}
  <2>1. g = [f \in Fields |-> g[f]]
    BY DEF States, Good
  <2> HIDE DEF Fields
  <2>2. "heard" \in Fields /\ "subs" \in Fields
    BY DEF Fields
  <2> QED BY <2>1, <2>2
<1>2. ASSUME NEW n \in Health!Nodes, NEW s \in States PROVE StateOf(n, s)
  BY <1>1, InstanceAssumption DEF StateOf, Health!ClusterAssumption
<1>3. ASSUME NEW n \in Health!Nodes, NEW s, NEW h, StateOf(n, s) PROVE StateOf(n, [s EXCEPT !.heard = h])
  <2>1. PICK g \in States : s = [g EXCEPT !.heard = s.heard]
    BY <1>3 DEF StateOf
  <2>2. [s EXCEPT !.heard = h] = [g EXCEPT !.heard = h]
    BY <1>1, <2>1
  <2>3. [s EXCEPT !.heard = h].subs = s.subs /\ [s EXCEPT !.heard = h].heard = h
    <3>1. [g EXCEPT !.heard = h].heard = h /\ [g EXCEPT !.heard = h].subs = g.subs
      BY <1>1
    <3>2. [g EXCEPT !.heard = s.heard].subs = g.subs
      BY <1>1
    <3> QED BY <2>1, <2>2, <3>1, <3>2
  <2> QED BY <1>3, <2>2, <2>3 DEF StateOf
<1> QED BY <1>2, <1>3

\* A node that answers with its state, or does not, gives a summary that fits its block.
LEMMA SummaryFits ==
    ASSUME NEW p \in Health!Nodes, NEW a, a = Down \/ a.state.subs \in 0 .. Health!SizeOf(p)
    PROVE  Health!Summary(p, a).subs \in 0 .. Health!SizeOf(p)
<1>1. Health!SizeOf(p) \in Nat
  BY Blocks
<1>2. Health!Missing.subs = 0
  BY DEF Health!Missing
<1>3. ASSUME a # Down PROVE Health!_node_summary(a).subs = a.state.subs
  BY DEF Health!_node_summary
<1>4. ASSUME a # Down, a.state.wrong
      PROVE  [Health!_node_summary(a) EXCEPT !.healthy = FALSE, !.error = TRUE].subs = a.state.subs
  BY DEF Health!_node_summary
<1> QED BY <1>1, <1>2, <1>3, <1>4 DEF Health!Summary

\* The first of the peers left is one of them.
LEMMA FirstPeer ==
    ASSUME NEW S \in SUBSET Health!Peers, S # {}
    PROVE  Health!First(S) \in S /\ Health!First(S) \in Health!Nodes
<1>1. Health!Peers \subseteq Nat /\ Health!Peers \subseteq Health!Nodes
  BY DEF Health!Peers, Health!Nodes
<1>2. \E p \in S : \A q \in S : p <= q
  BY <1>1, FirstOfSome
<1> QED BY <1>1, <1>2 DEF Health!First

\* A view is called complete only when every node is live with the whole of its block.
LEMMA CompleteIsBacked ==
    ASSUME NEW v, ViewOf(v), Health!cluster_health(v) = "LIVE_COMPLETE"
    PROVE  AllLive(v)
<1> DEFINE f == [n \in Health!Nodes |->
                   IF v[n].reachable /\ v[n].session = "LIVE" /\ ~v[n].error THEN v[n].subs ELSE 0]
<1>1. (\A n \in Health!Nodes : v[n].healthy) /\ Health!Covered(v) = Size
  BY DEF Health!cluster_health
<1>2. Health!Total(f) = Size
  BY <1>1 DEF Health!Covered
<1>3. ASSUME NEW n \in Health!Nodes
      PROVE  f[n] \in 0 .. Health!SizeOf(n) /\ Health!SizeOf(n) >= 1 /\ Health!SizeOf(n) \in Int
  BY Blocks DEF ViewOf
<1> HIDE DEF f
<1>4. \A n \in Health!Nodes : f[n] = Health!SizeOf(n)
  BY <1>2, <1>3, BlocksFilled
<1>5. ASSUME NEW n \in Health!Nodes
      PROVE  v[n].reachable /\ ~v[n].error /\ v[n].session = "LIVE" /\ v[n].subs = Health!SizeOf(n)
  <2>1. f[n] # 0
    BY <1>3, <1>4
  <2>2. f[n] = IF v[n].reachable /\ v[n].session = "LIVE" /\ ~v[n].error THEN v[n].subs ELSE 0
    BY DEF f
  <2> QED BY <1>4, <2>1, <2>2
<1> QED BY <1>1, <1>5 DEF AllLive

\* In market hours a missing node shows; outside of them nothing is a fault.
LEMMA HoursShow ==
    ASSUME NEW v
    PROVE  IF Health!InMarket
           THEN (\E n \in Health!Nodes : ~v[n].reachable) => Health!public_health(v) \in {"DEGRADED", "DOWN"}
           ELSE Health!public_health(v) \in {"HEALTHY", "MARKET_CLOSED"}
<1>1. ASSUME NEW C, "ERROR" \in C PROVE Health!build_health(C, FALSE) \in {"DEGRADED", "DOWN"}
  <2> DEFINE shown == {IF FALSE /\ c # "FRESH" THEN "CLOSED" ELSE c : c \in C}
  <2>1. shown = C
    OBVIOUS
  <2>2. "ERROR" \in shown
    BY <1>1, <2>1
  <2> HIDE DEF shown
  <2> QED BY <2>2 DEF Health!build_health, shown
<1>2. ASSUME NEW C PROVE Health!build_health(C, TRUE) \in {"HEALTHY", "MARKET_CLOSED"}
  <2> DEFINE shown == {IF TRUE /\ c # "FRESH" THEN "CLOSED" ELSE c : c \in C}
  <2>1. "ERROR" \notin shown /\ "STALE" \notin shown /\ "WARNING" \notin shown
    OBVIOUS
  <2> HIDE DEF shown
  <2> QED BY <2>1 DEF Health!build_health, shown
<1>3. \E C : /\ Health!public_health(v) = Health!build_health(C, ~Health!InMarket)
             /\ \A n \in Health!Nodes :
                    Health!component_health(Health!SourceStatus(v[n]), v[n].heard) \in C
  <2> DEFINE parts == {Health!component_health(Health!SourceStatus(v[n]), v[n].heard) : n \in Health!Nodes}
  <2>1. \E x : Health!public_health(v) = Health!build_health(parts \cup {x}, ~Health!InMarket)
    BY Zenon DEF Health!public_health
  <2>2. \A n \in Health!Nodes : Health!component_health(Health!SourceStatus(v[n]), v[n].heard) \in parts
    OBVIOUS
  <2> HIDE DEF parts
  <2> QED BY <2>1, <2>2
<1>4. ASSUME NEW n \in Health!Nodes, ~v[n].reachable
      PROVE  Health!component_health(Health!SourceStatus(v[n]), v[n].heard) = "ERROR"
  <2>1. None # "AUTHENTICATING"
    BY InstanceAssumption DEF Health!ClusterAssumption
  <2> QED BY <1>4, <2>1 DEF Health!SourceStatus, Health!component_health
<1>5. CASE Health!InMarket
  <2>1. (~Health!InMarket) = FALSE
    BY <1>5
  <2> QED BY <1>1, <1>3, <1>4, <1>5, <2>1
<1>6. CASE ~Health!InMarket
  <2>1. (~Health!InMarket) = TRUE
    BY <1>6
  <2> QED BY <1>2, <1>3, <1>6, <2>1
<1> QED BY <1>5, <1>6

\* One request goes on, asking its peers.
LEMMA RequestAsks ==
    ASSUME HealthInv, NEW r \in Requests, NEW pc \in {"peers", "wait", "fetch"}, NEW todo, NEW view, NEW left,
           cReq[r].pc \notin {"public", "sent"}, cReq' = [cReq EXCEPT ![r] = Record(pc, todo, view, left)],
           todo \subseteq Health!Peers, pc \in {"fetch", "wait"} => todo # {}, ViewOf(view),
           CachesOf(cCache'), UNCHANGED <<cNode, cAnswer>>
    PROVE  HealthInv'
<1>1. RequestOf(Record(pc, todo, view, left), cAnswer[r])
  BY DEF RequestOf, Record, HealthInv
<1>2. cReq' = [q \in Requests |-> IF q = r THEN Record(pc, todo, view, left) ELSE cReq[q]]
  BY DEF HealthInv
<1>3. \A q \in Requests : RequestOf(cReq'[q], cAnswer'[q])
  BY <1>1, <1>2 DEF HealthInv
<1>4. cReq' = [q \in Requests |-> cReq'[q]]
  BY <1>2
<1> QED BY <1>3, <1>4 DEF HealthInv

\* ... or has an answer to give, or is done.
LEMMA RequestAnswers ==
    ASSUME HealthInv, NEW r \in Requests, NEW q, NEW a, RequestOf(q, a),
           cReq' = [cReq EXCEPT ![r] = q], cAnswer' = [cAnswer EXCEPT ![r] = a], UNCHANGED <<cNode, cCache>>
    PROVE  HealthInv'
<1>1. /\ cReq' = [p \in Requests |-> IF p = r THEN q ELSE cReq[p]]
      /\ cAnswer' = [p \in Requests |-> IF p = r THEN a ELSE cAnswer[p]]
  BY DEF HealthInv
<1>2. \A p \in Requests : RequestOf(cReq'[p], cAnswer'[p])
  BY <1>1 DEF HealthInv
<1>3. cReq' = [p \in Requests |-> cReq'[p]] /\ cAnswer' = [p \in Requests |-> cAnswer'[p]]
  BY <1>1
<1> QED BY <1>2, <1>3 DEF HealthInv

\* A peer's summary takes its place in the view.
LEMMA PeerTaken ==
    ASSUME HealthInv, NEW r \in Requests, NEW p, NEW a, p \in cReq[r].todo, cReq[r].pc \in {"peers", "wait", "fetch"},
           a = Down \/ a.state.subs \in 0 .. Health!SizeOf(p), cReq' = [cReq EXCEPT ![r] = Health!Take(r, p, a)],
           CachesOf(cCache'), UNCHANGED <<cNode, cAnswer>>
    PROVE  HealthInv'
<1> DEFINE q == cReq[r]
           view == [n \in Health!Nodes |-> IF n = p THEN Health!Summary(p, a) ELSE q.view[n]]
<1>1. RequestOf(q, cAnswer[r]) /\ p \in Health!Nodes
  BY DEF HealthInv, RequestOf, Health!Peers, Health!Nodes
<1>2. q = Record(q.pc, q.todo, q.view, q.left) /\ ViewOf(q.view) /\ q.todo \subseteq Health!Peers
  BY <1>1, Zenon DEF RequestOf
<1>3. Health!Take(r, p, a) = Record("peers", q.todo \ {p}, view, q.left)
  <2>1. Health!Take(r, p, a) = [q EXCEPT !.pc = "peers", !.todo = q.todo \ {p}, !.view = [q.view EXCEPT ![p] = Health!Summary(p, a)]]
    BY DEF Health!Take
  <2>2. [q.view EXCEPT ![p] = Health!Summary(p, a)] = view
    BY <1>1, <1>2 DEF ViewOf
  <2> HIDE DEF q, view
  <2> QED BY <1>2, <2>1, <2>2 DEF Record
<1>4. ViewOf(view)
  <2>1. Health!Summary(p, a).subs \in 0 .. Health!SizeOf(p)
    BY <1>1, SummaryFits
  <2>2. \A n \in Health!Nodes : view[n].subs \in 0 .. Health!SizeOf(n)
    BY <1>2, <2>1 DEF ViewOf
  <2> HIDE DEF view
  <2>3. view = [n \in Health!Nodes |-> view[n]]
    BY DEF view
  <2> QED BY <2>2, <2>3 DEF ViewOf
<1> HIDE DEF view
<1>5. /\ cReq' = [cReq EXCEPT ![r] = Record("peers", q.todo \ {p}, view, q.left)]
      /\ q.todo \ {p} \subseteq Health!Peers /\ cReq[r].pc \notin {"public", "sent"}
  BY <1>2, <1>3
<1> HIDE DEF q
<1> QED BY <1>4, <1>5, RequestAsks

\* Peers are asked through their cache and their lock (PeerClient.health, _health_locked).
LEMMA PeersAsked ==
    ASSUME HealthInv, NEW r \in Requests, Health!ReadPeer(r) \/ Health!Acquire(r) \/ Health!_health_locked(r)
    PROVE  HealthInv'
<1> DEFINE q == cReq[r]
           p == Health!First(q.todo)
<1>1. /\ q = Record(q.pc, q.todo, q.view, q.left) /\ q.todo \subseteq Health!Peers
      /\ q.pc \in {"peers", "wait", "fetch"} /\ ViewOf(q.view) /\ q.todo # {}
      /\ UNCHANGED <<cNode, cAnswer>>
  BY DEF Health!ReadPeer, Health!Acquire, Health!_health_locked, HealthInv, RequestOf
<1>2. p \in q.todo /\ p \in Health!Nodes /\ p \in Health!Peers
  BY <1>1, FirstPeer
<1>3. CachesOf(cCache)
  BY DEF HealthInv
<1>0. ASSUME NEW a, a = Down \/ a.state.subs \in 0 .. Health!SizeOf(p), cReq' = [cReq EXCEPT ![r] = Health!Take(r, p, a)],
             CachesOf(cCache')
      PROVE  HealthInv'
  <2>1. cReq[r].pc \in {"peers", "wait", "fetch"} /\ p \in cReq[r].todo
    BY <1>1, <1>2
  <2> HIDE DEF p, q
  <2> QED BY <1>0, <1>1, <2>1, PeerTaken
<1>4. ASSUME cCache' = cCache, cCache[p] # None, cReq' = [cReq EXCEPT ![r] = Health!Take(r, p, cCache[p].answer)]
      PROVE  HealthInv'
  <2>1. cCache[p].answer = Down \/ cCache[p].answer.state.subs \in 0 .. Health!SizeOf(p)
    BY <1>2, <1>3, <1>4 DEF CachesOf, CacheOf, StateOf
  <2> QED BY <1>0, <1>3, <1>4, <2>1
<1>5. ASSUME cCache' = cCache, NEW pc \in {"fetch", "wait"}, NEW left, cReq' = [cReq EXCEPT ![r] = Record(pc, q.todo, q.view, left)]
      PROVE  HealthInv'
  <2> HIDE DEF q
  <2>1. cReq[r].pc \notin {"public", "sent"}
    BY <1>1 DEF q
  <2> QED BY <1>1, <1>3, <1>5, <2>1, RequestAsks
<1>6. /\ [q EXCEPT !.pc = "fetch", !.left = TimeoutSeconds] = Record("fetch", q.todo, q.view, TimeoutSeconds)
      /\ [q EXCEPT !.pc = "wait"] = Record("wait", q.todo, q.view, q.left)
  <2>2. PICK pc, todo, view, left : q = Record(pc, todo, view, left)
    BY <1>1
  <2>3. [q EXCEPT !.pc = "fetch"] = Record("fetch", todo, view, left)
    BY <2>2 DEF Record
  <2>4. [q EXCEPT !.pc = "fetch", !.left = TimeoutSeconds] = [[q EXCEPT !.pc = "fetch"] EXCEPT !.left = TimeoutSeconds]
    OBVIOUS
  <2>5. [Record("fetch", todo, view, left) EXCEPT !.left = TimeoutSeconds] = Record("fetch", todo, view, TimeoutSeconds)
    BY DEF Record
  <2>6. [q EXCEPT !.pc = "wait"] = Record("wait", todo, view, left)
    BY <2>2 DEF Record
  <2>7. q.todo = todo /\ q.view = view /\ q.left = left
    BY <2>2 DEF Record
  <2> HIDE DEF q
  <2>8. [q EXCEPT !.pc = "fetch", !.left = TimeoutSeconds] = Record("fetch", todo, view, TimeoutSeconds)
    BY <2>3, <2>4, <2>5
  <2> QED BY <2>6, <2>7, <2>8
<1>7. CASE Health!ReadPeer(r)
  <2>1. /\ cCache' = cCache
        /\ \/ cReq' = [cReq EXCEPT ![r] = Health!Take(r, p, Down)]
           \/ cCache[p] # None /\ cReq' = [cReq EXCEPT ![r] = Health!Take(r, p, cCache[p].answer)]
           \/ cReq' = [cReq EXCEPT ![r].pc = "fetch", ![r].left = TimeoutSeconds]
           \/ cReq' = [cReq EXCEPT ![r].pc = "wait"]
    BY <1>7, Zenon DEF Health!ReadPeer, Health!Serves
  <2>2. \/ cReq' # [cReq EXCEPT ![r].pc = "fetch", ![r].left = TimeoutSeconds]
        \/ cReq' = [cReq EXCEPT ![r] = [q EXCEPT !.pc = "fetch", !.left = TimeoutSeconds]]
    BY DEF HealthInv
  <2>3. \/ cReq' # [cReq EXCEPT ![r].pc = "wait"]
        \/ cReq' = [cReq EXCEPT ![r] = [q EXCEPT !.pc = "wait"]]
    OBVIOUS
  <2>4. CASE cReq' = [cReq EXCEPT ![r] = Health!Take(r, p, Down)]
    <3> HIDE DEF p, q
    <3> QED BY <1>0, <1>3, <2>1, <2>4
  <2> QED BY <1>4, <1>5, <1>6, <2>1, <2>2, <2>3, <2>4
<1>8. CASE Health!Acquire(r)
  <2>1. /\ cCache' = cCache
        /\ \/ cCache[p] # None /\ cReq' = [cReq EXCEPT ![r] = Health!Take(r, p, cCache[p].answer)]
           \/ cReq' = [cReq EXCEPT ![r].pc = "fetch", ![r].left = TimeoutSeconds]
    BY <1>8, Zenon DEF Health!Acquire, Health!Serves
  <2>2. \/ cReq' # [cReq EXCEPT ![r].pc = "fetch", ![r].left = TimeoutSeconds]
        \/ cReq' = [cReq EXCEPT ![r] = [q EXCEPT !.pc = "fetch", !.left = TimeoutSeconds]]
    BY DEF HealthInv
  <2> QED BY <1>4, <1>5, <1>6, <2>1, <2>2
<1>9. CASE Health!_health_locked(r)
  <2>1. PICK a \in {Down} \cup (IF cNode[p] = Down THEN {} ELSE {Health!node_health(p, cNode[p])}) :
            /\ cCache' = [cCache EXCEPT ![p] = [age |-> 0, answer |-> a]]
            /\ cReq' = [cReq EXCEPT ![r] = Health!Take(r, p, a)]
    BY <1>9 DEF Health!_health_locked, Health!Kept
  <2>2. a = Down \/ /\ a = [status |-> a.status, phase |-> a.phase, state |-> a.state]
                    /\ a.state = cNode[p] /\ cNode[p] # Down
    BY <2>1 DEF Health!node_health
  <2>3. a = Down \/ StateOf(p, a.state)
    BY <1>2, <2>2 DEF HealthInv
  <2>4. CacheOf(p, [age |-> 0, answer |-> a])
    BY <2>2, <2>3 DEF CacheOf
  <2> HIDE DEF p
  <2>5. cCache' = [n \in Health!Peers |-> IF n = p THEN [age |-> 0, answer |-> a] ELSE cCache[n]]
    BY <1>3, <2>1 DEF CachesOf
  <2>6. CachesOf(cCache')
    <3>1. \A n \in Health!Peers : CacheOf(n, cCache'[n])
      BY <1>3, <2>4, <2>5 DEF CachesOf
    <3> QED BY <2>5, <3>1 DEF CachesOf
  <2> QED BY <1>0, <2>1, <2>3, <2>6 DEF StateOf
<1> QED BY <1>7, <1>8, <1>9

\* The second that passes ages what is cached.
LEMMA HealthAges == ASSUME HealthInv, Health!Second PROVE HealthInv'
<1>1. ASSUME NEW p \in Health!Peers, cCache[p] # None
      PROVE  CacheOf(p, cCache'[p])
  <2> DEFINE c == cCache[p]
             old == Health!Smaller(c.age + 1, Health!Old)
             heard == Health!Older(c.answer.state.heard)
  <2>0. CacheOf(p, c) /\ p \in Health!Nodes
    BY DEF HealthInv, CachesOf, Health!Peers, Health!Nodes
  <2>1. CASE c.answer = Down
    <3>1. cCache'[p] = [c EXCEPT !.age = old]
      BY <1>1, <2>1 DEF Health!Second
    <3> HIDE DEF old
    <3>2. cCache'[p] = [age |-> old, answer |-> Down]
      BY <1>1, <2>0, <2>1, <3>1 DEF CacheOf
    <3> QED BY <3>2 DEF CacheOf
  <2>2. CASE c.answer # Down
    <3>1. cCache'[p] = [c EXCEPT !.age = old, !.answer.state.heard = heard]
      BY <1>1, <2>2 DEF Health!Second
    <3> HIDE DEF old, heard
    <3>2. PICK age, status, phase, state :
              c = [age |-> age, answer |-> [status |-> status, phase |-> phase, state |-> state]]
      BY <1>1, <2>0, <2>2 DEF CacheOf
    <3> DEFINE aged == [state EXCEPT !.heard = heard]
    <3>3. StateOf(p, state)
      BY <1>1, <2>0, <2>2, <3>2 DEF CacheOf
    <3>4. StateOf(p, aged)
      BY <2>0, <3>3, StatesFit
    <3>5. cCache'[p] = [age |-> old, answer |-> [status |-> status, phase |-> phase, state |-> aged]]
      <4> DEFINE told == [status |-> status, phase |-> phase, state |-> state]
      <4>1. [told EXCEPT !.state.heard = heard] = [status |-> status, phase |-> phase, state |-> aged]
        OBVIOUS
      <4>2. c = [age |-> age, answer |-> told]
        BY <3>2
      <4> HIDE DEF told, c, aged
      <4>3. [c EXCEPT !.age = old, !.answer.state.heard = heard]
               = [[c EXCEPT !.age = old] EXCEPT !.answer.state.heard = heard]
        OBVIOUS
      <4>4. [c EXCEPT !.age = old] = [age |-> old, answer |-> told]
        BY <4>2
      <4>5. [[age |-> old, answer |-> told] EXCEPT !.answer.state.heard = heard]
               = [age |-> old, answer |-> [told EXCEPT !.state.heard = heard]]
        OBVIOUS
      <4> QED BY <3>1, <4>1, <4>3, <4>4, <4>5
    <3> HIDE DEF aged
    <3> QED BY <3>4, <3>5 DEF CacheOf
  <2> QED BY <2>1, <2>2
<1>2. ASSUME NEW p \in Health!Peers, cCache[p] = None PROVE cCache'[p] = None
  BY <1>2 DEF Health!Second
<1>3. CachesOf(cCache')
  <2>1. cCache' = [p \in Health!Peers |-> cCache'[p]]
    BY DEF Health!Second
  <2>2. \A p \in Health!Peers : CacheOf(p, cCache'[p])
    BY <1>1, <1>2 DEF CacheOf
  <2> QED BY <2>1, <2>2 DEF CachesOf
<1>4. ASSUME NEW r \in Requests PROVE RequestOf(cReq'[r], cAnswer'[r])
  <2> DEFINE left == Health!Larger(cReq[r].left - 1, 0)
  <2>1. cReq'[r] = [cReq[r] EXCEPT !.left = left] /\ cAnswer'[r] = cAnswer[r]
    BY DEF Health!Second
  <2>2. RequestOf(cReq[r], cAnswer[r])
    BY DEF HealthInv
  <2> HIDE DEF left
  <2>3. PICK pc, todo, view, was : cReq[r] = Record(pc, todo, view, was)
    BY <2>2 DEF RequestOf
  <2>4. cReq'[r] = Record(pc, todo, view, left)
    BY <2>1, <2>3 DEF Record
  <2>5. /\ cReq'[r].pc = cReq[r].pc /\ cReq'[r].todo = cReq[r].todo /\ cReq'[r].view = cReq[r].view
        /\ cReq'[r] = Record(cReq'[r].pc, cReq'[r].todo, cReq'[r].view, cReq'[r].left)
    BY <2>3, <2>4 DEF Record
  <2> QED BY <2>1, <2>2, <2>5 DEF RequestOf, AnswerOf
<1>5. cReq' = [r \in Requests |-> cReq'[r]] /\ UNCHANGED <<cNode, cAnswer>>
  BY DEF Health!Second
<1> QED BY <1>3, <1>4, <1>5 DEF HealthInv

LEMMA HealthSteady == HealthInv /\ [Health!Next]_(Health!vars) => HealthInv'
<1> SUFFICES ASSUME HealthInv, [Health!Next]_(Health!vars) PROVE HealthInv'
  OBVIOUS
<1>1. ASSUME NEW n \in Health!Nodes, Health!Change(n) PROVE HealthInv'
  <2>1. PICK s \in States \cup (IF n = 0 THEN {} ELSE {Down}) : cNode' = [cNode EXCEPT ![n] = s]
    BY <1>1 DEF Health!Change
  <2>2. cNode' = [m \in Health!Nodes |-> IF m = n THEN s ELSE cNode[m]]
    BY <2>1 DEF HealthInv
  <2>3. UNCHANGED <<cCache, cReq, cAnswer>>
    BY <1>1 DEF Health!Change
  <2>4. 0 \in Health!Nodes /\ \A m \in Health!Nodes : s # Down => StateOf(m, s)
    BY <2>1, Blocks, StatesFit DEF Health!Nodes
  <2>5. StateOf(0, cNode'[0]) /\ \A m \in Health!Nodes : cNode'[m] # Down => StateOf(m, cNode'[m])
    <3>1. n = 0 => StateOf(0, s)
      BY <2>1, <2>4, StatesFit
    <3> QED BY <2>2, <2>4, <3>1 DEF HealthInv
  <2>6. cNode' = [m \in Health!Nodes |-> cNode'[m]]
    BY <2>2
  <2> QED BY <2>3, <2>5, <2>6 DEF HealthInv
<1>2. ASSUME NEW r \in Requests, Health!Ask(r) PROVE HealthInv'
  <2> DEFINE view == [n \in Health!Nodes |-> IF n = 0 THEN Health!_node_summary(Health!node_health(0, cNode[0]))
                                              ELSE Health!Missing]
  <2>1. /\ cReq[r].pc = "idle" /\ UNCHANGED <<cNode, cCache, cAnswer>>
        /\ cReq' = [cReq EXCEPT ![r] = [pc |-> "peers", todo |-> Health!Peers, left |-> 0, view |-> view]]
    BY <1>2 DEF Health!Ask
  <2>2. ViewOf(view)
    <3>1. Health!_node_summary(Health!node_health(0, cNode[0])).subs = cNode[0].subs
      BY DEF Health!_node_summary, Health!node_health
    <3>2. cNode[0].subs \in 0 .. Health!SizeOf(0) /\ Health!Missing.subs = 0
      BY DEF HealthInv, StateOf, Health!Missing
    <3>3. \A n \in Health!Nodes : view[n].subs \in 0 .. Health!SizeOf(n)
      BY <3>1, <3>2, Blocks
    <3> HIDE DEF view
    <3>4. view = [n \in Health!Nodes |-> view[n]]
      BY DEF view
    <3> QED BY <3>3, <3>4 DEF ViewOf
  <2> HIDE DEF view
  <2>3. cReq' = [cReq EXCEPT ![r] = Record("peers", Health!Peers, view, 0)] /\ CachesOf(cCache')
    BY <2>1 DEF Record, HealthInv
  <2> QED BY <2>1, <2>2, <2>3, RequestAsks
<1>3. ASSUME NEW r \in Requests, Health!Cover(r) PROVE HealthInv'
  <2> DEFINE q == [cReq[r] EXCEPT !.pc = "public"]
             a == [view |-> cReq[r].view, coverage |-> Health!cluster_health(cReq[r].view), overall |-> None, open |-> FALSE]
  <2>1. /\ cReq[r].pc = "peers" /\ cReq' = [cReq EXCEPT ![r] = q] /\ cAnswer' = [cAnswer EXCEPT ![r] = a]
        /\ UNCHANGED <<cNode, cCache>>
    BY <1>3 DEF Health!Cover, HealthInv
  <2>2. RequestOf(cReq[r], cAnswer[r]) /\ ViewOf(cReq[r].view)
    BY <2>1 DEF HealthInv, RequestOf
  <2>3. AnswerOf(q, a)
    <3>1. a.coverage = "LIVE_COMPLETE" => AllLive(a.view)
      BY <2>2, CompleteIsBacked
    <3>2. a.view = cReq[r].view /\ q.view = cReq[r].view
      BY <2>2 DEF RequestOf, Record
    <3> QED BY <3>1, <3>2 DEF AnswerOf
  <2>4. RequestOf(q, a)
    <3> HIDE DEF a
    <3>1. PICK pc, todo, view, left : cReq[r] = Record(pc, todo, view, left)
      BY <2>2 DEF RequestOf
    <3>2. q = Record("public", todo, view, left)
      BY <3>1 DEF Record
    <3>3. q = Record(q.pc, q.todo, q.view, q.left) /\ q.pc = "public" /\ q.todo = cReq[r].todo /\ q.view = cReq[r].view
      BY <3>1, <3>2 DEF Record
    <3> HIDE DEF q
    <3> QED BY <2>2, <2>3, <3>3 DEF RequestOf
  <2> HIDE DEF q, a
  <2> QED BY <2>1, <2>4, RequestAnswers
<1>4. ASSUME NEW r \in Requests, Health!Publish(r) PROVE HealthInv'
  <2> DEFINE q == [cReq[r] EXCEPT !.pc = "sent"]
             b == cAnswer[r]
             a == [view |-> b.view, coverage |-> b.coverage, overall |-> Health!public_health(b.view), open |-> Health!InMarket]
  <2>1. /\ cReq[r].pc = "public" /\ cReq' = [cReq EXCEPT ![r] = q] /\ UNCHANGED <<cNode, cCache>>
        /\ cAnswer' = [cAnswer EXCEPT ![r] = [b EXCEPT !.overall = Health!public_health(cReq[r].view), !.open = Health!InMarket]]
    BY <1>4 DEF Health!Publish, HealthInv
  <2>2. RequestOf(cReq[r], b) /\ AnswerOf(cReq[r], b) /\ ViewOf(b.view) /\ cReq[r].view = b.view
    BY <2>1 DEF HealthInv, RequestOf, AnswerOf
  <2>3. cAnswer' = [cAnswer EXCEPT ![r] = a]
    <3>1. PICK view, coverage, overall, open : b = [view |-> view, coverage |-> coverage, overall |-> overall, open |-> open]
      BY <2>2 DEF AnswerOf
    <3>2. b.view = view /\ b.coverage = coverage
      BY <3>1
    <3>3. ASSUME NEW x, NEW y
          PROVE  [b EXCEPT !.overall = x, !.open = y] = [view |-> b.view, coverage |-> b.coverage, overall |-> x, open |-> y]
      <4> HIDE DEF b
      <4>1. [b EXCEPT !.overall = x] = [view |-> view, coverage |-> coverage, overall |-> x, open |-> open]
        BY <3>1
      <4>2. [[view |-> view, coverage |-> coverage, overall |-> x, open |-> open] EXCEPT !.open = y]
               = [view |-> view, coverage |-> coverage, overall |-> x, open |-> y]
        OBVIOUS
      <4>3. [b EXCEPT !.overall = x, !.open = y] = [[b EXCEPT !.overall = x] EXCEPT !.open = y]
        OBVIOUS
      <4> QED BY <3>2, <4>1, <4>2, <4>3
    <3> QED BY <2>1, <2>2, <3>3
  <2>4. AnswerOf(q, a) /\ ViewOf(a.view)
    <3>1. Decided(a)
      BY HoursShow DEF Decided
    <3>2. AllLive(b.view) \/ b.coverage # "LIVE_COMPLETE"
      BY <2>2 DEF AnswerOf
    <3>3. q.pc = "sent"
      BY <2>2 DEF RequestOf, Record
    <3> QED BY <2>2, <3>1, <3>2, <3>3 DEF AnswerOf
  <2>5. RequestOf(q, a)
    <3> HIDE DEF a
    <3>1. PICK pc, todo, view, left : cReq[r] = Record(pc, todo, view, left)
      BY <2>2 DEF RequestOf
    <3>2. q = Record("sent", todo, view, left)
      BY <3>1 DEF Record
    <3>3. q = Record(q.pc, q.todo, q.view, q.left) /\ q.pc = "sent" /\ q.todo = cReq[r].todo /\ q.view = cReq[r].view
      BY <3>1, <3>2 DEF Record
    <3> HIDE DEF q
    <3> QED BY <2>1, <2>2, <2>4, <3>3 DEF RequestOf
  <2> HIDE DEF q, a
  <2> QED BY <2>1, <2>3, <2>5, RequestAnswers
<1>5. ASSUME NEW r \in Requests, Health!Return(r) PROVE HealthInv'
  <2>1. RequestOf(Health!Idle, None)
    BY DEF Health!Idle, RequestOf, Record
  <2>2. cReq' = [cReq EXCEPT ![r] = Health!Idle] /\ cAnswer' = [cAnswer EXCEPT ![r] = None] /\ UNCHANGED <<cNode, cCache>>
    BY <1>5 DEF Health!Return
  <2> QED BY <2>1, <2>2, RequestAnswers
<1>6. CASE Health!ClockTurns \/ Health!Probe \/ UNCHANGED Health!vars
  BY <1>6 DEF Health!ClockTurns, Health!Probe, Health!vars, HealthInv
<1> QED BY <1>1, <1>2, <1>3, <1>4, <1>5, <1>6, PeersAsked, HealthAges DEF Health!Next

-----------------------------------------------------------------------------
(* What a node calls OK: a body over the nodes, and the index node.          *)

Pieces(range) == Views!nodes_for_range(Universe, Count, range.start, range.end)
\* A piece that was read has stocks of the piece only.
Covers(g, q) == g.expected = q.end - q.start /\ g.items \subseteq q.start .. q.end - 1
BodyInv ==
    /\ vBody = [todo |-> vBody.todo, got |-> vBody.got, range |-> vBody.range, status |-> vBody.status]
    /\ \/ vBody.todo = {} /\ vBody.got = {} /\ vBody.range = None /\ vBody.status = None
       \/ /\ vBody.range \in Views!Ranges /\ vBody.todo \subseteq Pieces(vBody.range)
          /\ \A q \in Pieces(vBody.range) \ vBody.todo : \E g \in vBody.got : Covers(g, q)
          /\ \A g \in vBody.got : \E q \in Pieces(vBody.range) : Covers(g, q)
          /\ vBody.status = "OK" =>
                 vBody.todo = {} /\ Views!Complete(vBody.got) /\ \A g \in vBody.got : g.session = "LIVE"

\* The pieces of a range are parts of it, and each of its stocks lies in one.
LEMMA PiecesFit ==
    ASSUME NEW range \in Views!Ranges
    PROVE  /\ range.start \in Nat /\ range.end \in Nat /\ range.end <= Universe
           /\ \A q \in Pieces(range) : /\ q.node \in Views!Nodes /\ q.start \in Nat /\ q.end \in Nat
                                       /\ range.start <= q.start /\ q.start < q.end /\ q.end <= range.end
           /\ \A i \in Nat : range.start <= i /\ i < range.end => \E q \in Pieces(range) : q.start <= i /\ i < q.end
<1>0. Universe \in Pos /\ Count \in Pos /\ Universe \in Nat /\ Width \in Nat /\ Shards \in Nat
  BY InstanceAssumption DEF Views!ViewsAssumption, Pos
<1>1. range.start \in Nat /\ range.end \in Nat /\ range.end <= Universe
  <2>1. CASE range = [start |-> 0, end |-> Universe]
    BY <1>0, <2>1
  <2>2. CASE range \in Views!shard_ranges(Universe, Width, Shards)
    <3>1. PICK i \in 0 .. Shards - 1 : range = [start |-> Views!Smaller(i * Width, Universe),
                                                end |-> Views!Smaller((i + 1) * Width, Universe)]
      BY <2>2 DEF Views!shard_ranges
    <3>2. i * Width \in Nat /\ (i + 1) * Width \in Nat
      BY <1>0, <3>1, SMT
    <3> QED BY <1>0, <3>1, <3>2 DEF Views!Smaller
  <2> QED BY <2>1, <2>2 DEF Views!Ranges
<1> DEFINE block(n) == Views!partition_bounds(Universe, n, Count)
           piece(n) == [node |-> n, start |-> Views!Larger(Views!Larger(0, range.start), block(n).start),
                        end |-> Views!Smaller(Views!Smaller(Universe, range.end), block(n).end)]
<1>2. Pieces(range) = {q \in {piece(n) : n \in Views!Nodes} : q.start < q.end}
  BY DEF Pieces, Views!nodes_for_range, Views!Nodes
<1>3. ASSUME NEW n \in Views!Nodes PROVE block(n).start \in Int /\ block(n).end \in Int
  <2>1. n \in Int /\ (-n) * Universe \in Int /\ (-(n + 1)) * Universe \in Int
    BY <1>0, SMT DEF Views!Nodes, Pos
  <2>2. ((-n) * Universe) \div Count \in Int /\ ((-(n + 1)) * Universe) \div Count \in Int
    BY <1>0, <2>1, FloorDivision
  <2> QED BY <2>2 DEF Views!partition_bounds
<1> HIDE DEF block
<1>4. ASSUME NEW n \in Views!Nodes
      PROVE  /\ piece(n).node = n
             /\ piece(n).start = IF range.start < block(n).start THEN block(n).start ELSE range.start
             /\ piece(n).end = IF range.end < block(n).end THEN range.end ELSE block(n).end
             /\ piece(n).start \in Nat /\ piece(n).end \in Int
             /\ range.start <= piece(n).start /\ piece(n).end <= range.end
  BY <1>0, <1>1, <1>3 DEF Views!Larger, Views!Smaller
<1> HIDE DEF piece
<1>5. ASSUME NEW q \in Pieces(range)
      PROVE  /\ q.node \in Views!Nodes /\ q.start \in Nat /\ q.end \in Nat
             /\ range.start <= q.start /\ q.start < q.end /\ q.end <= range.end
  <2>1. PICK n \in Views!Nodes : q = piece(n) /\ q.start < q.end
    BY <1>2
  <2> QED BY <1>4, <2>1
<1>6. ASSUME NEW i \in Nat, range.start <= i, i < range.end PROVE \E q \in Pieces(range) : q.start <= i /\ i < q.end
  <2> DEFINE n == Views!owner_of_index(Universe, Count, i)
  <2>1. i \in 0 .. Universe - 1
    BY <1>0, <1>1, <1>6
  <2>2. n \in Views!Nodes /\ Views!owns_index(block(n), i)
    BY <1>0, <2>1, OwnerOwns DEF Views!Nodes, block
  <2> HIDE DEF n
  <2>3. piece(n).start <= i /\ i < piece(n).end
    BY <1>1, <1>3, <1>4, <1>6, <2>2 DEF Views!owns_index
  <2>4. piece(n) \in Pieces(range)
    BY <1>2, <1>4, <2>2, <2>3
  <2> QED BY <2>3, <2>4
<1> QED BY <1>1, <1>5, <1>6

LEMMA BodySteady == BodyInv /\ [Views!Next]_(Views!vars) => BodyInv'
<1> SUFFICES ASSUME BodyInv, [Views!Next]_(Views!vars) PROVE BodyInv'
  OBVIOUS
<1>0. None # "OK"
  BY InstanceAssumption DEF Views!ViewsAssumption
<1>1. ASSUME NEW range \in Views!Ranges, Views!Collect(range) PROVE BodyInv'
  <2>1. vBody' = [todo |-> Pieces(range), got |-> {}, range |-> range, status |-> None]
    BY <1>1 DEF Views!Collect, Pieces
  <2>2. vBody'.todo = Pieces(range) /\ vBody'.got = {} /\ vBody'.range = range /\ vBody'.status = None
    BY <2>1
  <2>3. vBody' = [todo |-> vBody'.todo, got |-> vBody'.got, range |-> vBody'.range, status |-> vBody'.status]
    BY <2>1, <2>2
  <2> QED BY <1>0, <2>2, <2>3, Zenon DEF BodyInv, Pieces
<1>2. CASE Views!CollectPiece
  <2> DEFINE piece == CHOOSE q \in vBody.todo : \A o \in vBody.todo : q.node <= o.node
             n == piece.node
             there == n = 0 \/ (n \in Configured /\ vNode[n] # Down /\ ~vNode[n].wrong)
             g == [node |-> n, available |-> there, expected |-> piece.end - piece.start,
                   items |-> IF there THEN Views!Holds(n, vNode[n], piece) ELSE {},
                   session |-> IF there THEN vNode[n].session ELSE None]
             range == vBody.range
  <2>1. vBody.todo # {} /\ vBody' = [vBody EXCEPT !.todo = vBody.todo \ {piece}, !.got = vBody.got \cup {g}]
    BY <1>2 DEF Views!CollectPiece
  <2>2. range \in Views!Ranges /\ vBody.todo \subseteq Pieces(range) /\ vBody.status # "OK"
    BY <1>0, <2>1 DEF BodyInv
  <2>3. piece \in vBody.todo
    <3> DEFINE S == {q.node : q \in vBody.todo}
    <3>0. \A q \in vBody.todo : q.node \in Views!Nodes
      BY <2>2, PiecesFit
    <3>1. S \in SUBSET Nat /\ S # {}
      <4>1. \A k \in Views!Nodes : k \in Nat
        BY DEF Views!Nodes
      <4>2. \A k \in S : k \in Nat
        BY <3>0, <4>1
      <4>3. S # {}
        BY <2>1
      <4> HIDE DEF S
      <4> QED BY <4>2, <4>3
    <3>2. PICK m \in S : \A k \in S : m <= k
      <4> HIDE DEF S
      <4> QED BY <3>1, FirstOfSome
    <3>3. \E q \in vBody.todo : \A o \in vBody.todo : q.node <= o.node
      BY <3>2
    <3> QED BY <3>3
  <2> HIDE DEF piece
  <2>4. Covers(g, piece)
    <3>1. Views!Holds(n, vNode[n], piece) \subseteq piece.start .. piece.end - 1
      BY DEF Views!Holds
    <3> QED BY <3>1 DEF Covers
  <2> HIDE DEF g
  <2>5. /\ vBody'.todo = vBody.todo \ {piece} /\ vBody'.got = vBody.got \cup {g}
        /\ vBody'.range = range /\ vBody'.status = vBody.status
        /\ vBody' = [todo |-> vBody'.todo, got |-> vBody'.got, range |-> vBody'.range, status |-> vBody'.status]
    <3>1. PICK todo, got, r, status : vBody = [todo |-> todo, got |-> got, range |-> r, status |-> status]
      BY DEF BodyInv
    <3>2. vBody.range = r /\ vBody.status = status
      BY <3>1
    <3>3. ASSUME NEW x, NEW y
          PROVE  [vBody EXCEPT !.todo = x, !.got = y] = [todo |-> x, got |-> y, range |-> r, status |-> status]
      <4>1. [vBody EXCEPT !.todo = x] = [todo |-> x, got |-> got, range |-> r, status |-> status]
        BY <3>1
      <4>2. [vBody EXCEPT !.todo = x, !.got = y] = [[vBody EXCEPT !.todo = x] EXCEPT !.got = y]
        OBVIOUS
      <4>3. [[todo |-> x, got |-> got, range |-> r, status |-> status] EXCEPT !.got = y]
               = [todo |-> x, got |-> y, range |-> r, status |-> status]
        OBVIOUS
      <4> QED BY <4>1, <4>2, <4>3
    <3> QED BY <2>1, <3>2, <3>3
  <2>6. /\ \A q \in Pieces(range) \ vBody'.todo : \E h \in vBody'.got : Covers(h, q)
        /\ \A h \in vBody'.got : \E q \in Pieces(range) : Covers(h, q)
    BY <2>1, <2>2, <2>3, <2>4, <2>5 DEF BodyInv
  <2> QED BY <2>2, <2>5, <2>6 DEF BodyInv, Pieces
<1>3. CASE Views!Body
  <2>1. CASE vBody.status = None
    <3>1. vBody.range # None /\ vBody.todo = {} /\ vBody' = [vBody EXCEPT !.status = Views!live_body(vBody.got)]
      BY <1>3, <2>1 DEF Views!Body
    <3>2. /\ vBody'.todo = {} /\ vBody'.got = vBody.got /\ vBody'.range = vBody.range
          /\ vBody'.status = Views!live_body(vBody.got)
          /\ vBody' = [todo |-> vBody'.todo, got |-> vBody'.got, range |-> vBody'.range, status |-> vBody'.status]
      BY <3>1 DEF BodyInv
    <3>3. Views!live_body(vBody.got) = "OK"
              => Views!Complete(vBody.got) /\ \A g \in vBody.got : g.session = "LIVE"
      BY DEF Views!live_body, Views!Complete
    <3> QED BY <3>1, <3>2, <3>3 DEF BodyInv, Pieces, Views!Complete
  <2>2. CASE vBody.status # None
    <3>1. vBody' = [todo |-> {}, got |-> {}, range |-> None, status |-> None]
      BY <1>3, <2>2 DEF Views!Body
    <3> QED BY <3>1 DEF BodyInv
  <2> QED BY <2>1, <2>2
<1>4. CASE UNCHANGED vBody
  BY <1>4 DEF BodyInv, Pieces, Views!Complete
<1> QED BY <1>1, <1>2, <1>3, <1>4 DEF Views!Next, Views!vars, Views!Change, Views!Stock, Views!StockProxy,
              Views!StockSent, Views!_probe_peers, Views!Second

\* A body that says OK was read piece by piece, and every piece was whole when it was read.
LEMMA BodyIsWhole == BodyInv => Views!OkIsWhole
<1> SUFFICES ASSUME BodyInv, vBody.status = "OK" PROVE Views!OkIsWhole
  BY DEF Views!OkIsWhole
<1> DEFINE range == vBody.range
           got == vBody.got
<1>0. None # "OK"
  BY InstanceAssumption DEF Views!ViewsAssumption
<1>1. /\ range \in Views!Ranges /\ vBody.todo = {} /\ Views!Complete(got)
      /\ \A g \in got : g.session = "LIVE"
      /\ \A q \in Pieces(range) : \E g \in got : Covers(g, q)
      /\ \A g \in got : \E q \in Pieces(range) : Covers(g, q)
  BY <1>0 DEF BodyInv
<1> HIDE DEF range, got
<1>2. /\ range.start \in Nat /\ range.end \in Nat /\ range.end <= Universe
      /\ \A q \in Pieces(range) : /\ q.node \in Views!Nodes /\ q.start \in Nat /\ q.end \in Nat
                                  /\ range.start <= q.start /\ q.start < q.end /\ q.end <= range.end
      /\ \A i \in Nat : range.start <= i /\ i < range.end => \E q \in Pieces(range) : q.start <= i /\ i < q.end
  BY <1>1, PiecesFit
<1>3. ASSUME NEW g \in got, NEW q \in Pieces(range), Covers(g, q)
      PROVE  g.items = q.start .. q.end - 1
  <2> DEFINE piece == q.start .. q.end - 1
  <2>1. q.start \in Nat /\ q.end \in Nat /\ q.start < q.end
    BY <1>2
  <2>2. IsFiniteSet(piece) /\ Cardinality(piece) = q.end - q.start
    <3>1. q.start \in Int /\ q.end - 1 \in Int /\ q.start <= q.end - 1 /\ q.end - 1 - q.start + 1 = q.end - q.start
      BY <2>1
    <3>2. IsFiniteSet(piece) /\ Cardinality(piece) = IF q.start > q.end - 1 THEN 0 ELSE q.end - 1 - q.start + 1
      BY <3>1, FS_Interval
    <3> QED BY <3>1, <3>2
  <2>3. g.items \subseteq piece /\ Cardinality(g.items) >= q.end - q.start
    <3>1. \A S : Views!Cardinality(S) = Cardinality(S)
      BY DEF Views!Cardinality, Cardinality
    <3>2. Views!Cardinality(g.items) >= g.expected
      BY <1>1 DEF Views!Complete
    <3> QED BY <1>3, <3>1, <3>2 DEF Covers
  <2> HIDE DEF piece
  <2>4. Cardinality(g.items) \in Nat /\ Cardinality(g.items) <= Cardinality(piece)
    BY <2>2, <2>3, FS_Subset, FS_CardinalityType
  <2>5. Cardinality(g.items) = Cardinality(piece)
    BY <2>1, <2>2, <2>3, <2>4
  <2>6. g.items = piece
    BY <2>2, <2>3, <2>5, FS_Subset
  <2> QED BY <2>6 DEF piece
<1>4. ASSUME NEW g \in got, NEW i \in g.items
      PROVE  i \in 0 .. Universe - 1 /\ range.start <= i /\ i < range.end
  <2>1. PICK q \in Pieces(range) : Covers(g, q)
    BY <1>1
  <2>2. i \in q.start .. q.end - 1
    BY <1>3, <2>1
  <2>3. Universe \in Nat
    BY InstanceAssumption DEF Views!ViewsAssumption
  <2> QED BY <1>2, <2>1, <2>2, <2>3
<1>5. ASSUME NEW i \in 0 .. Universe - 1, range.start <= i, i < range.end
      PROVE  \E g \in got : i \in g.items
  <2>1. i \in Nat
    BY InstanceAssumption DEF Views!ViewsAssumption
  <2>2. PICK q \in Pieces(range) : q.start <= i /\ i < q.end
    BY <1>2, <1>5, <2>1
  <2>3. PICK g \in got : Covers(g, q)
    BY <1>1
  <2>4. i \in q.start .. q.end - 1
    BY <1>2, <2>1, <2>2
  <2> QED BY <1>3, <2>3, <2>4
<1>6. UNION {g.items : g \in got} = {i \in 0 .. Universe - 1 : range.start <= i /\ i < range.end}
  BY <1>4, <1>5, Zenon
<1> QED BY <1>1, <1>6 DEF Views!OkIsWhole, range, got

\* The index node's health is of the candles, whose days are those of DayInv.
LEMMA StaleIsShown == DayInv => Node!StaleShown
<1> SUFFICES ASSUME DayInv, Node!health = "OK", HealthFrom <= iT, iT < Close, NEW i \in Node!Indices
             PROVE  iIndex[i].candles = iDay /\ iT - iIndex[i].held <= StaleMinutes + 1
  BY DEF Node!StaleShown
<1>1. /\ iT \in Nat /\ Close \in Nat /\ HealthFrom \in Nat /\ StaleMinutes \in Nat
      /\ StaleMinutes + 1 < HealthFrom + Close /\ None \notin Int
  BY InstanceAssumption, IndexConstants DEF DayInv, DayTyped, Node!IndexAssumption
<1>2. iIndex[i] \in IndexRow
  BY DEF DayInv, DayTyped
<1>3. iIndex[i].held \in Int
  BY <1>2 DEF IndexRow
<1>4. ~(Node!Age(i) = None \/ (Node!Age(i) # None /\ Node!Age(i) > StaleMinutes + 1))
  BY DEF Node!health
<1>5. iIndex[i].candles # None
  BY <1>4 DEF Node!Age
<1>6. ~(iT + Close <= StaleMinutes + 1) /\ iT + Close \in Int /\ iT - iIndex[i].held \in Int
  BY <1>1, <1>3
<1>7. CASE iIndex[i].candles = iDay
  <2>1. Node!Age(i) = iT - iIndex[i].held
    BY <1>5, <1>7 DEF Node!Age
  <2> QED BY <1>1, <1>4, <1>6, <1>7, <2>1
<1>8. CASE iIndex[i].candles # iDay
  <2>1. Node!Age(i) = iT + Close
    BY <1>5, <1>8 DEF Node!Age
  <2> QED BY <1>1, <1>4, <1>6, <2>1
<1> QED BY <1>7, <1>8

LEMMA HealthStarts == Health!Init => HealthInv
<1> SUFFICES ASSUME Health!Init PROVE HealthInv
  OBVIOUS
<1>1. /\ cNode = [n \in Health!Nodes |-> cNode[n]] /\ \A n \in Health!Nodes : cNode[n] \in States
  BY DEF Health!Init
<1>2. 0 \in Health!Nodes /\ \A n \in Health!Nodes : StateOf(n, cNode[n])
  BY <1>1, Blocks, StatesFit DEF Health!Nodes
<1>3. CachesOf(cCache)
  <2>1. cCache = [p \in Health!Peers |-> None]
    BY DEF Health!Init
  <2> QED BY <2>1 DEF CachesOf, CacheOf
<1>4. /\ cReq = [r \in Requests |-> Record("idle", {}, <<>>, 0)] /\ cAnswer = [r \in Requests |-> None]
  BY DEF Health!Init, Health!Idle, Record
<1>5. RequestOf(Record("idle", {}, <<>>, 0), None)
  BY DEF RequestOf, Record
<1> QED BY <1>1, <1>2, <1>3, <1>4, <1>5 DEF HealthInv

\* An answer that calls the cluster complete was put together from summaries in which every
\* node was live, healthy and subscribed to the whole of its block; the public health never
\* hides a missing node in market hours and reports no fault outside of them
\* (runtime.cluster_health, api.public_health); a body says OK only with every stock of its
\* range, each read from a LIVE node (api.live_body); and the index node is not OK while the
\* last candle of some index is too old (index_node.health): for any universe, any number of
\* nodes, requests and indices, and any times of the caches.
THEOREM HealthIsHonest == Spec => []HealthHonest
<1>1. Spec => []HealthInv
  <2>1. Init => HealthInv
    BY HealthStarts DEF Init
  <2>2. [Next]_vars => [Health!Next]_(Health!vars)
    BY DEF Next, vars, cVars, PeerOnly, RenderOnly, HealthOnly, ViewsOnly, IndexOnly, Health!vars
  <2> QED BY <2>1, <2>2, HealthSteady, PTL DEF Spec
<1>2. HealthInv => Health!CompleteIsLive /\ Health!HoursDecide
  <2> SUFFICES ASSUME HealthInv PROVE Health!CompleteIsLive /\ Health!HoursDecide
    OBVIOUS
  <2>1. ASSUME NEW r \in Requests, cAnswer[r] # None PROVE AnswerOf(cReq[r], cAnswer[r])
    BY <2>1 DEF HealthInv, RequestOf
  <2>2. Health!CompleteIsLive
    BY <2>1 DEF Health!CompleteIsLive, AnswerOf, AllLive
  <2>3. Health!HoursDecide
    BY <2>1 DEF Health!HoursDecide, AnswerOf, Decided
  <2> QED BY <2>2, <2>3
<1>3. Spec => []BodyInv
  <2>1. Views!Init => BodyInv
    BY DEF Views!Init, Views!Fresh, BodyInv
  <2> QED BY <2>1, BodySteady, ViewsRun, PTL DEF Views!Spec
<1>4. Spec => []DayInv
  <2>1. Init => Node!Init
    BY DEF Init
  <2>2. [Next]_vars => [Node!Next]_(Node!vars)
    BY DEF Next, vars, iVars, PeerOnly, RenderOnly, HealthOnly, ViewsOnly, IndexOnly, Node!vars
  <2> QED BY <2>1, <2>2, IndexStarts, IndexSteady, PTL DEF Spec
<1> QED BY <1>1, <1>2, <1>3, <1>4, BodyIsWhole, StaleIsShown, PTL DEF HealthHonest

-----------------------------------------------------------------------------
(* The types of all parts.                                                   *)

\* The schedule is counted by its positions.
LEMMA BackoffLength == Views!Cardinality(DOMAIN Backoff) = Len(Backoff) /\ Len(Backoff) \in Nat \ {0}
                       /\ \A k \in 1 .. Len(Backoff) : Backoff[k] \in Nat
<1>1. Backoff \in Seq(Nat \ {0}) /\ Backoff # <<>>
  BY InstanceAssumption DEF Peer!PeerAssumption
<1>2. Len(Backoff) \in Nat \ {0} /\ DOMAIN Backoff = 1 .. Len(Backoff)
      /\ \A k \in 1 .. Len(Backoff) : Backoff[k] \in Nat
  BY <1>1
<1>3. Cardinality(1 .. Len(Backoff)) = Len(Backoff)
  BY <1>2, FS_Interval
<1>4. Views!Cardinality(DOMAIN Backoff) = Cardinality(DOMAIN Backoff)
  BY DEF Views!Cardinality, Cardinality
<1> QED BY <1>2, <1>3, <1>4

\* What the nodes hold and what their probes have come to.
ProbeType == [failures : 0 .. Len(Backoff), left : Nat]
ViewTyped ==
    /\ vNode = [n \in Views!Nodes |-> vNode[n]] /\ \A n \in Views!Nodes : vNode[n] \in Views!Held(n) \cup {Down}
    /\ vChanges \in 0 .. MaxViewChanges
    /\ vProbe \in [Views!Peers -> ProbeType]

LEMMA ViewsTyped == ViewTyped /\ [Views!Next]_(Views!vars) => ViewTyped'
<1> SUFFICES ASSUME ViewTyped, [Views!Next]_(Views!vars) PROVE ViewTyped'
  OBVIOUS
<1>0. MaxViewChanges \in Nat
  BY InstanceAssumption DEF Views!ViewsAssumption
<1>1. ASSUME NEW n \in Views!Nodes, Views!Change(n) PROVE ViewTyped'
  <2>1. /\ vChanges < MaxViewChanges /\ vChanges' = vChanges + 1 /\ vProbe' = vProbe
        /\ \E s \in Views!Held(n) \cup {Down} : vNode' = [vNode EXCEPT ![n] = s]
    BY <1>1 DEF Views!Change, Views!pvars
  <2>2. vChanges' \in 0 .. MaxViewChanges
    BY <1>0, <2>1 DEF ViewTyped
  <2>3. PICK s \in Views!Held(n) \cup {Down} : vNode' = [vNode EXCEPT ![n] = s]
    BY <2>1
  <2>4. vNode' = [m \in Views!Nodes |-> IF m = n THEN s ELSE vNode[m]]
    BY <2>3 DEF ViewTyped
  <2>5. vNode' = [m \in Views!Nodes |-> vNode'[m]] /\ \A m \in Views!Nodes : vNode'[m] \in Views!Held(m) \cup {Down}
    BY <2>3, <2>4 DEF ViewTyped
  <2>6. \A m \in Views!Nodes : Views!Held(m)' = Views!Held(m)
    BY DEF Views!Held, Views!Whole, Views!Block
  <2> QED BY <2>1, <2>2, <2>5, <2>6 DEF ViewTyped, ProbeType
<1>2. CASE Views!_probe_peers
  <2>2. vNode' = vNode /\ vChanges' \in 0 .. MaxViewChanges
    <3>1. /\ vNode' = vNode
          /\ vChanges' = vChanges \/ (vChanges < MaxViewChanges /\ vChanges' = vChanges + 1)
      BY <1>2 DEF Views!_probe_peers
    <3> QED BY <1>0, <3>1 DEF ViewTyped
  <2>3. vProbe' \in [Views!Peers -> ProbeType]
    <3> DEFINE f(p) == Views!Smaller(vProbe[p].failures + 1, Views!Cardinality(DOMAIN Backoff))
    <3>1. /\ vProbe' = [p \in Views!Peers |-> vProbe'[p]]
          /\ \A p \in Views!Peers :
                \/ vProbe'[p] = vProbe[p] \/ vProbe'[p] = [failures |-> 0, left |-> 0]
                \/ vProbe'[p] = [failures |-> f(p), left |-> Views!backoff_after(f(p))]
      <4> HIDE DEF f
      <4> QED BY <1>2 DEF Views!_probe_peers, f
    <3>2. ASSUME NEW p \in Views!Peers PROVE vProbe'[p] \in ProbeType
      <4>1. vProbe[p] \in ProbeType /\ vProbe[p].failures \in 0 .. Len(Backoff)
        BY DEF ViewTyped, ProbeType
      <4>2. f(p) \in 1 .. Len(Backoff)
        BY <4>1, BackoffLength DEF Views!Smaller
      <4> HIDE DEF f
      <4>3. Views!backoff_after(f(p)) \in Nat
        BY <4>2, BackoffLength DEF Views!backoff_after, Views!Smaller
      <4>4. [failures |-> f(p), left |-> Views!backoff_after(f(p))] \in ProbeType
        BY <4>2, <4>3, BackoffLength DEF ProbeType
      <4>5. [failures |-> 0, left |-> 0] \in ProbeType
        BY BackoffLength DEF ProbeType
      <4> QED BY <3>1, <4>1, <4>4, <4>5
    <3> QED BY <3>1, <3>2
  <2>6. \A m \in Views!Nodes : Views!Held(m)' = Views!Held(m)
    BY DEF Views!Held, Views!Whole, Views!Block
  <2> QED BY <2>2, <2>3, <2>6 DEF ViewTyped, ProbeType
<1>3. CASE Views!Second
  <2>1. /\ vNode' = vNode /\ vChanges' = vChanges
        /\ vProbe' = [p \in Views!Peers |-> [vProbe[p] EXCEPT !.left = Views!Larger(@ - 1, 0)]]
    BY <1>3 DEF Views!Second
  <2>2. ASSUME NEW p \in Views!Peers PROVE [vProbe[p] EXCEPT !.left = Views!Larger(@ - 1, 0)] \in ProbeType
    BY DEF ViewTyped, ProbeType, Views!Larger
  <2>3. vProbe' \in [Views!Peers -> ProbeType]
    BY <2>1, <2>2
  <2>6. \A m \in Views!Nodes : Views!Held(m)' = Views!Held(m)
    BY DEF Views!Held, Views!Whole, Views!Block
  <2> QED BY <2>1, <2>3, <2>6 DEF ViewTyped, ProbeType
<1>4. CASE UNCHANGED <<vNode, vChanges, vProbe>>
  <2>6. \A m \in Views!Nodes : Views!Held(m)' = Views!Held(m)
    BY DEF Views!Held, Views!Whole, Views!Block
  <2> QED BY <1>4, <2>6 DEF ViewTyped, ProbeType
<1> QED BY <1>1, <1>2, <1>3, <1>4 DEF Views!Next, Views!vars, Views!pvars, Views!Collect, Views!CollectPiece,
           Views!Body, Views!Stock, Views!StockProxy, Views!StockSent

LEMMA ViewsStart == Views!Init => ViewTyped
<1> SUFFICES ASSUME Views!Init PROVE ViewTyped
  OBVIOUS
<1>1. /\ vNode = [n \in Views!Nodes |-> [session |-> "LIVE", stocks |-> Views!Whole(n), wrong |-> FALSE]]
      /\ vChanges = 0 /\ vProbe = [p \in Views!Peers |-> [failures |-> 0, left |-> 0]]
  BY DEF Views!Init
<1>2. \A n \in Views!Nodes : vNode[n] \in Views!Held(n) \cup {Down}
  BY <1>1 DEF Views!Held
<1>3. vNode = [n \in Views!Nodes |-> vNode[n]]
  BY <1>1
<1>4. vChanges \in 0 .. MaxViewChanges
  BY <1>1, InstanceAssumption DEF Views!ViewsAssumption
<1>5. vProbe \in [Views!Peers -> ProbeType]
  BY <1>1, BackoffLength DEF ProbeType
<1> QED BY <1>2, <1>3, <1>4, <1>5 DEF ViewTyped

LEMMA ViewsTypes == ViewTyped /\ BodyInv /\ Passed => Views!TypeOK
<1> SUFFICES ASSUME ViewTyped, BodyInv, Passed PROVE Views!TypeOK
  OBVIOUS
<1>1. ASSUME NEW g \in vBody.got PROVE g.items \subseteq 0 .. Universe - 1
  <2>1. PICK range \in Views!Ranges : \E q \in Pieces(range) : Covers(g, q)
    BY DEF BodyInv
  <2>2. PICK q \in Pieces(range) : Covers(g, q)
    BY <2>1
  <2>3. q.start \in Nat /\ q.end \in Nat /\ q.end <= range.end /\ range.end <= Universe /\ range.end \in Nat
    BY PiecesFit
  <2>4. Universe \in Nat
    BY InstanceAssumption DEF Views!ViewsAssumption
  <2>5. q.start .. q.end - 1 \subseteq 0 .. Universe - 1
    BY <2>3, <2>4
  <2> QED BY <2>2, <2>5 DEF Covers
<1>2. vStock # None => vStock.via \subseteq Views!Nodes
  BY DEF Passed
<1>3. ASSUME NEW p \in Views!Peers
      PROVE  vProbe[p].failures \in 0 .. Views!Cardinality(DOMAIN Backoff) /\ vProbe[p].left >= 0
  BY BackoffLength DEF ViewTyped, ProbeType
<1> QED BY <1>1, <1>2, <1>3 DEF Views!TypeOK, ViewTyped

LEMMA IndexTypes == DayInv => Node!TypeOK
<1> SUFFICES ASSUME DayInv PROVE Node!TypeOK
  OBVIOUS
<1>1. ASSUME NEW i \in Node!Indices PROVE iIndex[i].held \in 0 .. Close
  <2>1. iIndex[i].held \in Nat /\ iIndex[i].held <= Close
    BY DEF DayInv, DayTyped, RowsOK, RowOK, IndexRow
  <2> QED BY <2>1, IndexConstants
<1> QED BY <1>1 DEF Node!TypeOK, DayInv, DayTyped

\* A block is no larger than the universe.
LEMMA BlockFits == \A n \in Health!Nodes : Health!SizeOf(n) \in 0 .. Size
<1> SUFFICES ASSUME NEW n \in Health!Nodes PROVE Health!SizeOf(n) \in 0 .. Size
  OBVIOUS
<1>1. Size \in Pos /\ Count \in Pos /\ n \in 0 .. Count - 1
  BY Blocks DEF Pos, Health!Nodes
<1>2. n * Size \in Nat /\ (n + 1) * Size \in Nat /\ (n + 1) * Size <= Count * Size
  BY <1>1, SMT DEF Pos
<1>3. (-n) * Size = -(n * Size) /\ (-(n + 1)) * Size = -((n + 1) * Size)
  BY <1>1, SMT DEF Pos
<1>4. Start(n + 1) <= Size
  <2>1. (Start(n + 1) <= Size) <=> ((n + 1) * Size <= Count * Size)
    <3>1. Size \in Int
      BY <1>1 DEF Pos
    <3>2. (-((-((n + 1) * Size)) \div Count) <= Size) <=> ((n + 1) * Size <= Count * Size)
      <4> DEFINE a == (n + 1) * Size
      <4>1. a \in Int
        BY <1>2
      <4> HIDE DEF a
      <4>2. (-((-a) \div Count) <= Size) <=> (a <= Count * Size)
        BY <1>1, <3>1, <4>1, CeilingDivision, Zenon
      <4> QED BY <4>2 DEF a
    <3> QED BY <1>3, <3>2 DEF Start
  <2> QED BY <1>2, <2>1
<1>5. ~(Start(n) <= -1)
  <2>1. (Start(n) <= -1) <=> (n * Size <= Count * (-1))
    BY <1>1, <1>2, <1>3, CeilingDivision DEF Start, Pos
  <2> QED BY <1>1, <1>2, <2>1 DEF Pos
<1>6. Start(n) \in Int /\ Start(n + 1) \in Int /\ Health!SizeOf(n) = Start(n + 1) - Start(n) /\ Health!SizeOf(n) >= 1
  BY Blocks
<1> QED BY <1>1, <1>4, <1>5, <1>6 DEF Pos

HeardType == (0 .. StaleSeconds + 1) \cup {None}
SummaryType ==
    [reachable : BOOLEAN, healthy : BOOLEAN, subs : 0 .. Size, error : BOOLEAN, heard : HeardType,
     session : {None, "CLOSED", "PRE_OPEN", "LIVE"},
     feed : {None, "CONNECTED", "RECONNECTING", "ERROR", "AUTHENTICATING"}]
\* What of a node's state goes into its summary.
StateTyped(s) ==
    /\ s.subs \in 0 .. Size /\ s.heard \in HeardType /\ s.session \in {"CLOSED", "PRE_OPEN", "LIVE"}
    /\ s.feed \in {"CONNECTED", "RECONNECTING", "ERROR", "AUTHENTICATING"}
CacheTyped(c) ==
    c # None => c.age \in 0 .. Health!Old /\ (c.answer # Down => StateTyped(c.answer.state))
RequestTyped(q, a) ==
    /\ q.pc # "idle" => q.view \in Health!View
    /\ a # None => a.view \in Health!View
    /\ q.pc = "fetch" => q.left \in 0 .. TimeoutSeconds
\* A peer's lock is held by the request that fetches this peer's answer, and by no other.
LocksHeld ==
    /\ cLock = [p \in Health!Peers |-> cLock[p]]
    /\ \A p \in Health!Peers : cLock[p] # None =>
           /\ cLock[p] \in Requests /\ cReq[cLock[p]].pc = "fetch"
           /\ Health!First(cReq[cLock[p]].todo) = p
    /\ \A r \in Requests : cReq[r].pc = "fetch" => cLock[Health!First(cReq[r].todo)] = r
HealthTyped ==
    /\ cNode[0] \in States /\ \A n \in Health!Nodes : cNode[n] \in States \cup {Down}
    /\ cChanges \in 0 .. MaxChanges
    /\ \A p \in Health!Peers : CacheTyped(cCache[p])
    /\ \A r \in Requests : RequestTyped(cReq[r], cAnswer[r])
    /\ LocksHeld

LEMMA HealthConstants ==
    /\ CacheSeconds \in Nat /\ TimeoutSeconds \in Nat /\ StaleSeconds \in Nat /\ MaxChanges \in Nat
    /\ None \notin Requests /\ Health!Old = CacheSeconds + 1
BY InstanceAssumption DEF Health!ClusterAssumption, Health!Old

\* The states of a node are typed, also when the last message they tell of has aged.
LEMMA StatesTyped ==
    /\ \A s \in States : StateTyped(s)
    /\ \A n \in Health!Nodes, h \in HeardType : \A s : StateOf(n, s) => StateTyped([s EXCEPT !.heard = h])
<1>0. 0 \in Health!Nodes /\ StaleSeconds \in Nat /\ Size \in Nat
  BY Blocks, HealthConstants DEF Health!Nodes
<1>1. ASSUME NEW s \in States PROVE StateTyped(s)
  <2>1. s.subs \in 0 .. Size
    <3>1. s.subs \in 0 .. Health!SizeOf(0)
      BY <1>0, InstanceAssumption DEF Health!ClusterAssumption
    <3>2. Health!SizeOf(0) \in 0 .. Size
      BY <1>0, BlockFits
    <3> QED BY <1>0, <3>1, <3>2
  <2>2. /\ s.session \in {"LIVE", "PRE_OPEN", "CLOSED"} /\ s.feed \in {"CONNECTED", "ERROR"}
        /\ s.heard = 0 \/ s.heard = None
    <3>1. CASE s = Good
      BY <3>1 DEF Good
    <3>2. CASE s = [Good EXCEPT !.session = "PRE_OPEN"]
      BY <3>2 DEF Good
    <3>3. CASE s = [Good EXCEPT !.wrong = TRUE]
      BY <3>3 DEF Good
    <3>4. CASE s = [Good EXCEPT !.session = "CLOSED", !.config = TRUE, !.feed = "ERROR", !.subs = 0,
                                !.stocks = 0, !.heard = None]
      BY <3>4 DEF Good
    <3> QED BY <3>1, <3>2, <3>3, <3>4 DEF States
  <2>3. s.heard \in HeardType
    BY <1>0, <2>2 DEF HeardType
  <2> QED BY <2>1, <2>2, <2>3 DEF StateTyped
<1>2. ASSUME NEW n \in Health!Nodes, NEW h \in HeardType, NEW s, StateOf(n, s)
      PROVE  StateTyped([s EXCEPT !.heard = h])
  <2>1. PICK g \in States : s = [g EXCEPT !.heard = s.heard]
    BY <1>2 DEF StateOf
  <2>2. StateTyped(g)
    BY <1>1
  <2>3. LET a == [s EXCEPT !.heard = h] IN a.subs = g.subs /\ a.session = g.session /\ a.feed = g.feed /\ a.heard = h
    <3>1. \E F : "heard" \in F /\ g = [f \in F |-> g[f]]
      <4>1. g = [f \in {"config", "host", "verified", "packets", "sup", "session", "feed", "thread", "stocks",
                        "subs", "fresh", "heard", "wrong"} |-> g[f]]
        BY DEF States, Good
      <4> QED BY <4>1
    <3>2. PICK F : "heard" \in F /\ g = [f \in F |-> g[f]]
      BY <3>1
    <3>3. [[g EXCEPT !.heard = s.heard] EXCEPT !.heard = h] = [g EXCEPT !.heard = h]
      BY <3>2
    <3>4. [g EXCEPT !.heard = h].heard = h
      BY <3>2
    <3>5. /\ [g EXCEPT !.heard = h].subs = g.subs /\ [g EXCEPT !.heard = h].session = g.session
          /\ [g EXCEPT !.heard = h].feed = g.feed
      BY DEF States, Good
    <3>6. [s EXCEPT !.heard = h] = [g EXCEPT !.heard = h]
      BY <2>1, <3>3
    <3> QED BY <3>4, <3>5, <3>6
  <2> QED BY <2>2, <2>3 DEF StateTyped
<1> QED BY <1>1, <1>2

LEMMA SummaryTyped ==
    ASSUME NEW p, NEW a, a = Down \/ StateTyped(a.state)
    PROVE  Health!Summary(p, a) \in SummaryType
<1>1. Health!Missing \in SummaryType
  <2>1. 0 \in 0 .. Size
    BY Blocks
  <2> QED BY <2>1 DEF Health!Missing, SummaryType, HeardType
<1>2. ASSUME a # Down PROVE Health!_node_summary(a) \in SummaryType
  BY <1>2 DEF Health!_node_summary, SummaryType, StateTyped
<1>3. ASSUME a # Down PROVE [Health!_node_summary(a) EXCEPT !.healthy = FALSE, !.error = TRUE] \in SummaryType
  BY <1>2, <1>3 DEF SummaryType
<1> QED BY <1>1, <1>2, <1>3 DEF Health!Summary

\* A view is typed when each of its summaries is.
LEMMA ViewIs ==
    ASSUME NEW v, v = [n \in Health!Nodes |-> v[n]], \A n \in Health!Nodes : v[n] \in SummaryType
    PROVE  v \in Health!View
<1>1. v \in [Health!Nodes -> SummaryType]
  <2> HIDE DEF SummaryType
  <2> QED OBVIOUS
<1>2. Health!View = [Health!Nodes -> SummaryType]
  BY DEF Health!View, SummaryType, HeardType
<1> QED BY <1>1, <1>2

\* A request takes a summary: what remains of the request is typed.
LEMMA TakeIs ==
    ASSUME HealthInv, NEW r \in Requests, NEW p \in Health!Peers, NEW a, cReq[r].pc \in {"peers", "wait", "fetch"}
    PROVE  LET view == [n \in Health!Nodes |-> IF n = p THEN Health!Summary(p, a) ELSE cReq[r].view[n]]
           IN  Health!Take(r, p, a) = Record("peers", cReq[r].todo \ {p}, view, cReq[r].left)
<1> DEFINE q == cReq[r]
           view == [n \in Health!Nodes |-> IF n = p THEN Health!Summary(p, a) ELSE q.view[n]]
<1>1. q = Record(q.pc, q.todo, q.view, q.left) /\ ViewOf(q.view) /\ p \in Health!Nodes
  <2>1. RequestOf(q, cAnswer[r]) /\ q.pc # "idle"
    BY DEF HealthInv
  <2>2. p \in Health!Nodes
    BY DEF Health!Peers, Health!Nodes
  <2> HIDE DEF q
  <2> QED BY <2>1, <2>2, Zenon DEF RequestOf
<1>2. Health!Take(r, p, a) = [q EXCEPT !.pc = "peers", !.todo = q.todo \ {p}, !.view = [q.view EXCEPT ![p] = Health!Summary(p, a)]]
  BY DEF Health!Take
<1>3. [q.view EXCEPT ![p] = Health!Summary(p, a)] = view
  BY <1>1 DEF ViewOf
<1> HIDE DEF q, view
<1>4. Health!Take(r, p, a) = Record("peers", q.todo \ {p}, view, q.left)
  BY <1>1, <1>2, <1>3 DEF Record
<1> QED BY <1>4 DEF q, view

LEMMA RequestUpdated ==
    ASSUME HealthInv, NEW r \in Requests, NEW q, cReq' = [cReq EXCEPT ![r] = q]
    PROVE  /\ cReq'[r] = q /\ \A o \in Requests : o # r => cReq'[o] = cReq[o]
BY DEF HealthInv

LEMMA AnswerUpdated ==
    ASSUME HealthInv, NEW r \in Requests, NEW a, cAnswer' = [cAnswer EXCEPT ![r] = a]
    PROVE  /\ cAnswer'[r] = a /\ \A o \in Requests : o # r => cAnswer'[o] = cAnswer[o]
BY DEF HealthInv

\* A request that holds no lock and takes none leaves the locks alone, ...
LEMMA LocksAlone ==
    ASSUME LocksHeld, cLock' = cLock, NEW r \in Requests, cReq[r].pc # "fetch", cReq'[r].pc # "fetch",
           \A o \in Requests : o # r => cReq'[o] = cReq[o]
    PROVE  LocksHeld'
<1>1. ASSUME NEW p \in Health!Peers, cLock[p] # None
      PROVE  /\ cLock[p] \in Requests /\ cReq'[cLock[p]].pc = "fetch"
             /\ Health!First(cReq'[cLock[p]].todo) = p
  <2>1. cLock[p] \in Requests /\ cReq[cLock[p]].pc = "fetch" /\ Health!First(cReq[cLock[p]].todo) = p
    BY <1>1 DEF LocksHeld
  <2>2. cReq'[cLock[p]] = cReq[cLock[p]]
    BY <2>1
  <2> QED BY <2>1, <2>2
<1>2. ASSUME NEW o \in Requests, cReq'[o].pc = "fetch" PROVE cLock[Health!First(cReq'[o].todo)] = o
  <2>1. cReq'[o] = cReq[o]
    BY <1>2
  <2> QED BY <1>2, <2>1 DEF LocksHeld
<1>3. /\ cLock' = [p \in Health!Peers |-> cLock'[p]]
      /\ \A p \in Health!Peers : cLock'[p] # None =>
             /\ cLock'[p] \in Requests /\ cReq'[cLock'[p]].pc = "fetch"
             /\ Health!First(cReq'[cLock'[p]].todo) = p
      /\ \A o \in Requests : cReq'[o].pc = "fetch" => cLock'[Health!First(cReq'[o].todo)] = o
  BY <1>1, <1>2 DEF LocksHeld
<1> QED BY <1>3 DEF LocksHeld, Health!First, Health!Peers, Health!Nodes

\* ... one that takes a free lock holds it alone, ...
LEMMA LockTaken ==
    ASSUME LocksHeld, NEW r \in Requests, NEW p \in Health!Peers, cLock[p] = None, cLock' = [cLock EXCEPT ![p] = r],
           cReq[r].pc # "fetch", cReq'[r].pc = "fetch", Health!First(cReq'[r].todo) = p,
           \A o \in Requests : o # r => cReq'[o] = cReq[o]
    PROVE  LocksHeld'
<1>0. None \notin Requests
  BY HealthConstants
<1>1. cLock' = [n \in Health!Peers |-> IF n = p THEN r ELSE cLock[n]]
  BY DEF LocksHeld
<1>2. ASSUME NEW n \in Health!Peers, cLock'[n] # None
      PROVE  /\ cLock'[n] \in Requests /\ cReq'[cLock'[n]].pc = "fetch"
             /\ Health!First(cReq'[cLock'[n]].todo) = n
  <2>1. CASE n = p
    BY <1>1, <2>1
  <2>2. CASE n # p
    <3>1. cLock'[n] = cLock[n]
      BY <1>1, <2>2
    <3>2. cLock[n] \in Requests /\ cReq[cLock[n]].pc = "fetch" /\ Health!First(cReq[cLock[n]].todo) = n
      BY <1>2, <3>1 DEF LocksHeld
    <3>3. cReq'[cLock[n]] = cReq[cLock[n]]
      BY <3>2
    <3> QED BY <3>1, <3>2, <3>3
  <2> QED BY <2>1, <2>2
<1>3. ASSUME NEW o \in Requests, cReq'[o].pc = "fetch" PROVE cLock'[Health!First(cReq'[o].todo)] = o
  <2>1. CASE o = r
    BY <1>1, <2>1
  <2>2. CASE o # r
    <3>1. cReq'[o] = cReq[o] /\ cLock[Health!First(cReq[o].todo)] = o
      BY <1>3, <2>2 DEF LocksHeld
    <3>2. Health!First(cReq[o].todo) # p
      BY <1>0, <3>1
    <3> QED BY <3>1, <3>2 DEF LocksHeld
  <2> QED BY <2>1, <2>2
<1>4. cLock' = [n \in Health!Peers |-> cLock'[n]]
  BY <1>1
<1> QED BY <1>2, <1>3, <1>4 DEF LocksHeld, Health!First, Health!Peers, Health!Nodes

\* ... and one that gives its lock back leaves the others theirs.
LEMMA LockFreed ==
    ASSUME LocksHeld, NEW r \in Requests, NEW p \in Health!Peers, cReq[r].pc = "fetch",
           Health!First(cReq[r].todo) = p, cLock' = [cLock EXCEPT ![p] = None], cReq'[r].pc # "fetch",
           \A o \in Requests : o # r => cReq'[o] = cReq[o]
    PROVE  LocksHeld'
<1>1. cLock' = [n \in Health!Peers |-> IF n = p THEN None ELSE cLock[n]] /\ cLock[p] = r
  BY DEF LocksHeld
<1>2. ASSUME NEW n \in Health!Peers, cLock'[n] # None
      PROVE  /\ cLock'[n] \in Requests /\ cReq'[cLock'[n]].pc = "fetch"
             /\ Health!First(cReq'[cLock'[n]].todo) = n
  <2>1. n # p /\ cLock'[n] = cLock[n]
    BY <1>1, <1>2
  <2>2. cLock[n] \in Requests /\ cReq[cLock[n]].pc = "fetch" /\ Health!First(cReq[cLock[n]].todo) = n
    BY <1>2, <2>1 DEF LocksHeld
  <2>3. cReq'[cLock[n]] = cReq[cLock[n]]
    BY <2>1, <2>2
  <2> QED BY <2>1, <2>2, <2>3
<1>3. ASSUME NEW o \in Requests, cReq'[o].pc = "fetch" PROVE cLock'[Health!First(cReq'[o].todo)] = o
  <2>1. cReq'[o] = cReq[o] /\ cLock[Health!First(cReq[o].todo)] = o /\ o # r
    BY <1>3 DEF LocksHeld
  <2>2. Health!First(cReq[o].todo) # p
    BY <1>1, <2>1
  <2> QED BY <1>1, <2>1, <2>2 DEF LocksHeld
<1>4. cLock' = [n \in Health!Peers |-> cLock'[n]]
  BY <1>1
<1> QED BY <1>2, <1>3, <1>4 DEF LocksHeld, Health!First, Health!Peers, Health!Nodes

\* A request that asks, waits or has been answered by a peer keeps its types.
LEMMA RequestsTyped ==
    ASSUME HealthInv, HealthTyped, NEW r \in Requests, Health!Ask(r) \/ Health!ReadPeer(r) \/ Health!Acquire(r)
           \/ Health!_health_locked(r)
    PROVE  /\ RequestTyped(cReq'[r], cAnswer'[r]) /\ LocksHeld'
           /\ \A o \in Requests : o # r => cReq'[o] = cReq[o] /\ cAnswer'[o] = cAnswer[o]
           /\ \A p \in Health!Peers : CacheTyped(cCache'[p])
<1> DEFINE q == cReq[r]
           p == Health!First(q.todo)
<1>1. ASSUME NEW x, cReq' = [cReq EXCEPT ![r] = x], cAnswer' = cAnswer
      PROVE  /\ cReq'[r] = x /\ cAnswer'[r] = cAnswer[r]
             /\ \A o \in Requests : o # r => cReq'[o] = cReq[o] /\ cAnswer'[o] = cAnswer[o]
  BY <1>1, RequestUpdated
<1>2. /\ RequestTyped(q, cAnswer[r]) /\ TimeoutSeconds \in Nat /\ LocksHeld
      /\ \A n \in Health!Peers : CacheTyped(cCache[n])
  BY HealthConstants DEF HealthTyped
<1>3. CASE Health!Ask(r)
  <2> DEFINE view == [n \in Health!Nodes |-> IF n = 0 THEN Health!_node_summary(Health!node_health(0, cNode[0]))
                                              ELSE Health!Missing]
             x == Record("peers", Health!Peers, view, 0)
  <2>1. q.pc = "idle" /\ UNCHANGED <<cNode, cCache, cLock, cAnswer>> /\ cReq' = [cReq EXCEPT ![r] = x]
    BY <1>3 DEF Health!Ask, Record
  <2>2. view \in Health!View
    <3>1. Health!_node_summary(Health!node_health(0, cNode[0])) \in SummaryType
      <4>1. StateTyped(cNode[0])
        BY StatesTyped DEF HealthTyped
      <4> QED BY <4>1 DEF Health!_node_summary, Health!node_health, SummaryType, StateTyped
    <3>2. Health!Missing \in SummaryType
      <4>1. 0 \in 0 .. Size
        BY Blocks
      <4> QED BY <4>1 DEF Health!Missing, SummaryType, HeardType
    <3>3. \A n \in Health!Nodes : view[n] \in SummaryType
      <4> HIDE DEF SummaryType
      <4> QED BY <3>1, <3>2
    <3>4. view = [n \in Health!Nodes |-> view[n]]
      OBVIOUS
    <3> HIDE DEF view
    <3> QED BY <3>3, <3>4, ViewIs
  <2> HIDE DEF view, q, p
  <2>3. x.pc = "peers" /\ x.view = view
    BY DEF Record
  <2> HIDE DEF x
  <2>4. cReq'[r] = x /\ cAnswer'[r] = cAnswer[r] /\ \A o \in Requests : o # r => cReq'[o] = cReq[o] /\ cAnswer'[o] = cAnswer[o]
    BY <1>1, <2>1
  <2>5. RequestTyped(x, cAnswer[r])
    BY <1>2, <2>2, <2>3 DEF RequestTyped
  <2>6. cReq[r].pc # "fetch" /\ cReq'[r].pc # "fetch"
    BY <2>1, <2>3, <2>4 DEF q
  <2>7. LocksHeld'
    BY <1>2, <2>1, <2>4, <2>6, LocksAlone
  <2> QED BY <1>2, <2>1, <2>4, <2>5, <2>7
<1>4. ASSUME ~Health!Ask(r) PROVE q.pc \in {"peers", "wait", "fetch"} /\ q.todo # {} /\ cAnswer' = cAnswer
  BY <1>4, Zenon DEF Health!ReadPeer, Health!Acquire, Health!_health_locked, HealthInv, RequestOf
<1>5. ASSUME ~Health!Ask(r)
      PROVE  /\ q = Record(q.pc, q.todo, q.view, q.left) /\ q.todo \subseteq Health!Peers /\ ViewOf(q.view)
             /\ p \in q.todo /\ p \in Health!Peers /\ p \in Health!Nodes /\ q.view \in Health!View
  <2>1. RequestOf(q, cAnswer[r])
    BY DEF HealthInv
  <2>2. q = Record(q.pc, q.todo, q.view, q.left) /\ q.todo \subseteq Health!Peers /\ ViewOf(q.view)
    BY <1>4, <1>5, <2>1 DEF RequestOf
  <2>3. p \in q.todo /\ p \in Health!Nodes
    BY <1>4, <1>5, <2>2, FirstPeer
  <2> QED BY <1>2, <1>4, <1>5, <2>2, <2>3 DEF RequestTyped
\* the peer's answer takes its place in the view
<1>6. ASSUME ~Health!Ask(r), NEW a, a = Down \/ StateTyped(a.state), cReq' = [cReq EXCEPT ![r] = Health!Take(r, p, a)]
      PROVE  /\ cReq'[r].pc = "peers" /\ RequestTyped(cReq'[r], cAnswer'[r])
             /\ \A o \in Requests : o # r => cReq'[o] = cReq[o] /\ cAnswer'[o] = cAnswer[o]
  <2> DEFINE view == [n \in Health!Nodes |-> IF n = p THEN Health!Summary(p, a) ELSE q.view[n]]
             x == Record("peers", q.todo \ {p}, view, q.left)
  <2>1. Health!Take(r, p, a) = x
    <3>1. p \in Health!Peers /\ q.pc \in {"peers", "wait", "fetch"}
      BY <1>4, <1>5, <1>6
    <3> HIDE DEF p
    <3> QED BY <3>1, TakeIs
  <2>2. view \in Health!View
    <3>1. Health!Summary(p, a) \in SummaryType
      <4> HIDE DEF p
      <4> QED BY <1>6, SummaryTyped
    <3>2. q.view \in [Health!Nodes -> SummaryType]
      BY <1>5, <1>6 DEF Health!View, SummaryType, HeardType
    <3> HIDE DEF q, p, SummaryType
    <3>3. \A n \in Health!Nodes : view[n] \in SummaryType
      BY <3>1, <3>2
    <3>4. view = [n \in Health!Nodes |-> view[n]]
      OBVIOUS
    <3> HIDE DEF view
    <3> QED BY <3>3, <3>4, ViewIs
  <2> HIDE DEF view, q, p
  <2>3. x.pc = "peers" /\ x.view = view
    BY DEF Record
  <2> HIDE DEF x
  <2>4. cReq'[r] = x /\ cAnswer'[r] = cAnswer[r] /\ \A o \in Requests : o # r => cReq'[o] = cReq[o] /\ cAnswer'[o] = cAnswer[o]
    BY <1>1, <1>4, <1>6, <2>1
  <2> QED BY <1>2, <2>2, <2>3, <2>4 DEF RequestTyped
\* it waits for the peer, with the lock or without it
<1>7. ASSUME ~Health!Ask(r), NEW pc \in {"fetch", "wait"}, NEW left, left \in 0 .. TimeoutSeconds \/ pc = "wait",
             cReq' = [cReq EXCEPT ![r] = Record(pc, q.todo, q.view, left)]
      PROVE  /\ cReq'[r].pc = pc /\ Health!First(cReq'[r].todo) = p /\ RequestTyped(cReq'[r], cAnswer'[r])
             /\ \A o \in Requests : o # r => cReq'[o] = cReq[o] /\ cAnswer'[o] = cAnswer[o]
  <2> DEFINE x == Record(pc, q.todo, q.view, left)
  <2>1. x.pc = pc /\ x.todo = q.todo /\ x.view = q.view /\ x.left = left
    BY DEF Record
  <2> HIDE DEF x
  <2>2. cReq'[r] = x /\ cAnswer'[r] = cAnswer[r] /\ \A o \in Requests : o # r => cReq'[o] = cReq[o] /\ cAnswer'[o] = cAnswer[o]
    BY <1>1, <1>4, <1>7 DEF x
  <2> QED BY <1>2, <1>5, <1>7, <2>1, <2>2 DEF RequestTyped
<1>8. ASSUME ~Health!Ask(r)
      PROVE  /\ cReq' = [cReq EXCEPT ![r].pc = "fetch", ![r].left = TimeoutSeconds]
                    => cReq' = [cReq EXCEPT ![r] = Record("fetch", q.todo, q.view, TimeoutSeconds)]
             /\ cReq' = [cReq EXCEPT ![r].pc = "wait"] => cReq' = [cReq EXCEPT ![r] = Record("wait", q.todo, q.view, q.left)]
  <2>2. PICK pc, todo, view, left : q = Record(pc, todo, view, left)
    BY <1>5, <1>8
  <2>3. [q EXCEPT !.pc = "fetch"] = Record("fetch", todo, view, left)
    BY <2>2 DEF Record
  <2>4. [q EXCEPT !.pc = "fetch", !.left = TimeoutSeconds] = [[q EXCEPT !.pc = "fetch"] EXCEPT !.left = TimeoutSeconds]
    OBVIOUS
  <2>5. [Record("fetch", todo, view, left) EXCEPT !.left = TimeoutSeconds] = Record("fetch", todo, view, TimeoutSeconds)
    BY DEF Record
  <2>6. [q EXCEPT !.pc = "wait"] = Record("wait", todo, view, left)
    BY <2>2 DEF Record
  <2>7. q.todo = todo /\ q.view = view /\ q.left = left
    BY <2>2 DEF Record
  <2>8. [cReq EXCEPT ![r].pc = "fetch", ![r].left = TimeoutSeconds]
            = [cReq EXCEPT ![r] = [q EXCEPT !.pc = "fetch", !.left = TimeoutSeconds]]
    BY DEF HealthInv
  <2>9. [cReq EXCEPT ![r].pc = "wait"] = [cReq EXCEPT ![r] = [q EXCEPT !.pc = "wait"]]
    OBVIOUS
  <2> HIDE DEF q
  <2>10. [q EXCEPT !.pc = "fetch", !.left = TimeoutSeconds] = Record("fetch", todo, view, TimeoutSeconds)
    BY <2>3, <2>4, <2>5
  <2> QED BY <2>6, <2>7, <2>8, <2>9, <2>10
<1>9. ASSUME ~Health!Ask(r), cCache[p] # None PROVE cCache[p].answer = Down \/ StateTyped(cCache[p].answer.state)
  BY <1>2, <1>5, <1>9 DEF CacheTyped
<1>10. CASE Health!ReadPeer(r) /\ ~Health!Ask(r)
  <2>0. q.pc = "peers" /\ cCache' = cCache
    BY <1>10 DEF Health!ReadPeer
  <2>1. \/ cLock' = cLock /\ cReq' = [cReq EXCEPT ![r] = Health!Take(r, p, Down)]
        \/ cLock' = cLock /\ cCache[p] # None /\ cReq' = [cReq EXCEPT ![r] = Health!Take(r, p, cCache[p].answer)]
        \/ /\ cLock[p] = None /\ cLock' = [cLock EXCEPT ![p] = r]
           /\ cReq' = [cReq EXCEPT ![r].pc = "fetch", ![r].left = TimeoutSeconds]
        \/ cLock' = cLock /\ cReq' = [cReq EXCEPT ![r].pc = "wait"]
    BY <1>10, Zenon DEF Health!ReadPeer, Health!Serves
  <2>a. /\ RequestTyped(cReq'[r], cAnswer'[r]) /\ LocksHeld'
        /\ \A o \in Requests : o # r => cReq'[o] = cReq[o] /\ cAnswer'[o] = cAnswer[o]
    <3>1. CASE cLock' = cLock /\ cReq' = [cReq EXCEPT ![r] = Health!Take(r, p, Down)]
      <4>1. /\ cReq'[r].pc = "peers" /\ RequestTyped(cReq'[r], cAnswer'[r])
            /\ \A o \in Requests : o # r => cReq'[o] = cReq[o] /\ cAnswer'[o] = cAnswer[o]
        BY <1>6, <1>10, <3>1
      <4> QED BY <1>2, <2>0, <3>1, <4>1, LocksAlone
    <3>2. CASE cLock' = cLock /\ cCache[p] # None /\ cReq' = [cReq EXCEPT ![r] = Health!Take(r, p, cCache[p].answer)]
      <4>1. /\ cReq'[r].pc = "peers" /\ RequestTyped(cReq'[r], cAnswer'[r])
            /\ \A o \in Requests : o # r => cReq'[o] = cReq[o] /\ cAnswer'[o] = cAnswer[o]
        BY <1>6, <1>9, <1>10, <3>2
      <4> QED BY <1>2, <2>0, <3>2, <4>1, LocksAlone
    <3>3. CASE /\ cLock[p] = None /\ cLock' = [cLock EXCEPT ![p] = r]
               /\ cReq' = [cReq EXCEPT ![r].pc = "fetch", ![r].left = TimeoutSeconds]
      <4>0. TimeoutSeconds \in 0 .. TimeoutSeconds
        BY <1>2
      <4>1. /\ cReq'[r].pc = "fetch" /\ RequestTyped(cReq'[r], cAnswer'[r]) /\ Health!First(cReq'[r].todo) = p
            /\ \A o \in Requests : o # r => cReq'[o] = cReq[o] /\ cAnswer'[o] = cAnswer[o]
        BY <1>7, <1>8, <1>10, <3>3, <4>0
      <4>2. p \in Health!Peers
        BY <1>5, <1>10
      <4> HIDE DEF p
      <4> QED BY <1>2, <2>0, <3>3, <4>1, <4>2, LockTaken
    <3>4. CASE cLock' = cLock /\ cReq' = [cReq EXCEPT ![r].pc = "wait"]
      <4>1. /\ cReq'[r].pc = "wait" /\ RequestTyped(cReq'[r], cAnswer'[r])
            /\ \A o \in Requests : o # r => cReq'[o] = cReq[o] /\ cAnswer'[o] = cAnswer[o]
        BY <1>7, <1>8, <1>10, <3>4
      <4> QED BY <1>2, <2>0, <3>4, <4>1, LocksAlone
    <3> QED BY <2>1, <3>1, <3>2, <3>3, <3>4
  <2> QED BY <1>2, <2>0, <2>a
<1>11. CASE Health!Acquire(r) /\ ~Health!Ask(r)
  <2>0. q.pc = "wait" /\ cCache' = cCache
    BY <1>11 DEF Health!Acquire
  <2>1. \/ cLock' = cLock /\ cCache[p] # None /\ cReq' = [cReq EXCEPT ![r] = Health!Take(r, p, cCache[p].answer)]
        \/ /\ cLock[p] = None /\ cLock' = [cLock EXCEPT ![p] = r]
           /\ cReq' = [cReq EXCEPT ![r].pc = "fetch", ![r].left = TimeoutSeconds]
    BY <1>11, Zenon DEF Health!Acquire, Health!Serves
  <2>a. /\ RequestTyped(cReq'[r], cAnswer'[r]) /\ LocksHeld'
        /\ \A o \in Requests : o # r => cReq'[o] = cReq[o] /\ cAnswer'[o] = cAnswer[o]
    <3>2. CASE cLock' = cLock /\ cCache[p] # None /\ cReq' = [cReq EXCEPT ![r] = Health!Take(r, p, cCache[p].answer)]
      <4>1. /\ cReq'[r].pc = "peers" /\ RequestTyped(cReq'[r], cAnswer'[r])
            /\ \A o \in Requests : o # r => cReq'[o] = cReq[o] /\ cAnswer'[o] = cAnswer[o]
        BY <1>6, <1>9, <1>11, <3>2
      <4> QED BY <1>2, <2>0, <3>2, <4>1, LocksAlone
    <3>3. CASE /\ cLock[p] = None /\ cLock' = [cLock EXCEPT ![p] = r]
               /\ cReq' = [cReq EXCEPT ![r].pc = "fetch", ![r].left = TimeoutSeconds]
      <4>0. TimeoutSeconds \in 0 .. TimeoutSeconds
        BY <1>2
      <4>1. /\ cReq'[r].pc = "fetch" /\ RequestTyped(cReq'[r], cAnswer'[r]) /\ Health!First(cReq'[r].todo) = p
            /\ \A o \in Requests : o # r => cReq'[o] = cReq[o] /\ cAnswer'[o] = cAnswer[o]
        BY <1>7, <1>8, <1>11, <3>3, <4>0
      <4>2. p \in Health!Peers
        BY <1>5, <1>11
      <4> HIDE DEF p
      <4> QED BY <1>2, <2>0, <3>3, <4>1, <4>2, LockTaken
    <3> QED BY <2>1, <3>2, <3>3
  <2> QED BY <1>2, <2>0, <2>a
<1>12. CASE Health!_health_locked(r) /\ ~Health!Ask(r)
  <2>1. PICK a \in {Down} \cup (IF cNode[p] = Down THEN {} ELSE {Health!node_health(p, cNode[p])}) :
            /\ cCache' = [cCache EXCEPT ![p] = [age |-> 0, answer |-> a]]
            /\ cReq' = [cReq EXCEPT ![r] = Health!Take(r, p, a)]
    BY <1>12 DEF Health!_health_locked, Health!Kept
  <2>2. q.pc = "fetch" /\ cLock' = [cLock EXCEPT ![p] = None]
    BY <1>12 DEF Health!_health_locked
  <2>3. a = Down \/ StateTyped(a.state)
    <3>1. p \in Health!Nodes
      BY <1>5, <1>12
    <3>2. cNode[p] \in States \cup {Down}
      BY <3>1 DEF HealthTyped
    <3>3. a = Down \/ (a.state = cNode[p] /\ cNode[p] # Down)
      BY <2>1 DEF Health!node_health
    <3> HIDE DEF p
    <3> QED BY <3>2, <3>3, StatesTyped
  <2>4. /\ cReq'[r].pc = "peers" /\ RequestTyped(cReq'[r], cAnswer'[r])
        /\ \A o \in Requests : o # r => cReq'[o] = cReq[o] /\ cAnswer'[o] = cAnswer[o]
    BY <1>6, <1>12, <2>1, <2>3
  <2>5. p \in Health!Peers
    BY <1>5, <1>12
  <2>6. \A n \in Health!Peers : CacheTyped(cCache'[n])
    <3>1. 0 \in 0 .. Health!Old
      BY HealthConstants
    <3>2. CacheTyped([age |-> 0, answer |-> a])
      BY <2>3, <3>1 DEF CacheTyped
    <3>3. cCache' = [n \in Health!Peers |-> IF n = p THEN [age |-> 0, answer |-> a] ELSE cCache[n]]
      BY <2>1 DEF HealthInv, CachesOf
    <3> HIDE DEF p
    <3> QED BY <1>2, <3>2, <3>3
  <2>7. LocksHeld'
    <3>1. Health!First(cReq[r].todo) = p /\ cReq[r].pc = "fetch"
      BY <2>2
    <3> HIDE DEF p, q
    <3> QED BY <1>2, <2>2, <2>4, <2>5, <3>1, LockFreed
  <2> QED BY <2>4, <2>6, <2>7
<1> QED BY <1>3, <1>10, <1>11, <1>12

LEMMA HealthTypesKept == HealthInv /\ HealthTyped /\ [Health!Next]_(Health!vars) => HealthTyped'
<1> SUFFICES ASSUME HealthInv, HealthTyped, [Health!Next]_(Health!vars) PROVE HealthTyped'
  OBVIOUS
<1> DEFINE NodesOK == cNode[0] \in States /\ \A n \in Health!Nodes : cNode[n] \in States \cup {Down}
           CachesOK == \A p \in Health!Peers : CacheTyped(cCache[p])
           RequestsOK == \A r \in Requests : RequestTyped(cReq[r], cAnswer[r])
<1>p. NodesOK /\ cChanges \in 0 .. MaxChanges /\ CachesOK /\ RequestsOK /\ LocksHeld
  BY DEF HealthTyped
<1>q. ASSUME NodesOK', cChanges' \in 0 .. MaxChanges, CachesOK', RequestsOK', LocksHeld' PROVE HealthTyped'
  BY <1>q DEF HealthTyped
<1>r. ASSUME cReq' = cReq, cLock' = cLock PROVE LocksHeld'
  BY <1>p, <1>r DEF LocksHeld, Health!First, Health!Peers, Health!Nodes
<1>s. ASSUME cCache' = cCache PROVE CachesOK'
  BY <1>p, <1>s DEF CacheTyped, StateTyped, HeardType, Health!Peers, Health!Nodes, Health!Old
<1>t. ASSUME cReq' = cReq, cAnswer' = cAnswer PROVE RequestsOK'
  BY <1>p, <1>t DEF RequestTyped, Health!View, Health!Nodes
<1>n. ASSUME cNode' = cNode PROVE NodesOK'
  BY <1>p, <1>n DEF Health!Nodes
<1>c. ASSUME cChanges' = cChanges \/ (cChanges < MaxChanges /\ cChanges' = cChanges + 1)
      PROVE  cChanges' \in 0 .. MaxChanges
  BY <1>p, <1>c, HealthConstants
<1>u. ASSUME \A r \in Requests : RequestTyped(cReq'[r], cAnswer'[r]) PROVE RequestsOK'
  BY <1>u DEF RequestTyped, Health!View, Health!Nodes
<1>v. ASSUME \A p \in Health!Peers : CacheTyped(cCache'[p]) PROVE CachesOK'
  BY <1>v DEF CacheTyped, StateTyped, HeardType, Health!Peers, Health!Nodes, Health!Old
<1> HIDE DEF NodesOK, CachesOK, RequestsOK
<1>1. ASSUME NEW n \in Health!Nodes, Health!Change(n) PROVE HealthTyped'
  <2>1. PICK s \in States \cup (IF n = 0 THEN {} ELSE {Down}) : cNode' = [cNode EXCEPT ![n] = s]
    BY <1>1 DEF Health!Change
  <2>2. /\ UNCHANGED <<cCache, cReq, cAnswer, cLock>>
        /\ cChanges < MaxChanges /\ cChanges' = cChanges + 1
    BY <1>1 DEF Health!Change
  <2>3. cNode' = [m \in Health!Nodes |-> IF m = n THEN s ELSE cNode[m]]
    BY <2>1 DEF HealthInv
  <2>4. 0 \in Health!Nodes
    BY Blocks DEF Health!Nodes
  <2>5. NodesOK'
    BY <1>p, <2>1, <2>3, <2>4 DEF NodesOK, Health!Nodes
  <2> QED BY <1>q, <1>r, <1>s, <1>t, <1>c, <2>2, <2>5
<1>2. CASE Health!ClockTurns \/ Health!Probe \/ UNCHANGED Health!vars
  <2>1. /\ UNCHANGED <<cNode, cCache, cReq, cAnswer, cLock>>
        /\ cChanges' = cChanges \/ (cChanges < MaxChanges /\ cChanges' = cChanges + 1)
    BY <1>2 DEF Health!ClockTurns, Health!Probe, Health!vars
  <2> QED BY <1>q, <1>r, <1>s, <1>t, <1>c, <1>n, <2>1
<1>3. ASSUME NEW r \in Requests, Health!Ask(r) \/ Health!ReadPeer(r) \/ Health!Acquire(r) \/ Health!_health_locked(r)
      PROVE  HealthTyped'
  <2>1. cNode' = cNode /\ cChanges' = cChanges
    BY <1>3 DEF Health!Ask, Health!ReadPeer, Health!Acquire, Health!_health_locked
  <2>2. /\ RequestTyped(cReq'[r], cAnswer'[r]) /\ LocksHeld'
        /\ \A o \in Requests : o # r => cReq'[o] = cReq[o] /\ cAnswer'[o] = cAnswer[o]
        /\ \A p \in Health!Peers : CacheTyped(cCache'[p])
    BY <1>3, RequestsTyped
  <2>3. \A o \in Requests : RequestTyped(cReq'[o], cAnswer'[o])
    BY <1>p, <2>2 DEF RequestsOK
  <2> QED BY <1>q, <1>c, <1>n, <1>u, <1>v, <2>1, <2>2, <2>3
<1>4. ASSUME NEW r \in Requests, Health!Cover(r) \/ Health!Publish(r) \/ Health!Return(r) PROVE HealthTyped'
  <2>0. RequestTyped(cReq[r], cAnswer[r]) /\ RequestOf(cReq[r], cAnswer[r])
    BY <1>p DEF RequestsOK, HealthInv
  <2>1. /\ UNCHANGED <<cNode, cChanges, cCache, cLock>> /\ cReq[r].pc \in {"peers", "public", "sent"}
        /\ \E x : cReq' = [cReq EXCEPT ![r] = x] /\ x.pc # "fetch" /\ (x.pc # "idle" => x.view = cReq[r].view)
        /\ \E a : cAnswer' = [cAnswer EXCEPT ![r] = a] /\ (a = None \/ a.view = cReq[r].view)
    <3>0. cReq[r].pc # "idle" => cReq[r] = Record(cReq[r].pc, cReq[r].todo, cReq[r].view, cReq[r].left)
      BY <2>0 DEF RequestOf
    <3>1. CASE Health!Cover(r)
      <4> DEFINE b == [view |-> cReq[r].view, coverage |-> Health!cluster_health(cReq[r].view),
                       overall |-> None, open |-> FALSE]
      <4>1. /\ cReq' = [cReq EXCEPT ![r] = [cReq[r] EXCEPT !.pc = "public"]] /\ cReq[r].pc = "peers"
            /\ cAnswer' = [cAnswer EXCEPT ![r] = b] /\ b.view = cReq[r].view
            /\ UNCHANGED <<cNode, cChanges, cCache, cLock>>
        BY <3>1 DEF Health!Cover
      <4>2. [cReq[r] EXCEPT !.pc = "public"].pc = "public" /\ [cReq[r] EXCEPT !.pc = "public"].view = cReq[r].view
        BY <3>0, <4>1 DEF Record
      <4> HIDE DEF b
      <4> QED BY <4>1, <4>2
    <3>2. CASE Health!Publish(r)
      <4> DEFINE b == [cAnswer[r] EXCEPT !.overall = Health!public_health(cReq[r].view), !.open = Health!InMarket]
      <4>1. /\ cReq' = [cReq EXCEPT ![r] = [cReq[r] EXCEPT !.pc = "sent"]] /\ cReq[r].pc = "public"
            /\ cAnswer' = [cAnswer EXCEPT ![r] = b]
            /\ UNCHANGED <<cNode, cChanges, cCache, cLock>>
        BY <3>2 DEF Health!Publish, HealthInv
      <4>2. [cReq[r] EXCEPT !.pc = "sent"].pc = "sent" /\ [cReq[r] EXCEPT !.pc = "sent"].view = cReq[r].view
        BY <3>0, <4>1 DEF Record
      <4>3. b.view = cReq[r].view
        BY <2>0, <4>1 DEF RequestOf, AnswerOf
      <4> HIDE DEF b
      <4> QED BY <4>1, <4>2, <4>3
    <3>3. CASE Health!Return(r)
      <4>1. /\ cReq' = [cReq EXCEPT ![r] = Health!Idle] /\ cReq[r].pc = "sent"
            /\ cAnswer' = [cAnswer EXCEPT ![r] = None]
            /\ UNCHANGED <<cNode, cChanges, cCache, cLock>>
        BY <3>3 DEF Health!Return
      <4>2. Health!Idle.pc = "idle"
        BY DEF Health!Idle
      <4> QED BY <4>1, <4>2
    <3> QED BY <1>4, <3>1, <3>2, <3>3
  <2>2. PICK x : cReq' = [cReq EXCEPT ![r] = x] /\ x.pc # "fetch" /\ (x.pc # "idle" => x.view = cReq[r].view)
    BY <2>1
  <2>3. PICK a : cAnswer' = [cAnswer EXCEPT ![r] = a] /\ (a = None \/ a.view = cReq[r].view)
    BY <2>1
  <2>4. /\ cReq'[r] = x /\ \A o \in Requests : o # r => cReq'[o] = cReq[o]
        /\ cAnswer'[r] = a /\ \A o \in Requests : o # r => cAnswer'[o] = cAnswer[o]
    BY <2>2, <2>3, RequestUpdated, AnswerUpdated
  <2>5. RequestTyped(x, a)
    BY <2>0, <2>1, <2>2, <2>3 DEF RequestTyped
  <2>6. \A o \in Requests : RequestTyped(cReq'[o], cAnswer'[o])
    BY <1>p, <2>4, <2>5 DEF RequestsOK
  <2>7. LocksHeld'
    <3>1. cReq[r].pc # "fetch" /\ cReq'[r].pc # "fetch" /\ cLock' = cLock
      BY <2>1, <2>2, <2>4
    <3> QED BY <1>p, <2>4, <3>1, LocksAlone
  <2> QED BY <1>q, <1>c, <1>n, <1>s, <1>u, <2>1, <2>6, <2>7
<1>5. CASE Health!Second
  <2>1. /\ cReq' = [r \in Requests |-> [cReq[r] EXCEPT !.left = Health!Larger(@ - 1, 0)]]
        /\ UNCHANGED <<cNode, cChanges, cLock, cAnswer>>
    BY <1>5 DEF Health!Second
  <2>2. ASSUME NEW r \in Requests
        PROVE  /\ cReq'[r].pc = cReq[r].pc /\ cReq'[r].todo = cReq[r].todo /\ RequestTyped(cReq'[r], cAnswer'[r])
    <3>1. RequestTyped(cReq[r], cAnswer[r]) /\ RequestOf(cReq[r], cAnswer[r])
      BY <1>p DEF RequestsOK, HealthInv
    <3>2. PICK pc, todo, view, left : cReq[r] = Record(pc, todo, view, left)
      BY <3>1 DEF RequestOf
    <3> DEFINE l == Health!Larger(left - 1, 0)
    <3>3. cReq'[r] = Record(pc, todo, view, l)
      <4>1. cReq'[r] = [cReq[r] EXCEPT !.left = Health!Larger(cReq[r].left - 1, 0)]
        BY <2>1
      <4>2. cReq[r].left = left
        BY <3>2 DEF Record
      <4> HIDE DEF l
      <4>3. [Record(pc, todo, view, left) EXCEPT !.left = l] = Record(pc, todo, view, l)
        BY DEF Record
      <4> QED BY <3>2, <4>1, <4>2, <4>3 DEF l
    <3>4. pc = "fetch" => l \in 0 .. TimeoutSeconds
      <4>1. pc = "fetch" => left \in 0 .. TimeoutSeconds
        BY <3>1, <3>2 DEF RequestTyped, Record
      <4> QED BY <4>1, HealthConstants DEF Health!Larger
    <3> HIDE DEF l
    <3>5. /\ cReq'[r].pc = pc /\ cReq'[r].todo = todo /\ cReq'[r].view = view /\ cReq'[r].left = l
          /\ cReq[r].pc = pc /\ cReq[r].todo = todo /\ cReq[r].view = view /\ cAnswer'[r] = cAnswer[r]
      BY <2>1, <3>2, <3>3 DEF Record
    <3> QED BY <3>1, <3>4, <3>5 DEF RequestTyped
  <2>3. LocksHeld'
    <3>1. \A p \in Health!Peers : cLock[p] # None => Health!First(cReq'[cLock[p]].todo) = p /\ cReq'[cLock[p]].pc = "fetch"
      BY <1>p, <2>2 DEF LocksHeld
    <3>2. \A r \in Requests : cReq'[r].pc = "fetch" => cLock[Health!First(cReq'[r].todo)] = r
      BY <1>p, <2>2 DEF LocksHeld
    <3>3. /\ cLock' = [p \in Health!Peers |-> cLock'[p]]
          /\ \A p \in Health!Peers : cLock'[p] # None =>
                 /\ cLock'[p] \in Requests /\ cReq'[cLock'[p]].pc = "fetch"
                 /\ Health!First(cReq'[cLock'[p]].todo) = p
          /\ \A o \in Requests : cReq'[o].pc = "fetch" => cLock'[Health!First(cReq'[o].todo)] = o
      BY <1>p, <2>1, <3>1, <3>2 DEF LocksHeld
    <3> QED BY <3>3 DEF LocksHeld, Health!First, Health!Peers, Health!Nodes
  <2>4. ASSUME NEW p \in Health!Peers PROVE CacheTyped(cCache'[p])
    <3> DEFINE c == cCache[p]
               old == Health!Smaller(c.age + 1, Health!Old)
               heard == Health!Older(c.answer.state.heard)
    <3>0. CacheOf(p, c) /\ p \in Health!Nodes /\ CacheTyped(c)
      BY <1>p DEF HealthInv, CachesOf, Health!Peers, Health!Nodes, CachesOK
    <3>1. CASE c = None
      BY <1>5, <3>1 DEF Health!Second, CacheTyped
    <3>2. ASSUME c # None PROVE old \in 0 .. Health!Old
      <4>1. c.age \in 0 .. Health!Old
        BY <3>0, <3>2 DEF CacheTyped
      <4> QED BY <4>1, HealthConstants DEF Health!Smaller
    <3>3. CASE c # None /\ c.answer = Down
      <4>1. cCache'[p] = [c EXCEPT !.age = old]
        BY <1>5, <3>3 DEF Health!Second
      <4> HIDE DEF old
      <4>2. cCache'[p] = [age |-> old, answer |-> Down]
        BY <3>0, <3>3, <4>1 DEF CacheOf
      <4> QED BY <3>2, <3>3, <4>2 DEF CacheTyped
    <3>4. CASE c # None /\ c.answer # Down
      <4>1. cCache'[p] = [c EXCEPT !.age = old, !.answer.state.heard = heard]
        BY <1>5, <3>4 DEF Health!Second
      <4>a. heard \in HeardType
        <5>1. c.answer.state.heard \in HeardType
          BY <3>0, <3>4 DEF CacheTyped, StateTyped
        <5> HIDE DEF c
        <5> QED BY <5>1, HealthConstants DEF HeardType, Health!Older, Health!Smaller
      <4> HIDE DEF old, heard
      <4>2. PICK age, status, phase, state :
                c = [age |-> age, answer |-> [status |-> status, phase |-> phase, state |-> state]]
        BY <3>0, <3>4 DEF CacheOf
      <4> DEFINE aged == [state EXCEPT !.heard = heard]
      <4>3. StateOf(p, state)
        BY <3>0, <3>4, <4>2 DEF CacheOf
      <4>4. StateTyped(aged)
        BY <3>0, <4>a, <4>3, StatesTyped
      <4>5. cCache'[p] = [age |-> old, answer |-> [status |-> status, phase |-> phase, state |-> aged]]
        <5> DEFINE told == [status |-> status, phase |-> phase, state |-> state]
        <5>1. [told EXCEPT !.state.heard = heard] = [status |-> status, phase |-> phase, state |-> aged]
          OBVIOUS
        <5>2. c = [age |-> age, answer |-> told]
          BY <4>2
        <5> HIDE DEF told, c, aged
        <5>3. [c EXCEPT !.age = old, !.answer.state.heard = heard]
                 = [[c EXCEPT !.age = old] EXCEPT !.answer.state.heard = heard]
          OBVIOUS
        <5>4. [c EXCEPT !.age = old] = [age |-> old, answer |-> told]
          BY <5>2
        <5>5. [[age |-> old, answer |-> told] EXCEPT !.answer.state.heard = heard]
                 = [age |-> old, answer |-> [told EXCEPT !.state.heard = heard]]
          OBVIOUS
        <5> QED BY <4>1, <5>1, <5>3, <5>4, <5>5
      <4> HIDE DEF aged, c
      <4> QED BY <3>2, <3>4, <4>4, <4>5 DEF CacheTyped
    <3> QED BY <3>1, <3>3, <3>4
  <2> QED BY <1>q, <1>c, <1>n, <1>u, <1>v, <2>1, <2>2, <2>3, <2>4
<1> QED BY <1>1, <1>2, <1>3, <1>4, <1>5 DEF Health!Next

LEMMA HealthTypesStart == Health!Init => HealthTyped
<1> SUFFICES ASSUME Health!Init PROVE HealthTyped
  OBVIOUS
<1>1. /\ cNode \in [Health!Nodes -> States] /\ cChanges = 0
      /\ cCache = [p \in Health!Peers |-> None] /\ cLock = [p \in Health!Peers |-> None]
      /\ cReq = [r \in Requests |-> Record("idle", {}, <<>>, 0)] /\ cAnswer = [r \in Requests |-> None]
  BY DEF Health!Init, Health!Idle, Record
<1>2. 0 \in Health!Nodes
  BY Blocks DEF Health!Nodes
<1>3. cChanges \in 0 .. MaxChanges
  BY <1>1, HealthConstants
<1>4. \A p \in Health!Peers : cCache[p] = None /\ cLock[p] = None
  BY <1>1
<1>5. \A r \in Requests : cReq[r].pc = "idle" /\ cAnswer[r] = None
  BY <1>1 DEF Record
<1>6. cLock = [p \in Health!Peers |-> cLock[p]]
  BY <1>1
<1>7. LocksHeld
  BY <1>4, <1>5, <1>6 DEF LocksHeld
<1>8. \A p \in Health!Peers : CacheTyped(cCache[p])
  BY <1>4 DEF CacheTyped
<1>9. \A r \in Requests : RequestTyped(cReq[r], cAnswer[r])
  BY <1>5 DEF RequestTyped
<1> QED BY <1>1, <1>2, <1>3, <1>7, <1>8, <1>9 DEF HealthTyped

LEMMA HealthTypes == HealthInv /\ HealthTyped => Health!TypeOK
<1> SUFFICES ASSUME HealthInv, HealthTyped PROVE Health!TypeOK
  OBVIOUS
<1>1. cNode \in [Health!Nodes -> States \cup {Down}]
  <2>1. cNode = [n \in Health!Nodes |-> cNode[n]] /\ \A n \in Health!Nodes : cNode[n] \in States \cup {Down}
    BY DEF HealthInv, HealthTyped
  <2> QED BY <2>1
<1>2. \A p \in Health!Peers : cCache[p] # None => cCache[p].age \in 0 .. Health!Old
  BY DEF HealthTyped, CacheTyped
<1>3. \A r \in Requests : cReq[r].pc = "fetch" => cReq[r].left \in 0 .. TimeoutSeconds
  BY DEF HealthTyped, RequestTyped
<1>4. \A r \in Requests : cAnswer[r] # None => cAnswer[r].view \in Health!View
  BY DEF HealthTyped, RequestTyped
<1> QED BY <1>1, <1>2, <1>3, <1>4 DEF Health!TypeOK, HealthTyped, LocksHeld

\* Every part of a Live Core node that serves what its state holds keeps its types: for any
\* universe, nodes, requests, schedules and bounds, a peer's health lock is held by exactly the
\* request that fetches its answer, a node's state is one it can have, ages and back-offs stay
\* within their caps, and what was read of a range are stocks of the universe.
THEOREM LiveCoreTyped == Spec => []TypesOK
<1>1. Spec => [](Peer!TypeOK)
  <2>1. Peer!Spec => [](Peer!TypeOK /\ Peer!MonotonicReads /\ Peer!ServedRecent /\ Peer!ReusedIsMarked)
    BY InstanceAssumption, ReadsHonest
  <2> QED BY <2>1, PeerRuns, PTL
<1>2. Spec => [](Render!TypeOK)
  <2>1. Render!Spec => [](Render!TypeOK /\ Render!FragmentExact /\ Render!BodyCoherent /\ Render!MonotonicBodies)
    BY InstanceAssumption, Render!BodiesHonest
  <2> QED BY <2>1, RenderRuns, PTL
<1>3. Spec => []Health!TypeOK
  <2>1. Init => HealthInv /\ HealthTyped
    BY HealthStarts, HealthTypesStart DEF Init
  <2>2. [Next]_vars => [Health!Next]_(Health!vars)
    BY DEF Next, vars, cVars, PeerOnly, RenderOnly, HealthOnly, ViewsOnly, IndexOnly, Health!vars
  <2> QED BY <2>1, <2>2, HealthSteady, HealthTypesKept, HealthTypes, PTL DEF Spec
<1>4. Spec => []Views!TypeOK
  <2>1. Views!Init => BodyInv /\ Passed
    BY DEF Views!Init, Views!Fresh, BodyInv, Passed
  <2> QED BY <2>1, ViewsStart, ViewsTyped, BodySteady, PassedOn, ViewsTypes, ViewsRun, PTL DEF Views!Spec
<1>5. Spec => []Node!TypeOK
  <2>1. Init => Node!Init
    BY DEF Init
  <2>2. [Next]_vars => [Node!Next]_(Node!vars)
    BY DEF Next, vars, iVars, PeerOnly, RenderOnly, HealthOnly, ViewsOnly, IndexOnly, Node!vars
  <2> QED BY <2>1, <2>2, IndexStarts, IndexSteady, IndexTypes, PTL DEF Spec
<1> QED BY <1>1, <1>2, <1>3, <1>4, <1>5, PTL DEF TypesOK
=============================================================================
