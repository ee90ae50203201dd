---------------------------- MODULE MCApplication -----------------------------
(*****************************************************************************)
(* The public application's server and the market-data and token             *)
(* components beside its equity session, in one instance: a behaviour        *)
(* picks one of them and leaves the others in their initial state.  Each     *)
(* keeps its own specification, fairness and properties.                     *)
(*****************************************************************************)
EXTENDS Integers, Sequences, FiniteSetTheorems, WellFoundedInduction, TLAPS

CONSTANTS
    None,
    StartGrace, WatchdogSec, MaxSlow, MaxTroubles, MaxBroken,       \* AppServer
    UniverseSize, ShardCount, ShardWidth,
    PostThreads, Intervals, Longest, RetryAfter, Attempts, Free,    \* RestThrottle
    Kinds, MaxLevel, Cooldown, Silence,                             \* FeedLoop
    FutureSymbols, FutureExpiries, LastDay,                         \* Futures
    BatchSize, Expiries,                                            \* StockRotation
    DayLen, OpenAt, CloseAt, LastMinute,                            \* IndexLayer
    Strikes, MaxDays,                                               \* OptionDepth
    Callers, Keeper, Loaders, NodeThreads, Nodes, Ids,              \* DhanTokens
    Grace, SessionGap, RateLimit, Timeout, MaxFaults
Stocks == <<"A", "B">>
FirstStrike == CHOOSE s \in Strikes : TRUE

VARIABLES
    which,          \* the component at work
    aPc, aStep, aRunning, aBroken, aConfig_error, aHours, aUp, aSilent, aSlow, aWedged, aOver,
    aTroubles, aHealth, aClean,
    tSince, tCooldown, tLock, tReq,
    lKind, lPc, lBackoff, lLeft, lStop, lQuotes, lAge, lWatch, lRejected,
    fToday, fFuture, fMaster, fResolved, fLive, fAsked, fPc, fRow,
    rOpen, rFront, rIndex, rExpiry, rChain, rBindex, rBatch, rContracts, rRows, rDstatus,
    rRotation, rPc,
    iNow, iLive, iCurrent, iStatus, iFeed, iStarted, iFilled, iAsked, iCovered, iBasis,
    oTwenty, oOpen, oDay, oFront, oPrice, oList, oListed, oOpc, oChain, oOstatus, oPicked,
    oRows, oDstatus, oSub, oLpc, oLsel, oQpc, oQsel,
    kLive, kGenAge, kTok, kCool, kOkAge, kLock, kGcool, kSlock, kSAge, kPc, kGot, kBusy, kSeen,
    kNtok, kNpc, kNgot, kSock, kFaults

aVars == <<aPc, aStep, aRunning, aBroken, aConfig_error, aHours, aUp, aSilent,
    aSlow, aWedged, aOver, aTroubles, aHealth, aClean>>
tVars == <<tSince, tCooldown, tLock, tReq>>
lVars == <<lKind, lPc, lBackoff, lLeft, lStop, lQuotes, lAge, lWatch, lRejected>>
fVars == <<fToday, fFuture, fMaster, fResolved, fLive, fAsked, fPc, fRow>>
rVars == <<rOpen, rFront, rIndex, rExpiry, rChain, rBindex, rBatch, rContracts,
    rRows, rDstatus, rRotation, rPc>>
iVars == <<iNow, iLive, iCurrent, iStatus, iFeed, iStarted, iFilled, iAsked,
    iCovered, iBasis>>
oVars == <<oTwenty, oOpen, oDay, oFront, oPrice, oList, oListed, oOpc, oChain,
    oOstatus, oPicked, oRows, oDstatus, oSub, oLpc, oLsel, oQpc, oQsel>>
kVars == <<kLive, kGenAge, kTok, kCool, kOkAge, kLock, kGcool, kSlock, kSAge,
    kPc, kGot, kBusy, kSeen, kNtok, kNpc, kNgot, kSock, kFaults>>
vars == <<which, aVars, tVars, lVars, fVars, rVars, iVars, oVars, kVars>>

Server == INSTANCE AppServer WITH
    pc <- aPc, step <- aStep, running <- aRunning, broken <- aBroken,
    config_error <- aConfig_error, hours <- aHours, up <- aUp, silent <- aSilent, slow <- aSlow,
    wedged <- aWedged, over <- aOver, troubles <- aTroubles, health <- aHealth, clean <- aClean,
    Grace <- StartGrace
Throttle == INSTANCE RestThrottle WITH
    since <- tSince, cooldown <- tCooldown, lock <- tLock, req <- tReq,
    Threads <- PostThreads
Loop == INSTANCE FeedLoop WITH
    kind <- lKind, pc <- lPc, backoff <- lBackoff, left <- lLeft, stop <- lStop,
    quotes <- lQuotes, age <- lAge, watch <- lWatch, rejected <- lRejected
Front == INSTANCE Futures WITH
    today <- fToday, future <- fFuture, master <- fMaster, resolved <- fResolved, live <- fLive,
    asked <- fAsked, pc <- fPc, row <- fRow, Expiries <- FutureExpiries,
    Symbols <- FutureSymbols
Rotation == INSTANCE StockRotation WITH
    open <- rOpen, front <- rFront, index <- rIndex, expiry <- rExpiry, chain <- rChain,
    bindex <- rBindex, batch <- rBatch, contracts <- rContracts, rows <- rRows,
    dstatus <- rDstatus, rotation <- rRotation, pc <- rPc
Index == INSTANCE IndexLayer WITH
    now <- iNow, live <- iLive, current <- iCurrent, status <- iStatus, feed <- iFeed,
    started <- iStarted, filled <- iFilled, asked <- iAsked, covered <- iCovered,
    basis <- iBasis
Chain == INSTANCE OptionDepth WITH
    twenty <- oTwenty, open <- oOpen, day <- oDay, front <- oFront, price <- oPrice,
    list <- oList, listed <- oListed, opc <- oOpc, chain <- oChain, ostatus <- oOstatus,
    picked <- oPicked, rows <- oRows, dstatus <- oDstatus, sub <- oSub, lpc <- oLpc,
    lsel <- oLsel, qpc <- oQpc, qsel <- oQsel
Tokens == INSTANCE DhanTokens WITH
    live <- kLive, genAge <- kGenAge, tok <- kTok, cool <- kCool, okAge <- kOkAge,
    lock <- kLock, gcool <- kGcool, slock <- kSlock, sAge <- kSAge, pc <- kPc, got <- kGot,
    busy <- kBusy, seen <- kSeen, ntok <- kNtok, npc <- kNpc, ngot <- kNgot, sock <- kSock,
    faults <- kFaults

\* The constants are ones the code can have.
ASSUME InstanceAssumption ==
    /\ Server!ServerAssumption /\ Throttle!ThrottleAssumption /\ Loop!LoopAssumption
    /\ Front!FuturesAssumption /\ Rotation!RotationAssumption /\ Index!IndexAssumption
    /\ Chain!DepthAssumption /\ Tokens!TokenAssumption
\* There is a token that nobody holds: the ids are more than the places a token can be held at.
ASSUME IdsAssumption ==
    /\ IsFiniteSet(Callers) /\ IsFiniteSet(Loaders) /\ IsFiniteSet(Nodes) /\ IsFiniteSet(NodeThreads)
    /\ IsFiniteSet(Ids)
    /\ Cardinality(Ids) > 2 + Cardinality(Callers) + Cardinality(Loaders)
                             + Cardinality(Nodes) * (2 + Cardinality(NodeThreads))

ServerOnly == which = "server" /\ UNCHANGED <<which, tVars, lVars, fVars, rVars, iVars, oVars, kVars>>
ThrottleOnly == which = "throttle" /\ UNCHANGED <<which, aVars, lVars, fVars, rVars, iVars, oVars, kVars>>
LoopOnly == which = "loop" /\ UNCHANGED <<which, aVars, tVars, fVars, rVars, iVars, oVars, kVars>>
FuturesOnly == which = "futures" /\ UNCHANGED <<which, aVars, tVars, lVars, rVars, iVars, oVars, kVars>>
RotationOnly == which = "rotation" /\ UNCHANGED <<which, aVars, tVars, lVars, fVars, iVars, oVars, kVars>>
IndexOnly == which = "index" /\ UNCHANGED <<which, aVars, tVars, lVars, fVars, rVars, oVars, kVars>>
ChainOnly == which = "chain" /\ UNCHANGED <<which, aVars, tVars, lVars, fVars, rVars, iVars, kVars>>
TokensOnly == which = "tokens" /\ UNCHANGED <<which, aVars, tVars, lVars, fVars, rVars, iVars, oVars>>

Init ==
    /\ which \in {"server", "throttle", "loop", "futures", "rotation", "index", "chain", "tokens"}
    /\ Server!Init /\ (which # "server" => aHours = {})
    /\ Throttle!Init
    /\ Loop!Init /\ (which # "loop" => lKind = "equity")
    /\ Front!Init
    /\ Rotation!Init
    /\ Index!Init
    /\ Chain!Init /\ (which # "chain" => ~oTwenty /\ oPrice = FirstStrike)
    /\ Tokens!Init /\ (which # "tokens" => kLive = None /\ kTok = None)
Next ==
    \/ ServerOnly /\ Server!Next
    \/ ThrottleOnly /\ Throttle!Next
    \/ LoopOnly /\ Loop!Next
    \/ FuturesOnly /\ Front!Next
    \/ RotationOnly /\ Rotation!Next
    \/ IndexOnly /\ Index!Next
    \/ ChainOnly /\ Chain!Next
    \/ TokensOnly /\ Tokens!Next

Spec == Init /\ [][Next]_vars

\* The fairness of the components.  Only one of them moves in a behaviour, so one condition can
\* stand for an action of each.
On(component) == which = component /\ UNCHANGED which
moving ==
    CASE which = "server" -> aVars [] which = "throttle" -> tVars [] which = "loop" -> lVars
      [] which = "futures" -> fVars [] which = "rotation" -> rVars [] which = "index" -> iVars
      [] which = "chain" -> oVars [] which = "tokens" -> kVars
Fairness ==
    /\ WF_moving(\/ On("server") /\ Server!Interval
                 \/ On("loop") /\ Loop!Tick
                 \/ On("futures") /\ Front!Contracts
                 \/ On("rotation") /\ Rotation!Poll
                 \/ On("chain") /\ (Chain!OptionsPause \/ Chain!LoadExpiries \/ Chain!LoadChain)
                 \/ On("tokens") /\ Tokens!Tick)
    /\ WF_moving(\/ On("server") /\ Server!Process
                 \/ On("loop") /\ (Loop!Build \/ Loop!Close \/ Loop!Waited)
                 \/ On("futures") /\ Front!Quotes
                 \/ On("rotation") /\ Rotation!Depth
                 \/ On("chain") /\ Chain!Depth)
    /\ WF_moving(\/ On("server") /\ Server!Kill
                 \/ On("loop") /\ Loop!Handshake
                 \/ On("chain") /\ (Chain!QuoteAsks \/ Chain!QuoteAnswered \/ Chain!QuoteTracks))
    /\ WF_moving(On("loop") /\ Loop!Watch)
    /\ \A t \in Callers : WF_moving(On("tokens") /\ Tokens!Refused(t))
    /\ \A t \in Callers \cup Loaders : WF_moving(On("tokens") /\ Tokens!Continue(t))
    /\ \A k \in Tokens!Requests : WF_moving(On("tokens") /\ Tokens!Node(k))
    /\ \A n \in Nodes : WF_moving(On("tokens") /\ Tokens!Reopens(n))
    /\ SF_moving(\/ On("futures") /\ Front!Download /\ fMaster' = FutureSymbols
                 \/ On("chain") /\ Chain!LoadChain /\ oOstatus' = "LIVE")
    /\ SF_moving(\/ On("futures") /\ Front!Answered
                 \/ On("chain") /\ Chain!LoadExpiries /\ oOpc' = "chain")
    /\ SF_moving(On("chain") /\ Chain!Connect /\ oLpc' = "recv")
    /\ SF_moving(On("chain") /\ Chain!QuoteAnswered /\ oPicked'.expiry = oQsel.expiry)
FairSpec == Spec /\ Fairness

-----------------------------------------------------------------------------
\* Every variable of every component has its type.
TypesOK ==
    /\ which = "server" => Server!TypeOK
    /\ which = "throttle" => Throttle!TypeOK
    /\ which = "loop" => Loop!TypeOK
    /\ which = "futures" => Front!TypeOK
    /\ which = "rotation" => Rotation!TypeOK
    /\ which = "index" => Index!TypeOK
    /\ which = "chain" => Chain!TypeOK
    /\ which = "tokens" => Tokens!TypeOK

\* A part that cannot start stops no other one, and health, the routes and the probes tell of it.
FailuresContained ==
    which = "server" =>
        /\ Server!IsolatedStart /\ Server!CleanKept /\ Server!FailedShown
        /\ Server!HealthCoversRoutes /\ Server!ProbesAgree

\* Dhan's limits hold for all threads together: requests keep their distance and the cooldown a
\* 429 asked for, and no coordinated caller asks for a token before the cooldown of a refused
\* one is over; a refresh that succeeds installs the token that is live.
LimitsHonoured == Throttle!PostsSpaced /\ Tokens!CooldownHonoured /\ Tokens!InstallsLive

\* Once the historical candles of the index are merged, every minute since the open is Dhan's.
OfficialSinceOpen == Index!OfficialSinceOpen

\* What hangs, goes stale or expires is replaced: a wedged process, a silent connection, an
\* expired future, an expired chain and its tracked contracts, a dead token.
EverythingRecovers ==
    []<>(\/ which = "server" /\ Server!Answering
         \/ which = "loop" /\ Loop!NotSilent
         \/ which = "futures" /\ Front!Settled
         \/ which = "rotation" /\ Rotation!Served
         \/ which = "chain" /\ Chain!Tracked
         \/ which = "tokens" /\ Tokens!TokensLive
         \/ which \in {"throttle", "index"})

-----------------------------------------------------------------------------
(* The REST throttle.                                                        *)

Post ==
    [pc : {"idle", "throttle", "sleeping", "posted", "backoff", "limited"}, min : Nat,
     attempt : 0 .. Attempts - 1, left : Nat]

\* A sleeping request holds the lock, and what it has still to sleep covers what is missing of
\* its interval and of the cooldown; nobody extends the cooldown while it does.
Sleeper(r) == r.left >= r.min - tSince /\ r.left >= tCooldown
ThrottleInv ==
    /\ tSince \in 0 .. Longest /\ tCooldown \in Nat /\ tLock \in PostThreads \cup {Free}
    /\ tReq \in [PostThreads -> Post]
    /\ \A t \in PostThreads :
           /\ tReq[t].min \in Intervals \cup {0}
           /\ tReq[t].pc = "sleeping" => tLock = t /\ Sleeper(tReq[t])

\* A request that failed sleeps before its next attempt or has had its last.
LEMMA Retried ==
    ASSUME NEW r \in Post, NEW pause \in Nat
    PROVE  LET a == Throttle!Again(r, pause)
           IN  a \in Post /\ a.pc \in {"backoff", "idle"} /\ a.min \in {0, r.min}
<1>1. Attempts \in Nat \ {0}
  BY InstanceAssumption DEF Throttle!ThrottleAssumption
<1>2. CASE r.attempt < Attempts - 1
  <2> DEFINE a == [r EXCEPT !.pc = "backoff", !.attempt = r.attempt + 1, !.left = pause]
  <2>1. r.attempt + 1 \in 0 .. Attempts - 1
    BY <1>1, <1>2 DEF Post
  <2>2. a \in Post /\ a.pc = "backoff" /\ a.min = r.min
    BY <2>1 DEF Post
  <2> QED BY <1>2, <2>2 DEF Throttle!Again
<1>3. CASE ~(r.attempt < Attempts - 1)
  BY <1>1, <1>3 DEF Throttle!Again, Throttle!Idle, Post
<1> QED BY <1>2, <1>3

LEMMA ThrottleSteady == ThrottleInv /\ [Throttle!Next]_(Throttle!vars) => ThrottleInv'
<1> SUFFICES ASSUME ThrottleInv, [Throttle!Next]_(Throttle!vars) PROVE ThrottleInv'
  OBVIOUS
<1> USE DEF Sleeper
<1>0. /\ Intervals \subseteq Nat /\ Longest \in Intervals /\ \A i \in Intervals : i <= Longest
      /\ RetryAfter \subseteq Nat \ {0} /\ Free \notin PostThreads /\ Attempts \in Nat \ {0}
  BY InstanceAssumption DEF Throttle!ThrottleAssumption
<1>1. Throttle!Idle \in Post /\ Throttle!Idle.pc = "idle" /\ Throttle!Idle.min = 0
  BY <1>0 DEF Throttle!Idle, Post
\* One request changes, and it neither goes to sleep nor gets up, or is the first to sleep.
<1>2. ASSUME NEW t \in PostThreads, NEW r \in Post, tReq' = [tReq EXCEPT ![t] = r],
             tSince' = tSince, tCooldown' = tCooldown, r.min \in Intervals \cup {0},
             \/ r.pc # "sleeping" /\ tReq[t].pc # "sleeping" /\ tLock' = tLock
             \/ r.pc = "sleeping" /\ tLock = Free /\ tLock' = t /\ Sleeper(r)
      PROVE  ThrottleInv'
  BY <1>0, <1>2 DEF ThrottleInv
\* Nobody is asleep any more.
<1>3. ASSUME NEW t \in PostThreads, NEW r \in Post, tReq' = [tReq EXCEPT ![t] = r],
             tSince' \in 0 .. Longest, tCooldown' \in Nat, r.min \in Intervals \cup {0},
             tLock' \in PostThreads \cup {Free},
             r.pc # "sleeping" /\ \A u \in PostThreads \ {t} : tReq[u].pc # "sleeping"
      PROVE  ThrottleInv'
  BY <1>3 DEF ThrottleInv
<1>4. ASSUME NEW t \in PostThreads, Throttle!Call(t) PROVE ThrottleInv'
  <2>1. PICK i \in Intervals : tReq' = [tReq EXCEPT ![t] = [Throttle!Idle EXCEPT !.pc = "throttle", !.min = i]]
    BY <1>4 DEF Throttle!Call
  <2> DEFINE r == [Throttle!Idle EXCEPT !.pc = "throttle", !.min = i]
  <2>2. r \in Post /\ r.pc = "throttle" /\ r.min = i
    BY <1>0, <1>1 DEF Post
  <2>3. tReq' = [tReq EXCEPT ![t] = r]
    BY <2>1
  <2> HIDE DEF r
  <2> QED BY <1>2, <1>4, <2>2, <2>3 DEF Throttle!Call
<1>5. ASSUME NEW t \in PostThreads, Throttle!_throttle_post(t) PROVE ThrottleInv'
  <2> DEFINE l == Throttle!Larger(tReq[t].min - tSince, tCooldown)
             r == [tReq[t] EXCEPT !.pc = "sleeping", !.left = l]
  <2>1. tReq' = [tReq EXCEPT ![t] = r]
    BY <1>5 DEF Throttle!_throttle_post
  <2>2. tReq[t] \in Post /\ tReq[t].min \in Intervals \cup {0}
    BY DEF ThrottleInv
  <2>3. l \in Nat /\ l >= tReq[t].min - tSince /\ l >= tCooldown
    BY <1>0, <2>2 DEF Throttle!Larger, ThrottleInv, Post
  <2> HIDE DEF l
  <2>4. r \in Post /\ r.pc = "sleeping" /\ r.min = tReq[t].min /\ r.left = l
    BY <2>2, <2>3 DEF Post
  <2> HIDE DEF r
  <2> QED BY <1>2, <1>5, <2>1, <2>2, <2>3, <2>4 DEF Throttle!_throttle_post
<1>6. ASSUME NEW t \in PostThreads, Throttle!Posts(t) PROVE ThrottleInv'
  <2> DEFINE r == [tReq[t] EXCEPT !.pc = "posted"]
  <2>1. tReq' = [tReq EXCEPT ![t] = r]
    BY <1>6 DEF Throttle!Posts
  <2>2. tReq[t] \in Post /\ tReq[t].min \in Intervals \cup {0}
    BY DEF ThrottleInv
  <2>3. r \in Post /\ r.pc = "posted" /\ r.min = tReq[t].min
    BY <2>2 DEF Post
  <2> HIDE DEF r
  <2>4. \A u \in PostThreads \ {t} : tReq[u].pc # "sleeping"
    BY <1>6 DEF Throttle!Posts, ThrottleInv
  <2>5. tSince' \in 0 .. Longest /\ tCooldown' \in Nat /\ tLock' \in PostThreads \cup {Free}
    BY <1>0, <1>6 DEF Throttle!Posts, ThrottleInv
  <2> QED BY <1>3, <2>1, <2>2, <2>3, <2>4, <2>5
<1>7. ASSUME NEW t \in PostThreads, Throttle!Answered(t) PROVE ThrottleInv'
  BY <1>1, <1>2, <1>7 DEF Throttle!Answered
<1>8. ASSUME NEW t \in PostThreads, Throttle!Failed(t) PROVE ThrottleInv'
  <2> DEFINE b == Throttle!Backoff(tReq[t].attempt)
             r == Throttle!Again(tReq[t], b)
  <2>1. tReq' = [tReq EXCEPT ![t] = r]
    BY <1>8 DEF Throttle!Failed
  <2>2. tReq[t] \in Post /\ tReq[t].min \in Intervals \cup {0}
    BY DEF ThrottleInv
  <2>3. b \in Nat
    BY DEF Throttle!Backoff
  <2> HIDE DEF b
  <2>4. r \in Post /\ r.pc \in {"backoff", "idle"} /\ r.min \in {0, tReq[t].min}
    BY <1>1, <2>2, <2>3, Retried
  <2> HIDE DEF r
  <2> QED BY <1>2, <1>8, <2>1, <2>2, <2>4 DEF Throttle!Failed
<1>9. ASSUME NEW t \in PostThreads, Throttle!Limited(t) PROVE ThrottleInv'
  <2>1. PICK s \in RetryAfter : tReq' = [tReq EXCEPT ![t].pc = "limited", ![t].left = s]
    BY <1>9 DEF Throttle!Limited
  <2> DEFINE r == [tReq[t] EXCEPT !.pc = "limited", !.left = s]
  <2>2. tReq[t] \in Post /\ tReq[t].min \in Intervals \cup {0} /\ tReq \in [PostThreads -> Post]
    BY DEF ThrottleInv
  <2>3. tReq' = [tReq EXCEPT ![t] = r]
    BY <2>1, <2>2 DEF Post
  <2>4. r \in Post /\ r.pc = "limited" /\ r.min = tReq[t].min
    BY <1>0, <2>2 DEF Post
  <2> HIDE DEF r
  <2> QED BY <1>2, <1>9, <2>2, <2>3, <2>4 DEF Throttle!Limited
<1>10. ASSUME NEW t \in PostThreads, Throttle!_set_rate_cooldown(t) PROVE ThrottleInv'
  <2> DEFINE r == Throttle!Again(tReq[t], tReq[t].left)
  <2>1. tReq' = [tReq EXCEPT ![t] = r]
    BY <1>10 DEF Throttle!_set_rate_cooldown
  <2>2. tReq[t] \in Post /\ tReq[t].min \in Intervals \cup {0}
    BY DEF ThrottleInv
  <2>3. r \in Post /\ r.pc \in {"backoff", "idle"} /\ r.min \in {0, tReq[t].min}
    BY <2>2, Retried DEF Post
  <2> HIDE DEF r
  <2>4. \A u \in PostThreads : tReq[u].pc # "sleeping"
    BY <1>0, <1>10 DEF Throttle!_set_rate_cooldown, ThrottleInv
  <2>5. tSince' \in 0 .. Longest /\ tCooldown' \in Nat /\ tLock' \in PostThreads \cup {Free}
    BY <2>2, <1>10 DEF Throttle!_set_rate_cooldown, Throttle!Larger, ThrottleInv, Post
  <2> QED BY <1>3, <2>1, <2>2, <2>3, <2>4, <2>5
<1>11. ASSUME NEW t \in PostThreads, Throttle!Retries(t) PROVE ThrottleInv'
  <2> DEFINE r == [tReq[t] EXCEPT !.pc = "throttle"]
  <2>1. tReq' = [tReq EXCEPT ![t] = r]
    BY <1>11 DEF Throttle!Retries
  <2>2. tReq[t] \in Post /\ tReq[t].min \in Intervals \cup {0}
    BY DEF ThrottleInv
  <2>3. r \in Post /\ r.pc = "throttle" /\ r.min = tReq[t].min
    BY <2>2 DEF Post
  <2> HIDE DEF r
  <2> QED BY <1>2, <1>11, <2>1, <2>2, <2>3 DEF Throttle!Retries
<1>12. CASE Throttle!Tick
  <2> DEFINE l(t) == Throttle!Less(tReq[t].left)
             r(t) == IF tReq[t].pc \in {"sleeping", "backoff"} THEN [tReq[t] EXCEPT !.left = l(t)]
                                                             ELSE tReq[t]
  <2>1. tReq' = [t \in PostThreads |-> r(t)]
    BY <1>12 DEF Throttle!Tick
  <2>2. ASSUME NEW t \in PostThreads
        PROVE  /\ r(t) \in Post /\ r(t).pc = tReq[t].pc /\ r(t).min = tReq[t].min
               /\ r(t).pc = "sleeping" => r(t).left = l(t)
    <3>1. tReq[t] \in Post
      BY DEF ThrottleInv
    <3>2. l(t) \in Nat
      BY <3>1 DEF Throttle!Less, Post
    <3> HIDE DEF l
    <3> QED BY <3>1, <3>2 DEF Post
  <2> HIDE DEF r
  <2>3. /\ tSince' = IF tSince < Longest THEN tSince + 1 ELSE tSince
        /\ tCooldown' = Throttle!Less(tCooldown) /\ tLock' = tLock
    BY <1>12 DEF Throttle!Tick
  <2>4. tSince' \in 0 .. Longest /\ tCooldown' \in Nat
    BY <1>0, <2>3 DEF Throttle!Less, ThrottleInv
  <2>5. ASSUME NEW t \in PostThreads
        PROVE  /\ tReq'[t].min \in Intervals \cup {0}
               /\ tReq'[t].pc = "sleeping" => tLock' = t /\ Sleeper(tReq[t])'
    <3>1. tReq'[t] = r(t)
      BY <2>1
    <3>2. /\ tReq[t].min \in Intervals \cup {0} /\ tReq[t].left \in Nat
          /\ tReq[t].pc = "sleeping" => tLock = t /\ Sleeper(tReq[t])
          /\ tSince \in 0 .. Longest /\ tCooldown \in Nat
      BY DEF ThrottleInv, Post
    <3>3. tReq[t].pc = "sleeping" => l(t) >= tReq[t].min - tSince' /\ l(t) >= tCooldown'
      <4>1. tReq[t].min \in Nat /\ tReq[t].min <= Longest /\ Longest \in Nat
        <5>1. Longest \in Nat
          BY <1>0
        <5>2. CASE tReq[t].min \in Intervals
          <6>1. tReq[t].min \in Nat
            BY <1>0, <5>2, Zenon
          <6>2. tReq[t].min <= Longest
            BY <1>0, <5>2, Zenon
          <6> QED BY <5>1, <6>1, <6>2
        <5>3. CASE tReq[t].min = 0
          BY <5>1, <5>3
        <5> QED BY <3>2, <5>2, <5>3
      <4>2. CASE tReq[t].left = 0
        BY <2>3, <3>2, <4>1, <4>2 DEF Throttle!Less
      <4>3. CASE tReq[t].left # 0
        <5> DEFINE left == tReq[t].left
        <5>1. left \in Nat /\ left # 0 /\ l(t) = left - 1
          BY <3>2, <4>3 DEF Throttle!Less
        <5>2. CASE tCooldown = 0
          BY <2>3, <3>2, <4>1, <5>1, <5>2 DEF Throttle!Less
        <5>3. CASE tCooldown # 0
          <6>1. tCooldown' = tCooldown - 1
            BY <2>3, <5>3 DEF Throttle!Less
          <6> HIDE DEF l
          <6> QED BY <2>3, <3>2, <4>1, <5>1, <6>1
        <5> QED BY <5>2, <5>3
      <4> QED BY <4>2, <4>3
    <3> HIDE DEF l
    <3> QED BY <2>2, <2>3, <3>1, <3>2, <3>3
  <2>6. tReq' \in [PostThreads -> Post]
    BY <2>1, <2>2
  <2> QED BY <2>3, <2>4, <2>5, <2>6 DEF ThrottleInv
<1>13. CASE UNCHANGED Throttle!vars
  BY <1>13 DEF Throttle!vars, ThrottleInv
<1> QED BY <1>4, <1>5, <1>6, <1>7, <1>8, <1>9, <1>10, <1>11, <1>12, <1>13
        DEF Throttle!Next, Throttle!Request

LEMMA ThrottleStarts == Init => ThrottleInv
<1> SUFFICES ASSUME Init PROVE ThrottleInv OBVIOUS
<1>1. /\ tSince = Longest /\ tCooldown = 0 /\ tLock = Free
      /\ tReq = [t \in PostThreads |-> Throttle!Idle]
  BY DEF Init, Throttle!Init
<1>2. Throttle!Idle \in Post /\ Throttle!Idle.pc = "idle" /\ Throttle!Idle.min = 0
  BY InstanceAssumption DEF Throttle!Idle, Post, Throttle!ThrottleAssumption
<1>3. Longest \in Nat
  BY InstanceAssumption DEF Throttle!ThrottleAssumption
<1> QED BY <1>1, <1>2, <1>3 DEF ThrottleInv

\* A request leaves only when its interval since the last one has passed and no cooldown that
\* any thread has set is running: for any number of threads, any intervals, attempts and
\* cooldowns (dhan_api.DhanAPI._throttle_post, _set_rate_cooldown).
LEMMA RequestsSpaced == Spec => Throttle!PostsSpaced
<1> DEFINE Leaves(t) == tReq[t].pc = "sleeping" /\ tReq'[t].pc = "posted"
           Spaced == \A t \in PostThreads : Leaves(t) => tSince >= tReq[t].min /\ tCooldown = 0
<1>1. Init => ThrottleInv
  BY ThrottleStarts
<1>2. [Next]_vars => [Throttle!Next]_(Throttle!vars)
  BY DEF Next, vars, tVars, ServerOnly, ThrottleOnly, LoopOnly, FuturesOnly, RotationOnly, IndexOnly,
         ChainOnly, TokensOnly, Throttle!vars
<1>3. ThrottleInv /\ [Throttle!Next]_(Throttle!vars) => [Spaced]_(Throttle!vars)
  <2> SUFFICES ASSUME ThrottleInv, Throttle!Next, NEW t \in PostThreads, Leaves(t)
               PROVE  tSince >= tReq[t].min /\ tCooldown = 0
    BY Zenon
  <2>1. tReq[t] \in Post /\ Sleeper(tReq[t]) /\ tSince \in Nat /\ tCooldown \in Nat
    BY InstanceAssumption DEF ThrottleInv, Throttle!ThrottleAssumption
  <2>2. Throttle!Posts(t)
    <3>1. ASSUME NEW u \in PostThreads, Throttle!Request(u), ~Throttle!Posts(t) PROVE FALSE
      <4>1. CASE u # t
        <5>1. \E r : tReq' = [tReq EXCEPT ![u] = r]
          BY <3>1 DEF Throttle!Request, Throttle!Call, Throttle!_throttle_post, Throttle!Posts,
                      Throttle!Answered, Throttle!Failed, Throttle!Limited,
                      Throttle!_set_rate_cooldown, Throttle!Retries
        <5> QED BY <4>1, <5>1 DEF ThrottleInv
      <4>2. CASE u = t
        BY <3>1, <4>2 DEF Throttle!Request, Throttle!Call, Throttle!_throttle_post,
                      Throttle!Answered, Throttle!Failed, Throttle!Limited,
                      Throttle!_set_rate_cooldown, Throttle!Retries
      <4> QED BY <4>1, <4>2
    <3>2. ~Throttle!Tick
      BY DEF Throttle!Tick, ThrottleInv, Post
    <3> QED BY <3>1, <3>2 DEF Throttle!Next
  <2>3. tReq[t].left = 0
    BY <2>2 DEF Throttle!Posts
  <2> QED BY <2>1, <2>3 DEF Sleeper, Post
<1> QED BY <1>1, <1>2, <1>3, ThrottleSteady, PTL DEF Spec, Throttle!PostsSpaced

-----------------------------------------------------------------------------
(* The token.                                                                *)

TokenThreads == Callers \cup Loaders

\* A thread that was granted a token is younger than Dhan's limit between generations: the
\* token it brings is the last one generated, which Dhan accepts until it expires.
Brings(t) == kGenAge <= kBusy[t] /\ (kLive = kGot[t] \/ kLive = None)
TokenInv ==
    /\ kGenAge \in Nat
    /\ kPc \in [TokenThreads -> {"idle", "refused", "asking", "granted"}]
    /\ kBusy \in [TokenThreads -> 0 .. Timeout]
    /\ kGot = [t \in TokenThreads |-> kGot[t]]
    /\ \A t \in TokenThreads : kPc[t] = "granted" => Brings(t)

LEMMA TokenSteady == TokenInv /\ [Tokens!Next]_(Tokens!vars) => TokenInv'
<1> SUFFICES ASSUME TokenInv, [Tokens!Next]_(Tokens!vars) PROVE TokenInv'
  OBVIOUS
<1>0. /\ RateLimit \in Nat /\ Timeout \in Nat /\ Timeout < RateLimit
      /\ Callers \cap Loaders = {} /\ Tokens!Threads = TokenThreads
  BY InstanceAssumption DEF Tokens!TokenAssumption, Tokens!Threads, TokenThreads
<1> USE DEF Brings
\* A thread moves on to where it brings nothing; nothing is generated and no other token granted.
<1>1. ASSUME NEW t \in TokenThreads, NEW p \in {"idle", "refused", "asking"}, Tokens!Move(t, p),
             kGenAge' = kGenAge, kLive' \in {kLive, None},
             \/ kGot' = kGot
             \/ kGot' = [kGot EXCEPT ![t] = None]
      PROVE  TokenInv'
  <2>1. /\ kPc' \in [TokenThreads -> {"idle", "refused", "asking", "granted"}]
        /\ kBusy' \in [TokenThreads -> 0 .. Timeout]
        /\ kPc'[t] = p /\ \A u \in TokenThreads \ {t} : kPc'[u] = kPc[u] /\ kBusy'[u] = kBusy[u]
    BY <1>0, <1>1 DEF Tokens!Move, TokenInv
  <2>2. /\ kGot' = [u \in TokenThreads |-> kGot'[u]]
        /\ \A u \in TokenThreads \ {t} : kGot'[u] = kGot[u]
    BY <1>1 DEF TokenInv
  <2> QED BY <1>1, <2>1, <2>2 DEF TokenInv
\* Dhan generates a token for t: the last one is older than anything granted.
<1>2. ASSUME kGenAge >= RateLimit PROVE \A u \in TokenThreads : kPc[u] # "granted"
  BY <1>0, <1>2 DEF TokenInv
<1>3. ASSUME NEW t \in TokenThreads, Tokens!Granted(t) PROVE TokenInv'
  <2>1. /\ kPc' \in [TokenThreads -> {"idle", "refused", "asking", "granted"}]
        /\ kBusy' = kBusy /\ \A u \in TokenThreads \ {t} : kPc'[u] = kPc[u]
    BY <1>3 DEF Tokens!Granted, Tokens!Move, TokenInv
  <2>2. kGot' = [kGot EXCEPT ![t] = Tokens!NewToken] /\ kLive' = Tokens!NewToken /\ kGenAge' = 0
    BY <1>3 DEF Tokens!Granted
  <2>3. kGot' = [u \in TokenThreads |-> kGot'[u]] /\ kGot'[t] = kLive'
    BY <2>2 DEF TokenInv
  <2>4. \A u \in TokenThreads \ {t} : kPc'[u] # "granted"
    BY <1>2, <1>3, <2>1 DEF Tokens!Granted
  <2> QED BY <1>0, <2>1, <2>2, <2>3, <2>4 DEF TokenInv
<1>4. ASSUME NEW t \in TokenThreads, Tokens!RequestFails(t) PROVE TokenInv'
  <2>1. CASE kLive' = kLive /\ kGenAge' = kGenAge
    BY <1>1, <1>4, <2>1 DEF Tokens!RequestFails
  <2>2. CASE kGenAge >= RateLimit /\ kGenAge' = 0
    <3>1. /\ kPc' \in [TokenThreads -> {"idle", "refused", "asking", "granted"}]
          /\ kBusy' \in [TokenThreads -> 0 .. Timeout]
          /\ kPc'[t] = "idle" /\ \A u \in TokenThreads \ {t} : kPc'[u] = kPc[u]
      BY <1>0, <1>4 DEF Tokens!RequestFails, Tokens!Move, TokenInv
    <3>2. kGot' = kGot
      BY <1>4 DEF Tokens!RequestFails
    <3>3. \A u \in TokenThreads : kPc'[u] # "granted"
      BY <1>2, <2>2, <3>1
    <3> QED BY <2>2, <3>1, <3>2, <3>3 DEF TokenInv
  <2> QED BY <1>4, <2>1, <2>2 DEF Tokens!RequestFails
<1>5. CASE Tokens!Tick
  <2>1. /\ kBusy' = [t \in TokenThreads |-> IF kPc[t] = "idle" THEN 0 ELSE kBusy[t] + 1]
        /\ kGenAge' = Tokens!Least(kGenAge + 1, Tokens!Cap)
        /\ kLive' = kLive /\ kPc' = kPc /\ kGot' = kGot
        /\ \A t \in TokenThreads : kPc[t] # "idle" => kBusy[t] < Timeout
    BY <1>0, <1>5 DEF Tokens!Tick, Tokens!Prompt
  <2>2. kGenAge' \in Nat /\ kGenAge' <= kGenAge + 1
    BY <1>0, <2>1 DEF Tokens!Least, Tokens!Cap, TokenInv
  <2>3. kBusy' \in [TokenThreads -> 0 .. Timeout]
    BY <1>0, <2>1 DEF TokenInv
  <2>4. \A t \in TokenThreads : kPc'[t] = "granted" => Brings(t)'
    BY <1>0, <2>1, <2>2 DEF TokenInv
  <2> QED BY <2>1, <2>2, <2>3, <2>4 DEF TokenInv
<1>6. CASE UNCHANGED <<kGenAge, kPc, kBusy, kGot>> /\ kLive' \in {kLive, None}
  BY <1>6 DEF TokenInv
<1>7. CASE Tokens!Expires
  BY <1>6, <1>7 DEF Tokens!Expires, Tokens!threads
<1>8. CASE Tokens!_keep_token_ready
  <2>1. Keeper \in TokenThreads
    BY <1>8 DEF Tokens!_keep_token_ready, TokenThreads
  <2> QED BY <1>1, <1>8, <2>1 DEF Tokens!_keep_token_ready
<1>9. ASSUME NEW t \in TokenThreads, Tokens!Refused(t) \/ Tokens!LoaderRefused(t) PROVE TokenInv'
  BY <1>1, <1>9 DEF Tokens!Refused, Tokens!LoaderRefused, Tokens!account
<1>10. ASSUME NEW t \in TokenThreads, Tokens!Coordinated(t) PROVE TokenInv'
  BY <1>1, <1>10 DEF Tokens!Coordinated, Tokens!account
<1>11. ASSUME NEW t \in TokenThreads, Tokens!RefreshOnce(t) PROVE TokenInv'
  BY <1>1, <1>11 DEF Tokens!RefreshOnce, Tokens!account
<1>12. ASSUME NEW t \in TokenThreads, Tokens!Installs(t) \/ Tokens!LoaderInstalls(t) PROVE TokenInv'
  BY <1>1, <1>12 DEF Tokens!Installs, Tokens!LoaderInstalls, Tokens!account
<1>13. ASSUME NEW t \in TokenThreads, Tokens!Limited(t) \/ Tokens!LoaderLimited(t) PROVE TokenInv'
  BY <1>1, <1>13 DEF Tokens!Limited, Tokens!LoaderLimited, Tokens!account
<1>14. ASSUME NEW k \in Tokens!Requests, Tokens!Node(k) PROVE TokenInv'
  BY <1>6, <1>14 DEF Tokens!Node, Tokens!Fetch, Tokens!token_share, Tokens!FetchFails, Tokens!apply,
     Tokens!account, Tokens!threads
<1>15. ASSUME NEW n \in Nodes, Tokens!Reopens(n) PROVE TokenInv'
  BY <1>6, <1>15 DEF Tokens!Reopens, Tokens!account, Tokens!threads
<1>16. CASE UNCHANGED Tokens!vars
  BY <1>6, <1>16 DEF Tokens!vars, Tokens!account, Tokens!threads
<1> QED BY <1>0, <1>3, <1>4, <1>5, <1>7, <1>8, <1>9, <1>10, <1>11, <1>12, <1>13, <1>14, <1>15, <1>16
        DEF Tokens!Next, Tokens!Continue

LEMMA TokensStart == Init => TokenInv
<1>1. Tokens!Threads = TokenThreads
  BY DEF Tokens!Threads, TokenThreads
<1>2. Timeout \in Nat /\ RateLimit \in Nat
  BY InstanceAssumption DEF Tokens!TokenAssumption
<1> QED BY <1>1, <1>2 DEF Init, Tokens!Init, TokenInv, Tokens!Cap

\* No coordinated caller asks Dhan again before the cooldown that Dhan asked for is over, not
\* even one that was already waiting, and a token is installed only while it is the one Dhan
\* accepts or none is, although two refresh paths that do not know of each other install it: for
\* any number of callers, loaders and nodes, any faults and any limits that the timeout of a
\* request is below (dhan_auth.refresh_access_token, SessionManager._refresh_auth_once).
LEMMA TokensHonest == Spec => Tokens!CooldownHonoured /\ Tokens!InstallsLive
<1> DEFINE Cold == \A t \in Callers : kCool > 0 /\ kPc[t] = "refused" => kPc'[t] # "asking"
           Live == kTok' # kTok => kTok' = kLive \/ kLive = None
<1>0. Callers \cap Loaders = {} /\ Tokens!Threads = TokenThreads
  BY InstanceAssumption DEF Tokens!TokenAssumption, Tokens!Threads, TokenThreads
<1>1. Init => TokenInv
  BY TokensStart
<1>2. [Next]_vars => [Tokens!Next]_(Tokens!vars)
  BY DEF Next, vars, kVars, ServerOnly, ThrottleOnly, LoopOnly, FuturesOnly, RotationOnly, IndexOnly,
         ChainOnly, TokensOnly, Tokens!vars, Tokens!account, Tokens!authority, Tokens!threads,
         Tokens!nodes
<1>3. TokenInv /\ [Tokens!Next]_(Tokens!vars) => [Cold]_(Tokens!vars)
  <2> SUFFICES ASSUME TokenInv, Tokens!Next, NEW t \in Callers, kCool > 0, kPc[t] = "refused",
                      kPc'[t] = "asking"
               PROVE  FALSE
    BY Zenon
  <2>1. ASSUME NEW u, NEW p, Tokens!Move(u, p), u # t \/ p # "asking" PROVE FALSE
    BY <2>1 DEF Tokens!Move, TokenInv, TokenThreads
  <2>2. kPc' # kPc
    BY Zenon
  <2>3. ASSUME NEW u \in TokenThreads, Tokens!Coordinated(u) PROVE FALSE
    <3>1. kCool # 0
      OBVIOUS
    <3> QED BY <2>1, <2>3, <3>1 DEF Tokens!Coordinated
  <2>4. ASSUME NEW u \in TokenThreads, Tokens!RefreshOnce(u) PROVE FALSE
    BY <1>0, <2>1, <2>4 DEF Tokens!RefreshOnce
  <2>5. ASSUME NEW u \in TokenThreads, Tokens!Refused(u) \/ Tokens!LoaderRefused(u) PROVE FALSE
    BY <2>1, <2>5 DEF Tokens!Refused, Tokens!LoaderRefused
  <2>6. ASSUME NEW u \in TokenThreads,
               \/ Tokens!Installs(u) \/ Tokens!LoaderInstalls(u) \/ Tokens!Limited(u)
               \/ Tokens!LoaderLimited(u) \/ Tokens!RequestFails(u) \/ Tokens!Granted(u)
        PROVE  FALSE
    BY <2>1, <2>6 DEF Tokens!Installs, Tokens!LoaderInstalls, Tokens!Limited, Tokens!LoaderLimited,
       Tokens!RequestFails, Tokens!Granted
  <2>7. ~Tokens!_keep_token_ready
    BY <2>1 DEF Tokens!_keep_token_ready
  <2>8. ~Tokens!Tick /\ ~Tokens!Expires
    BY <2>2 DEF Tokens!Tick, Tokens!Expires, Tokens!threads
  <2>9. \A k \in Tokens!Requests : ~Tokens!Node(k)
    BY <2>2 DEF Tokens!Node, Tokens!Fetch, Tokens!token_share, Tokens!FetchFails, Tokens!apply,
       Tokens!threads
  <2>10. \A n \in Nodes : ~Tokens!Reopens(n)
    BY <2>2 DEF Tokens!Reopens, Tokens!threads
  <2> QED BY <1>0, <2>3, <2>4, <2>5, <2>6, <2>7, <2>8, <2>9, <2>10 DEF Tokens!Next, Tokens!Continue
<1>4. TokenInv /\ [Tokens!Next]_(Tokens!vars) => [Live]_(Tokens!vars)
  <2> SUFFICES ASSUME TokenInv, Tokens!Next, kTok' # kTok
               PROVE  kTok' = kLive \/ kLive = None
    BY Zenon
  <2>1. ASSUME NEW u \in TokenThreads, Tokens!Installs(u) \/ Tokens!LoaderInstalls(u)
        PROVE  kTok' = kLive \/ kLive = None
    BY <2>1 DEF Tokens!Installs, Tokens!LoaderInstalls, TokenInv, Brings
  <2>2. ASSUME NEW u \in TokenThreads,
               \/ Tokens!Coordinated(u) \/ Tokens!RefreshOnce(u) \/ Tokens!Refused(u)
               \/ Tokens!LoaderRefused(u) \/ Tokens!Limited(u)
               \/ Tokens!LoaderLimited(u) \/ Tokens!RequestFails(u) \/ Tokens!Granted(u)
        PROVE  FALSE
    BY <2>2 DEF Tokens!Coordinated, Tokens!RefreshOnce, Tokens!Refused, Tokens!LoaderRefused,
       Tokens!Limited, Tokens!LoaderLimited, Tokens!RequestFails, Tokens!Granted, Tokens!authority
  <2>3. ~Tokens!_keep_token_ready /\ ~Tokens!Tick /\ ~Tokens!Expires
    BY DEF Tokens!_keep_token_ready, Tokens!Tick, Tokens!Expires, Tokens!authority
  <2>4. \A k \in Tokens!Requests : ~Tokens!Node(k)
    BY DEF Tokens!Node, Tokens!Fetch, Tokens!token_share, Tokens!FetchFails, Tokens!apply,
       Tokens!authority
  <2>5. \A n \in Nodes : ~Tokens!Reopens(n)
    BY DEF Tokens!Reopens, Tokens!authority
  <2> QED BY <1>0, <2>1, <2>2, <2>3, <2>4, <2>5 DEF Tokens!Next, Tokens!Continue
<1> QED BY <1>1, <1>2, <1>3, <1>4, TokenSteady, PTL DEF Spec, Tokens!CooldownHonoured, Tokens!InstallsLive

\* Dhan's limits hold for all threads together, of any number and in any order: requests keep
\* their distance and the cooldown a 429 asked for, no coordinated caller asks for a token before
\* the cooldown of a refused one is over, and a refresh that succeeds installs the live token
\* (dhan_api, dhan_auth, session).
THEOREM LimitsAreHonoured == Spec => LimitsHonoured
BY RequestsSpaced, TokensHonest DEF LimitsHonoured

-----------------------------------------------------------------------------
(* The index candles.                                                        *)

\* Once the historical candles of the index are merged, every minute since the open is Dhan's,
\* however ticks, requests and the turn of the day interleave afterwards, for any length of the
\* day and any hours (index_layer.IndexLayer.merge_today_1m, _store_complete).
THEOREM OfficialStays == Spec => []OfficialSinceOpen
<1> USE DEF OfficialSinceOpen
<1>1. Init => OfficialSinceOpen
  BY DEF Init, Index!Init, Index!OfficialSinceOpen
<1>2. [Next]_vars => [Index!Next]_(Index!vars)
  BY DEF Next, vars, iVars, ServerOnly, ThrottleOnly, LoopOnly, FuturesOnly, RotationOnly, IndexOnly,
         ChainOnly, TokensOnly, Index!vars
<1>3. Index!OfficialSinceOpen /\ [Index!Next]_(Index!vars) => Index!OfficialSinceOpen'
  <2> SUFFICES ASSUME Index!OfficialSinceOpen, [Index!Next]_(Index!vars), iCovered' # None,
                      NEW m \in Index!load_today_completed_intraday(iCovered')
               PROVE  m \in DOMAIN iLive' /\ iLive'[m] = "api"
    BY DEF Index!OfficialSinceOpen
  <2>1. CASE iCovered' = iCovered /\ iLive' = iLive
    BY <2>1 DEF Index!OfficialSinceOpen
  <2>2. CASE Index!update_quote
    <3>1. iCovered' = iCovered
      BY <2>2 DEF Index!update_quote
    <3>2. m \in DOMAIN iLive /\ iLive[m] = "api"
      BY <3>1 DEF Index!OfficialSinceOpen
    <3>3. iLive' = iLive \/ \E k : iLive' = Index!_store_complete(k)
      BY <2>2 DEF Index!update_quote
    <3> QED BY <3>2, <3>3 DEF Index!_store_complete
  <2>3. CASE Index!Merge
    <3> DEFINE ms == Index!load_today_completed_intraday(iAsked)
    <3>1. iCovered' = iAsked /\ iLive' = Index!merge_today_1m(ms)
      BY <2>3 DEF Index!Merge
    <3>2. m \in ms
      BY <3>1
    <3> HIDE DEF ms
    <3>3. iLive' = [x \in ms \cup DOMAIN iLive |-> IF x \in ms THEN "api" ELSE iLive[x]]
      BY <3>1 DEF Index!merge_today_1m
    <3> QED BY <3>2, <3>3
  <2>4. CASE Index!StartSession \/ Index!EndSession
    BY <2>4 DEF Index!StartSession, Index!EndSession
  <2>5. CASE Index!Backfill \/ Index!RequestFails \/ Index!_sync_once \/ Index!Tick
    BY <2>1, <2>5 DEF Index!Backfill, Index!RequestFails, Index!_sync_once, Index!Tick
  <2>6. CASE UNCHANGED Index!vars
    BY <2>1, <2>6 DEF Index!vars
  <2> QED BY <2>2, <2>3, <2>4, <2>5, <2>6 DEF Index!Next
<1> QED BY <1>1, <1>2, <1>3, PTL DEF Spec

-----------------------------------------------------------------------------
(* The server.                                                               *)

Started(k) == Server!StartOrder[k]
Stopped(k) == Server!StopOrder[k]
CanRun(p) == p \notin aBroken /\ (Server!Provider(p) # None => Server!Provider(p) \in aRunning)

\* No part is built twice, a part's provider before it, and shutdown stops a part before its
\* provider.
LEMMA Orders ==
    /\ Len(Server!StartOrder) = 15 /\ Len(Server!StopOrder) = 14
    /\ Server!Parts = {Started(k) : k \in 1 .. 15}
    /\ \A j, k \in 1 .. 15 : Started(j) = Started(k) => j = k
    /\ \A k \in 1 .. 15 : Server!Provider(Started(k)) # None =>
           \E j \in 1 .. 15 : j < k /\ Server!Provider(Started(k)) = Started(j)
    /\ Server!Core = {Started(1), Started(3)} /\ Started(3) = "session"
    /\ \A part \in Server!Core : Server!Provider(part) = None
    /\ \A k \in 1 .. 14, part \in Server!Parts : Server!Provider(part) = Stopped(k) =>
           \E j \in 1 .. 14 : j < k /\ part = Stopped(j)
<1> DEFINE order == Server!StartOrder
           stops == Server!StopOrder
<1>1. /\ Len(order) = 15 /\ Len(stops) = 14
      /\ order[1] = "settings" /\ order[2] = "recorder" /\ order[3] = "session"
      /\ order[4] = "index_layer" /\ order[5] = "archive" /\ order[6] = "indicators"
      /\ order[7] = "index_options" /\ order[8] = "index_depth" /\ order[9] = "midcap"
      /\ order[10] = "underlying_indicators" /\ order[11] = "index_futures"
      /\ order[12] = "stock_options_nifty50" /\ order[13] = "stock_depth_nifty50"
      /\ order[14] = "global_context" /\ order[15] = "rbi_news"
  BY DEF Server!StartOrder, Server!StopOrder
<1>2. /\ stops[1] = "archive" /\ stops[2] = "recorder" /\ stops[3] = "indicators"
      /\ stops[4] = "index_layer" /\ stops[5] = "rbi_news" /\ stops[6] = "global_context"
      /\ stops[7] = "stock_depth_nifty50" /\ stops[8] = "stock_options_nifty50"
      /\ stops[9] = "index_futures" /\ stops[10] = "underlying_indicators" /\ stops[11] = "midcap"
      /\ stops[12] = "index_depth" /\ stops[13] = "index_options" /\ stops[14] = "session"
  BY DEF Server!StopOrder
<1>3. Server!Parts = {order[k] : k \in 1 .. 15}
  BY <1>1 DEF Server!Parts
<1> HIDE DEF order, stops
<1>4. \A j, k \in 1 .. 15 : order[j] = order[k] => j = k
  BY <1>1
<1>5. None \notin Server!Parts
  BY InstanceAssumption DEF Server!ServerAssumption
<1>6. \A k \in 1 .. 15 : Server!Provider(order[k]) # None =>
           \/ k = 8 /\ Server!Provider(order[k]) = order[7]
           \/ k = 13 /\ Server!Provider(order[k]) = order[12]
  BY <1>1 DEF Server!Provider
<1>7. Server!Core = {order[1], order[3]} /\ \A part \in Server!Core : Server!Provider(part) = None
  BY <1>1 DEF Server!Core, Server!Provider
<1>8. \A part \in Server!Parts : Server!Provider(part) # None =>
           \/ part = "index_depth" /\ Server!Provider(part) = "index_options"
           \/ part = "stock_depth_nifty50" /\ Server!Provider(part) = "stock_options_nifty50"
  BY DEF Server!Provider
<1>9. \A k \in 1 .. 14 : stops[k] # None
  <2>1. \A k \in 1 .. 14 : stops[k] \in Server!Parts
    BY <1>1, <1>2, <1>3
  <2> QED BY <1>5, <2>1
<1>10. \A k \in 1 .. 14 : (stops[k] = "index_options" => k = 13) /\ (stops[k] = "stock_options_nifty50" => k = 8)
  BY <1>2
<1>11. \A k \in 1 .. 14, part \in Server!Parts : Server!Provider(part) = stops[k] =>
           \E j \in 1 .. 14 : j < k /\ part = stops[j]
  BY <1>2, <1>8, <1>9, <1>10
<1> QED BY <1>1, <1>3, <1>4, <1>6, <1>7, <1>11 DEF order, stops, Started, Stopped

\* What the process has built so far, and what it has stopped: the parts still to be built do
\* not run; without a broken core a part that was reached runs exactly when it could; a process
\* with a configuration error has no session; what was stopped stays stopped.
StartInv ==
    aPc = "starting" =>
        /\ aStep \in 1 .. 16
        /\ \A k \in 1 .. 15 : aStep <= k => Started(k) \notin aRunning
        /\ aBroken \cap Server!Core = {} =>
               \A k \in 1 .. 15 : k < aStep => (Started(k) \in aRunning <=> CanRun(Started(k)))
ErrorInv == aPc \in {"starting", "serving"} /\ aConfig_error => "session" \notin aRunning
StopInv == aPc = "stopping" => aStep \in 1 .. 15 /\ \A k \in 1 .. 14 : k < aStep => Stopped(k) \notin aRunning
ServerInv ==
    /\ aRunning \subseteq Server!Parts /\ StartInv /\ ErrorInv /\ StopInv
    /\ Server!IsolatedStart /\ Server!CleanKept /\ Server!FailedShown

LEMMA PartStarted ==
    ASSUME ServerInv, Server!StartPart PROVE StartInv' /\ ErrorInv' /\ StopInv' /\ Server!IsolatedStart'
<1> DEFINE part == Started(aStep)
           fatal == Server!Fails(part) /\ Server!Fatal(part)
<1>1. /\ aPc = "starting" /\ aPc' = "starting" /\ aBroken' = aBroken /\ aStep \in 1 .. 15
      /\ aRunning' = IF Server!Fails(part) THEN aRunning ELSE aRunning \cup {part}
      /\ aConfig_error' = fatal
      /\ aStep' = IF fatal THEN 16 ELSE aStep + 1
  BY Orders DEF Server!StartPart, ServerInv, StartInv, Started
<1>2. /\ part \in Server!Parts
      /\ \A k \in 1 .. 15 : k # aStep => (Started(k) \in aRunning' <=> Started(k) \in aRunning)
  BY <1>1, Orders
<1>3. aStep' \in 1 .. 16 /\ aStep' >= aStep + 1
  BY <1>1
<1>4. \A k \in 1 .. 15 : aStep' <= k => Started(k) \notin aRunning'
  BY <1>1, <1>2, <1>3 DEF ServerInv, StartInv
<1>5. aBroken \cap Server!Core = {} =>
          \A k \in 1 .. 15 : k < aStep' => (Started(k) \in aRunning' <=> CanRun(Started(k))')
  <2> SUFFICES ASSUME aBroken \cap Server!Core = {}, NEW k \in 1 .. 15, k < aStep'
               PROVE  Started(k) \in aRunning' <=> CanRun(Started(k))'
    OBVIOUS
  <2>1. ~fatal
    BY Orders DEF Server!Fails, Server!Fatal
  <2>2. k <= aStep
    BY <1>1, <2>1
  <2>3. Server!Provider(Started(k)) # None =>
            (Server!Provider(Started(k)) \in aRunning' <=> Server!Provider(Started(k)) \in aRunning)
    BY <1>1, <1>2, <2>2, Orders
  <2>4. CanRun(Started(k))' <=> CanRun(Started(k))
    BY <1>1, <2>3 DEF CanRun
  <2>5. CASE k = aStep
    <3>1. Started(k) \notin aRunning
      BY <1>1, <2>5 DEF ServerInv, StartInv
    <3> QED BY <1>1, <2>4, <2>5, <3>1 DEF CanRun, Server!Fails
  <2>6. CASE k < aStep
    BY <1>1, <1>2, <2>4, <2>6 DEF ServerInv, StartInv
  <2> QED BY <1>1, <2>2, <2>5, <2>6
<1>6. aConfig_error' => "session" \notin aRunning'
  <2> SUFFICES ASSUME fatal PROVE "session" \notin aRunning
    BY <1>1
  <2>1. part \in Server!Core
    BY DEF Server!Fatal
  <2>2. aStep <= 3
    BY <1>1, <2>1, Orders
  <2> QED BY <1>1, <2>2, Orders DEF ServerInv, StartInv
<1>7. \A p \in aRunning' : Server!Provider(p) # None => Server!Provider(p) \in aRunning'
  BY <1>1 DEF ServerInv, Server!IsolatedStart, Server!Fails
<1> HIDE DEF part, fatal
<1> QED BY <1>1, <1>3, <1>4, <1>5, <1>6, <1>7 DEF StartInv, ErrorInv, StopInv, Server!IsolatedStart

LEMMA PartStopped ==
    ASSUME ServerInv, Server!StopPart PROVE StartInv' /\ ErrorInv' /\ StopInv' /\ Server!IsolatedStart'
<1>1. /\ aPc = "stopping" /\ aPc' = "stopping" /\ aStep \in 1 .. 14 /\ aStep' = aStep + 1
      /\ aRunning' = aRunning \ {Stopped(aStep)}
  BY Orders DEF Server!StopPart, ServerInv, StopInv, Stopped
<1>2. \A k \in 1 .. 14 : k < aStep' => Stopped(k) \notin aRunning'
  BY <1>1 DEF ServerInv, StopInv
<1>3. ASSUME NEW p \in aRunning', Server!Provider(p) # None PROVE Server!Provider(p) \in aRunning'
  <2>1. p \in aRunning /\ p \in Server!Parts /\ Server!Provider(p) \in aRunning
    BY <1>1, <1>3 DEF ServerInv, Server!IsolatedStart
  <2>2. Server!Provider(p) # Stopped(aStep)
    <3> SUFFICES ASSUME Server!Provider(p) = Stopped(aStep) PROVE FALSE
      OBVIOUS
    <3>1. PICK j \in 1 .. 14 : j < aStep /\ p = Stopped(j)
      BY <1>1, <2>1, Orders
    <3> QED BY <1>1, <2>1, <3>1 DEF ServerInv, StopInv
  <2> QED BY <1>1, <2>1, <2>2
<1> QED BY <1>1, <1>2, <1>3 DEF StartInv, ErrorInv, StopInv, Server!IsolatedStart

\* A failed feed is in the report that is being made.
LEMMA FailureReported == ASSUME Server!Health PROVE Server!FailedShown'
<1> DEFINE shown == {Server!Shown(p) : p \in Server!Components}
           open(p) == (IF p \in Server!Derivatives THEN "derivatives" ELSE "equity") \in aHours
<1>1. /\ aHealth'.overall = Server!_build_health_payload /\ aHealth'.open = aHours
      /\ aHealth'.failed = Server!Components \ aRunning
  BY DEF Server!Health
<1>2. ASSUME NEW p \in Server!Components \ aRunning, p \in Server!AlwaysOn \/ open(p)
      PROVE  Server!_build_health_payload \in {"DEGRADED", "DOWN"}
  <2>1. Server!Shown(p) = "ERROR"
    BY <1>2 DEF Server!Shown, Server!_out_of_session
  <2>2. "ERROR" \in shown
    BY <2>1
  <2> QED BY <2>2 DEF Server!_build_health_payload
<1>3. ASSUME aHours = {}, (Server!Components \ aRunning) \cap Server!AlwaysOn = {}
      PROVE  Server!_build_health_payload \in {"HEALTHY", "MARKET_CLOSED"}
  <2>1. \A p \in Server!Components : Server!Shown(p) # "ERROR"
    BY <1>3 DEF Server!Shown, Server!_out_of_session
  <2>2. "ERROR" \notin shown
    BY <2>1
  <2> QED BY <2>2 DEF Server!_build_health_payload
<1> HIDE DEF shown
<1> QED BY <1>1, <1>2, <1>3 DEF Server!FailedShown

LEMMA ServerSteady == ServerInv /\ [Server!Next]_(Server!vars) => ServerInv'
<1> SUFFICES ASSUME ServerInv, [Server!Next]_(Server!vars) PROVE ServerInv'
  OBVIOUS
<1>1. WatchdogSec \in Nat \ {0}
  BY InstanceAssumption DEF Server!ServerAssumption
<1>2. CASE Server!Exec
  <2>1. aPc' = "starting" /\ aStep' = 1 /\ aRunning' = {} /\ ~aConfig_error' /\ aSilent' = 0 /\ aHealth' = None
    BY <1>2 DEF Server!Exec
  <2> QED BY <1>1, <2>1 DEF ServerInv, StartInv, ErrorInv, StopInv, Server!IsolatedStart, Server!CleanKept,
          Server!FailedShown
<1>3. CASE Server!StartPart
  <2>1. aRunning' \subseteq Server!Parts
    <3>1. aRunning' \subseteq aRunning \cup {Started(aStep)} /\ aStep \in 1 .. 15
      BY <1>3, Orders DEF Server!StartPart, ServerInv, StartInv, Started
    <3> QED BY <3>1, Orders DEF ServerInv
  <2>2. UNCHANGED <<aClean, aSilent, aHealth>>
    BY <1>3 DEF Server!StartPart
  <2> QED BY <1>3, <2>1, <2>2, PartStarted DEF ServerInv, Server!CleanKept, Server!FailedShown
<1>4. CASE Server!Serve
  <2>1. /\ aPc = "starting" /\ aPc' = "serving" /\ aStep = 16
        /\ UNCHANGED <<aRunning, aBroken, aConfig_error, aSilent, aClean, aHealth>>
    BY <1>4, Orders DEF Server!Serve, ServerInv, StartInv
  <2>2. aBroken \cap Server!Core = {} => \A p \in Server!Parts : p \in aRunning <=> CanRun(p)
    BY <2>1, Orders DEF ServerInv, StartInv
  <2> QED BY <2>1, <2>2 DEF ServerInv, StartInv, ErrorInv, StopInv, CanRun, Server!IsolatedStart,
          Server!CleanKept, Server!FailedShown
<1>5. CASE Server!Interval
  <2>1. UNCHANGED <<aPc, aStep, aRunning, aBroken, aConfig_error, aHealth>>
    BY <1>5 DEF Server!Interval
  <2>2. aClean' => aSilent' = 0
    BY <1>5 DEF Server!Interval, Server!check, Server!InGrace
  <2> QED BY <1>1, <2>1, <2>2 DEF ServerInv, StartInv, ErrorInv, StopInv, CanRun, Server!IsolatedStart,
          Server!CleanKept, Server!FailedShown
<1>6. CASE Server!Kill \/ Server!Exit
  <2>1. aPc' = "down" /\ aRunning' = {} /\ aHealth' = None /\ ~aClean'
    BY <1>6 DEF Server!Kill, Server!Exit
  <2> QED BY <2>1 DEF ServerInv, StartInv, ErrorInv, StopInv, Server!IsolatedStart, Server!CleanKept,
          Server!FailedShown
<1>7. CASE Server!Sigterm
  <2>1. /\ aPc' = "stopping" /\ aStep' = 1 /\ ~aClean' /\ UNCHANGED <<aRunning, aHealth>>
    BY <1>7 DEF Server!Sigterm
  <2> QED BY <2>1 DEF ServerInv, StartInv, ErrorInv, StopInv, Server!IsolatedStart, Server!CleanKept,
          Server!FailedShown
<1>8. CASE Server!StopPart
  <2>1. aRunning' \subseteq aRunning /\ UNCHANGED <<aClean, aSilent, aHealth>>
    BY <1>8 DEF Server!StopPart
  <2> QED BY <1>8, <2>1, PartStopped DEF ServerInv, Server!CleanKept, Server!FailedShown
<1>9. ASSUME UNCHANGED <<aPc, aStep, aRunning, aBroken, aConfig_error, aSilent, aClean>>, Server!FailedShown'
      PROVE  ServerInv'
  BY <1>9 DEF ServerInv, StartInv, ErrorInv, StopInv, CanRun, Server!IsolatedStart, Server!CleanKept
<1>10. CASE Server!Health
  BY <1>9, <1>10, FailureReported DEF Server!Health
<1>11. CASE Server!HealthSent
  BY <1>9, <1>11 DEF Server!HealthSent, Server!FailedShown
<1>12. CASE Server!Trouble \/ Server!HoursTurn \/ UNCHANGED Server!vars
  <2>1. UNCHANGED <<aPc, aStep, aRunning, aBroken, aConfig_error, aSilent, aClean, aHealth>>
    BY <1>12 DEF Server!Trouble, Server!HoursTurn, Server!vars
  <2> QED BY <1>9, <2>1 DEF ServerInv, Server!FailedShown
<1> QED BY <1>2, <1>3, <1>4, <1>5, <1>6, <1>7, <1>8, <1>10, <1>11, <1>12 DEF Server!Next

\* The fixed slices of the live-a.. routes cut the universe: each stock is in one of them.
LEMMA SlicesCut ==
    \A stock \in 0 .. UniverseSize - 1 :
        \E k \in DOMAIN Server!SHARD_RANGES :
            \A j \in DOMAIN Server!SHARD_RANGES : stock \in Server!SHARD_RANGES[j] <=> j = k
<1> SUFFICES ASSUME NEW stock \in 0 .. UniverseSize - 1
             PROVE  \E k \in 0 .. ShardCount - 1 :
                        \A j \in 0 .. ShardCount - 1 : stock \in Server!SHARD_RANGES[j] <=> j = k
  BY DEF Server!SHARD_RANGES
<1>1. /\ UniverseSize \in Nat /\ ShardCount \in Nat /\ ShardWidth \in Nat /\ ShardWidth > 0
      /\ UniverseSize <= ShardCount * ShardWidth /\ stock \in Nat /\ stock < UniverseSize
  BY InstanceAssumption DEF Server!ServerAssumption
<1> DEFINE k == stock \div ShardWidth
<1>2. k \in Nat /\ k * ShardWidth <= stock /\ stock < (k + 1) * ShardWidth
  BY <1>1, Z3
<1> HIDE DEF k
<1>3. ASSUME NEW i \in Nat, NEW j \in Nat, i < j PROVE (i + 1) * ShardWidth <= j * ShardWidth
  BY <1>1, <1>3, Z3
<1>4. k \in 0 .. ShardCount - 1
  BY <1>1, <1>2, <1>3
<1>5. ASSUME NEW j \in 0 .. ShardCount - 1 PROVE stock \in Server!SHARD_RANGES[j] <=> j = k
  <2>1. stock \in Server!SHARD_RANGES[j] <=> j * ShardWidth <= stock /\ stock < (j + 1) * ShardWidth
    <3>1. j * ShardWidth \in Nat /\ (j + 1) * ShardWidth \in Nat
      BY <1>1
    <3> QED BY <1>1, <3>1 DEF Server!SHARD_RANGES, Server!Least
  <2>2. CASE j < k
    <3>1. (j + 1) * ShardWidth <= k * ShardWidth /\ j * ShardWidth \in Nat /\ k * ShardWidth \in Nat
          /\ (j + 1) * ShardWidth \in Nat
      BY <1>1, <1>2, <1>3, <2>2
    <3> QED BY <1>1, <1>2, <2>1, <2>2, <3>1
  <2>3. CASE k < j
    <3>1. (k + 1) * ShardWidth <= j * ShardWidth /\ j * ShardWidth \in Nat /\ (k + 1) * ShardWidth \in Nat
      BY <1>1, <1>2, <1>3, <2>3
    <3> QED BY <1>1, <1>2, <2>1, <2>3, <3>1
  <2>4. CASE j = k
    BY <1>2, <2>1, <2>4
  <2> QED BY <1>2, <2>2, <2>3, <2>4
<1> QED BY <1>4, <1>5

\* A healthy report with every session open stands for every route.
LEMMA RoutesCovered == ServerInv => Server!HealthCoversRoutes
<1> SUFFICES ASSUME ServerInv, aPc = "serving", aHours = {"equity", "derivatives"},
                    Server!_build_health_payload = "HEALTHY", NEW route \in Server!Routes
             PROVE  \E said \in Server!Said : Server!Respond(route, said) = [code |-> 200, status |-> said]
  BY SlicesCut DEF Server!HealthCoversRoutes
<1> DEFINE shown == {Server!Shown(p) : p \in Server!Components}
<1>1. "ERROR" \notin shown
  BY DEF Server!_build_health_payload
<1>2. \A p \in Server!Components : Server!Shown(p) # "ERROR"
  BY <1>1
<1>3. Server!Components \subseteq aRunning
  BY <1>2 DEF Server!Shown, Server!_out_of_session
<1>4. Server!Reads(route) \in Server!Components /\ "session" \in Server!Components
  <2>1. Server!Reads(route) \in
            {"session", "index_layer", "indicators", "index_options", "index_depth", "index_futures",
             "stock_options_nifty50", "stock_depth_nifty50", "underlying_indicators", "global_context", "rbi_news"}
    BY DEF Server!Reads, Server!Routes
  <2>2. /\ "session" = Started(3) /\ "index_layer" = Started(4) /\ "indicators" = Started(6)
        /\ "index_options" = Started(7) /\ "index_depth" = Started(8)
        /\ "underlying_indicators" = Started(10) /\ "index_futures" = Started(11)
        /\ "stock_options_nifty50" = Started(12) /\ "stock_depth_nifty50" = Started(13)
        /\ "global_context" = Started(14) /\ "rbi_news" = Started(15)
    BY DEF Started, Server!StartOrder
  <2>3. {"session", "index_layer", "indicators", "index_options", "index_depth", "index_futures",
         "stock_options_nifty50", "stock_depth_nifty50", "underlying_indicators", "global_context", "rbi_news"}
            \subseteq Server!Parts
    BY <2>2, Orders
  <2> QED BY <2>1, <2>3 DEF Server!Components
<1>5. ~aConfig_error
  BY <1>3, <1>4 DEF ServerInv, ErrorInv
<1>6. \E said \in Server!Said : said \in Server!ServableStatuses(route)
  BY DEF Server!Said, Server!ServableStatuses
<1> QED BY <1>3, <1>4, <1>5, <1>6 DEF Server!Respond, Server!_error_response

LEMMA ProbesTell == Server!ProbesAgree
<1> SUFFICES ASSUME ~aOver, NEW snap \in Server!Snapshots, Server!ready(snap).ready, snap.thread
             PROVE  Server!_service_health_payload(snap) = "OK"
  BY DEF Server!ProbesAgree
<1>1. ~aConfig_error /\ Server!ReadyNow(snap)
  BY DEF Server!ready, Server!_error_response
<1>2. snap.session = "LIVE" /\ snap.feed = "CONNECTED" /\ Server!stream_health(snap) = "FULL_LIVE"
  BY <1>1 DEF Server!ReadyNow
<1>3. snap.live # "none"
  BY <1>2 DEF Server!stream_health
<1> QED BY <1>1, <1>2, <1>3 DEF Server!_service_health_payload, Server!Fresh

\* Startup isolates what fails, for any set of broken parts; a depth feed never outlives its
\* option chains; systemd never restarts a process that answered every check; the health report
\* never hides a failed feed whose session is open and, when healthy, stands for every route and
\* for a universe of any size; and the probes agree (app.startup, shutdown, _out_of_session,
\* runtime_guard.ServiceWatchdog).
THEOREM FailuresStayContained == Spec => []FailuresContained
<1>1. Init => ServerInv
  BY DEF Init, Server!Init, ServerInv, StartInv, ErrorInv, StopInv, Server!IsolatedStart, Server!CleanKept,
         Server!FailedShown
<1>2. [Next]_vars => [Server!Next]_(Server!vars)
  BY DEF Next, vars, aVars, ServerOnly, ThrottleOnly, LoopOnly, FuturesOnly, RotationOnly, IndexOnly,
         ChainOnly, TokensOnly, Server!vars
<1>3. ServerInv => FailuresContained
  BY RoutesCovered, ProbesTell DEF ServerInv, FailuresContained
<1> QED BY <1>1, <1>2, <1>3, ServerSteady, PTL DEF Spec

-----------------------------------------------------------------------------
(* Types.                                                                    *)

\* A step of the instance is a step of every component or leaves it alone.
LEMMA Component ==
    [Next]_vars =>
        /\ [Server!Next]_(Server!vars) /\ [Throttle!Next]_(Throttle!vars)
        /\ [Loop!Next]_(Loop!vars) /\ [Front!Next]_(Front!vars)
        /\ [Rotation!Next]_(Rotation!vars) /\ [Index!Next]_(Index!vars)
        /\ [Chain!Next]_(Chain!vars) /\ [Tokens!Next]_(Tokens!vars)
<1> SUFFICES ASSUME [Next]_vars
             PROVE  /\ [Server!Next]_(Server!vars) /\ [Throttle!Next]_(Throttle!vars)
                    /\ [Loop!Next]_(Loop!vars) /\ [Front!Next]_(Front!vars)
                    /\ [Rotation!Next]_(Rotation!vars) /\ [Index!Next]_(Index!vars)
                    /\ [Chain!Next]_(Chain!vars) /\ [Tokens!Next]_(Tokens!vars)
  OBVIOUS
<1>0. /\ UNCHANGED aVars => UNCHANGED Server!vars
      /\ UNCHANGED tVars => UNCHANGED Throttle!vars
      /\ UNCHANGED lVars => UNCHANGED Loop!vars
      /\ UNCHANGED fVars => UNCHANGED Front!vars
      /\ UNCHANGED rVars => UNCHANGED Rotation!vars
      /\ UNCHANGED iVars => UNCHANGED Index!vars
      /\ UNCHANGED oVars => UNCHANGED Chain!vars
      /\ UNCHANGED kVars => UNCHANGED Tokens!vars
  BY DEF aVars, tVars, lVars, fVars, rVars, iVars, oVars, kVars, Server!vars, Throttle!vars, Loop!vars,
         Front!vars, Rotation!vars, Rotation!market, Rotation!options, Rotation!depth, Index!vars,
         Chain!vars, Chain!market, Chain!options, Chain!depth, Tokens!vars, Tokens!account,
         Tokens!authority, Tokens!threads, Tokens!nodes
<1> QED BY <1>0 DEF Next, vars, ServerOnly, ThrottleOnly, LoopOnly, FuturesOnly, RotationOnly, IndexOnly,
           ChainOnly, TokensOnly

LEMMA ServerTyped == ServerInv /\ Server!TypeOK /\ [Server!Next]_(Server!vars) => Server!TypeOK'
<1> SUFFICES ASSUME ServerInv, Server!TypeOK, [Server!Next]_(Server!vars) PROVE Server!TypeOK'
  OBVIOUS
<1>0. /\ StartGrace \in Nat /\ WatchdogSec \in Nat \ {0} /\ MaxSlow \in Nat
      /\ Len(Server!StartOrder) = 15 /\ Len(Server!StopOrder) = 14
      /\ \A k \in 1 .. 15 : Server!StartOrder[k] \in Server!Parts
  BY InstanceAssumption, Orders DEF Server!ServerAssumption, Started
<1>1. CASE Server!Exec
  BY <1>0, <1>1 DEF Server!Exec, Server!TypeOK
<1>2. CASE Server!StartPart
  <2>1. UNCHANGED <<aPc, aBroken, aUp, aSilent>> /\ aPc = "starting" /\ aSlow' = 0
    BY <1>2 DEF Server!StartPart
  <2>2. aStep \in 1 .. 15 /\ aStep' \in {16, aStep + 1}
    BY <1>0, <1>2 DEF Server!StartPart, ServerInv, StartInv
  <2>3. aRunning' \subseteq aRunning \cup {Server!StartOrder[aStep]}
    BY <1>2 DEF Server!StartPart
  <2> QED BY <1>0, <2>1, <2>2, <2>3 DEF Server!TypeOK
<1>3. CASE Server!Interval
  BY <1>0, <1>3 DEF Server!Interval, Server!TypeOK
<1>4. CASE Server!StopPart
  BY <1>0, <1>4 DEF Server!StopPart, Server!TypeOK
<1>5. CASE Server!Serve \/ Server!Kill \/ Server!Sigterm \/ Server!Exit
  BY <1>0, <1>5 DEF Server!Serve, Server!Kill, Server!Sigterm, Server!Exit, Server!TypeOK
<1>6. CASE Server!Trouble \/ Server!HoursTurn \/ Server!Health \/ Server!HealthSent \/ UNCHANGED Server!vars
  BY <1>6 DEF Server!Trouble, Server!HoursTurn, Server!Health, Server!HealthSent, Server!vars, Server!TypeOK
<1> QED BY <1>1, <1>2, <1>3, <1>4, <1>5, <1>6 DEF Server!Next

LEMMA LoopTyped == Loop!TypeOK /\ [Loop!Next]_(Loop!vars) => Loop!TypeOK'
<1> SUFFICES ASSUME Loop!TypeOK, [Loop!Next]_(Loop!vars) PROVE Loop!TypeOK'
  OBVIOUS
<1>0. MaxLevel \in Nat /\ Cooldown \in Nat /\ MaxLevel < Cooldown /\ Silence \in Nat \ {0}
  BY InstanceAssumption DEF Loop!LoopAssumption
<1>1. CASE Loop!Build
  <2>1. lRejected' \in BOOLEAN
    BY ONLY <1>1, Zenon DEF Loop!Build
  <2>2. UNCHANGED <<lKind, lBackoff, lLeft, lStop>> /\ lQuotes' \in BOOLEAN /\ lAge' = 0
    BY <1>1, Zenon DEF Loop!Build
  <2>3. lPc' \in {"done", "connecting"} /\ lWatch' \in {"await", "none"}
    BY <1>1 DEF Loop!Build
  <2> QED BY <1>0, <2>1, <2>2, <2>3 DEF Loop!TypeOK
<1>2. CASE Loop!Connects \/ Loop!RunEnds \/ Loop!Watch
  <2>1. UNCHANGED <<lKind, lLeft, lStop, lQuotes, lRejected>>
    BY <1>2 DEF Loop!Connects, Loop!RunEnds, Loop!Watch
  <2>2. lPc' \in {"connected", "closing", lPc} /\ lWatch' \in {"watching", "none", lWatch}
    BY <1>2 DEF Loop!Connects, Loop!RunEnds, Loop!Watch
  <2>3. lAge' \in {0, lAge} /\ lBackoff' \in {0, lBackoff}
    BY <1>2 DEF Loop!Connects, Loop!RunEnds, Loop!Watch
  <2> QED BY <1>0, <2>1, <2>2, <2>3 DEF Loop!TypeOK
<1>8. CASE Loop!Quote \/ Loop!Stop
  <2>1. UNCHANGED <<lKind, lBackoff, lLeft, lAge, lWatch, lRejected>>
    BY <1>8 DEF Loop!Quote, Loop!Stop
  <2>2. lPc' \in {lPc, "closing"} /\ lQuotes' \in {TRUE, lQuotes} /\ lStop' \in {TRUE, lStop}
    BY <1>8 DEF Loop!Quote, Loop!Stop
  <2> QED BY <2>1, <2>2 DEF Loop!TypeOK
<1>3. CASE Loop!ErrorPacket \/ Loop!RunFails
  BY <1>0, <1>3 DEF Loop!ErrorPacket, Loop!RunFails, Loop!TypeOK
<1>4. CASE Loop!Close
  BY <1>0, <1>4 DEF Loop!Close, Loop!TypeOK
<1>5. CASE Loop!Waited
  <2>1. lBackoff' \in 0 .. MaxLevel
    BY <1>0, <1>5 DEF Loop!Waited, Loop!TypeOK
  <2> QED BY <1>0, <1>5, <2>1 DEF Loop!Waited, Loop!TypeOK
<1>6. CASE Loop!Tick
  BY <1>0, <1>6 DEF Loop!Tick, Loop!TypeOK
<1>7. CASE UNCHANGED Loop!vars
  BY <1>7 DEF Loop!vars, Loop!TypeOK
<1> QED BY <1>1, <1>2, <1>3, <1>4, <1>5, <1>6, <1>7, <1>8 DEF Loop!Next

\* Every set of naturals has a least element.
LEMMA LeastNatural ==
    ASSUME NEW S \in SUBSET Nat, S # {}
    PROVE  \E p \in S : \A i \in S : p <= i
<1> DEFINE R == OpToRel(<, Nat)
<1>1. IsWellFoundedOn(R, Nat)
  BY NatLessThanWellFounded
<1>2. PICK p \in S : \A i \in S : <<i, p>> \notin R
  <2> HIDE DEF R
  <2> QED BY <1>1, WFMin
<1>3. ASSUME NEW i \in S PROVE p <= i
  <2>1. ~(i < p)
    BY <1>2 DEF OpToRel
  <2> QED BY <2>1
<1> QED BY <1>3


\* The nearest expiry that is not over is an expiry.
LEMMA FrontMonth == Front!parse_front_month_index_futures \in FutureExpiries \cup {None}
<1> DEFINE S == {e \in FutureExpiries : e >= fToday}
<1> SUFFICES ASSUME S # {} PROVE Front!Min(S) \in S
  BY DEF Front!parse_front_month_index_futures
<1>1. S \in SUBSET Nat
  BY InstanceAssumption DEF Front!FuturesAssumption
<1>2. \E x \in S : \A y \in S : x <= y
  <2> HIDE DEF S
  <2> QED BY <1>1, LeastNatural
<1> HIDE DEF S
<1> QED BY <1>2 DEF Front!Min

FutureType ==
    [contract : FutureExpiries \cup {None}, quote : FutureExpiries \cup {None},
     prev : FutureExpiries \cup {None}, change : (FutureExpiries \X FutureExpiries) \cup {None},
     status : {"STARTING", "LIVE", "ERROR"}]
\* An answer is of a symbol, and what is stored is an expiry.
FrontInv ==
    /\ fToday \in 1..LastDay /\ fFuture \in [FutureSymbols -> FutureType]
    /\ fMaster \in (SUBSET FutureSymbols) \cup {None} /\ fResolved \in BOOLEAN
    /\ fLive \subseteq FutureSymbols /\ fAsked \subseteq FutureSymbols \X FutureExpiries
    /\ fPc \in {"idle", "asked", "lookup", "store"}
    /\ fPc = "store" => fRow \in [symbol : FutureSymbols, quote : FutureExpiries \cup {None}]

LEMMA FrontChanges ==
    ASSUME NEW f \in FutureType
    PROVE  /\ Front!set_error(f) \in FutureType
           /\ \A c \in FutureExpiries : Front!set_contract(f, c) \in FutureType /\ Front!set_quote(f, c) \in FutureType
<1> USE DEF FutureType
<1>1. Front!set_error(f) \in FutureType
  BY DEF Front!set_error
<1>2. ASSUME NEW c \in FutureExpiries PROVE Front!set_contract(f, c) \in FutureType
  BY <1>2 DEF Front!set_contract
<1>3. ASSUME NEW c \in FutureExpiries PROVE Front!set_quote(f, c) \in FutureType
  <2> DEFINE d == IF f.prev # None THEN <<f.prev, c>> ELSE f.change
  <2>1. d \in (FutureExpiries \X FutureExpiries) \cup {None}
    OBVIOUS
  <2>2. Front!set_quote(f, c) = [f EXCEPT !.change = d, !.prev = c, !.quote = c, !.status = "LIVE"]
    BY Zenon DEF Front!set_quote
  <2> HIDE DEF d
  <2> QED BY <2>1, <2>2
<1> QED BY <1>1, <1>2, <1>3

LEMMA FrontTyped == FrontInv /\ [Front!Next]_(Front!vars) => FrontInv'
<1> SUFFICES ASSUME FrontInv, [Front!Next]_(Front!vars) PROVE FrontInv'
  OBVIOUS
<1>0. FutureExpiries \subseteq Nat \ {0} /\ LastDay \in Nat \ {0} /\ None \notin Nat
  BY InstanceAssumption DEF Front!FuturesAssumption
<1>1. CASE Front!Download
  <2>1. fFuture' \in [FutureSymbols -> FutureType]
    BY <1>1, FrontChanges DEF Front!Download, FrontInv
  <2> QED BY <1>1, <2>1 DEF Front!Download, FrontInv
<1>2. CASE Front!ResolveContract
  <2>1. PICK s \in fMaster :
            LET c == Front!parse_front_month_index_futures
            IN  /\ fFuture' = [fFuture EXCEPT ![s] = IF c = None THEN Front!set_error(@) ELSE Front!set_contract(@, c)]
                /\ fMaster' = fMaster \ {s}
    BY <1>2 DEF Front!ResolveContract
  <2> DEFINE c == Front!parse_front_month_index_futures
             g == IF c = None THEN Front!set_error(fFuture[s]) ELSE Front!set_contract(fFuture[s], c)
  <2>2. fMaster # None /\ UNCHANGED <<fToday, fResolved, fLive, fAsked, fPc, fRow>>
    BY <1>2 DEF Front!ResolveContract
  <2>3. fMaster \in SUBSET FutureSymbols /\ s \in FutureSymbols /\ fFuture[s] \in FutureType
    <3>1. fMaster \in (SUBSET FutureSymbols) \cup {None} /\ fFuture \in [FutureSymbols -> FutureType]
      BY DEF FrontInv
    <3>2. fMaster \subseteq FutureSymbols
      BY ONLY <2>2, <3>1, Zenon
    <3> QED BY ONLY <3>1, <3>2, s \in fMaster
  <2>4. g \in FutureType
    BY <2>3, FrontMonth, FrontChanges
  <2>5. fFuture' = [fFuture EXCEPT ![s] = g]
    BY <2>1, Zenon
  <2> HIDE DEF g
  <2>6. fFuture' \in [FutureSymbols -> FutureType]
    BY <2>4, <2>5 DEF FrontInv
  <2> QED BY <2>1, <2>2, <2>3, <2>6 DEF FrontInv
<1>3. CASE Front!Resolved \/ Front!ContractWait \/ Front!NextDay
  <2>1. UNCHANGED <<fFuture, fLive, fAsked, fPc, fRow>> /\ fMaster' \in {None, fMaster}
    BY <1>3 DEF Front!Resolved, Front!ContractWait, Front!NextDay
  <2>2. fResolved' \in {TRUE, FALSE, fResolved}
    BY <1>3 DEF Front!Resolved, Front!ContractWait, Front!NextDay
  <2>3. fToday' \in 1 .. LastDay
    BY <1>0, <1>3 DEF Front!Resolved, Front!ContractWait, Front!NextDay, FrontInv
  <2> QED BY <2>1, <2>2, <2>3 DEF FrontInv
<1>4. CASE Front!AskQuotes
  <2>1. \A s \in fLive' : s \in FutureSymbols /\ fFuture[s].contract \in FutureExpiries
    BY <1>4 DEF Front!AskQuotes, FrontInv, FutureType
  <2>2. fAsked' \subseteq FutureSymbols \X FutureExpiries
    BY <1>4, <2>1 DEF Front!AskQuotes
  <2> QED BY <1>4, <2>1, <2>2 DEF Front!AskQuotes, FrontInv
<1>5. CASE Front!AskFails
  <2>1. fFuture' \in [FutureSymbols -> FutureType]
    BY <1>5, FrontChanges DEF Front!AskFails, FrontInv
  <2> QED BY <1>5, <2>1 DEF Front!AskFails, FrontInv
<1>6. CASE Front!Answered
  BY <1>6 DEF Front!Answered, FrontInv
<1>7. ASSUME NEW s \in FutureSymbols, Front!LookUp(s) PROVE FrontInv'
  <2>1. fFuture[s].contract \in FutureExpiries \cup {None}
    BY DEF FrontInv, FutureType
  <2>2. fRow' \in [symbol : FutureSymbols, quote : FutureExpiries \cup {None}]
    BY <1>7, <2>1 DEF Front!LookUp
  <2> QED BY <1>7, <2>2 DEF Front!LookUp, FrontInv
<1>8. CASE Front!Store
  <2> DEFINE s == fRow.symbol
             g == IF fRow.quote = None THEN Front!set_error(fFuture[s]) ELSE Front!set_quote(fFuture[s], fRow.quote)
  <2>1. s \in FutureSymbols /\ fRow.quote \in FutureExpiries \cup {None} /\ fFuture[s] \in FutureType
    BY <1>8 DEF Front!Store, FrontInv
  <2>2. g \in FutureType
    BY <2>1, FrontChanges
  <2>3. fFuture' = [fFuture EXCEPT ![s] = g]
    BY <1>8, Zenon DEF Front!Store
  <2> HIDE DEF g
  <2>4. fFuture' \in [FutureSymbols -> FutureType]
    BY <2>1, <2>2, <2>3 DEF FrontInv
  <2> HIDE DEF s
  <2>5. /\ UNCHANGED <<fToday, fMaster, fResolved>> /\ fLive' \subseteq fLive
        /\ fAsked' \subseteq fAsked /\ fPc' \in {"idle", "lookup"}
    BY <1>8 DEF Front!Store
  <2> QED BY <2>4, <2>5 DEF FrontInv
<1>9. CASE UNCHANGED Front!vars
  BY <1>9 DEF Front!vars, FrontInv
<1> QED BY <1>1, <1>2, <1>3, <1>4, <1>5, <1>6, <1>7, <1>8, <1>9 DEF Front!Next, Front!Contracts, Front!Quotes

\* The stocks of the instance are two.
LEMMA StocksOf ==
    /\ Rotation!Symbols = {"A", "B"} /\ Len(Stocks) = 2 /\ \A i \in 1 .. 2 : Stocks[i] \in Rotation!Symbols
    /\ Rotation!_batches \in {1, 2}
<1>1. Len(Stocks) = 2 /\ Stocks[1] = "A" /\ Stocks[2] = "B"
  BY DEF Stocks
<1>2. Rotation!Symbols = {Stocks[i] : i \in 1 .. 2}
  BY <1>1 DEF Rotation!Symbols, Rotation!ToSet, Stocks
<1>3. Rotation!Symbols = {"A", "B"}
  <2>1. \A i \in 1 .. 2 : i = 1 \/ i = 2
    OBVIOUS
  <2> QED BY <1>1, <1>2, <2>1
<1>4. BatchSize \in Nat /\ BatchSize > 0
  BY InstanceAssumption DEF Rotation!RotationAssumption
<1>5. (2 + BatchSize - 1) \div BatchSize \in {1, 2}
  <2>1. CASE BatchSize = 1
    BY <2>1
  <2>2. CASE BatchSize > 1
    <3> DEFINE q == (2 + BatchSize - 1) \div BatchSize
    <3>1. q \in Int /\ q * BatchSize <= BatchSize + 1 /\ BatchSize + 1 < (q + 1) * BatchSize
      BY <1>4, Z3
    <3> HIDE DEF q
    <3>2. q = 1
      <4>1. ASSUME q <= 0 PROVE (q + 1) * BatchSize <= BatchSize
        BY <1>4, <3>1, <4>1, Z3
      <4>2. ASSUME q >= 2 PROVE q * BatchSize >= 2 * BatchSize
        BY <1>4, <3>1, <4>2, Z3
      <4>3. (q + 1) * BatchSize \in Int /\ q * BatchSize \in Int
        BY <1>4, <3>1
      <4> QED BY <1>4, <2>2, <3>1, <4>1, <4>2, <4>3
    <3> QED BY <3>2 DEF q
  <2> QED BY <1>4, <2>1, <2>2
<1> QED BY <1>1, <1>2, <1>3, <1>5 DEF Rotation!_batches

RotationInv ==
    /\ Rotation!TypeOK
    /\ rExpiry \in [Rotation!Symbols -> Expiries \cup {None}]
    /\ rChain \in [Rotation!Symbols -> Expiries \cup {None}]
    /\ rRows \in [Rotation!Symbols -> Expiries \cup {None}]
    /\ rDstatus \in [Rotation!Symbols -> {"PENDING", "LIVE", "ERROR", "MARKET_CLOSED"}]
    /\ rRotation \in [Rotation!Symbols -> {"ACTIVE", "IDLE"}]

LEMMA RotationTyped == RotationInv /\ [Rotation!Next]_(Rotation!vars) => RotationInv'
<1> SUFFICES ASSUME RotationInv, [Rotation!Next]_(Rotation!vars) PROVE RotationInv'
  OBVIOUS
<1> DEFINE S == Rotation!Symbols
           E == Expiries \cup {None}
           D == {"PENDING", "LIVE", "ERROR", "MARKET_CLOSED"}
           R == {"ACTIVE", "IDLE"}
\* The parts of the invariant.
<1>p. RotationInv <=>
        /\ rOpen \in BOOLEAN /\ rFront \in Expiries /\ rIndex \in 1 .. Len(Stocks)
        /\ rExpiry \in [S -> E] /\ rChain \in [S -> E] /\ rRows \in [S -> E]
        /\ rDstatus \in [S -> D] /\ rRotation \in [S -> R]
        /\ rBindex \in 0 .. Rotation!_batches - 1 /\ rBatch \subseteq S
        /\ rContracts \subseteq S \X Expiries /\ rPc \in {"top", "refresh", "connect", "recv"}
  BY DEF RotationInv, Rotation!TypeOK
<1>q. RotationInv' <=>
        /\ rOpen' \in BOOLEAN /\ rFront' \in Expiries /\ rIndex' \in 1 .. Len(Stocks)
        /\ rExpiry' \in [S -> E] /\ rChain' \in [S -> E] /\ rRows' \in [S -> E]
        /\ rDstatus' \in [S -> D] /\ rRotation' \in [S -> R]
        /\ rBindex' \in 0 .. Rotation!_batches - 1 /\ rBatch' \subseteq S
        /\ rContracts' \subseteq S \X Expiries /\ rPc' \in {"top", "refresh", "connect", "recv"}
  BY DEF RotationInv, Rotation!TypeOK
<1>0. /\ Len(Stocks) = 2 /\ \A i \in 1 .. 2 : Stocks[i] \in S
      /\ Rotation!_batches \in {1, 2}
  BY StocksOf
<1> DEFINE b == Rotation!_batches
<1> USE DEF Rotation!market, Rotation!options, Rotation!depth
<1>1. CASE Rotation!Market
  <2>1. rExpiry' \in [S -> E]
    BY <1>1, <1>p DEF Rotation!Market
  <2>2. rFront' \in Expiries /\ rOpen' \in BOOLEAN
    BY <1>1, <1>p DEF Rotation!Market
  <2>3. UNCHANGED <<rIndex, rChain, rRows, rDstatus, rRotation, rBindex, rBatch, rContracts, rPc>>
    BY <1>1 DEF Rotation!Market
  <2> HIDE DEF S, E, D, R
  <2> QED BY <1>p, <1>q, <2>1, <2>2, <2>3
<1>2. CASE Rotation!Poll
  <2> DEFINE s == Stocks[rIndex]
             e == IF rExpiry[s] = None THEN rFront ELSE rExpiry[s]
  <2>1. rIndex \in 1 .. 2 /\ s \in S /\ rFront \in Expiries /\ rExpiry[s] \in E
    BY <1>0, <1>p
  <2>2. e \in E
    BY <2>1
  <2>3. rExpiry' \in {rExpiry, [rExpiry EXCEPT ![s] = e]}
    BY <1>2 DEF Rotation!Poll, Rotation!_poll_one
  <2>4. rExpiry' \in [S -> E]
    <3> HIDE DEF e, s, S, E, D, R
    <3> QED BY <1>p, <2>1, <2>2, <2>3
  <2>5. rChain' = rChain \/ rChain' = [rChain EXCEPT ![s] = rExpiry'[s]]
    BY <1>2 DEF Rotation!Poll, Rotation!_poll_one
  <2>6. rChain' \in [S -> E]
    <3> HIDE DEF e, s, S, E, D, R
    <3> QED BY <1>p, <2>1, <2>4, <2>5
  <2>7. rIndex' \in 1 .. 2
    BY <1>0, <1>2, <2>1 DEF Rotation!Poll
  <2>8. UNCHANGED <<rOpen, rFront, rRows, rDstatus, rRotation, rBindex, rBatch, rContracts, rPc>>
    BY <1>2 DEF Rotation!Poll
  <2> HIDE DEF e, s, S, E, D, R
  <2> QED BY <1>0, <1>p, <1>q, <2>4, <2>6, <2>7, <2>8
<1>3. CASE Rotation!DepthPauses
  <2>1. rDstatus' \in [S -> D] /\ rRotation' \in [S -> R]
    BY <1>3, <1>p DEF Rotation!DepthPauses
  <2>2. UNCHANGED <<rOpen, rFront, rIndex, rExpiry, rChain, rRows, rBindex, rBatch, rContracts, rPc>>
    BY <1>3 DEF Rotation!DepthPauses
  <2> HIDE DEF S, E, D, R
  <2> QED BY <1>p, <1>q, <2>1, <2>2
<1>4. CASE Rotation!NextBatch
  <2>1. rRotation' \in [S -> R]
    BY <1>4, <1>p DEF Rotation!NextBatch
  <2>2. rBatch' \subseteq S
    BY <1>0, <1>4 DEF Rotation!NextBatch, Rotation!_batch
  <2>3. rBindex' \in 0 .. b - 1
    <3>1. rBindex' = (rBindex + 1) % b
      BY <1>4 DEF Rotation!NextBatch
    <3>2. b \in {1, 2} /\ rBindex \in Int
      BY <1>0, <1>p
    <3> HIDE DEF b
    <3> QED BY <3>1, <3>2
  <2>4. UNCHANGED <<rOpen, rFront, rIndex, rExpiry, rChain, rRows, rDstatus, rContracts>> /\ rPc' = "refresh"
    BY <1>4 DEF Rotation!NextBatch
  <2> HIDE DEF S, E, D, R
  <2> QED BY <1>p, <1>q, <2>1, <2>2, <2>3, <2>4
<1>5. CASE Rotation!_refresh_contracts_for_batch
  <2>1. rRows' \in [S -> E]
    BY <1>5, <1>p DEF Rotation!_refresh_contracts_for_batch
  <2>2. rContracts' \subseteq S \X Expiries /\ rPc' \in {"top", "connect"}
    BY <1>5, <1>p DEF Rotation!_refresh_contracts_for_batch
  <2>3. UNCHANGED <<rOpen, rFront, rIndex, rExpiry, rChain, rDstatus, rRotation, rBindex, rBatch>>
    BY <1>5 DEF Rotation!_refresh_contracts_for_batch
  <2> HIDE DEF S, E, D, R
  <2> QED BY <1>p, <1>q, <2>1, <2>2, <2>3
<1>6. CASE Rotation!Connect \/ Rotation!TurnEnds
  <2>1. /\ UNCHANGED <<rOpen, rFront, rIndex, rExpiry, rChain, rRows, rDstatus, rRotation, rBindex, rBatch,
                       rContracts>>
        /\ rPc' \in {"recv", "top"}
    BY <1>6 DEF Rotation!Connect, Rotation!TurnEnds
  <2> HIDE DEF S, E, D, R
  <2> QED BY <1>p, <1>q, <2>1
<1>7. CASE Rotation!SocketFails \/ Rotation!DepthPacket
  <2>1. rDstatus' \in [S -> D]
    BY <1>7, <1>p DEF Rotation!SocketFails, Rotation!DepthPacket
  <2>2. /\ UNCHANGED <<rOpen, rFront, rIndex, rExpiry, rChain, rRows, rRotation, rBindex, rBatch, rContracts>>
        /\ rPc' \in {rPc, "top"}
    BY <1>7 DEF Rotation!SocketFails, Rotation!DepthPacket
  <2> HIDE DEF S, E, D, R
  <2> QED BY <1>p, <1>q, <2>1, <2>2
<1>8. CASE UNCHANGED Rotation!vars
  BY <1>8, <1>p, <1>q DEF Rotation!vars
<1> QED BY <1>1, <1>2, <1>3, <1>4, <1>5, <1>6, <1>7, <1>8 DEF Rotation!Next, Rotation!Depth

Candles(c) == DOMAIN c \subseteq Index!Minutes /\ \A m \in DOMAIN c : c[m] \in {"ws", "api"}

\* Dhan's candles of a day are of minutes before the request.
LEMMA LoadedMinutes ==
    \A t \in Index!Minutes : Index!load_today_completed_intraday(t) \subseteq Index!Minutes
<1> SUFFICES ASSUME NEW t \in Index!Minutes, NEW m \in Index!load_today_completed_intraday(t)
             PROVE  m \in Index!Minutes
  OBVIOUS
<1>1. DayLen \in Nat /\ DayLen > 0 /\ OpenAt \in Nat /\ LastMinute \in Nat /\ t \in Nat /\ t <= LastMinute
  BY InstanceAssumption DEF Index!IndexAssumption, Index!Minutes
<1> DEFINE d == t \div DayLen
<1>2. d \in Nat
  BY <1>1, Z3
<1>3. d * DayLen + OpenAt \in Nat
  <2> HIDE DEF d
  <2> QED BY <1>1, <1>2
<1>4. m \in d * DayLen + OpenAt .. t - 1
  BY DEF Index!load_today_completed_intraday, Index!Day
<1> HIDE DEF d
<1> QED BY <1>1, <1>3, <1>4 DEF Index!Minutes

LEMMA IndexTyped == Index!TypeOK /\ [Index!Next]_(Index!vars) => Index!TypeOK'
<1> SUFFICES ASSUME Index!TypeOK, [Index!Next]_(Index!vars) PROVE Index!TypeOK'
  OBVIOUS
<1> DEFINE M == Index!Minutes
<1>p. Index!TypeOK <=>
        /\ iNow \in M /\ iCurrent \in M \cup {None} /\ Candles(iLive) /\ Candles(iBasis)
        /\ iStatus \in {"LIVE", "CLOSED"} /\ iFeed \in BOOLEAN
        /\ iStarted \in M \cup {None} /\ iFilled \in M \cup {None} /\ iAsked \in M \cup {None}
        /\ iCovered \in M \cup {None}
  BY DEF Index!TypeOK, Candles
<1>q. Index!TypeOK' <=>
        /\ iNow' \in M /\ iCurrent' \in M \cup {None} /\ Candles(iLive') /\ Candles(iBasis')
        /\ iStatus' \in {"LIVE", "CLOSED"} /\ iFeed' \in BOOLEAN
        /\ iStarted' \in M \cup {None} /\ iFilled' \in M \cup {None} /\ iAsked' \in M \cup {None}
        /\ iCovered' \in M \cup {None}
  BY DEF Index!TypeOK, Candles
<1>0. /\ DayLen \in Nat /\ CloseAt \in Nat /\ CloseAt < DayLen /\ LastMinute \in Nat
      /\ None \notin M
  BY InstanceAssumption DEF Index!IndexAssumption, Index!Minutes
<1>b. Candles(<<>>)
  BY DEF Candles
<1>1. CASE Index!update_quote
  <2>1. PICK m \in {iNow, iNow - 1} :
            /\ Index!_in_market(m)
            /\ iLive' = IF iCurrent # None /\ m > iCurrent THEN Index!_store_complete(iCurrent) ELSE iLive
            /\ iCurrent' = m
    BY <1>1 DEF Index!update_quote
  <2>2. m \in M
    <3>1. iNow \in Nat /\ iNow <= LastMinute
      BY <1>p, <1>0 DEF Index!Minutes
    <3>2. CASE m = -1
      <4>1. (-1) % DayLen = DayLen - 1
        BY <1>0, Z3
      <4>2. ~((-1) % DayLen < CloseAt)
        BY <1>0, <4>1
      <4>3. m % DayLen < CloseAt
        BY <2>1 DEF Index!_in_market
      <4> QED BY <3>2, <4>2, <4>3
    <3> QED BY <1>0, <3>1, <3>2 DEF Index!Minutes
  <2>3. Candles(iLive')
    <3>1. ASSUME iCurrent # None PROVE Candles(Index!_store_complete(iCurrent))
      <4>1. iCurrent \in M /\ Candles(iLive)
        BY <1>p, <3>1
      <4> HIDE DEF M
      <4> QED BY <4>1 DEF Candles, Index!_store_complete, M
    <3> QED BY <1>p, <2>1, <3>1
  <2>4. UNCHANGED <<iNow, iStatus, iFeed, iStarted, iFilled, iAsked, iCovered, iBasis>>
    BY <1>1 DEF Index!update_quote
  <2> HIDE DEF M
  <2> QED BY <1>p, <1>q, <2>1, <2>2, <2>3, <2>4
<1>2. CASE Index!StartSession
  <2>1. /\ iLive' = <<>> /\ iCurrent' = None /\ iStatus' = "LIVE" /\ iCovered' = None /\ iAsked' = iNow
        /\ iStarted' = Index!Day(iNow) /\ UNCHANGED <<iNow, iFeed, iFilled, iBasis>>
    BY <1>2 DEF Index!StartSession, Index!Blank
  <2>2. Index!Day(iNow) \in M
    <3>1. iNow \in Nat /\ iNow <= LastMinute /\ DayLen >= 1
      BY <1>p, <1>0 DEF Index!Minutes
    <3>2. iNow \div DayLen \in Nat /\ iNow \div DayLen <= iNow
      BY <1>0, <3>1, Z3
    <3> QED BY <1>0, <3>1, <3>2 DEF Index!Day, Index!Minutes
  <2> HIDE DEF M
  <2> QED BY <1>b, <1>p, <1>q, <2>1, <2>2
<1>3. CASE Index!Backfill
  <2>1. iFilled' = iNow /\ iAsked' = iNow
    BY <1>3 DEF Index!Backfill
  <2>2. UNCHANGED <<iNow, iLive, iCurrent, iStatus, iFeed, iStarted, iCovered, iBasis>>
    BY <1>3 DEF Index!Backfill
  <2> HIDE DEF M
  <2> QED BY <1>p, <1>q, <2>1, <2>2
<1>4. CASE Index!Merge
  <2> DEFINE ms == Index!load_today_completed_intraday(iAsked)
  <2>1. iAsked \in M
    BY <1>4, <1>p DEF Index!Merge
  <2>2. ms \subseteq M
    BY <2>1, LoadedMinutes
  <2>3. iLive' = [m \in ms \cup DOMAIN iLive |-> IF m \in ms THEN "api" ELSE iLive[m]]
    BY <1>4 DEF Index!Merge, Index!merge_today_1m
  <2>4. Candles(iLive')
    <3>1. Candles(iLive)
      BY <1>p
    <3> HIDE DEF ms, M
    <3> QED BY <2>2, <2>3, <3>1 DEF Candles, M
  <2>5. iCovered' = iAsked /\ iAsked' = None /\ iFeed' \in BOOLEAN
    BY <1>4 DEF Index!Merge
  <2>6. UNCHANGED <<iNow, iCurrent, iStatus, iStarted, iFilled, iBasis>>
    BY <1>4 DEF Index!Merge
  <2> HIDE DEF M
  <2> QED BY <1>p, <1>q, <2>1, <2>4, <2>5, <2>6
<1>5. CASE Index!RequestFails
  <2>1. iAsked' = None /\ iFeed' \in BOOLEAN
    BY <1>5 DEF Index!RequestFails
  <2>2. UNCHANGED <<iNow, iLive, iCurrent, iStatus, iStarted, iFilled, iCovered, iBasis>>
    BY <1>5 DEF Index!RequestFails
  <2> HIDE DEF M
  <2> QED BY <1>p, <1>q, <2>1, <2>2
<1>6. CASE Index!EndSession
  <2>1. iLive' = <<>> /\ iCurrent' = None /\ iStatus' = "CLOSED" /\ iStarted' = None /\ iCovered' = None
    BY <1>6 DEF Index!EndSession, Index!Blank
  <2>2. iFeed' \in BOOLEAN /\ UNCHANGED <<iNow, iFilled, iAsked, iBasis>>
    BY <1>6 DEF Index!EndSession
  <2> HIDE DEF M
  <2> QED BY <1>b, <1>p, <1>q, <2>1, <2>2
<1>7. CASE Index!_sync_once
  <2>1. iBasis' = iLive /\ UNCHANGED <<iNow, iLive, iCurrent, iStatus, iFeed, iStarted, iFilled, iAsked, iCovered>>
    BY <1>7 DEF Index!_sync_once
  <2> HIDE DEF M
  <2> QED BY <1>p, <1>q, <2>1
<1>8. CASE Index!Tick
  <2>1. iNow' \in M
    BY <1>0, <1>8, <1>p DEF Index!Tick, Index!Minutes
  <2>2. UNCHANGED <<iLive, iCurrent, iStatus, iFeed, iStarted, iFilled, iAsked, iCovered, iBasis>>
    BY <1>8 DEF Index!Tick
  <2> HIDE DEF M
  <2> QED BY <1>p, <1>q, <2>1, <2>2
<1>9. CASE UNCHANGED Index!vars
  BY <1>9, <1>p, <1>q DEF Index!vars
<1> QED BY <1>1, <1>2, <1>3, <1>4, <1>5, <1>6, <1>7, <1>8, <1>9 DEF Index!Next

\* A chain is loaded of an expiry that is known.
ChainInv == Chain!TypeOK /\ (oOpc = "chain" => oList # None)

LEMMA ChainTyped == ChainInv /\ [Chain!Next]_(Chain!vars) => ChainInv'
<1> SUFFICES ASSUME ChainInv, [Chain!Next]_(Chain!vars) PROVE ChainInv'
  OBVIOUS
<1> DEFINE C == Expiries \X Strikes
           Statuses == {"STARTING", "LIVE", "ERROR", "MARKET_CLOSED"}
           Sel == Chain!Selection
           Loaded == [expiry : Expiries, price : Strikes] \cup {Chain!NoChain}
           Lpcs == {"top", "write", "track", "connect", "recv", "wait"}
<1>p. ChainInv <=>
        /\ oTwenty \in BOOLEAN /\ oOpen \in BOOLEAN /\ oDay \in 0 .. MaxDays /\ oFront \in Expiries
        /\ oPrice \in Strikes /\ oList \in Expiries \cup {None} /\ oListed \in BOOLEAN
        /\ oOpc \in {"poll", "chain"} /\ oChain \in Loaded
        /\ oPicked \in Sel /\ oLsel \in Sel /\ oQsel \in Sel /\ DOMAIN oRows \subseteq C
        /\ oSub \in (SUBSET C) \cup {None} /\ oLpc \in Lpcs /\ oQpc \in {"top", "asked", "track"}
        /\ oOstatus \in Statuses /\ oDstatus \in Statuses
        /\ (oOpc = "chain" => oList # None)
  BY DEF ChainInv, Chain!TypeOK
<1>q. ChainInv' <=>
        /\ oTwenty' \in BOOLEAN /\ oOpen' \in BOOLEAN /\ oDay' \in 0 .. MaxDays /\ oFront' \in Expiries
        /\ oPrice' \in Strikes /\ oList' \in Expiries \cup {None} /\ oListed' \in BOOLEAN
        /\ oOpc' \in {"poll", "chain"} /\ oChain' \in Loaded
        /\ oPicked' \in Sel /\ oLsel' \in Sel /\ oQsel' \in Sel /\ DOMAIN oRows' \subseteq C
        /\ oSub' \in (SUBSET C) \cup {None} /\ oLpc' \in Lpcs /\ oQpc' \in {"top", "asked", "track"}
        /\ oOstatus' \in Statuses /\ oDstatus' \in Statuses
        /\ (oOpc' = "chain" => oList' # None)
  BY DEF ChainInv, Chain!TypeOK
<1>0. Expiries \subseteq Nat \ {0} /\ 1 \in Expiries /\ None \notin Expiries /\ MaxDays \in Nat
  BY InstanceAssumption DEF Chain!DepthAssumption
<1>n. Chain!Nothing \in Sel
  BY DEF Chain!Nothing, Chain!Selection
<1>s. Chain!_select_contracts \in Sel
  <2>1. CASE oChain = Chain!NoChain
    BY <1>n, <2>1 DEF Chain!_select_contracts
  <2>2. CASE oChain # Chain!NoChain
    <3>1. oChain \in [expiry : Expiries, price : Strikes]
      BY <1>p, <2>2
    <3>2. oChain.expiry \in Expiries /\ oChain.price \in Strikes
      BY <3>1
    <3>3. {<<oChain.expiry, oChain.price>>} \in SUBSET C
      BY <3>2
    <3> QED BY <2>2, <3>2, <3>3 DEF Chain!_select_contracts, Chain!Selection
  <2> QED BY <2>1, <2>2
<1>c. \A x \in Sel : x.contracts \subseteq C /\ DOMAIN Chain!set_contracts(x) \subseteq C
  BY DEF Chain!Selection, Chain!set_contracts
<1> HIDE DEF Sel, Loaded, C, Lpcs
<1>1. CASE Chain!Opens \/ Chain!Closes
  <2>1. oDay' \in 0 .. MaxDays /\ oPrice' \in Strikes /\ oFront' \in Expiries
    BY <1>0, <1>1, <1>p DEF Chain!Opens, Chain!Closes, Chain!options, Chain!depth
  <2>2. oOpen' \in BOOLEAN /\ oListed' \in {FALSE, oListed}
    BY <1>1 DEF Chain!Opens, Chain!Closes, Chain!options
  <2>3. /\ UNCHANGED <<oTwenty, oList, oOpc, oChain, oOstatus, oPicked, oRows, oDstatus, oSub>>
        /\ UNCHANGED <<oLpc, oLsel, oQpc, oQsel>>
    BY <1>1 DEF Chain!Opens, Chain!Closes, Chain!options, Chain!depth
  <2> QED BY <1>p, <1>q, <2>1, <2>2, <2>3
<1>2. CASE Chain!OptionsPause \/ Chain!LoadExpiries
  <2>1. oOstatus' \in Statuses
    BY <1>2, <1>p DEF Chain!OptionsPause, Chain!LoadExpiries
  <2>2. /\ oList' \in Expiries \cup {None} /\ oListed' \in {TRUE, oListed} /\ oOpc' \in {"poll", "chain"}
        /\ oOpc' = "chain" => oList' # None
    BY <1>0, <1>2, <1>p DEF Chain!OptionsPause, Chain!LoadExpiries
  <2>3. /\ UNCHANGED <<oTwenty, oOpen, oDay, oFront, oPrice, oChain, oPicked, oRows, oDstatus, oSub>>
        /\ UNCHANGED <<oLpc, oLsel, oQpc, oQsel>>
    BY <1>2 DEF Chain!OptionsPause, Chain!LoadExpiries, Chain!market, Chain!depth
  <2> QED BY <1>p, <1>q, <2>1, <2>2, <2>3
<1>3. CASE Chain!LoadChain
  <2>1. oList \in Expiries /\ oPrice \in Strikes
    BY <1>3, <1>p DEF Chain!LoadChain
  <2>2. oChain' = [expiry |-> oList, price |-> oPrice] \/ oChain' = oChain
    BY <1>3 DEF Chain!LoadChain
  <2>3. oChain' \in Loaded
    BY <1>p, <2>1, <2>2 DEF Loaded
  <2>4. /\ UNCHANGED <<oTwenty, oOpen, oDay, oFront, oPrice, oList, oListed, oPicked, oRows, oDstatus, oSub>>
        /\ UNCHANGED <<oLpc, oLsel, oQpc, oQsel>> /\ oOpc' = "poll" /\ oOstatus' \in Statuses
    BY <1>3 DEF Chain!LoadChain, Chain!market, Chain!depth
  <2> QED BY <1>p, <1>q, <2>3, <2>4
<1> DEFINE Feeds == UNCHANGED <<oTwenty, oOpen, oDay, oFront, oPrice, oList, oListed, oOpc, oChain, oOstatus>>
\* Only the depth manager moves.
<1>4. ASSUME Feeds, oPicked' \in Sel, oLsel' \in Sel, oQsel' \in Sel, DOMAIN oRows' \subseteq C,
             oSub' \in (SUBSET C) \cup {None}, oLpc' \in Lpcs, oQpc' \in {"top", "asked", "track"},
             oDstatus' \in Statuses
      PROVE  ChainInv'
  BY <1>4, <1>p, <1>q
<1> HIDE DEF Statuses
<1>5. "STARTING" \in Statuses /\ "LIVE" \in Statuses /\ "ERROR" \in Statuses /\ "MARKET_CLOSED" \in Statuses
  BY DEF Statuses
<1>6. \A x \in {"top", "write", "track", "connect", "recv", "wait"} : x \in Lpcs
  BY DEF Lpcs
<1> USE DEF Chain!market, Chain!options, Chain!depth
<1>7. CASE Chain!DepthPauses \/ Chain!SocketEnds \/ Chain!SocketDrops \/ Chain!Waited
  <2>1. Feeds /\ UNCHANGED <<oPicked, oRows, oLsel, oQpc, oQsel>>
    BY <1>7 DEF Chain!DepthPauses, Chain!SocketEnds, Chain!SocketDrops, Chain!Waited
  <2>2. /\ oSub' \in {None, oSub} /\ oLpc' \in {oLpc, "top", "wait"}
        /\ oDstatus' \in {oDstatus, "MARKET_CLOSED", "ERROR"}
    BY <1>7 DEF Chain!DepthPauses, Chain!SocketEnds, Chain!SocketDrops, Chain!Waited
  <2> HIDE DEF Feeds
  <2> QED BY <1>4, <1>5, <1>6, <1>p, <2>1, <2>2
<1>8. CASE Chain!RefreshContracts
  <2>1. Feeds /\ UNCHANGED <<oPicked, oRows, oSub, oQpc, oQsel>>
    BY <1>8 DEF Chain!RefreshContracts
  <2>2. /\ oLsel' \in {Chain!_select_contracts, Chain!Nothing} /\ oLpc' \in {"write", "connect", "wait"}
        /\ oDstatus' \in {oDstatus, "STARTING"}
    BY <1>8 DEF Chain!RefreshContracts
  <2> HIDE DEF Feeds
  <2> QED BY <1>4, <1>5, <1>6, <1>n, <1>s, <1>p, <2>1, <2>2
<1>9. CASE Chain!WriteContracts
  <2>1. Feeds /\ UNCHANGED <<oRows, oDstatus, oSub, oLsel, oQpc, oQsel>> /\ oPicked' = oLsel /\ oLpc' = "track"
    BY <1>9 DEF Chain!WriteContracts
  <2> HIDE DEF Feeds
  <2> QED BY <1>4, <1>6, <1>p, <2>1
<1>10. CASE Chain!TrackContracts
  <2>1. /\ Feeds /\ UNCHANGED <<oPicked, oDstatus, oQpc, oQsel>> /\ oRows' = Chain!set_contracts(oLsel)
        /\ oSub' = None /\ oLpc' \in {"connect", "wait"} /\ oLsel' = Chain!Nothing
    BY <1>10 DEF Chain!TrackContracts
  <2> HIDE DEF Feeds
  <2> QED BY <1>4, <1>6, <1>c, <1>n, <1>p, <2>1
<1>11. CASE Chain!Connect
  <2>1. /\ Feeds /\ UNCHANGED <<oPicked, oRows, oLsel, oQpc, oQsel>> /\ oSub' \in {oSub, oPicked.contracts}
        /\ oLpc' \in {"recv", "wait"} /\ oDstatus' \in {oDstatus, "ERROR"}
    BY <1>11 DEF Chain!Connect
  <2> HIDE DEF Feeds
  <2> QED BY <1>4, <1>5, <1>6, <1>c, <1>p, <2>1
<1>12. CASE Chain!DepthPacket
  <2>1. /\ Feeds /\ UNCHANGED <<oPicked, oSub, oLpc, oLsel, oQpc, oQsel>> /\ oDstatus' \in {oDstatus, "LIVE"}
        /\ DOMAIN oRows' = DOMAIN oRows
    BY <1>12 DEF Chain!DepthPacket
  <2> HIDE DEF Feeds
  <2> QED BY <1>4, <1>5, <1>p, <2>1
<1>13. CASE Chain!QuoteAsks
  <2>1. /\ Feeds /\ UNCHANGED <<oPicked, oRows, oDstatus, oSub, oLpc, oLsel>> /\ oQsel' = Chain!_select_contracts
        /\ oQpc' = "asked"
    BY <1>13 DEF Chain!QuoteAsks
  <2> HIDE DEF Feeds
  <2> QED BY <1>4, <1>s, <1>p, <2>1
<1>14. CASE Chain!QuoteAnswered
  <2>1. Feeds /\ UNCHANGED <<oSub, oLpc, oLsel>> /\ DOMAIN oRows' = DOMAIN oRows
    BY <1>14 DEF Chain!QuoteAnswered
  <2>2. /\ oDstatus' \in {oDstatus, "LIVE", "ERROR"} /\ oQpc' \in {"track", "top"}
        /\ oQsel' \in {oQsel, Chain!Nothing} /\ oPicked' \in {oPicked, oQsel}
    BY <1>14 DEF Chain!QuoteAnswered
  <2> HIDE DEF Feeds
  <2> QED BY <1>4, <1>5, <1>n, <1>p, <2>1, <2>2
<1>15. CASE Chain!QuoteTracks
  <2>1. /\ Feeds /\ UNCHANGED <<oPicked, oDstatus, oSub, oLpc, oLsel>> /\ oRows' = Chain!set_contracts(oQsel)
        /\ oQsel' = Chain!Nothing /\ oQpc' = "top"
    BY <1>15 DEF Chain!QuoteTracks
  <2> HIDE DEF Feeds
  <2> QED BY <1>4, <1>c, <1>n, <1>p, <2>1
<1>16. CASE UNCHANGED Chain!vars
  BY <1>16, <1>p, <1>q DEF Chain!vars
<1> QED BY <1>1, <1>2, <1>3, <1>7, <1>8, <1>9, <1>10, <1>11, <1>12, <1>13, <1>14, <1>15, <1>16
        DEF Chain!Next, Chain!Depth

\* A function has no more values than arguments.
LEMMA Values ==
    ASSUME NEW S, IsFiniteSet(S), NEW T, NEW f \in [S -> T]
    PROVE  IsFiniteSet({f[x] : x \in S}) /\ Cardinality({f[x] : x \in S}) <= Cardinality(S)
<1> DEFINE R == {f[x] : x \in S}
<1>1. f \in Surjection(S, R)
  BY DEF Surjection
<1> QED BY <1>1, FS_Surjection

\* Two sets together have no more elements than each for itself.
LEMMA Joined ==
    ASSUME NEW S, IsFiniteSet(S), NEW T, IsFiniteSet(T), NEW m \in Nat, NEW n \in Nat,
           Cardinality(S) <= m, Cardinality(T) <= n
    PROVE  IsFiniteSet(S \cup T) /\ Cardinality(S \cup T) \in Nat /\ Cardinality(S \cup T) <= m + n
<1>1. IsFiniteSet(S \cap T)
  BY FS_Intersection
<1>2. /\ Cardinality(S) \in Nat /\ Cardinality(T) \in Nat /\ Cardinality(S \cap T) \in Nat
  BY <1>1, FS_CardinalityType
<1>3. IsFiniteSet(S \cup T) /\ Cardinality(S \cup T) = Cardinality(S) + Cardinality(T) - Cardinality(S \cap T)
  BY FS_Union
<1>4. Cardinality(S \cup T) \in Nat
  BY <1>3, FS_CardinalityType
<1> QED BY <1>2, <1>3, <1>4

\* Dhan's new token is one that nobody holds.
LEMMA NewTokens ==
    ASSUME Tokens!TypeOK
    PROVE  Tokens!NewToken \in Ids
<1> DEFINE c == Cardinality(Callers)
           l == Cardinality(Loaders)
           n == Cardinality(Nodes)
           m == Cardinality(NodeThreads)
           q == Cardinality(Tokens!Requests)
           t == Cardinality(TokenThreads)
           A == {kLive, kTok}
           B == {kGot[u] : u \in TokenThreads}
           C == {kNtok[k] : k \in Nodes}
           D == {kNgot[k] : k \in Tokens!Requests}
           E == {kSock[k] : k \in Nodes}
<1>0. /\ IsFiniteSet(Callers) /\ IsFiniteSet(Loaders) /\ IsFiniteSet(Nodes) /\ IsFiniteSet(NodeThreads)
      /\ IsFiniteSet(Ids) /\ Cardinality(Ids) > 2 + c + l + n * (2 + m)
  BY IdsAssumption
<1>1. c \in Nat /\ l \in Nat /\ n \in Nat /\ m \in Nat
  BY <1>0, FS_CardinalityType
<1>2. IsFiniteSet(Tokens!Requests) /\ q = n * m /\ q \in Nat
  <2>1. Tokens!Requests = Nodes \X NodeThreads
    BY DEF Tokens!Requests
  <2>2. IsFiniteSet(Nodes \X NodeThreads) /\ Cardinality(Nodes \X NodeThreads) = n * m
    BY <1>0, FS_Product
  <2> QED BY <1>1, <2>1, <2>2, FS_CardinalityType
<1>3. IsFiniteSet(TokenThreads) /\ t \in Nat /\ t <= c + l
  <2>1. c <= c /\ l <= l
    BY <1>1
  <2> HIDE DEF t
  <2>2. IsFiniteSet(TokenThreads) /\ Cardinality(TokenThreads) \in Nat /\ Cardinality(TokenThreads) <= c + l
    BY <1>0, <1>1, <2>1, Joined DEF TokenThreads
  <2> QED BY <2>2 DEF t
<1>4. IsFiniteSet(A) /\ Cardinality(A) <= 2
  <2>1. A = {kLive} \cup {kTok}
    OBVIOUS
  <2>2. IsFiniteSet({kLive}) /\ IsFiniteSet({kTok}) /\ Cardinality({kLive}) = 1 /\ Cardinality({kTok}) = 1
    BY FS_Singleton
  <2>3. Cardinality({kLive} \cup {kTok}) <= 1 + 1 /\ IsFiniteSet({kLive} \cup {kTok})
    <3>1. Cardinality({kLive}) <= 1 /\ Cardinality({kTok}) <= 1 /\ 1 \in Nat
      BY <2>2
    <3> QED BY ONLY <2>2, <3>1, Joined
  <2> QED BY <2>1, <2>3
<1>5. Tokens!Threads = TokenThreads
  BY DEF Tokens!Threads, TokenThreads
<1>6. IsFiniteSet(B) /\ Cardinality(B) <= t
  <2>1. kGot \in [TokenThreads -> Tokens!Token]
    BY <1>5 DEF Tokens!TypeOK
  <2> QED BY <1>3, <2>1, Values
<1>7. IsFiniteSet(C) /\ Cardinality(C) <= n /\ IsFiniteSet(E) /\ Cardinality(E) <= n
  <2>1. kNtok \in [Nodes -> Tokens!Token] /\ kSock \in [Nodes -> Tokens!Token]
    BY DEF Tokens!TypeOK
  <2> QED BY <1>0, <2>1, Values
<1>8. IsFiniteSet(D) /\ Cardinality(D) <= q
  <2>1. kNgot \in [Tokens!Requests -> Tokens!Token]
    BY DEF Tokens!TypeOK
  <2> QED BY <1>2, <2>1, Values
<1>9. Tokens!Held = A \cup B \cup C \cup D \cup E
  BY <1>5 DEF Tokens!Held
<1> HIDE DEF A, B, C, D, E
<1>10. IsFiniteSet(A \cup B) /\ Cardinality(A \cup B) \in Nat /\ Cardinality(A \cup B) <= 2 + t
  BY <1>3, <1>4, <1>6, Joined
<1>11. IsFiniteSet(A \cup B \cup C) /\ Cardinality(A \cup B \cup C) <= 2 + t + n
  <2>1. 2 + t \in Nat
    BY <1>3
  <2> QED BY <1>1, <1>7, <1>10, <2>1, Joined
<1>12. IsFiniteSet(A \cup B \cup C \cup D) /\ Cardinality(A \cup B \cup C \cup D) <= 2 + t + n + q
  <2>1. 2 + t + n \in Nat
    BY <1>1, <1>3
  <2> QED BY <1>2, <1>8, <1>11, <2>1, Joined
<1>13. IsFiniteSet(Tokens!Held) /\ Cardinality(Tokens!Held) \in Nat /\ Cardinality(Tokens!Held) <= 2 + t + n + q + n
  <2>1. 2 + t + n + q \in Nat
    BY <1>1, <1>2, <1>3
  <2> QED BY <1>1, <1>7, <1>9, <1>12, <2>1, Joined
<1>14. Cardinality(Ids) > Cardinality(Tokens!Held)
  <2>1. n * (2 + m) = n + n + n * m
    BY <1>1, Z3
  <2>2. Cardinality(Ids) \in Nat
    BY <1>0, FS_CardinalityType
  <2> HIDE DEF c, l, n, m, q, t
  <2>3. n * m \in Nat
    BY <1>1
  <2> QED BY <1>0, <1>1, <1>2, <1>3, <1>13, <2>1, <2>2, <2>3
<1>15. \E i \in Ids : i \notin Tokens!Held
  <2> SUFFICES ASSUME Ids \subseteq Tokens!Held PROVE FALSE
    OBVIOUS
  <2>1. Cardinality(Ids) <= Cardinality(Tokens!Held)
    BY <1>13, FS_Subset
  <2>2. Cardinality(Ids) \in Nat
    BY <1>0, FS_CardinalityType
  <2> QED BY <1>13, <1>14, <2>1, <2>2
<1> QED BY <1>15 DEF Tokens!NewToken

LEMMA TokensTyped == TokenInv /\ Tokens!TypeOK /\ [Tokens!Next]_(Tokens!vars) => Tokens!TypeOK'
<1> SUFFICES ASSUME TokenInv, Tokens!TypeOK, [Tokens!Next]_(Tokens!vars) PROVE Tokens!TypeOK'
  OBVIOUS
<1> DEFINE Th == TokenThreads
           Tk == Tokens!Token
           Ages == 0 .. Tokens!Cap
           Requests == Tokens!Requests
           Npc == {"idle", "asked", "answered"}
           Cools == 0 .. RateLimit
           Dhan(live, age, faults) == live \in Tk /\ age \in Ages /\ faults \in 0 .. MaxFaults
           Authority(tok, cool, ok, lock, gcool, slock, age) ==
               /\ tok \in Tk /\ cool \in Cools /\ ok \in Ages /\ lock \in Th \cup {None}
               /\ gcool \in [Callers -> Cools] /\ slock \in Th \cup {None} /\ age \in Ages
           Brought(got, seen) == got \in [Th -> Tk] /\ seen \in [Th -> Ages]
           Followers(ntok, npc, ngot, sock) ==
               /\ ntok \in [Nodes -> Tk] /\ npc \in [Requests -> Npc] /\ ngot \in [Requests -> Tk]
               /\ sock \in [Nodes -> Tk]
           Moved == kPc' \in [Th -> {"idle", "refused", "asking", "granted"}] /\ kBusy' \in [Th -> 0 .. Timeout]
<1>t. Tokens!Threads = Th
  BY DEF Tokens!Threads, TokenThreads
<1>m. Moved
  BY TokenSteady DEF TokenInv
<1>p. /\ Dhan(kLive, kGenAge, kFaults)
      /\ Authority(kTok, kCool, kOkAge, kLock, kGcool, kSlock, kSAge)
      /\ Brought(kGot, kSeen) /\ Followers(kNtok, kNpc, kNgot, kSock)
  BY <1>t DEF Tokens!TypeOK
<1>q. ASSUME Dhan(kLive', kGenAge', kFaults'),
             Authority(kTok', kCool', kOkAge', kLock', kGcool', kSlock', kSAge'),
             Brought(kGot', kSeen'), Followers(kNtok', kNpc', kNgot', kSock')
      PROVE  Tokens!TypeOK'
  BY <1>t, <1>m, <1>q DEF Tokens!TypeOK
<1>0. /\ RateLimit \in Nat /\ SessionGap \in Nat /\ SessionGap <= RateLimit /\ MaxFaults \in Nat
      /\ Tokens!Cap = RateLimit + 1 /\ Callers \subseteq Th /\ Loaders \subseteq Th
  BY InstanceAssumption DEF Tokens!TokenAssumption, Tokens!Cap, TokenThreads
<1>n. None \in Tk /\ Tokens!NewToken \in Tk
  BY NewTokens DEF Tokens!Token
<1>z. 0 \in Ages /\ 0 \in Cools /\ RateLimit \in Cools /\ SessionGap \in Cools
  BY <1>0
<1>f. kFaults < MaxFaults => kFaults + 1 \in 0 .. MaxFaults
  BY <1>0, <1>p
<1> USE DEF Tokens!account, Tokens!authority, Tokens!threads, Tokens!nodes
<1>1. CASE Tokens!Tick
  <2>1. Dhan(kLive', kGenAge', kFaults')
    BY <1>0, <1>1, <1>p DEF Tokens!Tick, Tokens!Least
  <2>2. kGcool' \in [Callers -> Cools]
    BY <1>0, <1>1, <1>p DEF Tokens!Tick, Tokens!Less
  <2>3. kCool' \in Cools /\ kOkAge' \in Ages /\ kSAge' \in Ages
    BY <1>0, <1>1, <1>p DEF Tokens!Tick, Tokens!Less, Tokens!Least
  <2>4. UNCHANGED <<kTok, kLock, kSlock, kGot, kSeen, kNtok, kNpc, kNgot, kSock>>
    BY <1>1 DEF Tokens!Tick
  <2> HIDE DEF Th, Tk, Ages, Requests, Npc, Cools, Dhan
  <2> QED BY <1>p, <1>q, <2>1, <2>2, <2>3, <2>4
<1> HIDE DEF Th, Tk, Ages, Requests, Npc, Cools
<1>2. CASE Tokens!Expires
  <2>1. kLive' = None /\ kFaults' \in 0 .. MaxFaults /\ UNCHANGED kGenAge
    BY <1>2, <1>f DEF Tokens!Expires
  <2>2. UNCHANGED <<kTok, kCool, kOkAge, kLock, kGcool, kSlock, kSAge, kGot, kSeen, kNtok, kNpc, kNgot, kSock>>
    BY <1>2 DEF Tokens!Expires
  <2> QED BY <1>n, <1>p, <1>q, <2>1, <2>2
<1>3. CASE Tokens!_keep_token_ready
  <2>1. kFaults' \in 0 .. MaxFaults
    BY <1>3, <1>f, <1>p DEF Tokens!_keep_token_ready
  <2>2. UNCHANGED <<kLive, kGenAge, kTok, kCool, kOkAge, kLock, kGcool, kSlock, kSAge, kGot, kSeen, kNtok, kNpc, kNgot,
                    kSock>>
    BY <1>3 DEF Tokens!_keep_token_ready
  <2> QED BY <1>p, <1>q, <2>1, <2>2
<1>4. ASSUME NEW u \in Th, Tokens!Refused(u) PROVE Tokens!TypeOK'
  <2>1. UNCHANGED <<kLive, kGenAge, kFaults, kTok, kCool, kOkAge, kLock, kGcool, kSlock, kSAge, kGot, kSeen, kNtok, kNpc,
                    kNgot, kSock>>
    BY <1>4 DEF Tokens!Refused
  <2> QED BY <1>p, <1>q, <2>1
<1>5. ASSUME NEW u \in Th, Tokens!LoaderRefused(u) PROVE Tokens!TypeOK'
  <2>1. UNCHANGED <<kLive, kGenAge, kFaults, kTok, kCool, kOkAge, kLock, kGcool, kSlock, kSAge, kGot, kNtok, kNpc,
                    kNgot, kSock>>
    BY <1>5 DEF Tokens!LoaderRefused
  <2>2. kSeen' \in [Th -> Ages]
    BY <1>5, <1>p DEF Tokens!LoaderRefused
  <2> QED BY <1>p, <1>q, <2>1, <2>2
<1>6. ASSUME NEW u \in Th, Tokens!Coordinated(u) PROVE Tokens!TypeOK'
  <2>1. UNCHANGED <<kLive, kGenAge, kFaults, kTok, kCool, kOkAge, kSlock, kSAge, kGot, kSeen, kNtok, kNpc, kNgot, kSock>>
    BY <1>6 DEF Tokens!Coordinated
  <2>2. kLock' \in {kLock, u} /\ kGcool' \in {kGcool, [kGcool EXCEPT ![u] = kCool], [kGcool EXCEPT ![u] = 0]}
    BY <1>6 DEF Tokens!Coordinated, Tokens!Cools
  <2>3. kGcool' \in [Callers -> Cools]
    BY <1>z, <1>p, <2>2
  <2> QED BY <1>p, <1>q, <2>1, <2>2, <2>3
<1>7. ASSUME NEW u \in Th, Tokens!Granted(u) PROVE Tokens!TypeOK'
  <2>1. UNCHANGED <<kFaults, kTok, kCool, kOkAge, kLock, kGcool, kSlock, kSAge, kSeen, kNtok, kNpc, kNgot, kSock>>
    BY <1>7 DEF Tokens!Granted
  <2>2. kLive' = Tokens!NewToken /\ kGenAge' = 0 /\ kGot' = [kGot EXCEPT ![u] = Tokens!NewToken]
    BY <1>7 DEF Tokens!Granted
  <2>3. kGot' \in [Th -> Tk]
    BY <1>n, <1>p, <2>2
  <2> QED BY <1>n, <1>p, <1>q, <1>z, <2>1, <2>2, <2>3
<1>8. ASSUME NEW u \in Th, Tokens!Installs(u) PROVE Tokens!TypeOK'
  <2>1. UNCHANGED <<kLive, kGenAge, kFaults, kCool, kSlock, kSAge, kSeen, kNtok, kNpc, kNgot, kSock>>
    BY <1>8 DEF Tokens!Installs
  <2>2. /\ kTok' = kGot[u] /\ kGot' = [kGot EXCEPT ![u] = None] /\ kOkAge' = 0 /\ kLock' = None
        /\ kGcool' = [kGcool EXCEPT ![u] = 0]
    BY <1>8 DEF Tokens!Installs, Tokens!Cools
  <2>3. kGot' \in [Th -> Tk] /\ kTok' \in Tk /\ kGcool' \in [Callers -> Cools]
    BY <1>n, <1>p, <1>z, <2>2
  <2> QED BY <1>p, <1>q, <1>z, <2>1, <2>2, <2>3
<1>9. ASSUME NEW u \in Th, Tokens!Limited(u) PROVE Tokens!TypeOK'
  <2>1. UNCHANGED <<kLive, kGenAge, kFaults, kTok, kOkAge, kSlock, kSAge, kGot, kSeen, kNtok, kNpc, kNgot, kSock>>
    BY <1>9 DEF Tokens!Limited
  <2>2. kCool' = RateLimit /\ kLock' = None /\ kGcool' = [kGcool EXCEPT ![u] = RateLimit]
    BY <1>9 DEF Tokens!Limited, Tokens!Cools
  <2>3. kGcool' \in [Callers -> Cools]
    BY <1>p, <1>z, <2>2
  <2> QED BY <1>p, <1>q, <1>z, <2>1, <2>2, <2>3
<1>10. ASSUME NEW u \in Th, Tokens!RequestFails(u) PROVE Tokens!TypeOK'
  <2>1. UNCHANGED <<kTok, kCool, kOkAge, kSAge, kGot, kSeen, kNtok, kNpc, kNgot, kSock>>
    BY <1>10 DEF Tokens!RequestFails
  <2>2. /\ kLive' \in {kLive, Tokens!NewToken} /\ kGenAge' \in {kGenAge, 0} /\ kFaults' \in 0 .. MaxFaults
    BY <1>10, <1>f DEF Tokens!RequestFails
  <2>3. /\ kLock' \in {kLock, None} /\ kSlock' \in {kSlock, None}
        /\ kGcool' \in {kGcool, [kGcool EXCEPT ![u] = SessionGap]}
    BY <1>10 DEF Tokens!RequestFails
  <2>4. kGcool' \in [Callers -> Cools]
    BY <1>p, <1>z, <2>3
  <2> QED BY <1>n, <1>p, <1>q, <1>z, <2>1, <2>2, <2>3, <2>4
<1>11. ASSUME NEW u \in Th, Tokens!RefreshOnce(u) PROVE Tokens!TypeOK'
  <2>1. UNCHANGED <<kLive, kGenAge, kFaults, kTok, kCool, kOkAge, kLock, kGcool, kSAge, kGot, kNtok, kNpc, kNgot, kSock>>
    BY <1>11 DEF Tokens!RefreshOnce
  <2>2. kSlock' \in {kSlock, u} /\ kSeen' = [kSeen EXCEPT ![u] = 0]
    BY <1>11 DEF Tokens!RefreshOnce
  <2>3. kSeen' \in [Th -> Ages]
    BY <1>p, <1>z, <2>2
  <2> QED BY <1>p, <1>q, <2>1, <2>2, <2>3
<1>12. ASSUME NEW u \in Th, Tokens!LoaderInstalls(u) PROVE Tokens!TypeOK'
  <2>1. UNCHANGED <<kLive, kGenAge, kFaults, kCool, kOkAge, kLock, kGcool, kSeen, kNtok, kNpc, kNgot, kSock>>
    BY <1>12 DEF Tokens!LoaderInstalls
  <2>2. kTok' = kGot[u] /\ kGot' = [kGot EXCEPT ![u] = None] /\ kSAge' = 0 /\ kSlock' = None
    BY <1>12 DEF Tokens!LoaderInstalls
  <2>3. kGot' \in [Th -> Tk] /\ kTok' \in Tk
    BY <1>n, <1>p, <2>2
  <2> QED BY <1>p, <1>q, <1>z, <2>1, <2>2, <2>3
<1>13. ASSUME NEW u \in Th, Tokens!LoaderLimited(u) PROVE Tokens!TypeOK'
  <2>1. UNCHANGED <<kLive, kGenAge, kFaults, kTok, kCool, kOkAge, kLock, kGcool, kSAge, kGot, kSeen, kNtok, kNpc, kNgot,
                    kSock>>
    BY <1>13 DEF Tokens!LoaderLimited
  <2>2. kSlock' = None
    BY <1>13 DEF Tokens!LoaderLimited
  <2> QED BY <1>p, <1>q, <2>1, <2>2
<1>14. ASSUME NEW k \in Requests, Tokens!Node(k) PROVE Tokens!TypeOK'
  <2>1. UNCHANGED <<kLive, kGenAge, kTok, kCool, kOkAge, kLock, kGcool, kSlock, kSAge, kGot, kSeen>>
    BY <1>14 DEF Tokens!Node, Tokens!Fetch, Tokens!token_share, Tokens!FetchFails, Tokens!apply
  <2>2. kFaults' \in 0 .. MaxFaults
    BY <1>14, <1>f, <1>p DEF Tokens!Node, Tokens!Fetch, Tokens!token_share, Tokens!FetchFails, Tokens!apply
  <2>3. k[1] \in Nodes
    BY DEF Requests, Tokens!Requests
  <2>4. kNpc' \in {[kNpc EXCEPT ![k] = "idle"], [kNpc EXCEPT ![k] = "asked"], [kNpc EXCEPT ![k] = "answered"]}
    BY <1>14 DEF Tokens!Node, Tokens!Fetch, Tokens!token_share, Tokens!FetchFails, Tokens!apply
  <2>5. kNpc' \in [Requests -> Npc]
    BY <1>p, <2>4 DEF Npc
  <2>6. kNgot' \in {kNgot, [kNgot EXCEPT ![k] = kTok], [kNgot EXCEPT ![k] = None]}
    BY <1>14 DEF Tokens!Node, Tokens!Fetch, Tokens!token_share, Tokens!FetchFails, Tokens!apply
  <2>7. kNgot' \in [Requests -> Tk]
    BY <1>n, <1>p, <2>6
  <2>8. /\ kNtok' \in {kNtok, [kNtok EXCEPT ![k[1]] = kNgot[k]]}
        /\ kSock' \in {kSock, [kSock EXCEPT ![k[1]] = None]}
    BY <1>14 DEF Tokens!Node, Tokens!Fetch, Tokens!token_share, Tokens!FetchFails, Tokens!apply
  <2>9. kNtok' \in [Nodes -> Tk] /\ kSock' \in [Nodes -> Tk]
    BY <1>n, <1>p, <2>3, <2>8
  <2> QED BY <1>p, <1>q, <2>1, <2>2, <2>5, <2>7, <2>9
<1>15. ASSUME NEW n \in Nodes, Tokens!Reopens(n) PROVE Tokens!TypeOK'
  <2>1. UNCHANGED <<kLive, kGenAge, kFaults, kTok, kCool, kOkAge, kLock, kGcool, kSlock, kSAge, kGot, kSeen, kNtok, kNpc,
                    kNgot>>
    BY <1>15 DEF Tokens!Reopens
  <2>2. kSock' \in [Nodes -> Tk]
    BY <1>15, <1>p DEF Tokens!Reopens
  <2> QED BY <1>p, <1>q, <2>1, <2>2
<1>16. CASE UNCHANGED Tokens!vars
  <2>1. UNCHANGED <<kLive, kGenAge, kFaults, kTok, kCool, kOkAge, kLock, kGcool, kSlock, kSAge, kGot, kSeen, kNtok, kNpc,
                    kNgot, kSock>>
    BY <1>16 DEF Tokens!vars
  <2> QED BY <1>p, <1>q, <2>1
<1> QED BY <1>t, <1>1, <1>2, <1>3, <1>4, <1>5, <1>6, <1>7, <1>8, <1>9, <1>10, <1>11, <1>12, <1>13, <1>14, <1>15,
           <1>16 DEF Tokens!Next, Tokens!Continue, Requests

\* Every part of the application keeps its types: for any numbers of stocks, strikes, threads,
\* nodes, expiries and tokens, any hours, back-offs and limits, the fixed slices, the batches of
\* the rotation and the levels of the back-off stay in their range, an option chain is only
\* loaded of a listed expiry, and Dhan always finds a token that nobody holds.
THEOREM ApplicationTyped == Spec => []TypesOK
<1> DEFINE All ==
        /\ ServerInv /\ Server!TypeOK /\ ThrottleInv /\ Loop!TypeOK /\ FrontInv /\ RotationInv
        /\ Index!TypeOK /\ ChainInv /\ TokenInv /\ Tokens!TypeOK
<1>1. Init => All
  <2> SUFFICES ASSUME Init PROVE All OBVIOUS
  <2>0. /\ Server!Init /\ Loop!Init /\ Front!Init /\ Rotation!Init /\ Index!Init /\ Chain!Init
        /\ Tokens!Init
    BY DEF Init
  <2>1. ServerInv /\ Server!TypeOK
    <3>1. WatchdogSec \in Nat \ {0} /\ StartGrace \in Nat /\ MaxSlow \in Nat /\ Len(Server!StartOrder) = 15
      BY InstanceAssumption, Orders DEF Server!ServerAssumption
    <3> QED BY <2>0, <3>1 DEF Server!Init, Server!TypeOK, ServerInv, StartInv, ErrorInv, StopInv,
               Server!IsolatedStart, Server!CleanKept, Server!FailedShown
  <2>2. ThrottleInv
    BY ThrottleStarts
  <2>3. Loop!TypeOK
    <3>1. MaxLevel \in Nat /\ Cooldown \in Nat /\ Silence \in Nat
      BY InstanceAssumption DEF Loop!LoopAssumption
    <3>2. /\ lKind \in Kinds /\ lPc = "build" /\ lBackoff = 0 /\ lLeft = 0 /\ lStop = FALSE
          /\ lQuotes = FALSE /\ lAge = 0 /\ lWatch = "none" /\ lRejected = FALSE
      BY <2>0 DEF Loop!Init
    <3>3. 0 \in 0..MaxLevel /\ 0 \in 0..Cooldown /\ 0 \in 0..Silence
      BY <3>1
    <3>4. lStop \in BOOLEAN /\ lQuotes \in BOOLEAN /\ lRejected \in BOOLEAN
      BY <3>2
    <3> QED BY <3>2, <3>3, <3>4 DEF Loop!TypeOK
  <2>4. FrontInv
    <3>1. LastDay \in Nat \ {0}
      BY InstanceAssumption DEF Front!FuturesAssumption
    <3>2. Front!Blank \in FutureType
      BY DEF Front!Blank, FutureType
    <3>3. /\ fToday = 1 /\ fFuture = [s \in FutureSymbols |-> Front!Blank]
          /\ fMaster = None /\ fResolved = FALSE /\ fLive = {} /\ fAsked = {} /\ fPc = "idle"
      BY <2>0 DEF Front!Init
    <3>4. fFuture \in [FutureSymbols -> FutureType]
      <4> HIDE DEF FutureType
      <4> QED BY <3>2, <3>3
    <3>5. 1 \in 1..LastDay
      BY <3>1
    <3>6. fResolved \in BOOLEAN
      BY <3>3
    <3> QED BY <3>3, <3>4, <3>5, <3>6 DEF FrontInv
  <2>5. RotationInv
    <3>1. 1 \in Expiries /\ Len(Stocks) = 2 /\ Rotation!_batches \in {1, 2}
      BY InstanceAssumption, StocksOf DEF Rotation!RotationAssumption
    <3>2. /\ rOpen = FALSE /\ rFront = 1 /\ rIndex = 1 /\ rBindex = 0 /\ rBatch = {} /\ rContracts = {}
          /\ rPc = "top"
          /\ rExpiry = [s \in Rotation!Symbols |-> None] /\ rChain = [s \in Rotation!Symbols |-> None]
          /\ rRows = [s \in Rotation!Symbols |-> None]
          /\ rDstatus = [s \in Rotation!Symbols |-> "PENDING"]
          /\ rRotation = [s \in Rotation!Symbols |-> "IDLE"]
      BY <2>0 DEF Rotation!Init
    <3> DEFINE S == Rotation!Symbols
               E == Expiries \cup {None}
    <3>3. /\ rExpiry \in [S -> E] /\ rChain \in [S -> E] /\ rRows \in [S -> E]
          /\ rDstatus \in [S -> {"PENDING", "LIVE", "ERROR", "MARKET_CLOSED"}]
      <4>1. None \in E
        OBVIOUS
      <4> HIDE DEF E
      <4> QED BY <3>2, <4>1
    <3>4. \A s \in S :
              /\ {rExpiry[s], rChain[s], rRows[s]} \subseteq E
              /\ rDstatus[s] \in {"PENDING", "LIVE", "ERROR", "MARKET_CLOSED"}
              /\ rRotation[s] \in {"ACTIVE", "IDLE"}
      <4> HIDE DEF S, E
      <4> QED BY <3>2, <3>3
    <3>5. 1 \in 1..Len(Stocks) /\ 0 \in 0..Rotation!_batches - 1
      BY <3>1
    <3>7. rOpen \in BOOLEAN
      BY <3>2
    <3>6. /\ rBatch \subseteq S /\ rContracts \subseteq S \X Expiries
          /\ rPc \in {"top", "refresh", "connect", "recv"}
      BY <3>2
    <3> QED BY <3>1, <3>2, <3>3, <3>4, <3>5, <3>6, <3>7 DEF RotationInv, Rotation!TypeOK
  <2>6. Index!TypeOK
    <3>1. LastMinute \in Nat
      BY InstanceAssumption DEF Index!IndexAssumption
    <3>2. /\ iNow = 0 /\ iLive = <<>> /\ iCurrent = None /\ iStatus = "CLOSED" /\ iFeed = FALSE
          /\ iStarted = None /\ iFilled = None /\ iAsked = None /\ iCovered = None
          /\ iBasis = <<>>
      BY <2>0 DEF Index!Init
    <3>3. DOMAIN iLive = {} /\ DOMAIN iBasis = {}
      BY <3>2
    <3>4. \A c \in {iLive, iBasis} : DOMAIN c \subseteq Index!Minutes /\ \A m \in DOMAIN c : c[m] \in {"ws", "api"}
      BY <3>3
    <3>5. 0 \in Index!Minutes
      BY <3>1 DEF Index!Minutes
    <3>6. iFeed \in BOOLEAN
      BY <3>2
    <3> QED BY <3>2, <3>4, <3>5, <3>6 DEF Index!TypeOK
  <2>7. ChainInv
    <3>1. Chain!Nothing \in Chain!Selection
      BY DEF Chain!Nothing, Chain!Selection
    <3>2. 1 \in Expiries /\ MaxDays \in Nat
      BY InstanceAssumption DEF Chain!DepthAssumption
    <3>3. /\ oTwenty \in BOOLEAN /\ oOpen = FALSE /\ oDay = 0 /\ oFront = 1 /\ oPrice \in Strikes
          /\ oList = None /\ oListed = FALSE /\ oOpc = "poll" /\ oChain = Chain!NoChain
          /\ oOstatus = "STARTING" /\ oPicked = Chain!Nothing /\ oRows = <<>> /\ oDstatus = "STARTING"
          /\ oSub = None /\ oLpc = "top" /\ oLsel = Chain!Nothing /\ oQpc = "top" /\ oQsel = Chain!Nothing
      BY <2>0 DEF Chain!Init
    <3>4. DOMAIN oRows \subseteq Expiries \X Strikes
      <4> DOMAIN oRows = {}
        BY <3>3
      <4> QED OBVIOUS
    <3>5. oOpen \in BOOLEAN /\ oListed \in BOOLEAN
      BY <3>3
    <3>8. 0 \in 0..MaxDays
      BY <3>2
    <3>6. oPicked \in Chain!Selection /\ oLsel \in Chain!Selection /\ oQsel \in Chain!Selection
      BY <3>1, <3>3
    <3> DEFINE Loaded == [expiry : Expiries, price : Strikes] \cup {Chain!NoChain}
               Asked == (SUBSET (Expiries \X Strikes)) \cup {None}
    <3>7. oChain \in Loaded /\ oSub \in Asked
      BY <3>3
    <3> HIDE DEF Loaded, Asked
    <3>9. Chain!TypeOK
      BY <3>2, <3>3, <3>4, <3>5, <3>6, <3>7, <3>8 DEF Chain!TypeOK, Loaded, Asked
    <3> QED BY <3>3, <3>9 DEF ChainInv
  <2>8. Tokens!TypeOK
    <3>1. Ids # {}
      <4>2. /\ Cardinality(Callers) \in Nat /\ Cardinality(Loaders) \in Nat /\ Cardinality(Nodes) \in Nat
            /\ Cardinality(NodeThreads) \in Nat /\ Cardinality(Ids) \in Nat
        BY IdsAssumption, FS_CardinalityType
      <4>3. Cardinality(Nodes) * (2 + Cardinality(NodeThreads)) \in Nat
        BY <4>2
      <4>4. Cardinality(Ids) # 0
        BY IdsAssumption, <4>2, <4>3
      <4> QED BY <4>4, IdsAssumption, FS_EmptySet
    <3>2. RateLimit \in Nat /\ Timeout \in Nat /\ MaxFaults \in Nat
      BY InstanceAssumption DEF Tokens!TokenAssumption
    <3> QED BY <2>0, <3>1, <3>2 DEF Tokens!Init, Tokens!TypeOK, Tokens!Token, Tokens!Cap
  <2>9. TokenInv
    BY TokensStart
  <2> QED BY <2>1, <2>2, <2>3, <2>4, <2>5, <2>6, <2>7, <2>8, <2>9
<1>2. All /\ [Next]_vars => All'
  BY Component, ServerSteady, ServerTyped, ThrottleSteady, LoopTyped, FrontTyped, RotationTyped, IndexTyped,
     ChainTyped, TokenSteady, TokensTyped
<1>3. All => TypesOK
  <2>1. ThrottleInv => Throttle!TypeOK
    BY DEF ThrottleInv, Throttle!TypeOK, Post
  <2>2. FrontInv => Front!TypeOK
    BY DEF FrontInv, Front!TypeOK, FutureType
  <2> QED BY <2>1, <2>2 DEF TypesOK, RotationInv, ChainInv
<1> QED BY <1>1, <1>2, <1>3, PTL DEF Spec
=============================================================================
