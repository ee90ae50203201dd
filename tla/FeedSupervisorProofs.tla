------------------------- MODULE FeedSupervisorProofs -------------------------
(* Theorems about FeedSupervisor, for every value of its constants.        *)
EXTENDS FeedSupervisor, TLAPS

Phase == {"pre", "opening", "open", "closed"}
Pcs == {"idle", "starting", "read", "act", "replace", "restart", "refill", "verifying"}

\* Who holds _lock is where the threads are: a start and a replacement hold it, nothing else does.
LockHeld ==
    /\ lock = "session" <=> thread["session"].pc \in {"starting", "restart"}
    /\ lock = "token" <=> thread["token"].pc = "restart"

\* What each thread's place says of the session and of the replacement it is for.
Places ==
    /\ thread["session"].pc # "verifying"
    /\ thread["token"].pc \in {"idle", "verifying", "replace", "restart"}
    /\ thread["token"].pc \in {"replace", "restart"} => thread["token"].renew
    /\ thread["session"].pc \in {"read", "act", "replace", "restart", "refill"} => started
    /\ thread["session"].pc = "starting" => ~started /\ status = "AUTHENTICATING"
    /\ thread["token"].pc = "restart" => started

\* A refused token ends the start that met it: no running session has that status.
NoRefusedToken == started => status # "AUTH_ERROR"

SessionInv == TypeOK /\ LockHeld /\ Places /\ NoRefusedToken /\ FeedOnlyInSession

\* The session thread is between the two halves of an unforced replacement.
Replacing == thread["session"].pc = "restart" /\ ~thread["session"].renew

\* The age of the last unforced replacement and the time until the next is allowed add up to the
\* spacing, also when a cap stops one of them.
Spaced ==
    IF Replacing THEN sinceReset = thread["session"].age
    ELSE resets > 0 => sinceReset + resetIn >= SpacingAfter(resets)

-----------------------------------------------------------------------------
(* Helpers.                                                                *)

\* The spacing of a number of resets is at most the last one.
LEMMA SpacingBounds ==
    /\ MaxSpacing \in Nat
    /\ \A n \in Nat : SpacingAfter(n) \in Nat /\ SpacingAfter(n) <= MaxSpacing
<1>1. Len(Spacing) \in Nat /\ Len(Spacing) >= 1 /\ \A i \in 1 .. Len(Spacing) : Spacing[i] \in Nat
  BY SupervisorAssumption
<1>2. \A i \in 1 .. Len(Spacing) : Spacing[i] <= Spacing[Len(Spacing)]
  BY <1>1, SupervisorAssumption
<1> QED BY <1>1, <1>2 DEF MaxSpacing, SpacingAfter

\* The next reset is allowed no earlier than the spacing before and after it.
LEMMA AllowBounds ==
    ASSUME NEW n \in Nat
    PROVE  /\ Allow(n) \in Nat /\ Allow(n) <= MaxSpacing
           /\ SpacingAfter(n) <= Allow(n) /\ SpacingAfter(n + 1) <= Allow(n)
BY SpacingBounds DEF Allow

\* The constants' types, as the proofs cite them.
LEMMA Numbers ==
    /\ Stuck \in Nat /\ StuckLimit \in Nat /\ Zombie \in Nat /\ HardReset \in Nat
    /\ RecoveryTimeout \in Nat /\ RefillDelay \in Nat /\ MaxPass \in Nat /\ Len(Spacing) \in Nat
    /\ Authority \in BOOLEAN /\ Messages \subseteq BOOLEAN /\ Errors \subseteq BOOLEAN
    /\ Arrivals \subseteq Phase
BY SupervisorAssumption DEF Phase

\* An age stays within its cap ...
LEMMA OlderType ==
    ASSUME NEW limit \in Nat, NEW age \in Ages(limit)
    PROVE  Older(age, limit) \in Ages(limit)
BY DEF Older, Ages

\* ... and a time left above its floor.
LEMMA SoonerType ==
    ASSUME NEW limit \in Int, NEW left \in -MaxPass .. limit
    PROVE  Sooner(left) \in -MaxPass .. limit
BY Numbers DEF Sooner

\* A thread at rest is well typed.
LEMMA AtRestType == AtRest \in ThreadState /\ Nothing \in Evidence
BY Numbers DEF AtRest, ThreadState, Pcs, Ages, Nothing, Evidence, Unread, Observed

\* Assigning a well-typed value to a field of a thread's record leaves it well typed.
LEMMA ThreadChanges ==
    ASSUME NEW t \in ThreadState
    PROVE  /\ \A p \in Pcs : [t EXCEPT !.pc = p] \in ThreadState
           /\ \A p \in Pcs, b \in BOOLEAN : [t EXCEPT !.pc = p, !.renew = b] \in ThreadState
           /\ \A p \in Pcs, o \in Observed : [t EXCEPT !.pc = p, !.obs = o] \in ThreadState
           /\ \A a \in Ages(MaxPass) : [t EXCEPT !.age = a] \in ThreadState
           /\ \A e \in Evidence : [t EXCEPT !.ev = e] \in ThreadState
           /\ \A m \in Phase : [t EXCEPT !.obs.market = m] \in ThreadState
<1> DEFINE A == Ages(MaxPass)
<1>0. ThreadState = [pc : Pcs, age : A, ev : Evidence, renew : BOOLEAN, obs : Observed]
  BY DEF ThreadState, Pcs
<1> HIDE DEF A
<1>1. ASSUME NEW p \in Pcs PROVE [t EXCEPT !.pc = p] \in ThreadState
  BY <1>0
<1>2. ASSUME NEW p \in Pcs, NEW b \in BOOLEAN PROVE [t EXCEPT !.pc = p, !.renew = b] \in ThreadState
  BY <1>0
<1>3. ASSUME NEW p \in Pcs, NEW o \in Observed PROVE [t EXCEPT !.pc = p, !.obs = o] \in ThreadState
  BY <1>0
<1>4. ASSUME NEW a \in A PROVE [t EXCEPT !.age = a] \in ThreadState
  BY <1>0
<1>5. ASSUME NEW e \in Evidence PROVE [t EXCEPT !.ev = e] \in ThreadState
  BY <1>0
<1>6. ASSUME NEW m \in Phase PROVE [t EXCEPT !.obs.market = m] \in ThreadState
  <2>1. [t.obs EXCEPT !.market = m] \in Observed
    BY <1>0 DEF Observed, Phase
  <2> QED BY <1>0, <2>1
<1> QED BY <1>1, <1>2, <1>3, <1>4, <1>5, <1>6 DEF A

\* The invariants hold at the start.
LEMMA SessionInit == Init => SessionInv /\ Spaced
<1> SUFFICES ASSUME Init PROVE SessionInv /\ Spaced OBVIOUS
<1>1. AtRest \in ThreadState BY AtRestType
<1>2. TypeOK
  <2>1. thread \in [Threads -> ThreadState] BY <1>1 DEF Init
  <2>2. /\ silence \in Ages(HardReset + MaxPass) /\ msgAge \in Ages(Stuck + MaxPass)
        /\ sinceReset \in Ages(MaxSpacing + MaxPass) /\ resetIn \in -MaxPass .. MaxSpacing
        /\ resets \in 0 .. Len(Spacing)
    BY Numbers, SpacingBounds DEF Init, Ages
  <2>3. recovery = None /\ watch = None /\ refillIn = None /\ lock = None BY DEF Init
  <2>4. market \in Phase BY Numbers DEF Init
  <2> QED BY <2>1, <2>2, <2>3, <2>4 DEF Init, TypeOK, Phase
<1>3. LockHeld /\ Places /\ NoRefusedToken /\ FeedOnlyInSession
  BY NoneAssumption
  DEF Init, LockHeld, Places, NoRefusedToken, FeedOnlyInSession, AtRest, Threads
<1>4. Spaced BY DEF Init, Spaced, Replacing, AtRest, Threads
<1> QED BY <1>2, <1>3, <1>4 DEF SessionInv


-----------------------------------------------------------------------------
(* Type correctness, part by part.                                         *)

\* A changed record of one thread leaves the function well typed.
LEMMA ThreadUpdate ==
    ASSUME NEW f \in [Threads -> ThreadState], NEW x \in Threads, NEW t \in ThreadState
    PROVE  [f EXCEPT ![x] = t] \in [Threads -> ThreadState]
OBVIOUS

\* The parts of TypeOK ...
SessionTypes ==
    /\ market \in Phase /\ started \in BOOLEAN /\ opened \in BOOLEAN
    /\ session \in {"CLOSED", "CONFIG_ERROR", "AUTHENTICATING", "AUTH_ERROR", "FEED_ERROR",
                    "PRE_OPEN", "LIVE"}
    /\ lock \in Threads \cup {None}
FeedTypes ==
    /\ sock \in {"none", "idle", "dialing", "redialing", "up"}
    /\ status \in {"STOPPED", "AUTHENTICATING", "AUTH_ERROR", "CONNECTING", "CONNECTED", "ERROR",
                   "RECONNECTING"}
    /\ limited \in BOOLEAN /\ quoted \in BOOLEAN /\ newCycle \in BOOLEAN /\ noted \in BOOLEAN
    /\ silence \in Ages(HardReset + MaxPass) /\ msgAge \in Ages(Stuck + MaxPass)
JudgeTypes ==
    /\ sup \in {"CLOSED", "AUTHENTICATING", "CONNECTING", "RECOVERING", "LIVE", "DEGRADED",
                "RECONNECTING"}
    /\ recovery \in [age : Ages(RecoveryTimeout + MaxPass), ev : Evidence] \cup {None}
    /\ watch \in Ages(StuckLimit + MaxPass) \cup {None}
    /\ resets \in 0 .. Len(Spacing) /\ resetIn \in -MaxPass .. MaxSpacing
    /\ sinceReset \in Ages(MaxSpacing + MaxPass)
    /\ refillIn \in -MaxPass .. RefillDelay \cup {None}
ThreadTypes == thread \in [Threads -> ThreadState]

\* ... are all of it.
LEMMA TypeParts ==
    /\ TypeOK <=> SessionTypes /\ FeedTypes /\ JudgeTypes /\ ThreadTypes
    /\ TypeOK' <=> SessionTypes' /\ FeedTypes' /\ JudgeTypes' /\ ThreadTypes'
BY DEF TypeOK, SessionTypes, FeedTypes, JudgeTypes, ThreadTypes, Phase

\* Every step keeps the types of the session ...
LEMMA SessionTyped ==
    ASSUME SessionTypes, FeedTypes, ThreadTypes, Next
    PROVE  SessionTypes'
<1> USE DEF SessionTypes, Threads, Phase
<1>1. CASE Second BY <1>1 DEF Second, sessionVars
<1>2. CASE MarketMoves BY <1>2 DEF MarketMoves, Phases
<1>3. CASE FeedMoves \/ FeedConnects
  BY <1>3 DEF FeedMoves, FeedCycle, FeedErrs, MonitorEnds, FeedDrops, FeedConnects, sessionVars
<1>4. CASE FeedMessage BY <1>4 DEF FeedMessage, FeedFrame, FeedAccepts, OpenIfDue
<1>5. CASE SessionThread
  <2>1. CASE StartSession \/ StartFails \/ StartDone \/ EndSession
    BY <2>1 DEF StartSession, StartFails, StartDone, EndSession
  <2>2. CASE Tick \/ ReadFeed \/ Refill BY <2>2 DEF Tick, ReadFeed, Refill, sessionVars
  <2>3. CASE Supervise
    BY <2>3 DEF Supervise, NoFeed, NotConnected, Recovered, Recovering, WatchLive, sessionVars
  <2>4. CASE Refused("session") \/ Detach("session") \/ Restart("session")
    BY <2>4 DEF Refused, Detach, Restart, sessionVars
  <2> QED BY <1>5, <2>1, <2>2, <2>3, <2>4 DEF SessionThread
<1>6. CASE ConfigFails BY <1>6 DEF ConfigFails
<1>7. CASE VerifyToken \/ TokenThread
  BY <1>7
  DEF VerifyToken, TokenThread, TokenKept, TokenRenewed, Refused, Detach, Restart, sessionVars
<1> QED BY <1>1, <1>2, <1>3, <1>4, <1>5, <1>6, <1>7 DEF Next

\* ... and those of the feed.
LEMMA FeedTyped ==
    ASSUME SessionTypes, FeedTypes, ThreadTypes, Next
    PROVE  FeedTypes'
<1> USE DEF FeedTypes
<1>0. /\ 0 \in Ages(HardReset + MaxPass) /\ 0 \in Ages(Stuck + MaxPass)
      /\ HardReset + MaxPass \in Ages(HardReset + MaxPass)
      /\ Stuck + MaxPass \in Ages(Stuck + MaxPass)
  BY Numbers DEF Ages
<1>1. CASE Second
  <2>1. HardReset + MaxPass \in Nat /\ Stuck + MaxPass \in Nat BY Numbers
  <2> QED BY <1>1, <2>1, OlderType DEF Second
<1>2. CASE MarketMoves BY <1>2 DEF MarketMoves, feedVars, refillVars
<1>3. CASE FeedMoves \/ FeedConnects
  BY <1>3, <1>0, Numbers
  DEF FeedMoves, FeedCycle, FeedErrs, MonitorEnds, FeedDrops, FeedConnects, refillVars
<1>4. CASE FeedMessage
  BY <1>4, <1>0, Numbers DEF FeedMessage, FeedFrame, FeedAccepts, refillVars
<1>5. CASE SessionThread
  <2>1. CASE StartSession \/ StartFails \/ StartDone \/ EndSession
    BY <2>1, <1>0 DEF StartSession, StartFails, StartDone, EndSession, ForgetFeed, refillVars
  <2>2. CASE Tick \/ ReadFeed \/ Refill
    BY <2>2 DEF Tick, ReadFeed, Refill, feedVars, refillVars
  <2>3. CASE Supervise
    BY <2>3 DEF Supervise, NoFeed, NotConnected, Recovered, Recovering, WatchLive, feedVars,
                refillVars
  <2>4. CASE Refused("session") \/ Detach("session") \/ Restart("session")
    BY <2>4, Numbers DEF Refused, Detach, Restart, feedVars, refillVars
  <2> QED BY <1>5, <2>1, <2>2, <2>3, <2>4 DEF SessionThread
<1>6. CASE ConfigFails BY <1>6, <1>0 DEF ConfigFails, ForgetFeed
<1>7. CASE VerifyToken \/ TokenThread
  BY <1>7, Numbers
  DEF VerifyToken, TokenThread, TokenKept, TokenRenewed, Refused, Detach, Restart, feedVars,
      refillVars
<1> QED BY <1>1, <1>2, <1>3, <1>4, <1>5, <1>6, <1>7 DEF Next

-----------------------------------------------------------------------------
(* The threads' records.                                                   *)

\* The evidence a message adds to keeps its type.
LEMMA EvidenceGrows ==
    ASSUME NEW e \in Evidence, NEW b \in BOOLEAN, NEW fresh \in SUBSET Stocks
    PROVE  Adds(e, b, fresh) \in Evidence
BY DEF Evidence, Adds

\* What a thread's record holds.
LEMMA ThreadFields ==
    ASSUME ThreadTypes, NEW x \in Threads
    PROVE  /\ thread[x] \in ThreadState /\ thread[x].age \in Ages(MaxPass)
           /\ thread[x].age \in Nat /\ thread[x].age <= MaxPass
           /\ thread[x].ev \in Evidence /\ thread[x].renew \in BOOLEAN
           /\ thread[x].obs \in Observed /\ thread[x].obs.market \in Phase
           /\ thread[x].pc \in Pcs
<1>1. thread[x] \in ThreadState BY DEF ThreadTypes
<1>2. /\ thread[x].age \in Ages(MaxPass) /\ thread[x].ev \in Evidence
      /\ thread[x].renew \in BOOLEAN /\ thread[x].obs \in Observed /\ thread[x].pc \in Pcs
  BY <1>1 DEF ThreadState, Pcs
<1>3. thread[x].age \in Nat /\ thread[x].age <= MaxPass BY <1>2, Numbers DEF Ages
<1>4. thread[x].obs.market \in Phase BY <1>2 DEF Observed, Phase
<1> QED BY <1>1, <1>2, <1>3, <1>4

\* A message's evidence keeps the records of the threads and of the recovery well typed.
LEMMA ShowsTyped ==
    ASSUME ThreadTypes, JudgeTypes, NEW b \in BOOLEAN, NEW fresh \in SUBSET Stocks, Shows(b, fresh)
    PROVE  /\ ThreadTypes'
           /\ recovery' \in [age : Ages(RecoveryTimeout + MaxPass), ev : Evidence] \cup {None}
<1>1. ASSUME NEW x \in Threads
      PROVE  (IF Working(x) THEN [thread[x] EXCEPT !.ev = Adds(@, b, fresh)] ELSE thread[x])
                \in ThreadState
  <2>1. thread[x] \in ThreadState /\ thread[x].ev \in Evidence BY ThreadFields
  <2>2. Adds(thread[x].ev, b, fresh) \in Evidence BY <2>1, EvidenceGrows
  <2>3. [thread[x] EXCEPT !.ev = Adds(thread[x].ev, b, fresh)] \in ThreadState
    BY <2>1, <2>2, ThreadChanges
  <2> QED BY <2>1, <2>3
<1> DEFINE T(x) == IF Working(x) THEN [thread[x] EXCEPT !.ev = Adds(@, b, fresh)] ELSE thread[x]
<1>2. ThreadTypes'
  <2>1. thread' = [x \in Threads |-> T(x)] BY DEF Shows
  <2>2. \A x \in Threads : T(x) \in ThreadState BY <1>1
  <2> HIDE DEF T
  <2> QED BY <2>1, <2>2 DEF ThreadTypes
<1>3. CASE recovery = None BY <1>2, <1>3 DEF Shows
<1>4. CASE recovery # None
  <2>1. recovery \in [age : Ages(RecoveryTimeout + MaxPass), ev : Evidence]
    BY <1>4 DEF JudgeTypes
  <2>2. Adds(recovery.ev, b, fresh) \in Evidence BY <2>1, EvidenceGrows
  <2>3. recovery' = [recovery EXCEPT !.ev = Adds(recovery.ev, b, fresh)] BY <1>4 DEF Shows
  <2> DEFINE A == Ages(RecoveryTimeout + MaxPass)
             e == Adds(recovery.ev, b, fresh)
  <2> HIDE DEF A, e
  <2>4. [recovery EXCEPT !.ev = e] \in [age : A, ev : Evidence] BY <2>1, <2>2 DEF A, e
  <2> QED BY <1>2, <2>3, <2>4 DEF A, e
<1> QED BY <1>2, <1>3, <1>4

\* Every message shows a frame or not, and some stocks.
LEMMA MessageBooleans ==
    ASSUME FeedMessage
    PROVE  \E b \in BOOLEAN, fresh \in SUBSET Stocks : Shows(b, fresh)
<1>1. ASSUME NEW quote \in Messages, FeedFrame(quote)
      PROVE  \E b \in BOOLEAN, fresh \in SUBSET Stocks : Shows(b, fresh)
  BY <1>1 DEF FeedFrame
<1>2. ASSUME NEW s \in Stocks, FeedAccepts(s)
      PROVE  \E b \in BOOLEAN, fresh \in SUBSET Stocks : Shows(b, fresh)
  BY <1>2 DEF FeedAccepts
<1> QED BY <1>1, <1>2 DEF FeedMessage

\* A thread that returns from _replace_feed is well typed.
LEMMA ReturnsTyped ==
    ASSUME ThreadTypes, NEW x \in Threads, Returns(x)
    PROVE  ThreadTypes'
<1>1. thread[x] \in ThreadState BY ThreadFields
<1>2. [thread[x] EXCEPT !.pc = IF thread[x].renew THEN "read" ELSE "refill", !.renew = FALSE]
        \in ThreadState
  BY <1>1, ThreadChanges DEF Pcs
<1>3. CASE x = "token" BY <1>3, AtRestType, ThreadUpdate DEF Returns, ThreadTypes
<1>4. CASE x # "token" BY <1>4, <1>2, ThreadUpdate DEF Returns, ThreadTypes
<1> QED BY <1>3, <1>4

\* So is one that enters or leaves it in any way.
LEMMA ReplaceThreadTyped ==
    ASSUME ThreadTypes, NEW x \in Threads, Refused(x) \/ Detach(x) \/ Restart(x)
    PROVE  ThreadTypes'
<1>1. CASE Refused(x) \/ Restart(x) BY <1>1, ReturnsTyped DEF Refused, Restart
<1>2. CASE Detach(x)
  <2>1. [thread[x] EXCEPT !.pc = "restart"] \in ThreadState BY ThreadFields, ThreadChanges DEF Pcs
  <2> QED BY <1>2, <2>1, ThreadUpdate DEF Detach, ThreadTypes
<1> QED BY <1>1, <1>2

\* Every step keeps the threads' records well typed.
LEMMA ThreadTyped ==
    ASSUME SessionInv, Next
    PROVE  ThreadTypes'
<1>0. ThreadTypes /\ FeedTypes /\ JudgeTypes /\ SessionTypes BY TypeParts DEF SessionInv
<1>S. "session" \in Threads /\ "token" \in Threads BY DEF Threads
<1>a. \A x \in Threads : thread[x] \in ThreadState BY <1>0, ThreadFields
<1>b. \A x \in Threads, p \in Pcs : [thread[x] EXCEPT !.pc = p] \in ThreadState
  BY <1>a, ThreadChanges
<1>c. \A x \in Threads, t \in ThreadState : [thread EXCEPT ![x] = t] \in [Threads -> ThreadState]
  BY <1>0, ThreadUpdate DEF ThreadTypes
<1>1. CASE Second
  <2>1. ASSUME NEW x \in Threads
        PROVE  (IF Working(x) THEN [thread[x] EXCEPT !.age = @ + 1] ELSE thread[x]) \in ThreadState
    <3>1. CASE Working(x)
      <4>1. thread[x].age + 1 \in Ages(MaxPass)
        BY <1>1, <3>1, <1>0, ThreadFields, Numbers, SMTT(20) DEF Second, Ages
      <4>2. [thread[x] EXCEPT !.age = thread[x].age + 1] \in ThreadState
        BY <1>a, <4>1, ThreadChanges
      <4> QED BY <3>1, <4>2
    <3> QED BY <3>1, <1>a
  <2> QED BY <1>1, <2>1 DEF Second, ThreadTypes
<1>2. CASE MarketMoves \/ FeedMoves \/ FeedConnects \/ ConfigFails
  BY <1>2, <1>0
  DEF MarketMoves, FeedMoves, FeedCycle, FeedErrs, MonitorEnds, FeedDrops, FeedConnects,
      ConfigFails, ThreadTypes
<1>3. CASE FeedMessage BY <1>3, <1>0, MessageBooleans, ShowsTyped
<1>4. CASE StartSession \/ Tick
  <2>1. \A p \in Pcs : [AtRest EXCEPT !.pc = p, !.obs.market = market] \in ThreadState
    <3>1. \A p \in Pcs : [AtRest EXCEPT !.pc = p] \in ThreadState BY AtRestType, ThreadChanges
    <3>2. \A p \in Pcs : [[AtRest EXCEPT !.pc = p] EXCEPT !.obs.market = market] \in ThreadState
      BY <3>1, <1>0, ThreadChanges DEF SessionTypes
    <3> QED BY <3>2 DEF AtRest
  <2>2. \A p \in Pcs, b \in BOOLEAN :
          [AtRest EXCEPT !.pc = p, !.renew = b, !.obs.market = market] \in ThreadState
    <3>1. \A p \in Pcs, b \in BOOLEAN : [AtRest EXCEPT !.pc = p, !.renew = b] \in ThreadState
      BY AtRestType, ThreadChanges
    <3>2. \A p \in Pcs, b \in BOOLEAN :
            [[AtRest EXCEPT !.pc = p, !.renew = b] EXCEPT !.obs.market = market] \in ThreadState
      BY <3>1, <1>0, ThreadChanges DEF SessionTypes
    <3> QED BY <3>2 DEF AtRest
  <2>3. CASE StartSession BY <2>3, <2>1, <1>c, <1>S DEF StartSession, Pcs, ThreadTypes
  <2>4. CASE Tick
    <3>1. PICK renew \in {FALSE, ~Authority} :
             thread' = [thread EXCEPT !["session"] =
                [AtRest EXCEPT !.pc = IF renew THEN "replace" ELSE "read",
                               !.renew = renew, !.obs.market = market]]
      BY <2>4, Zenon DEF Tick
    <3>2. renew \in BOOLEAN BY Numbers
    <3>3. (IF renew THEN "replace" ELSE "read") \in Pcs BY DEF Pcs
    <3>4. [AtRest EXCEPT !.pc = IF renew THEN "replace" ELSE "read", !.renew = renew,
                         !.obs.market = market] \in ThreadState
      BY <3>2, <3>3, <2>2
    <3> QED BY <3>1, <3>4, <1>c, <1>S DEF ThreadTypes
  <2> QED BY <1>4, <2>3, <2>4
<1>5. CASE StartFails \/ StartDone \/ EndSession \/ Refill
  BY <1>5, <1>0, <1>c, <1>S, AtRestType DEF StartFails, StartDone, EndSession, Refill, ThreadTypes
<1>6. CASE ReadFeed
  <2> DEFINE o == [feed |-> sock # "none", status |-> status, limited |-> limited,
                   receiving |-> msgAge - thread["session"].age < Stuck,
                   silent |-> silence - thread["session"].age,
                   newCycle |-> newCycle, market |-> thread["session"].obs.market,
                   live |-> session' = "LIVE"]
  <2>1. started BY <1>6 DEF ReadFeed, SessionInv, Places
  <2>2. status \in {"STOPPED", "CONNECTING", "CONNECTED", "ERROR", "RECONNECTING",
                    "AUTHENTICATING"}
    BY <2>1, <1>0 DEF FeedTypes, SessionInv, NoRefusedToken
  <2>3. silence - thread["session"].age \in -MaxPass .. HardReset + MaxPass
    BY <1>0, <1>S, ThreadFields, Numbers DEF FeedTypes, Ages
  <2>4. o \in Observed
    BY <1>0, <1>S, <2>2, <2>3, ThreadFields DEF FeedTypes, Observed, Phase
  <2>5. [thread["session"] EXCEPT !.pc = "act", !.obs = o] \in ThreadState
    BY <1>a, <1>S, <2>4, ThreadChanges, ZenonT(30) DEF Pcs
  <2>6. thread' = [thread EXCEPT !["session"].pc = "act", !["session"].obs = o]
    BY <1>6 DEF ReadFeed
  <2> HIDE DEF o
  <2>7. thread' = [thread EXCEPT !["session"] = [thread["session"] EXCEPT !.pc = "act", !.obs = o]]
    BY <2>6, <1>0, <1>S, <1>a DEF ThreadTypes, ThreadState
  <2> QED BY <2>5, <2>7, <1>c, <1>S DEF ThreadTypes
<1>7. CASE Supervise
  <2>1. \E b \in BOOLEAN : Decide(b)
    BY <1>7, ZenonT(30) DEF Supervise, NoFeed, NotConnected, Recovered, Recovering, WatchLive
  <2> QED BY <2>1, <1>b, <1>c, <1>S, ZenonT(30) DEF Decide, Pcs, ThreadTypes
<1>8. CASE \E x \in Threads : Refused(x) \/ Detach(x) \/ Restart(x)
  BY <1>8, <1>0, ReplaceThreadTyped
<1>9. CASE VerifyToken \/ TokenKept \/ TokenRenewed
  <2>1. [AtRest EXCEPT !.pc = "replace", !.renew = TRUE] \in ThreadState
    BY AtRestType, ThreadChanges DEF Pcs
  <2> QED BY <1>9, <2>1, <1>b, <1>c, <1>S, ZenonT(30)
          DEF VerifyToken, TokenKept, TokenRenewed, Continue, Pcs, ThreadTypes
<1> QED BY <1>1, <1>2, <1>3, <1>4, <1>5, <1>6, <1>7, <1>8, <1>9, <1>S
        DEF Next, SessionThread, TokenThread

-----------------------------------------------------------------------------
(* Ages, timers and judgements.                                            *)

\* A recovery that starts now, by any thread, is well typed.
LEMMA SinceTyped ==
    ASSUME ThreadTypes, NEW x \in Threads
    PROVE  /\ Since(x) \in [age : Ages(RecoveryTimeout + MaxPass), ev : Evidence]
           /\ thread[x].age \in Ages(StuckLimit + MaxPass)
           /\ thread[x].age \in Ages(MaxSpacing + MaxPass)
<1>1. /\ thread[x].age \in Ages(RecoveryTimeout + MaxPass)
      /\ thread[x].age \in Ages(StuckLimit + MaxPass)
      /\ thread[x].age \in Ages(MaxSpacing + MaxPass)
  <2>1. thread[x].age \in Nat /\ thread[x].age <= MaxPass BY ThreadFields
  <2>2. \A n, m, a \in Nat : a <= m => a \in 0 .. n + m OBVIOUS
  <2>3. MaxSpacing \in Nat BY SpacingBounds
  <2>4. RecoveryTimeout \in Nat /\ StuckLimit \in Nat /\ MaxPass \in Nat BY Numbers
  <2> QED BY <2>1, <2>2, <2>3, <2>4, Zenon DEF Ages
<1>2. thread[x].ev \in Evidence BY ThreadFields
<1> QED BY <1>1, <1>2 DEF Since

\* A replacement keeps the judgement and the timers well typed ...
LEMMA ReplaceJudgeTyped ==
    ASSUME ThreadTypes, JudgeTypes, NEW x \in Threads, Refused(x) \/ Detach(x) \/ Restart(x)
    PROVE  JudgeTypes'
<1>1. CASE Refused(x) BY <1>1 DEF Refused, JudgeTypes, judgeVars, refillVars
<1>2. CASE Detach(x)
  <2>1. sinceReset' = sinceReset \/ sinceReset' = thread[x].age BY <1>2 DEF Detach
  <2>2. sup' = "RECONNECTING" /\ UNCHANGED <<recovery, watch, resets, resetIn, refillIn>>
    BY <1>2 DEF Detach, refillVars
  <2> QED BY <2>1, <2>2, SinceTyped DEF JudgeTypes
<1>3. CASE Restart(x)
  <2>1. recovery' \in [age : Ages(RecoveryTimeout + MaxPass), ev : Evidence] /\ watch' = None
    BY <1>3, SinceTyped DEF Restart
  <2>2. resets' \in 0 .. Len(Spacing) BY <1>3, Numbers DEF Restart, JudgeTypes
  <2>3. resetIn' \in -MaxPass .. MaxSpacing
    <3>1. resets \in Nat BY DEF JudgeTypes
    <3>2. Allow(resets) \in Nat /\ Allow(resets) <= MaxSpacing BY <3>1, AllowBounds
    <3>3. Allow(resets) - thread[x].age \in -MaxPass .. MaxSpacing
      BY <3>2, ThreadFields, SpacingBounds, Numbers
    <3> QED BY <1>3, <3>3 DEF Restart, JudgeTypes
  <2>4. sinceReset' = sinceReset /\ refillIn' = refillIn
        /\ sup' \in {"CONNECTING", "RECONNECTING"}
    BY <1>3 DEF Restart
  <2> QED BY <2>1, <2>2, <2>3, <2>4 DEF JudgeTypes
<1> QED BY <1>1, <1>2, <1>3

\* ... and so does every other step.
LEMMA JudgeTyped ==
    ASSUME SessionInv, Next
    PROVE  JudgeTypes'
<1>0. ThreadTypes /\ FeedTypes /\ JudgeTypes /\ SessionTypes BY TypeParts DEF SessionInv
<1>S. "session" \in Threads /\ "token" \in Threads BY DEF Threads
<1>m. /\ -MaxPass \in -MaxPass .. MaxSpacing /\ 0 \in 0 .. Len(Spacing)
      /\ MaxSpacing + MaxPass \in Ages(MaxSpacing + MaxPass)
  BY Numbers, SpacingBounds DEF Ages
<1>n. Since("session") \in [age : Ages(RecoveryTimeout + MaxPass), ev : Evidence]
  BY <1>0, <1>S, SinceTyped
<1>r. RefillDelay - thread["session"].age \in -MaxPass .. RefillDelay
  BY <1>0, <1>S, ThreadFields, Numbers
<1>1. CASE Second
  <2>1. recovery' \in [age : Ages(RecoveryTimeout + MaxPass), ev : Evidence] \cup {None}
    <3>1. CASE recovery = None BY <1>1, <3>1 DEF Second
    <3>2. CASE recovery # None
      <4> DEFINE A == Ages(RecoveryTimeout + MaxPass)
      <4>1. recovery \in [age : A, ev : Evidence] BY <1>0, <3>2 DEF JudgeTypes
      <4>2. Older(recovery.age, RecoveryTimeout + MaxPass) \in A
        BY <4>1, OlderType, Numbers
      <4>3. recovery' = [recovery EXCEPT !.age = Older(recovery.age, RecoveryTimeout + MaxPass)]
        BY <1>1, <3>2 DEF Second
      <4> HIDE DEF A
      <4> QED BY <4>1, <4>2, <4>3 DEF A
    <3> QED BY <3>1, <3>2
  <2>2. watch' \in Ages(StuckLimit + MaxPass) \cup {None}
    <3>1. CASE watch = None BY <1>1, <3>1 DEF Second, Older
    <3>2. CASE watch # None
      <4>1. StuckLimit + MaxPass \in Nat BY Numbers
      <4> QED BY <1>1, <1>0, <3>2, <4>1, OlderType DEF Second, JudgeTypes
    <3> QED BY <3>1, <3>2
  <2>3. sinceReset' \in Ages(MaxSpacing + MaxPass)
    <3>1. MaxSpacing + MaxPass \in Nat BY Numbers, SpacingBounds
    <3> QED BY <1>1, <1>0, <3>1, OlderType DEF Second, JudgeTypes
  <2>4. resetIn' \in -MaxPass .. MaxSpacing
    BY <1>1, <1>0, SoonerType, SpacingBounds DEF Second, JudgeTypes
  <2>5. refillIn' \in -MaxPass .. RefillDelay \cup {None}
    <3>1. CASE refillIn = None BY <1>1, <3>1 DEF Second, Sooner
    <3>2. CASE refillIn # None
      BY <1>1, <1>0, <3>2, SoonerType, Numbers DEF Second, JudgeTypes
    <3> QED BY <3>1, <3>2
  <2>6. UNCHANGED <<sup, resets>> BY <1>1 DEF Second
  <2> QED BY <1>0, <2>1, <2>2, <2>3, <2>4, <2>5, <2>6 DEF JudgeTypes
<1>2. CASE MarketMoves \/ FeedMoves \/ FeedConnects \/ ConfigFails
  BY <1>2, <1>0
  DEF MarketMoves, FeedMoves, FeedCycle, FeedErrs, MonitorEnds, FeedDrops, FeedConnects,
      ConfigFails, JudgeTypes, judgeVars, refillVars
<1>3. CASE FeedMessage
  <2>1. recovery' \in [age : Ages(RecoveryTimeout + MaxPass), ev : Evidence] \cup {None}
    BY <1>3, <1>0, MessageBooleans, ShowsTyped
  <2>2. UNCHANGED <<sup, watch, resets, resetIn, sinceReset, refillIn>>
    BY <1>3 DEF FeedMessage, FeedFrame, FeedAccepts, refillVars
  <2> QED BY <1>0, <2>1, <2>2 DEF JudgeTypes
<1>4. CASE StartSession \/ StartFails \/ EndSession \/ Tick \/ VerifyToken \/ TokenKept
           \/ TokenRenewed
  BY <1>4, <1>0, <1>m
  DEF StartSession, StartFails, EndSession, Tick, VerifyToken, TokenKept, TokenRenewed,
      JudgeTypes, judgeVars, refillVars
<1>5. CASE StartDone
  BY <1>5, <1>0, <1>m, <1>n, <1>r DEF StartDone, JudgeTypes
<1>6. CASE ReadFeed
  BY <1>6, <1>0, <1>n DEF ReadFeed, SupAtOpen, JudgeTypes, refillVars
<1>7. CASE Supervise
  <2>1. thread["session"].age \in Ages(StuckLimit + MaxPass) BY <1>0, <1>S, SinceTyped
  <2>2. CASE NoFeed BY <2>2, <1>0 DEF NoFeed, JudgeTypes, judgeVars, refillVars
  <2>3. CASE NotConnected
    BY <2>3, <1>0, <1>n, <2>1 DEF NotConnected, PassAge, JudgeTypes, refillVars
  <2>4. CASE Recovered BY <2>4, <1>0, <1>m DEF Recovered, JudgeTypes, refillVars
  <2>5. CASE Recovering BY <2>5, <1>0 DEF Recovering, JudgeTypes, refillVars
  <2>6. CASE WatchLive BY <2>6, <1>0, <1>n DEF WatchLive, JudgeTypes, refillVars
  <2> QED BY <1>7, <2>2, <2>3, <2>4, <2>5, <2>6 DEF Supervise
<1>8. CASE Refill
  <2>1. RefillDue \in -MaxPass .. RefillDelay \cup {None}
    BY <1>0, <1>r DEF RefillDue, PassAge, JudgeTypes
  <2> QED BY <1>8, <2>1, <1>0 DEF Refill, JudgeTypes, judgeVars
<1>9. CASE \E x \in Threads : Refused(x) \/ Detach(x) \/ Restart(x)
  BY <1>9, <1>0, ReplaceJudgeTyped
<1> QED BY <1>1, <1>2, <1>3, <1>4, <1>5, <1>6, <1>7, <1>8, <1>9, <1>S
        DEF Next, SessionThread, TokenThread

\* Every step keeps the types.
LEMMA TypeStep ==
    ASSUME SessionInv, Next
    PROVE  TypeOK'
BY TypeParts, SessionTyped, FeedTyped, ThreadTyped, JudgeTyped DEF SessionInv

-----------------------------------------------------------------------------
(* Where each step takes the threads.                                      *)

\* What each step does to the places of the threads, to their ages and to the renewals.
At(x, p, age, renew) ==
    thread'[x].pc = p /\ thread'[x].age = age /\ thread'[x].renew = renew
Stays(x) == At(x, thread[x].pc, thread[x].age, thread[x].renew)

\* A step of one thread leaves the other where it is.
LEMMA Moves ==
    ASSUME ThreadTypes, NEW x \in Threads, NEW y \in Threads, x # y, NEW p,
           thread' = [thread EXCEPT ![x].pc = p]
    PROVE  At(x, p, thread[x].age, thread[x].renew) /\ Stays(y)
<1>1. thread[x] \in ThreadState /\ thread[y] \in ThreadState BY ThreadFields
<1>2. thread'[x] = [thread[x] EXCEPT !.pc = p] /\ thread'[y] = thread[y] BY DEF ThreadTypes
<1> QED BY <1>1, <1>2 DEF At, Stays, ThreadState

\* A thread at rest is idle and carries no renewal.
LEMMA RestsAt == AtRest.pc = "idle" /\ AtRest.age = 0 /\ AtRest.renew = FALSE
BY DEF AtRest

\* A message moves no thread.
LEMMA MessageStays ==
    ASSUME ThreadTypes, FeedMessage, NEW x \in Threads
    PROVE  Stays(x)
<1>1. PICK b \in BOOLEAN, fresh \in SUBSET Stocks : Shows(b, fresh) BY MessageBooleans
<1>2. thread'[x] = IF Working(x) THEN [thread[x] EXCEPT !.ev = Adds(thread[x].ev, b, fresh)]
                   ELSE thread[x]
  BY <1>1 DEF Shows
<1>3. thread[x] \in ThreadState BY ThreadFields
<1> QED BY <1>2, <1>3 DEF At, Stays, ThreadState

\* A second ages the threads at work.
LEMMA SecondAges ==
    ASSUME ThreadTypes, Second, NEW x \in Threads
    PROVE  At(x, thread[x].pc, IF Working(x) THEN thread[x].age + 1 ELSE thread[x].age,
              thread[x].renew)
<1>1. thread'[x] = IF Working(x) THEN [thread[x] EXCEPT !.age = thread[x].age + 1] ELSE thread[x]
  BY DEF Second
<1>2. thread[x] \in ThreadState BY ThreadFields
<1> QED BY <1>1, <1>2 DEF At, ThreadState

\* Where a replacement returns to.
LEMMA ReturnsTo ==
    ASSUME ThreadTypes, NEW x \in Threads, NEW y \in Threads, x # y, Returns(x)
    PROVE  /\ x = "token" => thread'[x].pc = "idle"
           /\ x = "session" => thread'[x].pc \in {"read", "refill"}
           /\ Stays(y)
<1>1. thread[x] \in ThreadState BY ThreadFields
<1>2. CASE x = "token" BY <1>2, RestsAt DEF Returns, ThreadTypes, At, Stays
<1>3. CASE x # "token"
  <2> DEFINE t == [thread[x] EXCEPT !.pc = IF thread[x].renew THEN "read" ELSE "refill",
                                    !.renew = FALSE]
  <2>1. thread' = [thread EXCEPT ![x] = t] BY <1>3 DEF Returns
  <2>2. t.pc = IF thread[x].renew THEN "read" ELSE "refill" BY <1>1 DEF ThreadState
  <2> HIDE DEF t
  <2> QED BY <1>3, <2>1, <2>2 DEF ThreadTypes, At, Stays
<1> QED BY <1>2, <1>3

\* The reads of a pass are followed by its judgement.
LEMMA ReadMoves ==
    ASSUME ThreadTypes, ReadFeed
    PROVE  At("session", "act", thread["session"].age, thread["session"].renew) /\ Stays("token")
<1>1. "session" \in Threads /\ "token" \in Threads BY DEF Threads
<1>2. thread["session"] \in ThreadState BY <1>1, ThreadFields
<1>3. \E o : thread' = [thread EXCEPT !["session"].pc = "act", !["session"].obs = o]
  BY DEF ReadFeed
<1>4. PICK o : thread' = [thread EXCEPT !["session"].pc = "act", !["session"].obs = o] BY <1>3
<1>5. thread'["session"] = [thread["session"] EXCEPT !.pc = "act", !.obs = o]
      /\ thread'["token"] = thread["token"]
  BY <1>1, <1>2, <1>4 DEF ThreadTypes, ThreadState
<1> QED BY <1>2, <1>5 DEF At, Stays, ThreadState

\* A judging pass goes on to a replacement or to the gap refill.
LEMMA DecideMoves ==
    ASSUME ThreadTypes, Supervise
    PROVE  /\ thread["session"].pc = "act"
           /\ thread'["session"].pc \in {"replace", "refill"} /\ Stays("token")
<1>1. "session" \in Threads /\ "token" \in Threads BY DEF Threads
<1>2. thread["session"].pc = "act" /\ \E b \in BOOLEAN : Decide(b)
  BY ZenonT(30)
  DEF Supervise, NoFeed, NotConnected, Recovered, Recovering, WatchLive, Judging
<1>3. PICK p \in {"replace", "refill"} : thread' = [thread EXCEPT !["session"].pc = p]
  BY <1>2 DEF Decide
<1>4. At("session", p, thread["session"].age, thread["session"].renew) /\ Stays("token")
  BY <1>1, <1>3, Moves
<1> QED BY <1>2, <1>4 DEF At

\* A tick begins a pass of the session thread, with no time spent.
LEMMA TickMoves ==
    ASSUME ThreadTypes, Tick
    PROVE  /\ thread["session"].pc = "idle" /\ started
           /\ thread'["session"].pc \in {"replace", "read"} /\ Stays("token")
<1>1. "session" \in Threads /\ "token" \in Threads BY DEF Threads
<1>2. PICK renew \in {FALSE, ~Authority} :
         thread' = [thread EXCEPT !["session"] =
            [AtRest EXCEPT !.pc = IF renew THEN "replace" ELSE "read",
                           !.renew = renew, !.obs.market = market]]
  BY Zenon DEF Tick
<1> DEFINE t == [AtRest EXCEPT !.pc = IF renew THEN "replace" ELSE "read",
                               !.renew = renew, !.obs.market = market]
<1>3. t.pc \in {"replace", "read"} BY DEF AtRest
<1>4. thread' = [thread EXCEPT !["session"] = t] BY <1>2
<1> HIDE DEF t
<1>5. thread["session"].pc = "idle" /\ started BY DEF Tick, Maintains
<1> QED BY <1>1, <1>3, <1>4, <1>5 DEF ThreadTypes, At, Stays

\* A start takes the session thread from rest.
LEMMA StartMoves ==
    ASSUME ThreadTypes, StartSession
    PROVE  thread'["session"].pc = "starting" /\ Stays("token")
<1>1. "session" \in Threads /\ "token" \in Threads BY DEF Threads
<1> DEFINE t == [AtRest EXCEPT !.pc = "starting", !.obs.market = market]
<1>2. t.pc = "starting" BY DEF AtRest
<1>3. thread' = [thread EXCEPT !["session"] = t] BY DEF StartSession
<1> HIDE DEF t
<1> QED BY <1>1, <1>2, <1>3 DEF ThreadTypes, At, Stays

-----------------------------------------------------------------------------
(* The lock, the places of the threads and the session.                    *)

\* Who holds the lock, and what the threads' places say, is kept by every step.
Control == LockHeld /\ Places /\ NoRefusedToken /\ FeedOnlyInSession

\* A replacement takes the lock only when it is free and returns it ...
LEMMA ReplaceControl ==
    ASSUME SessionInv, NEW x \in Threads, Refused(x) \/ Detach(x) \/ Restart(x)
    PROVE  Control'
<1>0. ThreadTypes BY TypeParts DEF SessionInv
<1>1. PICK y \in Threads : x # y BY DEF Threads
<1>2. \/ x = "session" /\ y = "token"
      \/ x = "token" /\ y = "session"
  BY <1>1 DEF Threads
<1>I. Control BY DEF SessionInv, Control
<1>3. CASE Refused(x)
  <2>1. /\ x = "token" => thread'[x].pc = "idle"
        /\ x = "session" => thread'[x].pc \in {"read", "refill"}
        /\ Stays(y)
    BY <1>0, <1>1, <1>3, ReturnsTo DEF Refused
  <2>2. /\ thread[x].pc = "replace" /\ lock = None
        /\ UNCHANGED <<lock, started, status, sock>>
    BY <1>3 DEF Refused, sessionVars, feedVars
  <2> QED BY <1>I, <1>2, <2>1, <2>2, NoneAssumption
          DEF Control, LockHeld, Places, NoRefusedToken, FeedOnlyInSession, Stays, At, Threads
<1>4. CASE Detach(x)
  <2>1. At(x, "restart", thread[x].age, thread[x].renew) /\ Stays(y)
    <3>1. thread' = [thread EXCEPT ![x].pc = "restart"] BY <1>4 DEF Detach
    <3> QED BY <1>0, <1>1, <3>1, Moves
  <2>2. /\ thread[x].pc = "replace" /\ lock = None /\ lock' = x /\ sock' = "none"
        /\ started /\ started' = started /\ status' \in {status, "STOPPED"}
    BY <1>4 DEF Detach, MayReplace, sessionVars
  <2> QED BY <1>I, <1>2, <2>1, <2>2, NoneAssumption
          DEF Control, LockHeld, Places, NoRefusedToken, FeedOnlyInSession, Stays, At, Threads
<1>5. CASE Restart(x)
  <2>1. /\ x = "token" => thread'[x].pc = "idle"
        /\ x = "session" => thread'[x].pc \in {"read", "refill"}
        /\ Stays(y)
    BY <1>0, <1>1, <1>5, ReturnsTo DEF Restart
  <2>2. /\ thread[x].pc = "restart" /\ lock' = None /\ started' = started
        /\ status' \in {status, "ERROR"}
    BY <1>5 DEF Restart, sessionVars
  <2>3. started BY <1>I, <1>2, <2>2 DEF Control, Places
  <2>4. thread[y].pc # "restart" /\ thread[y].pc # "starting"
    BY <1>I, <1>2, <2>2 DEF Control, LockHeld, Places
  <2> QED BY <1>I, <1>2, <2>1, <2>2, <2>3, <2>4, NoneAssumption
          DEF Control, LockHeld, Places, NoRefusedToken, FeedOnlyInSession, Stays, At, Threads
<1> QED BY <1>3, <1>4, <1>5

\* ... and so does every other step.
LEMMA ControlStep ==
    ASSUME SessionInv, Next
    PROVE  Control'
<1>0. ThreadTypes /\ "session" \in Threads /\ "token" \in Threads
  BY TypeParts DEF SessionInv, Threads
<1>I. Control BY DEF SessionInv, Control
<1> USE DEF Control, LockHeld, Places, NoRefusedToken, FeedOnlyInSession
<1>1. CASE Second
  <2>1. \A x \in Threads : thread'[x].pc = thread[x].pc /\ thread'[x].renew = thread[x].renew
    BY <1>0, <1>1, SecondAges DEF At
  <2> QED BY <1>1, <1>I, <1>0, <2>1 DEF Second, sessionVars
<1>2. CASE MarketMoves BY <1>2, <1>I DEF MarketMoves, feedVars
<1>3. CASE FeedMoves \/ FeedConnects
  BY <1>3, <1>I
  DEF FeedMoves, FeedCycle, FeedErrs, MonitorEnds, FeedDrops, FeedConnects, sessionVars
<1>4. CASE FeedMessage
  <2>1. Stays("session") /\ Stays("token") BY <1>0, <1>4, MessageStays
  <2>2. /\ UNCHANGED <<lock, started, sock>> /\ sock = "up"
        /\ status' = status \/ status' = "CONNECTED"
    BY <1>4 DEF FeedMessage, FeedFrame, FeedAccepts
  <2> QED BY <1>I, <2>1, <2>2 DEF Stays, At
<1>5. CASE StartSession
  <2>1. thread'["session"].pc = "starting" /\ Stays("token") BY <1>0, <1>5, StartMoves
  <2>2. /\ lock = None /\ lock' = "session" /\ ~started /\ UNCHANGED <<started, sock>>
        /\ status' = "AUTHENTICATING"
    BY <1>5 DEF StartSession
  <2> QED BY <1>I, <2>1, <2>2, NoneAssumption DEF Stays, At, Threads
<1>6. CASE StartFails \/ StartDone
  <2>1. thread'["session"].pc = "idle" /\ Stays("token")
    BY <1>6, <1>0, RestsAt DEF StartFails, StartDone, ThreadTypes, Stays, At
  <2>2. thread["session"].pc = "starting" /\ lock' = None
    BY <1>6 DEF StartFails, StartDone
  <2>3. lock = "session" /\ ~started /\ status = "AUTHENTICATING" BY <1>I, <2>2
  <2>4. \/ UNCHANGED <<started, sock>>
        \/ started' /\ status' = status
    BY <1>6 DEF StartFails, StartDone
  <2> QED BY <1>I, <2>1, <2>2, <2>3, <2>4, NoneAssumption DEF Stays, At, Threads
<1>7. CASE EndSession \/ ConfigFails
  <2>1. /\ thread["session"].pc = "idle" /\ lock = None /\ UNCHANGED <<thread, lock>>
        /\ \/ ~started' /\ sock' = "none"
           \/ ~started /\ UNCHANGED <<started, sock>>
    BY <1>7 DEF EndSession, ConfigFails
  <2> QED BY <1>I, <2>1, NoneAssumption DEF Threads
<1>8. CASE Tick
  <2>1. UNCHANGED <<lock, started, sock, status>> BY <1>8 DEF Tick, sessionVars, feedVars
  <2> QED BY <1>8, <1>I, <1>0, <2>1, TickMoves DEF Stays, At
<1>9. CASE ReadFeed
  <2>1. thread["session"].pc = "read" /\ UNCHANGED <<lock, started, sock, status>>
    BY <1>9 DEF ReadFeed
  <2> QED BY <1>9, <1>I, <1>0, <2>1, ReadMoves DEF Stays, At
<1>10. CASE Supervise
  <2>1. UNCHANGED <<lock, started, sock, status>>
    BY <1>10
    DEF Supervise, NoFeed, NotConnected, Recovered, Recovering, WatchLive, sessionVars, feedVars
  <2> QED BY <1>10, <1>I, <1>0, <2>1, DecideMoves DEF Stays, At
<1>11. CASE Refill
  <2>1. thread["session"].pc = "refill" /\ UNCHANGED <<lock, started, sock, status>>
    BY <1>11 DEF Refill, feedVars
  <2>2. thread'["session"].pc = "idle" /\ Stays("token")
    BY <1>11, <1>0, RestsAt DEF Refill, ThreadTypes, Stays, At
  <2> QED BY <1>I, <2>1, <2>2 DEF Stays, At
<1>12. CASE \E x \in Threads : Refused(x) \/ Detach(x) \/ Restart(x) BY <1>12, ReplaceControl
<1>13. CASE VerifyToken \/ TokenKept
  <2>1. UNCHANGED <<lock, started, sock, status>>
    BY <1>13 DEF VerifyToken, TokenKept, sessionVars, feedVars
  <2>2. /\ thread["token"].pc \in {"idle", "verifying"}
        /\ thread'["token"].pc \in {"idle", "verifying"} /\ Stays("session")
    <3>1. PICK p \in {"idle", "verifying"} : thread' = [thread EXCEPT !["token"].pc = p]
      BY <1>13 DEF VerifyToken, TokenKept, Continue
    <3>2. At("token", p, thread["token"].age, thread["token"].renew) /\ Stays("session")
      BY <1>0, <3>1, Moves
    <3> QED BY <1>13, <3>2 DEF At, VerifyToken, TokenKept
  <2> QED BY <1>I, <2>1, <2>2 DEF Stays, At
<1>14. CASE TokenRenewed
  <2>1. UNCHANGED <<lock, started, sock, status>>
    BY <1>14 DEF TokenRenewed, sessionVars, feedVars
  <2>2. /\ thread["token"].pc = "verifying" /\ thread'["token"].pc = "replace"
        /\ thread'["token"].renew /\ Stays("session")
    BY <1>14, <1>0, RestsAt DEF TokenRenewed, ThreadTypes, Stays, At, AtRest
  <2> QED BY <1>I, <2>1, <2>2 DEF Stays, At
<1> QED BY <1>1, <1>2, <1>3, <1>4, <1>5, <1>6, <1>7, <1>8, <1>9, <1>10, <1>11, <1>12, <1>13,
           <1>14, <1>0
        DEF Next, SessionThread, TokenThread

\* The types and the control invariant are kept by every step ...
LEMMA SessionStep == SessionInv /\ [Next]_vars => SessionInv'
<1> SUFFICES ASSUME SessionInv, [Next]_vars PROVE SessionInv' OBVIOUS
<1>1. CASE Next BY <1>1, TypeStep, ControlStep DEF SessionInv, Control
<1>2. CASE UNCHANGED vars
  BY <1>2
  DEF vars, sessionVars, feedVars, judgeVars, refillVars, SessionInv, TypeOK, LockHeld, Places,
      NoRefusedToken, FeedOnlyInSession
<1> QED BY <1>1, <1>2

\* ... so they hold always.
LEMMA SessionAlways == Spec => []SessionInv
BY SessionInit, SessionStep, PTL DEF Spec

\* Every reachable state of the supervisor is well typed, with every age and timer in its bounds.
THEOREM TypeCorrect == Spec => []TypeOK
BY SessionAlways, PTL DEF SessionInv

\* Outside a session no feed is open, however late a token renewal gets _lock, for any timing,
\* spacing and number of stocks.
THEOREM NoFeedOutsideSession == Spec => []FeedOnlyInSession
BY SessionAlways, PTL DEF SessionInv

-----------------------------------------------------------------------------
(* The spacing of the replacements.                                        *)

\* Time passes: the age grows as the time left shrinks, and at a cap their sum is the last spacing.
LEMMA SecondSpaced ==
    ASSUME SessionInv, Spaced, Second
    PROVE  Spaced'
<1>0. ThreadTypes /\ JudgeTypes /\ "session" \in Threads BY TypeParts DEF SessionInv, Threads
<1>1. At("session", thread["session"].pc,
         IF Working("session") THEN thread["session"].age + 1 ELSE thread["session"].age,
         thread["session"].renew)
  BY <1>0, SecondAges
<1>2. Replacing' = Replacing BY <1>1 DEF Replacing, At
<1>3. sinceReset \in Nat /\ sinceReset <= MaxSpacing + MaxPass
  BY <1>0, Numbers, SpacingBounds DEF JudgeTypes, Ages
<1>4. resetIn \in Int /\ -MaxPass <= resetIn /\ resets \in Nat
  BY <1>0, Numbers, SpacingBounds DEF JudgeTypes
<1>5. sinceReset' = IF sinceReset < MaxSpacing + MaxPass THEN sinceReset + 1 ELSE sinceReset
  BY <1>3, NoneAssumption DEF Second, Older
<1>6. resetIn' = IF resetIn > -MaxPass THEN resetIn - 1 ELSE resetIn
  BY <1>4, NoneAssumption DEF Second, Sooner
<1>7. CASE Replacing
  <2>1. thread["session"].age \in Nat /\ thread["session"].age < MaxPass
    BY <1>7, <1>0, ThreadFields DEF Second, Replacing, Working
  <2>2. thread'["session"].age = thread["session"].age + 1
    BY <1>1, <1>7 DEF At, Replacing, Working
  <2>3. sinceReset = thread["session"].age BY <1>7 DEF Spaced
  <2>4. MaxPass \in Nat /\ MaxSpacing \in Nat BY Numbers, SpacingBounds
  <2>5. sinceReset' = sinceReset + 1 BY <1>5, <2>1, <2>3, <2>4
  <2> QED BY <1>2, <1>7, <2>2, <2>3, <2>5 DEF Spaced
<1>8. CASE ~Replacing /\ resets > 0
  <2>1. SpacingAfter(resets) \in Nat /\ SpacingAfter(resets) <= MaxSpacing /\ MaxSpacing \in Nat
    BY <1>4, SpacingBounds
  <2>2. sinceReset + resetIn >= SpacingAfter(resets) BY <1>8 DEF Spaced
  <2>3. sinceReset' + resetIn' >= SpacingAfter(resets)
    BY <1>3, <1>4, <1>5, <1>6, <2>1, <2>2, Numbers
  <2> QED BY <1>2, <1>8, <2>3 DEF Spaced, Second, SpacingAfter
<1>9. CASE ~Replacing /\ ~(resets > 0) BY <1>2, <1>9 DEF Spaced, Second
<1> QED BY <1>7, <1>8, <1>9

\* Steps that leave the resets alone and do not move the session thread keep the spacing.
LEMMA SpacedKept ==
    ASSUME Spaced, UNCHANGED <<resets, resetIn, sinceReset>>, Stays("session")
    PROVE  Spaced'
BY DEF Spaced, Replacing, SpacingAfter, Stays, At

\* So do steps that take the session thread to another place and not from within a replacement.
LEMMA SpacedMoved ==
    ASSUME Spaced, UNCHANGED <<resets, resetIn, sinceReset>>,
           thread["session"].pc # "restart", thread'["session"].pc # "restart"
    PROVE  Spaced'
BY DEF Spaced, Replacing, SpacingAfter

\* A replacement restarts the spacing unless it is a renewal's.
LEMMA ReplaceSpaced ==
    ASSUME SessionInv, Spaced, NEW x \in Threads, Refused(x) \/ Detach(x) \/ Restart(x)
    PROVE  Spaced'
<1>0. ThreadTypes /\ JudgeTypes BY TypeParts DEF SessionInv
<1>S. "session" \in Threads /\ "token" \in Threads BY DEF Threads
<1>1. CASE x = "token" /\ ~Restart(x)
  <2>1. Stays("session")
    <3>1. CASE Refused(x) BY <1>0, <1>1, <1>S, <3>1, ReturnsTo DEF Refused
    <3>2. CASE Detach(x)
      <4>1. thread' = [thread EXCEPT !["token"].pc = "restart"] BY <1>1, <3>2 DEF Detach
      <4> QED BY <1>0, <1>S, <4>1, Moves
    <3> QED BY <1>1, <3>1, <3>2
  <2>2. thread["token"].pc = "replace" BY <1>1 DEF Refused, Detach
  <2>3. thread["token"].renew BY <2>2 DEF SessionInv, Places
  <2>4. UNCHANGED <<resets, resetIn, sinceReset>>
    BY <1>1, <2>3 DEF Refused, Detach, judgeVars
  <2> QED BY <2>1, <2>4, SpacedKept
<1>2. CASE x = "token" /\ Restart(x)
  <2>1. Stays("session") BY <1>0, <1>2, <1>S, ReturnsTo DEF Restart
  <2>2. thread["token"].renew BY <1>2 DEF Restart, SessionInv, Places
  <2>3. UNCHANGED <<resets, resetIn, sinceReset>> BY <1>2, <2>2 DEF Restart
  <2> QED BY <2>1, <2>3, SpacedKept
<1>3. CASE x = "session" /\ Refused(x)
  <2>1. thread["session"].pc = "replace" /\ thread'["session"].pc \in {"read", "refill"}
    BY <1>0, <1>3, <1>S, ReturnsTo DEF Refused
  <2> QED BY <1>3, <2>1, SpacedMoved DEF Refused, judgeVars
<1>4. CASE x = "session" /\ Detach(x)
  <2>1. thread' = [thread EXCEPT !["session"].pc = "restart"] BY <1>4 DEF Detach
  <2>2. At("session", "restart", thread["session"].age, thread["session"].renew)
    BY <1>0, <1>S, <2>1, Moves
  <2>3. CASE thread["session"].renew
    <3>1. UNCHANGED <<resets, resetIn, sinceReset>> BY <1>4, <2>3 DEF Detach
    <3>2. ~Replacing /\ ~Replacing' BY <2>2, <2>3 DEF Replacing, At
    <3> QED BY <3>1, <3>2 DEF Spaced, SpacingAfter
  <2>4. CASE ~thread["session"].renew
    <3>1. sinceReset' = thread["session"].age BY <1>4, <2>4 DEF Detach
    <3> QED BY <2>2, <2>4, <3>1 DEF Spaced, Replacing, At
  <2> QED BY <2>3, <2>4
<1>5. CASE x = "session" /\ Restart(x)
  <2>1. thread["session"].pc = "restart" /\ thread'["session"].pc \in {"read", "refill"}
    BY <1>0, <1>5, <1>S, ReturnsTo DEF Restart
  <2>2. CASE thread["session"].renew
    <3>1. UNCHANGED <<resets, resetIn, sinceReset>> BY <1>5, <2>2 DEF Restart
    <3>2. ~Replacing /\ ~Replacing' BY <2>1, <2>2 DEF Replacing
    <3> QED BY <3>1, <3>2 DEF Spaced, SpacingAfter
  <2>3. CASE ~thread["session"].renew
    <3>1. sinceReset = thread["session"].age /\ sinceReset' = sinceReset
      BY <1>5, <2>1, <2>3 DEF Spaced, Replacing, Restart
    <3>2. /\ resetIn' = Allow(resets) - thread["session"].age
          /\ resets' = IF resets < Len(Spacing) THEN resets + 1 ELSE resets
      BY <1>5, <2>3 DEF Restart
    <3>3. /\ resets \in Nat /\ Allow(resets) \in Nat
          /\ SpacingAfter(resets) <= Allow(resets) /\ SpacingAfter(resets + 1) <= Allow(resets)
      BY <1>0, AllowBounds DEF JudgeTypes
    <3>4. SpacingAfter(resets') <= Allow(resets) BY <3>2, <3>3
    <3>5. thread["session"].age \in Nat BY <1>0, <1>S, ThreadFields
    <3>6. sinceReset' + resetIn' = Allow(resets) BY <3>1, <3>2, <3>3, <3>5
    <3>7. ~Replacing' BY <2>1 DEF Replacing
    <3>8. SpacingAfter(resets)' = SpacingAfter(resets') BY DEF SpacingAfter
    <3>9. SpacingAfter(resets') \in Nat
      BY <3>2, <3>3, SpacingBounds
    <3> QED BY <3>3, <3>4, <3>6, <3>7, <3>8, <3>9 DEF Spaced
  <2> QED BY <2>2, <2>3
<1> QED BY <1>1, <1>2, <1>3, <1>4, <1>5 DEF Threads

\* The spacing is kept by every step ...
LEMMA SpacedStep == SessionInv /\ Spaced /\ [Next]_vars => Spaced'
<1> SUFFICES ASSUME SessionInv, Spaced, [Next]_vars PROVE Spaced' OBVIOUS
<1>0. ThreadTypes /\ "session" \in Threads /\ "token" \in Threads
  BY TypeParts DEF SessionInv, Threads
<1>1. CASE Second BY <1>1, SecondSpaced
<1>2. CASE MarketMoves \/ FeedMoves \/ FeedConnects \/ ConfigFails
  BY <1>2
  DEF MarketMoves, FeedMoves, FeedCycle, FeedErrs, MonitorEnds, FeedDrops, FeedConnects,
      ConfigFails, judgeVars, Spaced, Replacing, SpacingAfter
<1>3. CASE FeedMessage
  <2>1. UNCHANGED <<resets, resetIn, sinceReset>>
    BY <1>3 DEF FeedMessage, FeedFrame, FeedAccepts
  <2> QED BY <1>0, <1>3, <2>1, MessageStays, SpacedKept
<1>4. CASE StartSession
  <2>1. thread["session"].pc = "idle" /\ UNCHANGED <<resets, resetIn, sinceReset>>
    BY <1>4 DEF StartSession
  <2>2. thread'["session"].pc = "starting" BY <1>0, <1>4, StartMoves
  <2> QED BY <2>1, <2>2, SpacedMoved
<1>5. CASE StartFails \/ StartDone \/ EndSession \/ Refill
  <2>1. thread["session"].pc # "restart" /\ thread'["session"].pc # "restart"
    BY <1>5, <1>0, RestsAt DEF StartFails, StartDone, EndSession, Refill, ThreadTypes
  <2>2. resets' = 0 \/ UNCHANGED <<resets, resetIn, sinceReset>>
    BY <1>5 DEF StartFails, StartDone, EndSession, Refill, judgeVars
  <2>3. CASE resets' = 0 BY <2>1, <2>3 DEF Spaced, Replacing
  <2> QED BY <2>1, <2>2, <2>3, SpacedMoved
<1>6. CASE Tick
  <2>1. UNCHANGED <<resets, resetIn, sinceReset>> BY <1>6 DEF Tick, judgeVars
  <2>2. thread["session"].pc # "restart" /\ thread'["session"].pc # "restart"
    BY <1>0, <1>6, TickMoves
  <2> QED BY <2>1, <2>2, SpacedMoved
<1>7. CASE ReadFeed
  <2>1. UNCHANGED <<resets, resetIn, sinceReset>> /\ thread["session"].pc = "read"
    BY <1>7 DEF ReadFeed
  <2>2. thread'["session"].pc = "act" BY <1>0, <1>7, ReadMoves DEF At
  <2> QED BY <2>1, <2>2, SpacedMoved
<1>8. CASE Supervise
  <2>1. thread["session"].pc # "restart" /\ thread'["session"].pc # "restart"
    BY <1>0, <1>8, DecideMoves
  <2>2. resets' = 0 \/ UNCHANGED <<resets, resetIn, sinceReset>>
    BY <1>8 DEF Supervise, NoFeed, NotConnected, Recovered, Recovering, WatchLive, judgeVars
  <2>3. CASE resets' = 0 BY <2>1, <2>3 DEF Spaced, Replacing
  <2> QED BY <2>1, <2>2, <2>3, SpacedMoved
<1>9. CASE \E x \in Threads : Refused(x) \/ Detach(x) \/ Restart(x) BY <1>9, ReplaceSpaced
<1>10. CASE VerifyToken \/ TokenKept \/ TokenRenewed
  <2>1. UNCHANGED <<resets, resetIn, sinceReset>>
    BY <1>10 DEF VerifyToken, TokenKept, TokenRenewed, judgeVars
  <2>2. thread'["session"] = thread["session"]
    BY <1>0, <1>10 DEF VerifyToken, TokenKept, TokenRenewed, Continue, ThreadTypes
  <2> QED BY <2>1, <2>2, SpacedKept DEF Stays, At
<1>11. CASE UNCHANGED vars
  BY <1>11 DEF vars, judgeVars, Spaced, Replacing, SpacingAfter
<1> QED BY <1>1, <1>2, <1>3, <1>4, <1>5, <1>6, <1>7, <1>8, <1>9, <1>10, <1>11, <1>0
        DEF Next, SessionThread, TokenThread

\* ... so it holds always.
LEMMA SpacedAlways == Spec => [](SessionInv /\ Spaced)
<1>1. SessionInv /\ Spaced /\ [Next]_vars => (SessionInv /\ Spaced)'
  BY SessionStep, SpacedStep
<1> QED BY <1>1, SessionInit, PTL DEF Spec

\* Hard resets are spaced: between two unforced replacements with no LIVE between them lies the
\* spacing for that many resets, for every schedule of spacings that does not shrink and however
\* renewals, failed restarts and slow passes interleave.
THEOREM ResetsSpaced == Spec => ReplacementsSpaced
<1>1. SessionInv /\ Spaced /\ [Next]_vars =>
        [(Detach("session") /\ ~thread["session"].renew /\ resets > 0)
           => sinceReset - thread["session"].age >= SpacingAfter(resets)]_vars
  <2> SUFFICES ASSUME SessionInv, Spaced, Detach("session"), ~thread["session"].renew, resets > 0
               PROVE  sinceReset - thread["session"].age >= SpacingAfter(resets)
    OBVIOUS
  <2>0. ThreadTypes /\ JudgeTypes /\ "session" \in Threads BY TypeParts DEF SessionInv, Threads
  <2>1. thread["session"].pc = "replace" /\ resetIn + thread["session"].age <= 0
    BY DEF Detach, MayReplace
  <2>2. sinceReset + resetIn >= SpacingAfter(resets) BY <2>1 DEF Spaced, Replacing
  <2>3. thread["session"].age \in Nat BY <2>0, ThreadFields
  <2>5. sinceReset \in Nat /\ resetIn \in Int
    BY <2>0, Numbers, SpacingBounds DEF JudgeTypes, Ages
  <2>4. SpacingAfter(resets) \in Nat BY <2>0, SpacingBounds DEF JudgeTypes
  <2> QED BY <2>1, <2>2, <2>3, <2>4, <2>5
<1> QED BY <1>1, SpacedAlways, PTL DEF Spec, ReplacementsSpaced
=============================================================================
