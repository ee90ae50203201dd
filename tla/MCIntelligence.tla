--------------------------- MODULE MCIntelligence -----------------------------
(*****************************************************************************)
(* The stores and services of the intelligence side that work on their       *)
(* own, in one instance: a behaviour picks one of them and leaves the        *)
(* others in their initial state.  Each keeps its own specification,         *)
(* fairness and properties.                                                  *)
(*****************************************************************************)
EXTENDS Integers, SequenceTheorems, FiniteSetTheorems, WellFoundedInduction, TLAPS

CONSTANTS
    Stocks, MaxFaults,                                                  \* Archive
    WantedSessions, Instruments, MaxKills,                                    \* Bootstrap
    MinuteLen, Grace, MaxPending, LastMinute, MaxPackets, None,         \* MinuteStream
    Engines, LastBar, Ranks, Cooldown, MaxRestarts, MaxErrors,          \* EventLog
    Clients, MaxStreams, MaxPerKey, Limit, MaxEvents, MaxVersion,       \* EventStream
    MaxWire, MaxLeaves,
    ApiKeys, Threads, MaxSaves,                                         \* KeyStore
    Burst, Unit, Rate, LastSecond,                                      \* RateLimiter
    Requests, Slots, CacheSize,                                         \* IntelligenceApi
    Chains, SessionMinutes, DayMinutes, LastRecord, Budget, BackupKeep, MaxCrashes, \* DerivativesLog
    Workers, Total, Interval, MaxAttempts, RetryAfter, Pauses, LastTime \* HistoryClient
Timeline == <<<<1, 1>>, <<1, 2>>, <<2, 1>>>>        \* two minutes of a session, one of the next
MaxRows == [equity |-> 2, index |-> 1]
KeyOf == [c \in Clients |-> "key"]

VARIABLES
    which,          \* the component at work
    aStatus, aRam, aFile, aManifest, aLock, aWork, aRows, aPc, aRead, aStopped, aFaults, aFailed,
    bDir, bTrades, bPlan, bStage, bPc, bMissing, bFailures, bTodo, bHolds, bFaults, bKills,
    bTorn,
    mNow, mUp, mCount, mBucket, mTaken, mFlush, mMicro, mBars, mDropped, mFaults, mSeen, mStat,
    mAsOf, mArchived, mCut,
    lCandidate, lStore, lNext, lLast, lSession, lAdding, lRestarts, lErrors,
    sLog, sVersion, sSlots, sPc, sCursor, sRows, sSeen, sHeld, sGone, sWire, sReceived, sBase,
    sResume, sShown, sLeaves,
    kFile, kMtime, kCache, kCommand, kEnded, kPc, kStat, kData, kKey, kLate,
    rNow, rRead, rBucket, rAllowed,
    iSnapshot, iSlots, iSimilar, iMinute, iModels, iErrors, iBuilding, iBuilt, iReq, iFaults,
    dNow, dPc, dOptions, dLast, dLines, dMembers, dBacked_up, dBackups, dHousekept, dRecorded,
    dFaults,
    hNow, hNext_at, hWorker, hLeft, hRun, hPosts, hCooled, hEarly

aVars == <<aStatus, aRam, aFile, aManifest, aLock, aWork, aRows, aPc, aRead,
    aStopped, aFaults, aFailed>>
bVars == <<bDir, bTrades, bPlan, bStage, bPc, bMissing, bFailures, bTodo, bHolds,
    bFaults, bKills, bTorn>>
mVars == <<mNow, mUp, mCount, mBucket, mTaken, mFlush, mMicro, mBars, mDropped,
    mFaults, mSeen, mStat, mAsOf, mArchived, mCut>>
lVars == <<lCandidate, lStore, lNext, lLast, lSession, lAdding, lRestarts,
    lErrors>>
sVars == <<sLog, sVersion, sSlots, sPc, sCursor, sRows, sSeen, sHeld, sGone,
    sWire, sReceived, sBase, sResume, sShown, sLeaves>>
kVars == <<kFile, kMtime, kCache, kCommand, kEnded, kPc, kStat, kData, kKey,
    kLate>>
rVars == <<rNow, rRead, rBucket, rAllowed>>
iVars == <<iSnapshot, iSlots, iSimilar, iMinute, iModels, iErrors, iBuilding,
    iBuilt, iReq, iFaults>>
dVars == <<dNow, dPc, dOptions, dLast, dLines, dMembers, dBacked_up, dBackups,
    dHousekept, dRecorded, dFaults>>
hVars == <<hNow, hNext_at, hWorker, hLeft, hRun, hPosts, hCooled, hEarly>>
vars == <<which, aVars, bVars, mVars, lVars, sVars, kVars, rVars, iVars, dVars, hVars>>

Arch == INSTANCE Archive WITH
    status <- aStatus, ram <- aRam, file <- aFile, manifest <- aManifest, lock <- aLock,
    work <- aWork, rows <- aRows, pc <- aPc, read <- aRead, stopped <- aStopped,
    faults <- aFaults, failed <- aFailed
Boot == INSTANCE Bootstrap WITH
    dir <- bDir, trades <- bTrades, plan <- bPlan, stage <- bStage, pc <- bPc,
    missing <- bMissing, failures <- bFailures, todo <- bTodo, holds <- bHolds,
    faults <- bFaults, kills <- bKills, torn <- bTorn,
    Sessions <- WantedSessions
Minute == INSTANCE MinuteStream WITH
    now <- mNow, up <- mUp, count <- mCount, bucket <- mBucket, taken <- mTaken,
    flush <- mFlush, micro <- mMicro, bars <- mBars, dropped <- mDropped, faults <- mFaults,
    seen <- mSeen, stat <- mStat, asOf <- mAsOf, archived <- mArchived, cut <- mCut
Log == INSTANCE EventLog WITH
    candidate <- lCandidate, store <- lStore, next <- lNext, last <- lLast, session <- lSession,
    adding <- lAdding, restarts <- lRestarts, errors <- lErrors
Stream == INSTANCE EventStream WITH
    log <- sLog, version <- sVersion, slots <- sSlots, pc <- sPc, cursor <- sCursor,
    rows <- sRows, seen <- sSeen, held <- sHeld, gone <- sGone, wire <- sWire,
    received <- sReceived, base <- sBase, resume <- sResume, shown <- sShown, leaves <- sLeaves
Keys == INSTANCE KeyStore WITH
    file <- kFile, mtime <- kMtime, cache <- kCache, command <- kCommand, ended <- kEnded,
    pc <- kPc, stat <- kStat, data <- kData, key <- kKey, late <- kLate, Keys <- ApiKeys
Limiter == INSTANCE RateLimiter WITH
    now <- rNow, read <- rRead, bucket <- rBucket, allowed <- rAllowed
Api == INSTANCE IntelligenceApi WITH
    snapshot <- iSnapshot, slots <- iSlots, similar <- iSimilar, minute <- iMinute,
    models <- iModels, errors <- iErrors, building <- iBuilding, built <- iBuilt, req <- iReq,
    faults <- iFaults
Deriv == INSTANCE DerivativesLog WITH
    now <- dNow, pc <- dPc, options <- dOptions, last <- dLast, lines <- dLines,
    members <- dMembers, backed_up <- dBacked_up, backups <- dBackups, housekept <- dHousekept,
    recorded <- dRecorded, faults <- dFaults, LastMinute <- LastRecord, MaxFaults <- MaxCrashes
Client == INSTANCE HistoryClient WITH
    now <- hNow, next_at <- hNext_at, worker <- hWorker, left <- hLeft, run <- hRun,
    posts <- hPosts, cooled <- hCooled, early <- hEarly

\* The constants are ones the code can have.
ASSUME InstanceAssumption ==
    /\ Arch!ArchiveAssumption /\ Stream!StreamAssumption /\ Keys!KeyAssumption /\ Limiter!LimiterAssumption
    /\ Api!ApiAssumption /\ Deriv!LogAssumption /\ Client!TimesAssumption
    /\ Boot!CalendarAssumption /\ Minute!StreamAssumption /\ Log!LogAssumption

ArchiveOnly == which = "archive" /\ UNCHANGED <<which, bVars, mVars, lVars, sVars, kVars, rVars, iVars, dVars, hVars>>
BootOnly == which = "bootstrap" /\ UNCHANGED <<which, aVars, mVars, lVars, sVars, kVars, rVars, iVars, dVars, hVars>>
MinuteOnly == which = "minute" /\ UNCHANGED <<which, aVars, bVars, lVars, sVars, kVars, rVars, iVars, dVars, hVars>>
LogOnly == which = "log" /\ UNCHANGED <<which, aVars, bVars, mVars, sVars, kVars, rVars, iVars, dVars, hVars>>
StreamOnly == which = "stream" /\ UNCHANGED <<which, aVars, bVars, mVars, lVars, kVars, rVars, iVars, dVars, hVars>>
KeysOnly == which = "keys" /\ UNCHANGED <<which, aVars, bVars, mVars, lVars, sVars, rVars, iVars, dVars, hVars>>
LimiterOnly == which = "limiter" /\ UNCHANGED <<which, aVars, bVars, mVars, lVars, sVars, kVars, iVars, dVars, hVars>>
ApiOnly == which = "api" /\ UNCHANGED <<which, aVars, bVars, mVars, lVars, sVars, kVars, rVars, dVars, hVars>>
DerivativesOnly == which = "derivatives" /\ UNCHANGED <<which, aVars, bVars, mVars, lVars, sVars, kVars, rVars, iVars, hVars>>
ClientOnly == which = "client" /\ UNCHANGED <<which, aVars, bVars, mVars, lVars, sVars, kVars, rVars, iVars, dVars>>

Init ==
    /\ which \in {"archive", "bootstrap", "minute", "log", "stream", "keys", "limiter", "api", "derivatives", "client"}
    /\ Arch!Init /\ Boot!Init /\ Minute!Init /\ Log!Init /\ Stream!Init /\ Keys!Init /\ Limiter!Init /\ Api!Init /\ Deriv!Init /\ Client!Init
    \* one initial state of the components that do not move
    /\ which # "bootstrap" => bDir = [d \in WantedSessions |-> "none"] /\ bTrades = {}
    /\ which # "log" => lCandidate = [b \in 0..LastBar |-> 0]
Next ==
    \/ ArchiveOnly /\ Arch!Next
    \/ BootOnly /\ Boot!Next
    \/ MinuteOnly /\ Minute!Next
    \/ LogOnly /\ Log!Next
    \/ StreamOnly /\ Stream!Next
    \/ KeysOnly /\ Keys!Next
    \/ LimiterOnly /\ Limiter!Next
    \/ ApiOnly /\ Api!Next
    \/ DerivativesOnly /\ Deriv!Next
    \/ ClientOnly /\ Client!Next

Spec == Init /\ [][Next]_vars

\* The fairness of the microstructure stream, for its own steps.
Fairness ==
    /\ WF_mVars(which = "minute" /\ Minute!Tick) /\ WF_mVars(which = "minute" /\ Minute!Account)
    /\ WF_mVars(which = "minute" /\ Minute!Recorder) /\ WF_mVars(which = "minute" /\ Minute!Reader)
FairSpec == Spec /\ Fairness

-----------------------------------------------------------------------------
\* Every variable of every component has its type.
TypesOK ==
    /\ which = "archive" => Arch!TypeOK
    /\ which = "bootstrap" => Boot!TypeOK
    /\ which = "minute" => Minute!TypeOK
    /\ which = "log" => Log!TypeOK
    /\ which = "stream" => Stream!TypeOK
    /\ which = "keys" => Keys!TypeOK
    /\ which = "limiter" => Limiter!TypeOK
    /\ which = "api" => Api!TypeOK
    /\ which = "derivatives" => Deriv!TypeOK
    /\ which = "client" => Client!TypeOK

\* What was recorded, counted or streamed is not lost and not doubled: every packet is in a
\* bucket, a block or counted as dropped, a client has every passing event since its first
\* hello once, and a crash costs the derivatives log one minute at most.
NothingLost ==
    /\ which = "minute" => Minute!PacketsConserved
    /\ which = "stream" => Stream!NothingLost
    /\ which = "derivatives" => Deriv!LinesSurvive /\ Deriv!RecordedOnce

\* What is called complete is: the rows a manifest records, the instruments of an archived
\* session, the bar of a closed minute, the events of the minutes behind an engine, and the
\* parts of an answer, which are of one snapshot.
WholeOrNothing ==
    /\ which = "archive" => Arch!ManifestHonest
    /\ which = "bootstrap" => Boot!CompleteDays
    /\ which = "minute" => Minute!BarsFinal
    /\ which = "log" => Log!OneRun
    /\ which = "api" => Api!OfOneSnapshot

\* What must stay is not touched: a session's rows are archived before they are wiped, and a
\* day the live archive wrote is never replaced by a bootstrapped one.
NeverOverwritten == Arch!ArchivedBeforeWipe /\ Boot!LiveUntouched

\* The limits hold whatever the threads do: slots of streams and searches are returned, a
\* revoked key is refused, the rates are kept, a request whose send time was given after a 429
\* waits for the cooldown that 429 asked of all download threads, and the newest backups stay.
LimitsHeld ==
    /\ which = "stream" => Stream!SlotsHeld
    /\ which = "api" => Api!SlotsConserved
    /\ which = "keys" => Keys!RevokedRefused
    /\ which = "limiter" => Limiter!RateHeld
    /\ which = "client" => Client!RateKept /\ Client!CooldownShared
    /\ which = "derivatives" => Deriv!BackupsKept

\* The runner steps every minute that a whole block covers, however the recorder's appends and
\* the runner's reads overlap.
EveryMinuteStepped == which = "minute" => Minute!EveryMinuteStepped
-----------------------------------------------------------------------------
(* Least elements and sums over a set.                                       *)

\* A non-empty set of naturals has a least element.
LEMMA LeastNatural ==
    ASSUME NEW S \in SUBSET Nat, S # {}
    PROVE  \E p \in S : \A i \in S : p <= i
<1> DEFINE R == OpToRel(<, Nat)
<1>1. IsWellFoundedOn(R, Nat)
  BY NatLessThanWellFounded
<1>2. PICK p \in S : \A i \in S : <<i, p>> \notin R
  <2> HIDE DEF R
  <2> QED BY <1>1, WFMin
<1>3. ASSUME NEW i \in S PROVE p <= i
  <2>1. ~(i < p)
    BY <1>2 DEF OpToRel
  <2> QED BY <2>1
<1> QED BY <1>3

\* A non-empty set of naturals up to n has a greatest element.
LEMMA GreatestUpTo ==
    ASSUME NEW n \in Nat, NEW S \in SUBSET (0 .. n), S # {}
    PROVE  \E p \in S : \A i \in S : p >= i
<1> DEFINE Below == {n - k : k \in S}
<1>1. Below \in SUBSET Nat /\ Below # {}
  <2>1. \A k \in S : n - k \in Nat
    OBVIOUS
  <2> QED BY <2>1
<1>2. PICK q \in Below : \A i \in Below : q <= i
  <2> HIDE DEF Below
  <2> QED BY <1>1, LeastNatural
<1>3. PICK p \in S : q = n - p
  BY <1>2
<1>4. ASSUME NEW i \in S PROVE p >= i
  <2>1. n - p <= n - i
    BY <1>2, <1>3
  <2> QED BY <2>1
<1> QED BY <1>4

\* What a fold that takes the elements of a set one by one computes.
Adds(f, K, g) ==
    g = [s \in SUBSET K |-> IF s = {} THEN 0 ELSE LET x == CHOOSE x \in s : TRUE IN f[x] + g[s \ {x}]]

Summed(f, K) == (CHOOSE g : Adds(f, K, g))[K]

\* h is the sum of f over every part of K.
SumOf(f, K, h) ==
    h[{}] = 0 /\ \A s \in SUBSET K : \A x \in s : h[s] = f[x] + h[s \ {x}]

\* A sum does not depend on the order in which a fold takes the elements.
LEMMA SumIs ==
    ASSUME NEW K, IsFiniteSet(K), NEW f, NEW h \in [SUBSET K -> Nat], SumOf(f, K, h)
    PROVE  Summed(f, K) = h[K]
<1>1. Adds(f, K, h)
  <2>1. \A s \in SUBSET K : s # {} => (CHOOSE x \in s : TRUE) \in s
    OBVIOUS
  <2>2. \A s \in SUBSET K :
            h[s] = IF s = {} THEN 0 ELSE LET x == CHOOSE x \in s : TRUE IN f[x] + h[s \ {x}]
    BY <2>1 DEF SumOf
  <2> QED BY <2>2 DEF Adds
<1> DEFINE g == CHOOSE g : Adds(f, K, g)
<1>2. Adds(f, K, g)
  BY <1>1
<1> HIDE DEF g
<1> DEFINE Bad == {n \in Nat : \E s \in SUBSET K : Cardinality(s) = n /\ g[s] # h[s]}
<1>3. Bad = {}
  <2> SUFFICES ASSUME Bad # {} PROVE FALSE
    OBVIOUS
  <2>1. PICK n \in Bad : \A i \in Bad : n <= i
    BY LeastNatural
  <2>2. PICK s \in SUBSET K : Cardinality(s) = n /\ g[s] # h[s]
    BY <2>1
  <2>3. s # {}
    <3>1. g[{}] = 0 /\ h[{}] = 0
      BY <1>2 DEF Adds, SumOf
    <3> QED BY <2>2, <3>1
  <2> DEFINE x == CHOOSE x \in s : TRUE
  <2>4. x \in s
    BY <2>3
  <2>5. g[s] = f[x] + g[s \ {x}]
    BY <1>2, <2>3 DEF Adds
  <2>6. h[s] = f[x] + h[s \ {x}]
    BY <2>4 DEF SumOf
  <2> HIDE DEF x
  <2>7. IsFiniteSet(s) /\ Cardinality(s) \in Nat
    BY FS_Subset, FS_CardinalityType
  <2>8. IsFiniteSet(s \ {x}) /\ Cardinality(s \ {x}) = n - 1 /\ Cardinality(s \ {x}) \in Nat
    BY <2>2, <2>4, <2>7, FS_RemoveElement, FS_CardinalityType
  <2>9. n - 1 \notin Bad /\ n - 1 \in Nat
    <3>1. n \in Nat /\ n - 1 \in Nat /\ ~(n <= n - 1)
      BY <2>1, <2>8
    <3> HIDE DEF Bad
    <3> QED BY <2>1, <3>1
  <2>10. s \ {x} \in SUBSET K
    OBVIOUS
  <2>11. g[s \ {x}] = h[s \ {x}]
    BY <2>8, <2>9, <2>10
  <2> QED BY <2>2, <2>5, <2>6, <2>11
<1>4. Cardinality(K) \in Nat /\ K \in SUBSET K
  BY FS_CardinalityType
<1>5. g[K] = h[K]
  BY <1>3, <1>4
<1> QED BY <1>5 DEF g, Summed

-----------------------------------------------------------------------------
(* The keys.                                                                 *)

\* What a thread reads and caches is of the file's mtime it saw or newer, and nothing that was
\* valid before the key's revoke is about to be cached once a late verification has begun.
KeyStates == {"none", "valid", "revoked"}
LateInv(t) ==
    kLate[t] /\ kPc[t] # "idle" =>
        /\ kKey[t] \in kEnded
        /\ \A u \in Threads : kPc[u] = "store" => kData[u][kKey[t]] = "revoked"
        /\ kPc[t] = "copy" => kCache[2][kKey[t]] = "revoked"
        /\ kPc[t] = "check" => kData[t][kKey[t]] = "revoked"
KeyInv ==
    /\ kFile \in [ApiKeys -> KeyStates] /\ kMtime \in Nat
    /\ kCommand # None => kCommand \in [ApiKeys -> KeyStates] /\ \A k \in kEnded : kCommand[k] = "revoked"
    /\ kEnded = {k \in ApiKeys : kFile[k] = "revoked"}
    /\ kCache # None => kCache[1] \in Nat /\ kCache[1] <= kMtime /\ (kCache[1] = kMtime => kCache[2] = kFile)
    /\ kPc \in [Threads -> {"idle", "stat", "copy", "load", "store", "check"}]
    /\ kStat \in [Threads -> Nat] /\ kKey \in [Threads -> ApiKeys] /\ kLate \in [Threads -> BOOLEAN]
    /\ kData = [t \in Threads |-> kData[t]]
    /\ \A t \in Threads :
           /\ kPc[t] \in {"load", "store"} => kStat[t] <= kMtime
           /\ kPc[t] = "store" /\ kStat[t] = kMtime => kData[t] = kFile
           /\ LateInv(t)

LEMMA KeysSteady == KeyInv /\ [Keys!Next]_(Keys!vars) => KeyInv'
<1> SUFFICES ASSUME KeyInv, [Keys!Next]_(Keys!vars) PROVE KeyInv'
  OBVIOUS
<1> USE DEF LateInv
<1>1. ASSUME NEW k \in ApiKeys, NEW v \in KeyStates, kFile[k] # "revoked", kCommand' = [kFile EXCEPT ![k] = v],
             UNCHANGED <<kFile, kMtime, kCache, kEnded, kPc, kStat, kData, kKey, kLate>>
      PROVE  KeyInv'
  BY <1>1 DEF KeyInv
<1>2. CASE \E k \in ApiKeys : Keys!create(k) \/ Keys!revoke(k)
  <2> PICK k \in ApiKeys : Keys!create(k) \/ Keys!revoke(k)
    BY <1>2
  <2> QED BY <1>1 DEF Keys!create, Keys!revoke, Keys!thread, KeyStates
<1>3. CASE Keys!_save
  <2>1. /\ kCommand # None /\ kFile' = kCommand /\ kMtime' = kMtime + 1 /\ kCommand' = None
        /\ kEnded' = {k \in ApiKeys : kCommand[k] = "revoked"}
        /\ UNCHANGED <<kCache, kPc, kStat, kData, kKey, kLate>>
    BY <1>3 DEF Keys!_save, Keys!thread
  <2>2. kEnded \subseteq kEnded'
    BY <2>1 DEF KeyInv
  <2>3. \A t \in Threads : LateInv(t)'
    BY <2>1, <2>2 DEF KeyInv
  <2> QED BY <2>1, <2>3 DEF KeyInv
<1>4. ASSUME NEW t \in Threads, NEW k \in ApiKeys, Keys!verify(t, k) PROVE KeyInv'
  <2>1. /\ kPc' = [kPc EXCEPT ![t] = "stat"] /\ kKey' = [kKey EXCEPT ![t] = k]
        /\ kLate' = [kLate EXCEPT ![t] = k \in kEnded /\ \A u \in Threads : kPc[u] # "store"]
        /\ UNCHANGED <<kFile, kMtime, kCache, kCommand, kEnded, kStat, kData>>
    BY <1>4 DEF Keys!verify
  <2>2. kLate' \in [Threads -> BOOLEAN]
    BY <2>1, Zenon DEF KeyInv
  <2>3. kLate'[t] => k \in kEnded /\ \A u \in Threads : kPc[u] # "store"
    BY <2>1 DEF KeyInv
  <2>4. \A u \in Threads \ {t} : kLate'[u] = kLate[u]
    BY <2>1 DEF KeyInv
  <2>5. \A u \in Threads : LateInv(u)'
    BY <2>1, <2>3, <2>4 DEF KeyInv
  <2> QED BY <2>1, <2>2, <2>5 DEF KeyInv
<1>5. ASSUME NEW t \in Threads, Keys!Stat(t) PROVE KeyInv'
  <2>1. /\ kPc[t] = "stat" /\ kStat' = [kStat EXCEPT ![t] = kMtime]
        /\ kPc' = [kPc EXCEPT ![t] = IF kCache # None /\ kCache[1] = kMtime THEN "copy" ELSE "load"]
        /\ UNCHANGED <<kFile, kMtime, kCache, kCommand, kEnded, kData, kKey, kLate>>
    BY <1>5 DEF Keys!Stat, Keys!Fresh
  <2>2. \A u \in Threads : LateInv(u)'
    BY <2>1 DEF KeyInv
  <2> QED BY <2>1, <2>2 DEF KeyInv
<1>6. ASSUME NEW t \in Threads, Keys!Copy(t) PROVE KeyInv'
  <2>1. /\ kPc[t] = "copy" /\ kPc' = [kPc EXCEPT ![t] = "check"] /\ kData' = [kData EXCEPT ![t] = kCache[2]]
        /\ UNCHANGED <<kFile, kMtime, kCache, kCommand, kEnded, kStat, kKey, kLate>>
    BY <1>6 DEF Keys!Copy
  <2>2. \A u \in Threads : LateInv(u)'
    BY <2>1 DEF KeyInv
  <2> QED BY <2>1, <2>2 DEF KeyInv
<1>7. ASSUME NEW t \in Threads, Keys!Load(t) PROVE KeyInv'
  <2>1. /\ kPc[t] = "load" /\ kPc' = [kPc EXCEPT ![t] = "store"] /\ kData' = [kData EXCEPT ![t] = kFile]
        /\ UNCHANGED <<kFile, kMtime, kCache, kCommand, kEnded, kStat, kKey, kLate>>
    BY <1>7 DEF Keys!Load
  <2>2. \A u \in Threads : LateInv(u)'
    BY <2>1 DEF KeyInv
  <2> QED BY <2>1, <2>2 DEF KeyInv
<1>8. ASSUME NEW t \in Threads, Keys!Store(t) PROVE KeyInv'
  <2>1. /\ kPc[t] = "store" /\ kPc' = [kPc EXCEPT ![t] = "check"]
        /\ kCache' = <<kStat[t], kData[t]>> /\ kCache'[1] = kStat[t] /\ kCache'[2] = kData[t]
        /\ UNCHANGED <<kFile, kMtime, kCommand, kEnded, kStat, kData, kKey, kLate>>
    BY <1>8 DEF Keys!Store, Keys!Tag
  <2>2. \A u \in Threads : LateInv(u)'
    BY <2>1 DEF KeyInv
  <2> QED BY <2>1, <2>2 DEF KeyInv
<1>9. ASSUME NEW t \in Threads, Keys!Check(t) PROVE KeyInv'
  BY <1>9 DEF Keys!Check, KeyInv
<1>10. CASE UNCHANGED Keys!vars
  BY <1>10 DEF Keys!vars, KeyInv
<1> QED BY <1>2, <1>3, <1>4, <1>5, <1>6, <1>7, <1>8, <1>9, <1>10 DEF Keys!Next

\* A verification that begins after the key's revoke has returned refuses the key, whatever
\* copy the threads left in the cache (keys.KeyStore._load, verify).
LEMMA RevokedKeysRefused == Spec => [](KeyInv /\ Keys!RevokedRefused)
<1>1. Init => KeyInv
  <2>1. ApiKeys # {}
    BY InstanceAssumption DEF Keys!KeyAssumption
  <2> QED BY <2>1 DEF Init, Keys!Init, KeyInv, LateInv, KeyStates
<1>2. [Next]_vars => [Keys!Next]_(Keys!vars)
  BY DEF Next, vars, kVars, ArchiveOnly, BootOnly, MinuteOnly, LogOnly, StreamOnly, KeysOnly, LimiterOnly,
         ApiOnly, DerivativesOnly, ClientOnly, Keys!vars, Keys!thread
<1>3. KeyInv => Keys!RevokedRefused
  BY DEF KeyInv, LateInv, Keys!RevokedRefused, Keys!Accepts
<1> QED BY <1>1, <1>2, <1>3, KeysSteady, PTL DEF Spec

-----------------------------------------------------------------------------
(* The rate limiter.                                                         *)

\* What is in the bucket and what was taken out of it fit the burst and the refill up to the
\* bucket's clock, although that clock may go back.
LimiterInv ==
    /\ rNow \in Nat /\ rAllowed \in Nat /\ Limiter!RateHeld
    /\ rRead = [t \in Threads |-> rRead[t]] /\ \A t \in Threads : rRead[t] # None => rRead[t] \in 0 .. rNow
    /\ IF rBucket = None THEN rAllowed = 0
       ELSE /\ rBucket \in Int \X (0 .. rNow)
            /\ rBucket[1] + rAllowed * Unit <= Burst * Unit + rBucket[2] * Rate

\* The rate is kept in whatever order the threads' clock readings reach the bucket
\* (keys.RateLimiter.check).
LEMMA RateIsHeld == Spec => [](LimiterInv /\ Limiter!RateHeld)
<1>0. Burst \in Nat /\ Unit \in Nat /\ Rate \in Nat /\ None \notin Int \X Int
  BY InstanceAssumption DEF Limiter!LimiterAssumption
<1>1. Init => LimiterInv
  <2>1. Burst * Unit \in Nat /\ 0 * Unit = 0 /\ 0 * Rate = 0
    BY <1>0
  <2> QED BY <2>1 DEF Init, Limiter!Init, LimiterInv, Limiter!RateHeld
<1>2. [Next]_vars => [Limiter!Next]_(Limiter!vars)
  BY DEF Next, vars, rVars, ArchiveOnly, BootOnly, MinuteOnly, LogOnly, StreamOnly, KeysOnly, LimiterOnly,
         ApiOnly, DerivativesOnly, ClientOnly, Limiter!vars
<1>3. LimiterInv /\ [Limiter!Next]_(Limiter!vars) => LimiterInv'
  <2> SUFFICES ASSUME LimiterInv, [Limiter!Next]_(Limiter!vars) PROVE LimiterInv'
    OBVIOUS
  <2>1. CASE Limiter!Tick
    <3>1. rNow' = rNow + 1 /\ UNCHANGED <<rRead, rBucket, rAllowed>>
      BY <2>1 DEF Limiter!Tick
    <3>2. (rNow + 1) * Rate >= rNow * Rate /\ rNow * Rate \in Nat /\ (rNow + 1) * Rate \in Nat /\ rAllowed * Unit \in Nat
          /\ Burst * Unit \in Nat
      <4>1. (rNow + 1) * Rate = rNow * Rate + Rate
        BY <1>0 DEF LimiterInv
      <4> QED BY <1>0, <4>1 DEF LimiterInv
    <3> QED BY <1>0, <3>1, <3>2 DEF LimiterInv, Limiter!RateHeld
  <2>2. ASSUME NEW t \in Threads, Limiter!ReadClock(t) PROVE LimiterInv'
    BY <2>2 DEF Limiter!ReadClock, LimiterInv, Limiter!RateHeld
  <2>3. ASSUME NEW t \in Threads, Limiter!check(t) PROVE LimiterInv'
    <3> DEFINE m == rRead[t]
               tokens == Limiter!Refilled(m)
    <3>1. /\ m \in 0 .. rNow /\ rNow' = rNow /\ rRead' = [rRead EXCEPT ![t] = None]
          /\ IF tokens >= Unit THEN rBucket' = <<tokens - Unit, m>> /\ rAllowed' = rAllowed + 1
             ELSE rBucket' = <<tokens, m>> /\ rAllowed' = rAllowed
      BY <2>3 DEF Limiter!check, LimiterInv
    <3>2. m * Rate \in Nat /\ rNow * Rate \in Nat /\ m * Rate <= rNow * Rate
      <4>1. rNow * Rate = m * Rate + (rNow - m) * Rate /\ (rNow - m) * Rate \in Nat
        BY <1>0, <3>1 DEF LimiterInv
      <4> QED BY <1>0, <3>1, <4>1 DEF LimiterInv
    <3>3. rAllowed * Unit \in Nat /\ (rAllowed + 1) * Unit = rAllowed * Unit + Unit /\ Burst * Unit \in Nat
      BY <1>0 DEF LimiterInv
    <3>4. tokens \in Int /\ tokens + rAllowed * Unit <= Burst * Unit + m * Rate
      <4>1. CASE rBucket = None
        <5>1. 0 * Unit = 0
          BY <1>0
        <5> QED BY <3>2, <3>3, <4>1, <5>1 DEF Limiter!Refilled, LimiterInv
      <4>2. CASE rBucket # None
        <5> DEFINE more == rBucket[1] + (m - rBucket[2]) * Rate
        <5>1. rBucket[1] \in Int /\ rBucket[2] \in 0 .. rNow
          BY <4>2 DEF LimiterInv
        <5>2. (m - rBucket[2]) * Rate = m * Rate - rBucket[2] * Rate /\ rBucket[2] * Rate \in Int
          BY <1>0, <3>1, <5>1
        <5>3. more \in Int /\ more + rAllowed * Unit <= Burst * Unit + m * Rate
          BY <3>2, <3>3, <4>2, <5>1, <5>2 DEF LimiterInv
        <5>4. tokens = Limiter!Min({Burst * Unit, more})
          BY <4>2 DEF Limiter!Refilled
        <5> HIDE DEF more
        <5>5. tokens \in Int /\ tokens <= more
          BY <3>3, <5>3, <5>4 DEF Limiter!Min
        <5> QED BY <3>2, <3>3, <5>3, <5>5
      <4> QED BY <4>1, <4>2
    <3> HIDE DEF tokens
    <3>5. Limiter!RateHeld'
      BY <1>0, <3>1, <3>2, <3>3, <3>4 DEF LimiterInv, Limiter!RateHeld
    <3>6. rBucket' # None /\ rBucket' \in Int \X (0 .. rNow) /\ rBucket'[2] = m
          /\ rBucket'[1] + rAllowed' * Unit <= Burst * Unit + m * Rate
      <4>1. CASE tokens >= Unit
        <5>1. rBucket' = <<tokens - Unit, m>> /\ rAllowed' = rAllowed + 1 /\ tokens - Unit \in Int
          BY <1>0, <3>1, <3>4, <4>1
        <5>2. rBucket' \in Int \X (0 .. rNow) /\ rBucket' \in Int \X Int /\ rBucket'[1] = tokens - Unit /\ rBucket'[2] = m
          BY <3>1, <5>1
        <5> QED BY <1>0, <3>2, <3>3, <3>4, <5>1, <5>2
      <4>2. CASE ~(tokens >= Unit)
        <5>1. rBucket' = <<tokens, m>> /\ rAllowed' = rAllowed
          BY <3>1, <4>2
        <5>2. rBucket' \in Int \X (0 .. rNow) /\ rBucket' \in Int \X Int /\ rBucket'[1] = tokens /\ rBucket'[2] = m
          BY <3>1, <3>4, <5>1
        <5> QED BY <1>0, <3>2, <3>3, <3>4, <5>1, <5>2
      <4> QED BY <4>1, <4>2
    <3> QED BY <3>1, <3>5, <3>6 DEF LimiterInv
  <2>4. CASE UNCHANGED Limiter!vars
    BY <2>4 DEF Limiter!vars, LimiterInv, Limiter!RateHeld
  <2> QED BY <2>1, <2>2, <2>3, <2>4 DEF Limiter!Next
<1>4. LimiterInv => Limiter!RateHeld
  BY DEF LimiterInv
<1> QED BY <1>1, <1>2, <1>3, <1>4, PTL DEF Spec

-----------------------------------------------------------------------------
(* The limiter of the history downloads.                                     *)

\* Requests sent, and send times given for a moment t or before it.
Pending(t) == {k \in Workers : hWorker[k].pc = "slot" /\ hWorker[k].at <= t}
Given == {k \in Workers : hWorker[k].pc = "slot"}
Thread == [pc : {"idle", "slot", "sent", "again"}, at : Int, attempt : Int]
\* Send times are an interval apart: by any moment t no more are sent or due than fit before
\* it, and the limiter's next send time lies behind all that it has given.
ClientInv ==
    /\ hNow \in Nat /\ hNext_at \in Nat /\ hPosts \in Nat /\ hCooled \in Int /\ hCooled <= hNext_at
    /\ hWorker \in [Workers -> Thread] /\ Client!CooldownShared
    /\ \A k \in Given : hWorker[k].at + Interval <= hNext_at
    /\ Interval * (hPosts + Cardinality(Given)) <= hNext_at
    /\ \A t \in Nat : hNow <= t => Interval * (hPosts + Cardinality(Pending(t)) - 1) <= t

LEMMA ClientFinite == IsFiniteSet(Workers)
BY InstanceAssumption DEF Client!TimesAssumption, Client!IsFiniteSet, IsFiniteSet

LEMMA PendingFinite ==
    /\ IsFiniteSet(Given) /\ Cardinality(Given) \in Nat
    /\ \A t : IsFiniteSet(Pending(t)) /\ Cardinality(Pending(t)) \in Nat /\ Cardinality(Pending(t)) <= Cardinality(Given)
<1>1. IsFiniteSet(Workers) /\ Given \subseteq Workers /\ \A t : Pending(t) \subseteq Given
  BY ClientFinite DEF Given, Pending
<1>2. IsFiniteSet(Given) /\ Cardinality(Given) \in Nat
  BY <1>1, FS_Subset, FS_CardinalityType
<1> QED BY <1>1, <1>2, FS_Subset, FS_CardinalityType

\* A larger count needs more time.
LEMMA Paced == ASSUME NEW a \in Int, NEW b \in Int, a <= b PROVE Interval * a <= Interval * b
<1>1. Interval \in Nat
  BY InstanceAssumption DEF Client!TimesAssumption
<1>2. Interval * b = Interval * a + Interval * (b - a) /\ Interval * (b - a) >= 0
  BY <1>1
<1>3. Interval * a \in Int /\ Interval * b \in Int /\ Interval * (b - a) \in Int
  BY <1>1
<1> QED BY <1>2, <1>3

LEMMA ClientSteady == ClientInv /\ [Client!Next]_(Client!vars) => ClientInv'
<1> SUFFICES ASSUME ClientInv, [Client!Next]_(Client!vars) PROVE ClientInv'
  OBVIOUS
<1>0. /\ Interval \in Nat /\ RetryAfter \subseteq Nat /\ Pauses \subseteq Nat /\ MaxAttempts \in Nat
  BY InstanceAssumption DEF Client!TimesAssumption
<1>1. /\ IsFiniteSet(Given) /\ Cardinality(Given) \in Nat
      /\ \A t : IsFiniteSet(Pending(t)) /\ Cardinality(Pending(t)) \in Nat /\ Cardinality(Pending(t)) <= Cardinality(Given)
  BY PendingFinite
\* A thread ends its attempt or goes on with the next: no send time is taken or given.
<1>2. ASSUME NEW k \in Workers, NEW r \in Thread, hWorker' = [hWorker EXCEPT ![k] = r], r.pc # "slot",
             hWorker[k].pc # "slot", hNow' = hNow, hPosts' = hPosts, hNext_at' \in Nat, hNext_at' >= hNext_at,
             hCooled' \in Int, hCooled' <= hNext_at', Client!CooldownShared'
      PROVE  ClientInv'
  <2>1. hWorker' \in [Workers -> Thread] /\ Given' = Given /\ \A t : Pending(t)' = Pending(t)
    BY <1>2 DEF ClientInv, Given, Pending
  <2>2. \A j \in Given' : hWorker'[j].at + Interval <= hNext_at'
    <3> TAKE j \in Given'
    <3>1. j \in Given /\ j \in Workers /\ j # k /\ hWorker'[j] = hWorker[j] /\ hWorker[j].at \in Int
      BY <1>2, <2>1 DEF ClientInv, Given, Thread
    <3> QED BY <1>0, <1>2, <3>1 DEF ClientInv
  <2>3. Interval * (hPosts' + Cardinality(Given')) <= hNext_at'
    <3>1. Interval * (hPosts + Cardinality(Given)) \in Nat
      BY <1>0, <1>1 DEF ClientInv
    <3> QED BY <1>2, <2>1, <3>1 DEF ClientInv
  <2> QED BY <1>2, <2>1, <2>2, <2>3 DEF ClientInv
<1>3. CASE Client!Tick
  <2>1. hNow' = hNow + 1 /\ UNCHANGED <<hNext_at, hWorker, hPosts, hCooled, hEarly>>
    BY <1>3 DEF Client!Tick
  <2>2. Given' = Given /\ \A t : Pending(t)' = Pending(t)
    BY <2>1 DEF Given, Pending
  <2> QED BY <2>1, <2>2 DEF ClientInv, Client!CooldownShared
<1>4. CASE \/ UNCHANGED Client!vars
           \/ \E env \in Client!Credentials, allow_generate \in BOOLEAN, plan \in {"active", "other"} :
                  Client!preflight(env, allow_generate, plan)
  <2>1. UNCHANGED <<hNow, hNext_at, hWorker, hPosts, hCooled, hEarly>>
    BY <1>4 DEF Client!preflight, Client!vars
  <2>2. Given' = Given /\ \A t : Pending(t)' = Pending(t)
    BY <2>1 DEF Given, Pending
  <2> QED BY <2>1, <2>2 DEF ClientInv, Client!CooldownShared
<1>5. ASSUME NEW k \in Workers, Client!acquire(k) PROVE ClientInv'
  <2> DEFINE at == Client!Slot
             r == hWorker'[k]
  <2>0. hNow \in Nat /\ hNext_at \in Nat /\ hWorker[k] \in Thread
    BY DEF ClientInv
  <2>1. /\ at \in Nat /\ at >= hNow /\ at >= hNext_at /\ hNext_at' = at + Interval
        /\ hNow' = hNow /\ hPosts' = hPosts /\ hCooled' = hCooled /\ hEarly' = hEarly \ {k}
        /\ hWorker[k].pc # "slot"
    BY <1>0, <1>5, <2>0 DEF Client!acquire, Client!Slot, Client!Later
  <2>2. hWorker' = [hWorker EXCEPT ![k].pc = "slot", ![k].at = at]
    BY <1>5 DEF Client!acquire
  <2> HIDE DEF at
  <2>3. /\ hWorker' \in [Workers -> Thread] /\ \A j \in Workers \ {k} : hWorker'[j] = hWorker[j]
        /\ r.pc = "slot" /\ r.at = at
    <3>1. hWorker \in [Workers -> Thread] /\ at \in Int
      BY <2>1 DEF ClientInv
    <3>2. /\ r = [pc |-> "slot", at |-> at, attempt |-> hWorker[k].attempt]
          /\ \A j \in Workers \ {k} : hWorker'[j] = hWorker[j]
          /\ hWorker' = [j \in Workers |-> hWorker'[j]]
      BY <2>0, <2>2, <3>1 DEF Thread
    <3> QED BY <2>0, <3>1, <3>2 DEF Thread
  <2> HIDE DEF r
  <2>4. k \notin Given /\ Given' = Given \cup {k} /\ Cardinality(Given') = Cardinality(Given) + 1
    <3>1. k \notin Given /\ Given' = Given \cup {k}
      BY <2>1, <2>3 DEF Given, r
    <3> QED BY <1>1, <3>1, FS_AddElement
  <2>5. Interval * (hPosts + (Cardinality(Given) + 1)) = Interval * (hPosts + Cardinality(Given)) + Interval
        /\ Interval * (hPosts + Cardinality(Given)) \in Nat
    BY <1>0, <1>1 DEF ClientInv
  <2>6. hNext_at' \in Nat /\ hNext_at' >= hNext_at
    BY <1>0, <2>1 DEF ClientInv
  <2>7. Interval * (hPosts' + Cardinality(Given')) <= hNext_at'
    BY <1>0, <1>1, <2>1, <2>4, <2>5 DEF ClientInv
  <2>8. \A j \in Given' : hWorker'[j].at + Interval <= hNext_at'
    <3> TAKE j \in Given'
    <3>1. CASE j = k
      BY <1>0, <2>1, <2>3, <3>1 DEF r
    <3>2. CASE j # k
      <4>1. j \in Given /\ j \in Workers /\ hWorker'[j] = hWorker[j] /\ hWorker[j].at \in Int
        BY <2>3, <2>4, <3>2 DEF ClientInv, Given, Thread
      <4> QED BY <1>0, <2>6, <4>1 DEF ClientInv
    <3> QED BY <3>1, <3>2
  <2>9. ASSUME NEW t \in Nat, hNow' <= t
        PROVE  Interval * (hPosts' + Cardinality(Pending(t)') - 1) <= t
    <3>1. CASE t < at
      <4>1. Pending(t)' = Pending(t)
        BY <2>1, <2>3, <2>9, <3>1 DEF Pending, r
      <4> QED BY <2>1, <2>9, <4>1 DEF ClientInv
    <3>2. CASE t >= at
      <4>1. Pending(t)' \subseteq Given'
        BY DEF Pending, Given
      <4>2. Cardinality(Pending(t)') \in Nat /\ Cardinality(Pending(t)') <= Cardinality(Given) + 1
        <5>1. IsFiniteSet(Given')
          BY <1>1, <2>4, FS_AddElement
        <5>2. IsFiniteSet(Pending(t)') /\ Cardinality(Pending(t)') <= Cardinality(Given')
          BY <4>1, <5>1, FS_Subset
        <5> QED BY <2>4, <5>2, FS_CardinalityType
      <4>3. Interval * (hPosts + Cardinality(Pending(t)') - 1) <= Interval * (hPosts + Cardinality(Given))
        BY <1>1, <4>2, Paced DEF ClientInv
      <4>4. Interval * (hPosts + Cardinality(Pending(t)') - 1) \in Int /\ Interval * (hPosts + Cardinality(Given)) \in Int
        BY <1>0, <1>1, <4>2 DEF ClientInv
      <4> QED BY <2>1, <3>2, <4>3, <4>4 DEF ClientInv
    <3> QED BY <2>1, <3>1, <3>2
  <2>10. Client!CooldownShared'
    <3> SUFFICES ASSUME NEW j \in Workers, hWorker'[j].pc = "slot", j \notin hEarly' PROVE hWorker'[j].at >= hCooled'
      BY DEF Client!CooldownShared
    <3>1. CASE j = k
      BY <2>1, <2>3, <3>1 DEF ClientInv, r
    <3>2. CASE j # k
      BY <2>1, <2>3, <3>2 DEF ClientInv, Client!CooldownShared
    <3> QED BY <3>1, <3>2
  <2>11. hCooled' <= hNext_at'
    BY <2>1, <2>6 DEF ClientInv
  <2> QED BY <2>1, <2>3, <2>6, <2>7, <2>8, <2>9, <2>10, <2>11 DEF ClientInv
<1>6. ASSUME NEW k \in Workers, Client!Send(k) PROVE ClientInv'
  <2>0. hWorker[k] \in Thread
    BY DEF ClientInv
  <2>1. /\ hNow' = hNow /\ hNext_at' = hNext_at /\ hPosts' = hPosts + 1 /\ hCooled' = hCooled /\ hEarly' = hEarly
        /\ hWorker[k].pc = "slot" /\ hNow >= hWorker[k].at
    BY <1>6 DEF Client!Send
  <2>2. hWorker' = [hWorker EXCEPT ![k].pc = "sent", ![k].attempt = hWorker[k].attempt + 1]
    BY <1>6 DEF Client!Send
  <2>3. /\ hWorker' \in [Workers -> Thread] /\ \A j \in Workers \ {k} : hWorker'[j] = hWorker[j]
        /\ hWorker'[k].pc = "sent"
    BY <2>0, <2>2 DEF ClientInv, Thread
  <2>4. k \in Given /\ Given' = Given \ {k} /\ Cardinality(Given') = Cardinality(Given) - 1
    <3>1. k \in Given /\ Given' = Given \ {k}
      BY <2>1, <2>3 DEF Given
    <3> QED BY <1>1, <3>1, FS_RemoveElement
  <2>5. hPosts' + Cardinality(Given') = hPosts + Cardinality(Given)
    BY <1>1, <2>1, <2>4 DEF ClientInv
  <2>6. \A j \in Given' : hWorker'[j].at + Interval <= hNext_at'
    BY <2>1, <2>3, <2>4 DEF ClientInv, Given
  <2>7. ASSUME NEW t \in Nat, hNow' <= t
        PROVE  Interval * (hPosts' + Cardinality(Pending(t)') - 1) <= t
    <3>1. hWorker[k].at <= t
      BY <2>1, <2>7 DEF ClientInv, Thread
    <3>2. k \in Pending(t) /\ Pending(t)' = Pending(t) \ {k}
      BY <2>1, <2>3, <3>1 DEF Pending
    <3>3. Cardinality(Pending(t)') = Cardinality(Pending(t)) - 1
      BY <1>1, <3>2, FS_RemoveElement
    <3>4. hPosts' + Cardinality(Pending(t)') - 1 = hPosts + Cardinality(Pending(t)) - 1
      BY <1>1, <2>1, <3>3 DEF ClientInv
    <3> QED BY <2>1, <2>7, <3>4 DEF ClientInv
  <2>8. Client!CooldownShared'
    BY <2>1, <2>3 DEF ClientInv, Client!CooldownShared
  <2> QED BY <2>1, <2>3, <2>5, <2>6, <2>7, <2>8 DEF ClientInv
<1>7. ASSUME NEW k \in Workers, Client!Answered(k) \/ Client!Unauthorised(k) PROVE ClientInv'
  <2>1. Client!Idle \in Thread /\ Client!Idle.pc # "slot"
    BY DEF Client!Idle, Thread
  <2>2. /\ hWorker[k].pc = "sent" /\ hWorker' = [hWorker EXCEPT ![k] = Client!Idle]
        /\ UNCHANGED <<hNow, hNext_at, hPosts, hCooled, hEarly>>
    BY <1>7 DEF Client!Answered, Client!Unauthorised
  <2>3. Client!CooldownShared'
    BY <2>1, <2>2 DEF ClientInv, Client!CooldownShared
  <2>4. /\ hWorker[k].pc # "slot" /\ hNext_at' \in Nat /\ hNext_at' >= hNext_at /\ hCooled' \in Int
        /\ hCooled' <= hNext_at'
    BY <2>2 DEF ClientInv
  <2> QED BY <1>2, <2>1, <2>2, <2>3, <2>4
<1>8. ASSUME NEW k \in Workers, NEW pause \in Pauses, Client!Failed(k, pause) PROVE ClientInv'
  <2> DEFINE r == Client!Again(k, hNow + pause)
  <2>1. r \in Thread /\ r.pc # "slot"
    BY <1>0 DEF Client!Again, Client!Idle, Thread, ClientInv
  <2>2. /\ hWorker[k].pc = "sent" /\ hWorker' = [hWorker EXCEPT ![k] = r]
        /\ UNCHANGED <<hNow, hNext_at, hPosts, hCooled, hEarly>>
    BY <1>8 DEF Client!Failed
  <2> HIDE DEF r
  <2>3. Client!CooldownShared'
    BY <2>1, <2>2 DEF ClientInv, Client!CooldownShared
  <2>4. /\ hWorker[k].pc # "slot" /\ hNext_at' \in Nat /\ hNext_at' >= hNext_at /\ hCooled' \in Int
        /\ hCooled' <= hNext_at'
    BY <2>2 DEF ClientInv
  <2> QED BY <1>2, <2>1, <2>2, <2>3, <2>4
<1>9. ASSUME NEW k \in Workers, NEW seconds \in RetryAfter, Client!RateLimited(k, seconds) PROVE ClientInv'
  <2> DEFINE r == Client!Again(k, hNow)
  <2>1. r \in Thread /\ r.pc # "slot"
    BY <1>0 DEF Client!Again, Client!Idle, Thread, ClientInv
  <2>2. /\ hWorker[k].pc = "sent" /\ hWorker' = [hWorker EXCEPT ![k] = r] /\ hNow' = hNow /\ hPosts' = hPosts
        /\ hEarly' = hEarly \cup {j \in Workers : hWorker[j].pc = "slot"}
        /\ hNext_at' = Client!Later(hNext_at, hNow + seconds) /\ hCooled' = Client!Later(hCooled, hNow + seconds)
    BY <1>9 DEF Client!RateLimited, Client!cool_down
  <2> HIDE DEF r
  <2>3. hNext_at' \in Nat /\ hNext_at' >= hNext_at /\ hCooled' \in Int /\ hCooled' <= hNext_at'
    BY <1>0, <2>2 DEF Client!Later, ClientInv
  <2>4. Client!CooldownShared'
    BY <2>1, <2>2 DEF ClientInv, Client!CooldownShared
  <2>5. hWorker[k].pc # "slot"
    BY <2>2
  <2> QED BY <1>2, <2>1, <2>2, <2>3, <2>4, <2>5
<1> QED BY <1>3, <1>4, <1>5, <1>6, <1>7, <1>8, <1>9 DEF Client!Next

\* "At most rate requests per second across all workers", and a shared cooldown: for any
\* number of worker threads, any rate and any waits, whatever is retried and however late
\* threads wake (history_bootstrap._RateLimiter, HistoryClient.post).
LEMMA DownloadsPaced == Spec => [](ClientInv /\ Client!RateKept /\ Client!CooldownShared)
<1>1. Init => ClientInv
  <2>1. CASE Init
    <3>1. hWorker = [k \in Workers |-> Client!Idle] /\ hNow = 0 /\ hNext_at = 0 /\ hPosts = 0 /\ hCooled = 0
      BY <2>1 DEF Init, Client!Init
    <3>2. Client!Idle \in Thread /\ Client!Idle.pc = "idle"
      BY DEF Client!Idle, Thread
    <3>3. Given = {} /\ \A t : Pending(t) = {}
      BY <3>1, <3>2 DEF Given, Pending
    <3>4. Cardinality({}) = 0
      BY FS_EmptySet
    <3>5. Interval \in Nat
      BY InstanceAssumption DEF Client!TimesAssumption
    <3>6. Client!CooldownShared
      BY <3>1, <3>2 DEF Client!CooldownShared
    <3>7. Interval * (0 + 0) <= 0 /\ \A t \in Nat : Interval * (0 + 0 - 1) <= t
      BY <3>5
    <3> QED BY <3>1, <3>2, <3>3, <3>4, <3>6, <3>7 DEF ClientInv
  <2> QED BY <2>1
<1>2. [Next]_vars => [Client!Next]_(Client!vars)
  BY DEF Next, vars, hVars, ArchiveOnly, BootOnly, MinuteOnly, LogOnly, StreamOnly, KeysOnly, LimiterOnly,
         ApiOnly, DerivativesOnly, ClientOnly, Client!vars
<1>3. ClientInv => Client!RateKept /\ Client!CooldownShared
  <2> SUFFICES ASSUME ClientInv PROVE Interval * (hPosts - 1) <= hNow
    BY DEF ClientInv, Client!RateKept
  <2>1. Cardinality(Pending(hNow)) \in Nat
    BY PendingFinite
  <2>2. Interval * (hPosts + Cardinality(Pending(hNow)) - 1) <= hNow
    BY DEF ClientInv
  <2>3. Interval * (hPosts - 1) <= Interval * (hPosts + Cardinality(Pending(hNow)) - 1)
    BY <2>1, Paced DEF ClientInv
  <2>4. Interval * (hPosts - 1) \in Int /\ Interval * (hPosts + Cardinality(Pending(hNow)) - 1) \in Int
    BY <2>1, InstanceAssumption DEF ClientInv, Client!TimesAssumption
  <2> QED BY <2>2, <2>3, <2>4 DEF ClientInv
<1> QED BY <1>1, <1>2, <1>3, ClientSteady, PTL DEF Spec

-----------------------------------------------------------------------------
(* The backups of the event store.                                           *)

\* No backup is of a day to come, so the pruning after today's never takes today's.
BackupInv ==
    /\ dNow \in Nat \ {0} /\ dBackups \subseteq Nat
    /\ \A d \in dBackups : d <= Deriv!DayOf(dNow)
    /\ Deriv!BackupsKept

\* The newest BackupKeep of a set of days, and no more.
LEMMA PrunedBound ==
    ASSUME NEW days \in SUBSET Nat, NEW n \in Nat, \A d \in days : d <= n
    PROVE  Deriv!Cardinality(Deriv!Pruned(days)) <= BackupKeep
<1> DEFINE kept == Deriv!Pruned(days)
<1>0. \A S : Deriv!Cardinality(S) = Cardinality(S)
  BY DEF Deriv!Cardinality, Cardinality
<1>1. BackupKeep \in Nat \ {0}
  BY InstanceAssumption DEF Deriv!LogAssumption
<1>2. kept = {d \in days : Cardinality({e \in days : e > d}) < BackupKeep}
  BY <1>0 DEF Deriv!Pruned
<1> HIDE DEF kept
<1>3. IsFiniteSet(days)
  BY FS_BoundedSetOfNaturals
<1>4. CASE kept = {}
  BY <1>0, <1>1, <1>4, FS_EmptySet DEF kept
<1>5. CASE kept # {}
  <2>1. kept \in SUBSET Nat
    BY <1>2
  <2>2. PICK first \in kept : \A d \in kept : first <= d
    BY <1>5, <2>1, LeastNatural
  <2> DEFINE later == {e \in days : e > first}
  <2>3. IsFiniteSet(later) /\ Cardinality(later) \in Nat /\ Cardinality(later) < BackupKeep
    <3>1. later \in SUBSET days
      OBVIOUS
    <3> QED BY <1>2, <1>3, <2>2, <3>1, FS_Subset, FS_CardinalityType
  <2>4. kept \subseteq later \cup {first}
    BY <1>2, <2>1, <2>2
  <2> HIDE DEF later
  <2>5. /\ IsFiniteSet(later \cup {first}) /\ Cardinality(later \cup {first}) <= Cardinality(later) + 1
        /\ Cardinality(later \cup {first}) \in Nat
    <3>1. /\ IsFiniteSet(later \cup {first})
          /\ \/ Cardinality(later \cup {first}) = Cardinality(later)
             \/ Cardinality(later \cup {first}) = Cardinality(later) + 1
      BY <2>3, FS_AddElement
    <3> QED BY <2>3, <3>1
  <2>6. Cardinality(kept) <= Cardinality(later \cup {first}) /\ Cardinality(kept) \in Nat
    BY <2>4, <2>5, FS_Subset, FS_CardinalityType
  <2> QED BY <1>0, <1>1, <2>3, <2>5, <2>6 DEF kept
<1> QED BY <1>4, <1>5

\* A day the runner calls backed up has its backup, and the newest stay
\* (live.LiveRunner.housekeeping, backup).
LEMMA BackupsAreKept == Spec => [](BackupInv /\ Deriv!BackupsKept)
<1>0. DayMinutes \in Nat \ {0} /\ BackupKeep \in Nat \ {0}
  BY InstanceAssumption DEF Deriv!LogAssumption
<1>1. Init => BackupInv
  <2>1. Deriv!Cardinality({}) = 0
    BY FS_EmptySet DEF Deriv!Cardinality, Cardinality
  <2> QED BY <1>0, <2>1 DEF Init, Deriv!Init, BackupInv, Deriv!BackupsKept
<1>2. [Next]_vars => [Deriv!Next]_(Deriv!vars)
  BY DEF Next, vars, dVars, ArchiveOnly, BootOnly, MinuteOnly, LogOnly, StreamOnly, KeysOnly, LimiterOnly,
         ApiOnly, DerivativesOnly, ClientOnly, Deriv!vars, Deriv!keeping
<1>3. BackupInv /\ [Deriv!Next]_(Deriv!vars) => BackupInv'
  <2> SUFFICES ASSUME BackupInv, [Deriv!Next]_(Deriv!vars) PROVE BackupInv'
    OBVIOUS
  <2> DEFINE today == Deriv!DayOf(dNow)
  <2>0. today \in Nat /\ Deriv!DayOf(dNow + 1) \in Nat /\ today <= Deriv!DayOf(dNow + 1)
    BY <1>0, Z3 DEF BackupInv, Deriv!DayOf
  <2>1. CASE Deriv!Minute
    <3>1. dNow' = dNow + 1 /\ UNCHANGED <<dBackups, dBacked_up>>
      BY <2>1 DEF Deriv!Minute, Deriv!keeping
    <3>2. \A d \in dBackups : d <= Deriv!DayOf(dNow + 1)
      BY <2>0 DEF BackupInv
    <3> QED BY <3>1, <3>2 DEF BackupInv, Deriv!BackupsKept, Deriv!DayOf
  <2>2. ASSUME dNow' = dNow, dBackups' = dBackups, dBacked_up' \in {dBacked_up, None} PROVE BackupInv'
    BY <2>2 DEF BackupInv, Deriv!BackupsKept, Deriv!DayOf
  <2>3. CASE Deriv!housekeeping
    <3>1. CASE Deriv!backup(today)
      <4> DEFINE days == dBackups \cup {today}
      <4>1. dNow' = dNow /\ dBackups' = Deriv!Pruned(days) /\ dBacked_up' = today
        BY <2>3, <3>1 DEF Deriv!housekeeping, Deriv!backup
      <4>2. days \in SUBSET Nat /\ \A d \in days : d <= today
        <5>1. dBackups \subseteq Nat /\ (\A d \in dBackups : d <= today) /\ today \in Nat
          BY <2>0 DEF BackupInv
        <5> HIDE DEF today
        <5> QED BY <5>1
      <4> HIDE DEF today
      <4>3. Deriv!Cardinality(dBackups') <= BackupKeep
        BY <2>0, <4>1, <4>2, PrunedBound
      <4>4. dBackups' \subseteq days
        BY <4>1 DEF Deriv!Pruned
      <4>5. today \in dBackups'
        <5>1. {e \in days : e > today} = {}
          BY <2>0, <4>2
        <5>2. Deriv!Cardinality({}) = 0
          BY FS_EmptySet DEF Deriv!Cardinality, Cardinality
        <5> QED BY <1>0, <4>1, <5>1, <5>2 DEF Deriv!Pruned
      <4> HIDE DEF days
      <4>6. \A d \in dBackups' : d <= Deriv!DayOf(dNow)
        BY <4>2, <4>4 DEF today
      <4> QED BY <4>1, <4>2, <4>3, <4>4, <4>5, <4>6 DEF BackupInv, Deriv!BackupsKept, Deriv!DayOf
    <3>2. CASE UNCHANGED <<dBackups, dBacked_up>>
      BY <2>2, <2>3, <3>2 DEF Deriv!housekeeping
    <3> QED BY <2>3, <3>1, <3>2 DEF Deriv!housekeeping
  <2>4. CASE \/ Deriv!record_derivatives \/ Deriv!Skip \/ Deriv!AppendLine \/ Deriv!AppendChain \/ Deriv!Marked
             \/ Deriv!AppendFails \/ Deriv!Crash \/ Deriv!Restart \/ UNCHANGED Deriv!vars
    BY <2>2, <2>4 DEF Deriv!record_derivatives, Deriv!Skip, Deriv!AppendLine, Deriv!AppendChain, Deriv!Marked,
       Deriv!AppendFails, Deriv!Crash, Deriv!Restart, Deriv!vars, Deriv!keeping
  <2> QED BY <2>1, <2>3, <2>4 DEF Deriv!Next
<1>4. BackupInv => Deriv!BackupsKept
  BY DEF BackupInv
<1> QED BY <1>1, <1>2, <1>3, <1>4, PTL DEF Spec

-----------------------------------------------------------------------------
(* The slots of the similarity searches.                                     *)

Searching == {q \in Requests : iReq[q].pc = "search"}
Asked(pc, route, seen, reply) == [pc |-> pc, route |-> route, seen |-> seen, reply |-> reply]
\* q's record becomes r and the others keep theirs.
Becomes(q, r) ==
    /\ iReq' = [p \in Requests |-> iReq'[p]]
    /\ iReq'[q] = r /\ \A p \in Requests \ {q} : iReq'[p] = iReq[p]

\* What the record updates of the handlers make of a request's record.
LEMMA RequestUpdates ==
    ASSUME NEW q \in Requests, iReq = [p \in Requests |-> iReq[p]], NEW v, NEW w, NEW x,
           iReq[q] = Asked(iReq[q].pc, iReq[q].route, iReq[q].seen, iReq[q].reply)
    PROVE  /\ iReq' = [iReq EXCEPT ![q].pc = v]
                   => Becomes(q, Asked(v, iReq[q].route, iReq[q].seen, iReq[q].reply))
           /\ iReq' = [iReq EXCEPT ![q].pc = v, ![q].route = w]
                   => Becomes(q, Asked(v, w, iReq[q].seen, iReq[q].reply))
           /\ iReq' = [iReq EXCEPT ![q].pc = v, ![q].seen = w]
                   => Becomes(q, Asked(v, iReq[q].route, w, iReq[q].reply))
           /\ iReq' = [iReq EXCEPT ![q].pc = v, ![q].reply = w]
                   => Becomes(q, Asked(v, iReq[q].route, iReq[q].seen, w))
           /\ iReq' = [iReq EXCEPT ![q].pc = v, ![q].seen = w, ![q].reply = x]
                   => Becomes(q, Asked(v, iReq[q].route, w, x))
           /\ iReq' = [iReq EXCEPT ![q] = v] => Becomes(q, v)
<1>1. ASSUME iReq' = [iReq EXCEPT ![q].pc = v]
      PROVE  Becomes(q, Asked(v, iReq[q].route, iReq[q].seen, iReq[q].reply))
  BY <1>1 DEF Becomes, Asked
<1>2. ASSUME iReq' = [iReq EXCEPT ![q].pc = v, ![q].route = w]
      PROVE  Becomes(q, Asked(v, w, iReq[q].seen, iReq[q].reply))
  BY <1>2 DEF Becomes, Asked
<1>3. ASSUME iReq' = [iReq EXCEPT ![q].pc = v, ![q].seen = w]
      PROVE  Becomes(q, Asked(v, iReq[q].route, w, iReq[q].reply))
  BY <1>3 DEF Becomes, Asked
<1>4. ASSUME iReq' = [iReq EXCEPT ![q].pc = v, ![q].reply = w]
      PROVE  Becomes(q, Asked(v, iReq[q].route, iReq[q].seen, w))
  BY <1>4 DEF Becomes, Asked
<1>5. ASSUME iReq' = [iReq EXCEPT ![q].pc = v, ![q].seen = w, ![q].reply = x]
      PROVE  Becomes(q, Asked(v, iReq[q].route, w, x))
  BY <1>5 DEF Becomes, Asked
<1>6. ASSUME iReq' = [iReq EXCEPT ![q] = v] PROVE Becomes(q, v)
  BY <1>6 DEF Becomes
<1> QED BY <1>1, <1>2, <1>3, <1>4, <1>5, <1>6

\* How a request's record changes when it answers, is refused or goes on.
LEMMA RequestMoves ==
    ASSUME iReq = [p \in Requests |-> Asked(iReq[p].pc, iReq[p].route, iReq[p].seen, iReq[p].reply)],
           NEW q \in Requests
    PROVE  /\ \A reply : Api!Answered(q, reply)
                  => Becomes(q, Asked("done", iReq[q].route, IF iReq[q].seen = None THEN reply.at ELSE iReq[q].seen, reply))
           /\ Api!Refused(q) => Becomes(q, Asked("idle", None, None, None))
           /\ \A to : Api!Goes(q, to) => Becomes(q, Asked(to, iReq[q].route, iReq[q].seen, iReq[q].reply))
<1>0. iReq = [p \in Requests |-> iReq[p]] /\ iReq[q] = Asked(iReq[q].pc, iReq[q].route, iReq[q].seen, iReq[q].reply)
  BY Zenon
<1>1. ASSUME NEW reply, Api!Answered(q, reply)
      PROVE  Becomes(q, Asked("done", iReq[q].route, IF iReq[q].seen = None THEN reply.at ELSE iReq[q].seen, reply))
  <2> DEFINE seen == IF iReq[q].seen = None THEN reply.at ELSE iReq[q].seen
  <2>1. iReq' = [iReq EXCEPT ![q].pc = "done", ![q].seen = seen, ![q].reply = reply]
    BY <1>1 DEF Api!Answered
  <2> HIDE DEF seen
  <2>2. Becomes(q, Asked("done", iReq[q].route, seen, reply))
    BY <1>0, <2>1, RequestUpdates
  <2> QED BY <2>2 DEF seen
<1>2. ASSUME Api!Refused(q) PROVE Becomes(q, Asked("idle", None, None, None))
  <2>1. iReq' = [iReq EXCEPT ![q] = Asked("idle", None, None, None)]
    BY <1>2 DEF Api!Refused, Api!Idle, Asked
  <2> QED BY <1>0, <2>1, RequestUpdates
<1>3. ASSUME NEW to, Api!Goes(q, to) PROVE Becomes(q, Asked(to, iReq[q].route, iReq[q].seen, iReq[q].reply))
  BY <1>0, <1>3, RequestUpdates DEF Api!Goes
<1> QED BY <1>1, <1>2, <1>3

SearchInv ==
    /\ iReq = [q \in Requests |-> Asked(iReq[q].pc, iReq[q].route, iReq[q].seen, iReq[q].reply)]
    /\ \A q \in Requests : iReq[q].pc = "current" => iReq[q].route # "search"
    /\ iSlots \in Nat /\ iSlots + Cardinality(Searching) = Slots

\* A request that takes a slot begins to search, one that ends its search gives it back, and
\* the others have none.
LEMMA SlotsMove ==
    ASSUME SearchInv, NEW q \in Requests, NEW pc, NEW route, NEW seen, NEW reply,
           Becomes(q, Asked(pc, route, seen, reply)), pc = "current" => route # "search",
           \/ iSlots' = iSlots /\ pc # "search" /\ iReq[q].pc # "search"
           \/ iSlots' = iSlots - 1 /\ iSlots > 0 /\ pc = "search" /\ iReq[q].pc # "search"
           \/ iSlots' = iSlots + 1 /\ pc # "search" /\ iReq[q].pc = "search"
    PROVE  SearchInv'
<1>1. IsFiniteSet(Searching) /\ Cardinality(Searching) \in Nat
  <2>1. IsFiniteSet(Requests)
    BY InstanceAssumption DEF Api!ApiAssumption, Api!IsFiniteSet, IsFiniteSet
  <2> QED BY <2>1, FS_Subset, FS_CardinalityType DEF Searching
<1>2. iReq'[q] = Asked(pc, route, seen, reply) /\ \A p \in Requests \ {q} : iReq'[p] = iReq[p]
  BY DEF Becomes
<1>3. iReq' = [p \in Requests |-> Asked(iReq'[p].pc, iReq'[p].route, iReq'[p].seen, iReq'[p].reply)]
  <2>1. \A p \in Requests : iReq'[p] = Asked(iReq'[p].pc, iReq'[p].route, iReq'[p].seen, iReq'[p].reply)
    <3>1. iReq'[q] = Asked(iReq'[q].pc, iReq'[q].route, iReq'[q].seen, iReq'[q].reply)
      BY <1>2 DEF Asked
    <3>2. \A p \in Requests : iReq[p] = Asked(iReq[p].pc, iReq[p].route, iReq[p].seen, iReq[p].reply)
      BY Zenon DEF SearchInv
    <3> QED BY <1>2, <3>1, <3>2
  <2> QED BY <2>1 DEF Becomes
<1>4. iReq'[q].pc = pc /\ \A p \in Requests : iReq'[p].pc = "current" => iReq'[p].route # "search"
  BY <1>2 DEF SearchInv, Asked
<1>5. CASE iSlots' = iSlots /\ pc # "search" /\ iReq[q].pc # "search"
  <2>1. Searching' = Searching
    BY <1>2, <1>4, <1>5 DEF Searching
  <2> QED BY <1>3, <1>4, <1>5, <2>1 DEF SearchInv
<1>6. CASE iSlots' = iSlots - 1 /\ iSlots > 0 /\ pc = "search" /\ iReq[q].pc # "search"
  <2>1. Searching' = Searching \cup {q} /\ q \notin Searching
    BY <1>2, <1>4, <1>6 DEF Searching
  <2>2. Cardinality(Searching') = Cardinality(Searching) + 1
    BY <1>1, <2>1, FS_AddElement
  <2> QED BY <1>1, <1>3, <1>4, <1>6, <2>2 DEF SearchInv
<1>7. CASE iSlots' = iSlots + 1 /\ pc # "search" /\ iReq[q].pc = "search"
  <2>1. Searching' = Searching \ {q} /\ q \in Searching
    BY <1>2, <1>4, <1>7 DEF Searching
  <2>2. Cardinality(Searching') = Cardinality(Searching) - 1
    BY <1>1, <2>1, FS_RemoveElement
  <2> QED BY <1>1, <1>3, <1>4, <1>7, <2>2 DEF SearchInv
<1> QED BY <1>5, <1>6, <1>7

\* Whatever fails and whoever gives up waiting, no slot is lost (api.similar, search_slots).
LEMMA SlotsAreConserved == Spec => [](SearchInv /\ Api!SlotsConserved)
<1>0. \A S : Api!Cardinality(S) = Cardinality(S)
  BY DEF Api!Cardinality, Cardinality
<1>1. Init => SearchInv
  <2> SUFFICES ASSUME Init PROVE SearchInv
    OBVIOUS
  <2>1. iSlots = Slots /\ iReq = [q \in Requests |-> Asked("idle", None, None, None)]
    BY DEF Init, Api!Init, Api!Idle, Asked
  <2>2. Searching = {} /\ \A q \in Requests : iReq[q] = Asked("idle", None, None, None) /\ iReq[q].pc = "idle"
    BY <2>1 DEF Searching, Asked
  <2>3. iReq = [q \in Requests |-> Asked(iReq[q].pc, iReq[q].route, iReq[q].seen, iReq[q].reply)]
    BY <2>1, <2>2 DEF Asked
  <2>4. Slots \in Nat
    BY InstanceAssumption DEF Api!ApiAssumption
  <2> QED BY <2>1, <2>2, <2>3, <2>4, FS_EmptySet DEF SearchInv
<1>2. [Next]_vars => [Api!Next]_(Api!vars)
  BY DEF Next, vars, iVars, ArchiveOnly, BootOnly, MinuteOnly, LogOnly, StreamOnly, KeysOnly, LimiterOnly,
         ApiOnly, DerivativesOnly, ClientOnly, Api!vars, Api!model
<1>3. SearchInv /\ [Api!Next]_(Api!vars) => SearchInv'
  <2> SUFFICES ASSUME SearchInv, [Api!Next]_(Api!vars) PROVE SearchInv'
    OBVIOUS
  <2> USE DEF Api!At, Api!Seen
  <2>0. /\ iReq = [p \in Requests |-> iReq[p]]
        /\ \A q \in Requests : iReq[q] = Asked(iReq[q].pc, iReq[q].route, iReq[q].seen, iReq[q].reply)
    <3>1. iReq = [p \in Requests |-> Asked(iReq[p].pc, iReq[p].route, iReq[p].seen, iReq[p].reply)]
      BY DEF SearchInv
    <3> QED BY <3>1, Zenon
  <2>1. ASSUME NEW q \in Requests, NEW reply, Api!Answered(q, reply)
        PROVE  \E seen : Becomes(q, Asked("done", iReq[q].route, seen, reply))
    BY <2>1, RequestMoves DEF SearchInv
  <2>2. ASSUME NEW q \in Requests, Api!Refused(q)
        PROVE  Becomes(q, Asked("idle", None, None, None))
    BY <2>2, RequestMoves DEF SearchInv
  <2>3. ASSUME NEW q \in Requests, NEW to, Api!Goes(q, to)
        PROVE  Becomes(q, Asked(to, iReq[q].route, iReq[q].seen, iReq[q].reply))
    BY <2>3, RequestMoves DEF SearchInv
  \* A request answers, is refused or goes on, and no slot changes hands.
  <2>4. ASSUME NEW q \in Requests, iReq[q].pc # "search", iSlots' = iSlots,
               \/ \E reply : Api!Answered(q, reply)
               \/ Api!Refused(q)
               \/ \E to : to # "search" /\ to # "current" /\ Api!Goes(q, to)
        PROVE  SearchInv'
    <3>1. CASE \E reply : Api!Answered(q, reply)
      BY <2>1, <2>4, <3>1, SlotsMove
    <3>2. CASE Api!Refused(q)
      BY <2>2, <2>4, <3>2, SlotsMove
    <3>3. CASE \E to : to # "search" /\ to # "current" /\ Api!Goes(q, to)
      BY <2>3, <2>4, <3>3, SlotsMove
    <3> QED BY <2>4, <3>1, <3>2, <3>3
  <2>5. ASSUME iReq' = iReq, iSlots' = iSlots PROVE SearchInv'
    BY <2>5 DEF SearchInv, Searching
  <2>6. CASE Api!_publish \/ (\E session \in Api!Sessions : Api!_build(session)) \/ UNCHANGED Api!vars
    BY <2>5, <2>6 DEF Api!_publish, Api!_build, Api!vars, Api!service
  <2>7. ASSUME NEW q \in Requests, Api!authenticate(q) PROVE SearchInv'
    <3>1. CASE \E r \in Api!Routes : iReq' = [iReq EXCEPT ![q].pc = "current", ![q].route = r]
      <4> PICK r \in Api!Routes : iReq' = [iReq EXCEPT ![q].pc = "current", ![q].route = r]
        BY <3>1
      <4>3. Becomes(q, Asked("current", r, iReq[q].seen, iReq[q].reply))
        BY <2>0, RequestUpdates
      <4>4. r # "search" /\ iReq[q].pc # "search" /\ iSlots' = iSlots
        BY <2>7 DEF Api!authenticate, Api!service, Api!Routes
      <4> QED BY <4>3, <4>4, SlotsMove
    <3> QED BY <2>4, <2>7, <3>1 DEF Api!authenticate, Api!service
  <2>8. ASSUME NEW q \in Requests, Api!current(q) PROVE SearchInv'
    <3>1. CASE iReq[q].route # "snapshot" /\ iReq' = [iReq EXCEPT ![q].pc = iReq[q].route, ![q].seen = iSnapshot]
      <4> DEFINE to == iReq[q].route
      <4>3. Becomes(q, Asked(to, to, iSnapshot, iReq[q].reply))
        BY <2>0, <3>1, RequestUpdates
      <4>4. to # "search" /\ iReq[q].pc # "search" /\ iSlots' = iSlots
        BY <2>8 DEF Api!current, Api!service, SearchInv
      <4> HIDE DEF to
      <4> QED BY <4>3, <4>4, SlotsMove
    <3> QED BY <2>4, <2>8, <3>1 DEF Api!current, Api!service
  <2>9. ASSUME NEW q \in Requests, Api!get(q) PROVE SearchInv'
    BY <2>4, <2>9 DEF Api!get
  <2>10. ASSUME NEW q \in Requests, Api!acquire(q) PROVE SearchInv'
    <3>1. Becomes(q, Asked("search", iReq[q].route, iReq[q].seen, iReq[q].reply))
      BY <2>3, <2>10 DEF Api!acquire
    <3> QED BY <2>10, <3>1, SlotsMove DEF Api!acquire
  <2>11. ASSUME NEW q \in Requests, Api!Search(q) PROVE SearchInv'
    <3>1. iSlots' = iSlots + 1 /\ iReq[q].pc = "search" /\ (Api!Goes(q, "put") \/ Api!Refused(q))
      BY <2>11 DEF Api!Search, Api!Released
    <3>2. CASE Api!Goes(q, "put")
      BY <2>3, <3>1, <3>2, SlotsMove
    <3>3. CASE Api!Refused(q)
      BY <2>2, <3>1, <3>3, SlotsMove
    <3> QED BY <3>1, <3>2, <3>3
  <2>12. ASSUME NEW q \in Requests, Api!Busy(q) \/ Api!put(q) \/ Api!_minute(q) \/ Api!Views(q) \/ Api!Sent(q)
         PROVE  SearchInv'
    <3>1. iReq[q].pc # "search" /\ iSlots' = iSlots
      BY <2>12 DEF Api!Busy, Api!put, Api!_minute, Api!Views, Api!Sent, Api!service
    <3>2. \/ \E reply : Api!Answered(q, reply)
          \/ Api!Refused(q)
          \/ Api!Goes(q, "model")
      BY <2>12 DEF Api!Busy, Api!put, Api!_minute, Api!Views, Api!Sent
    <3> QED BY <2>4, <3>1, <3>2
  <2>13. ASSUME NEW q \in Requests, Api!_model(q) PROVE SearchInv'
    <3> DEFINE reply == Api!Reply(None, iReq[q].seen, Api!ModelStatus(iReq[q].seen[1]))
    <3>1. /\ iReq[q].pc # "search" /\ iSlots' = iSlots
          /\ iReq' = [iReq EXCEPT ![q].pc = "views", ![q].reply = reply]
      BY <2>13 DEF Api!_model
    <3> HIDE DEF reply
    <3>3. Becomes(q, Asked("views", iReq[q].route, iReq[q].seen, reply))
      BY <2>0, <3>1, RequestUpdates
    <3> QED BY <3>1, <3>3, SlotsMove
  <2> QED BY <2>6, <2>7, <2>8, <2>9, <2>10, <2>11, <2>12, <2>13 DEF Api!Next, Api!Step
<1>4. SearchInv => Api!SlotsConserved
  BY <1>0 DEF SearchInv, Api!SlotsConserved, Searching, Api!At
<1> QED BY <1>1, <1>2, <1>3, <1>4, PTL DEF Spec

\* A ready model is only claimed for a session whose build has ended.
Claims(at, status) == status = "READY" => at[1] \in iBuilt
\* A request that has its parts has them of the snapshot it read.
Coherent(r) ==
    /\ r.pc = "current" => r.route \in Api!Routes
    /\ r.pc \in {"idle", "current"} => r.seen = None
    /\ r.pc \in {"views", "done"} => r.reply.at = r.seen /\ Claims(r.seen, r.reply.status)
AnswerInv ==
    /\ iReq = [q \in Requests |-> Asked(iReq[q].pc, iReq[q].route, iReq[q].seen, iReq[q].reply)]
    /\ iModels \subseteq iBuilt
    /\ iMinute # None => Claims(iMinute.at, iMinute.status)
    /\ \A q \in Requests : Coherent(iReq[q])

\* One request moves and stays coherent; what was built stays built.
LEMMA AnswersMove ==
    ASSUME AnswerInv, NEW q \in Requests, NEW pc, NEW route, NEW seen, NEW reply,
           Becomes(q, Asked(pc, route, seen, reply)),
           pc = "current" => route \in Api!Routes, pc \in {"idle", "current"} => seen = None,
           pc \in {"views", "done"} => reply.at = seen /\ Claims(seen, reply.status),
           iBuilt' = iBuilt, iModels' = iModels,
           iMinute' = iMinute \/ (iMinute' # None => Claims(iMinute'.at, iMinute'.status))
    PROVE  AnswerInv'
<1>1. iReq'[q] = Asked(pc, route, seen, reply) /\ \A p \in Requests \ {q} : iReq'[p] = iReq[p]
  BY DEF Becomes
<1>2. iReq' = [p \in Requests |-> Asked(iReq'[p].pc, iReq'[p].route, iReq'[p].seen, iReq'[p].reply)]
  <2>1. \A p \in Requests : iReq'[p] = Asked(iReq'[p].pc, iReq'[p].route, iReq'[p].seen, iReq'[p].reply)
    <3>1. iReq'[q] = Asked(iReq'[q].pc, iReq'[q].route, iReq'[q].seen, iReq'[q].reply)
      BY <1>1 DEF Asked
    <3>2. \A p \in Requests : iReq[p] = Asked(iReq[p].pc, iReq[p].route, iReq[p].seen, iReq[p].reply)
      BY Zenon DEF AnswerInv
    <3> QED BY <1>1, <3>1, <3>2
  <2> QED BY <2>1 DEF Becomes
<1>3. Coherent(iReq[q])'
  BY <1>1 DEF Coherent, Claims, Asked, Api!Routes
<1>4. \A p \in Requests \ {q} : Coherent(iReq[p])'
  BY <1>1 DEF AnswerInv, Coherent, Claims, Api!Routes
<1> QED BY <1>2, <1>3, <1>4 DEF AnswerInv, Claims

\* An answer is of the snapshot its request read, whatever the others and the builds do
\* meanwhile (api.similar and its cache, research.ResearchViews).
LEMMA AnswersAreOfOneSnapshot == Spec => [](AnswerInv /\ Api!OfOneSnapshot)
<1>0. None # "READY"
  BY InstanceAssumption DEF Api!ApiAssumption
<1>1. Init => AnswerInv
  <2> SUFFICES ASSUME Init PROVE AnswerInv
    OBVIOUS
  <2>1. iReq = [q \in Requests |-> Asked("idle", None, None, None)] /\ iModels = {} /\ iMinute = None
    BY DEF Init, Api!Init, Api!Idle, Asked
  <2>2. \A q \in Requests : iReq[q] = Asked("idle", None, None, None) /\ iReq[q].pc = "idle" /\ iReq[q].seen = None
    BY <2>1 DEF Asked
  <2>3. iReq = [q \in Requests |-> Asked(iReq[q].pc, iReq[q].route, iReq[q].seen, iReq[q].reply)]
    BY <2>1, <2>2 DEF Asked
  <2> QED BY <2>1, <2>2, <2>3 DEF AnswerInv, Coherent
<1>2. [Next]_vars => [Api!Next]_(Api!vars)
  BY DEF Next, vars, iVars, ArchiveOnly, BootOnly, MinuteOnly, LogOnly, StreamOnly, KeysOnly, LimiterOnly,
         ApiOnly, DerivativesOnly, ClientOnly, Api!vars, Api!model
<1>3. AnswerInv /\ [Api!Next]_(Api!vars) => AnswerInv'
  <2> SUFFICES ASSUME AnswerInv, [Api!Next]_(Api!vars) PROVE AnswerInv'
    OBVIOUS
  <2> USE DEF Api!At, Api!Seen
  <2>0. iReq = [p \in Requests |-> Asked(iReq[p].pc, iReq[p].route, iReq[p].seen, iReq[p].reply)]
    BY DEF AnswerInv
  \* A request that goes on, gives up or answers with a coherent reply.
  <2>1. ASSUME NEW q \in Requests, iBuilt' = iBuilt, iModels' = iModels,
               iMinute' = iMinute \/ (iMinute' # None => Claims(iMinute'.at, iMinute'.status)),
               \/ Api!Refused(q)
               \/ \E to : to \notin {"idle", "current", "views", "done"} /\ Api!Goes(q, to)
               \/ \E reply : /\ Api!Answered(q, reply) /\ Claims(reply.at, reply.status)
                             /\ iReq[q].seen \in {None, reply.at}
        PROVE  AnswerInv'
    <3>1. CASE Api!Refused(q)
      BY <2>0, <2>1, <3>1, RequestMoves, AnswersMove
    <3>2. ASSUME NEW to, to \notin {"idle", "current", "views", "done"}, Api!Goes(q, to) PROVE AnswerInv'
      BY <2>0, <2>1, <3>2, RequestMoves, AnswersMove
    <3>3. ASSUME NEW reply, Api!Answered(q, reply), Claims(reply.at, reply.status), iReq[q].seen \in {None, reply.at}
          PROVE  AnswerInv'
      <4>1. Becomes(q, Asked("done", iReq[q].route, reply.at, reply))
        BY <2>0, <3>3, RequestMoves
      <4> QED BY <2>1, <3>3, <4>1, AnswersMove
    <3> QED BY <2>1, <3>1, <3>2, <3>3
  <2>2. CASE Api!_publish \/ UNCHANGED Api!vars
    BY <2>2 DEF Api!_publish, Api!vars, Api!service, Api!model, AnswerInv, Coherent, Claims, Api!Routes
  <2>3. ASSUME NEW session \in Api!Sessions, Api!_build(session) PROVE AnswerInv'
    <3>1. iReq' = iReq /\ iMinute' = iMinute /\ iBuilt \subseteq iBuilt' /\ iModels' \subseteq iBuilt'
      BY <2>3 DEF Api!_build, Api!Kept, AnswerInv
    <3> QED BY <3>1 DEF AnswerInv, Coherent, Claims, Api!Routes
  <2>4. ASSUME NEW q \in Requests, Api!authenticate(q) PROVE AnswerInv'
    <3>0. iBuilt' = iBuilt /\ iModels' = iModels /\ iMinute' = iMinute /\ iReq[q].seen = None
      BY <2>4 DEF Api!authenticate, Api!service, Api!model, AnswerInv, Coherent
    <3>1. ASSUME NEW r \in Api!Routes, iReq' = [iReq EXCEPT ![q].pc = "current", ![q].route = r] PROVE AnswerInv'
      <4>1. Becomes(q, Asked("current", r, iReq[q].seen, iReq[q].reply))
        <5>1. iReq = [p \in Requests |-> iReq[p]] /\ iReq[q] = Asked(iReq[q].pc, iReq[q].route, iReq[q].seen, iReq[q].reply)
          BY <2>0, Zenon
        <5> QED BY <3>1, <5>1, RequestUpdates
      <4> QED BY <3>0, <4>1, AnswersMove
    <3> QED BY <2>1, <2>4, <3>0, <3>1 DEF Api!authenticate
  <2>5. ASSUME NEW q \in Requests, Api!current(q) PROVE AnswerInv'
    <3>0. iBuilt' = iBuilt /\ iModels' = iModels /\ iMinute' = iMinute /\ iReq[q].pc = "current"
      BY <2>5 DEF Api!current, Api!service, Api!model
    <3>1. CASE iReq[q].route # "snapshot" /\ iReq' = [iReq EXCEPT ![q].pc = iReq[q].route, ![q].seen = iSnapshot]
      <4> DEFINE to == iReq[q].route
      <4>1. to \in {"similar", "research"}
        BY <3>0, <3>1 DEF AnswerInv, Coherent, Api!Routes
      <4>2. Becomes(q, Asked(to, to, iSnapshot, iReq[q].reply))
        <5>1. iReq = [p \in Requests |-> iReq[p]] /\ iReq[q] = Asked(iReq[q].pc, iReq[q].route, iReq[q].seen, iReq[q].reply)
          BY <2>0, Zenon
        <5> QED BY <3>1, <5>1, RequestUpdates
      <4> HIDE DEF to
      <4> QED BY <3>0, <4>1, <4>2, AnswersMove
    <3>2. CASE Api!Answered(q, Api!Reply(200, iSnapshot, None))
      <4>1. Claims(iSnapshot, None) /\ iReq[q].seen = None
        BY <1>0, <3>0 DEF Claims, AnswerInv, Coherent
      <4>2. Api!Reply(200, iSnapshot, None).at = iSnapshot /\ Api!Reply(200, iSnapshot, None).status = None
        BY DEF Api!Reply
      <4> QED BY <2>1, <3>0, <3>2, <4>1, <4>2
    <3> QED BY <2>1, <2>5, <3>0, <3>1, <3>2 DEF Api!current
  <2>6. ASSUME NEW at PROVE /\ Api!Reply(200, at, None).at = at /\ Api!Reply(200, at, None).status = None
                            /\ Claims(at, None)
    BY <1>0 DEF Api!Reply, Claims
  <2>7. ASSUME NEW q \in Requests, Api!get(q) PROVE AnswerInv'
    <3>0. iBuilt' = iBuilt /\ iModels' = iModels /\ iMinute' = iMinute
      BY <2>7 DEF Api!get, Api!model
    <3>1. ASSUME NEW e \in Api!Entries(iReq[q].seen), Api!Answered(q, Api!Reply(200, e, None)) PROVE AnswerInv'
      <4>1. e = iReq[q].seen
        BY <3>1 DEF Api!Entries, Api!CacheKey
      <4> QED BY <2>1, <2>6, <3>0, <3>1, <4>1
    <3> QED BY <2>1, <2>7, <3>0, <3>1 DEF Api!get
  <2>8. ASSUME NEW q \in Requests, Api!acquire(q) \/ Api!Busy(q) \/ Api!Search(q) \/ Api!Sent(q) PROVE AnswerInv'
    BY <2>1, <2>8 DEF Api!acquire, Api!Busy, Api!Search, Api!Sent, Api!service, Api!model
  <2>9. ASSUME NEW q \in Requests, Api!put(q) PROVE AnswerInv'
    <3>1. iBuilt' = iBuilt /\ iModels' = iModels /\ iMinute' = iMinute
          /\ Api!Answered(q, Api!Reply(200, iReq[q].seen, None))
      BY <2>9 DEF Api!put, Api!model
    <3> QED BY <2>1, <2>6, <3>1
  <2>10. ASSUME NEW q \in Requests, Api!_minute(q) PROVE AnswerInv'
    <3>0. iBuilt' = iBuilt /\ iModels' = iModels /\ iMinute' = iMinute
      BY <2>10 DEF Api!_minute, Api!service, Api!model
    <3>1. CASE iMinute # None /\ iMinute.at = iReq[q].seen /\ Api!Answered(q, Api!ViewOf(iMinute))
      <4>1. Api!ViewOf(iMinute).at = iMinute.at /\ Api!ViewOf(iMinute).status = iMinute.status
        BY DEF Api!ViewOf, Api!Reply
      <4>2. Claims(iMinute.at, iMinute.status)
        BY <3>1 DEF AnswerInv
      <4> QED BY <2>1, <3>0, <3>1, <4>1, <4>2
    <3> QED BY <2>1, <2>10, <3>0, <3>1 DEF Api!_minute
  <2>11. ASSUME NEW q \in Requests, Api!_model(q) PROVE AnswerInv'
    <3> DEFINE status == Api!ModelStatus(iReq[q].seen[1])
               reply == Api!Reply(None, iReq[q].seen, status)
    <3>1. /\ iBuilt' = iBuilt /\ iModels' = iModels /\ iMinute' = iMinute
          /\ iReq' = [iReq EXCEPT ![q].pc = "views", ![q].reply = reply]
      BY <2>11 DEF Api!_model
    <3>2. reply.at = iReq[q].seen /\ reply.status = status
      BY DEF Api!Reply
    <3>3. Claims(iReq[q].seen, status)
      BY DEF Api!ModelStatus, Claims, AnswerInv
    <3> HIDE DEF reply, status
    <3>4. Becomes(q, Asked("views", iReq[q].route, iReq[q].seen, reply))
      <4>1. iReq = [p \in Requests |-> iReq[p]] /\ iReq[q] = Asked(iReq[q].pc, iReq[q].route, iReq[q].seen, iReq[q].reply)
        BY <2>0, Zenon
      <4> QED BY <3>1, <4>1, RequestUpdates
    <3> QED BY <3>1, <3>2, <3>3, <3>4, AnswersMove
  <2>12. ASSUME NEW q \in Requests, Api!Views(q) PROVE AnswerInv'
    <3>1. /\ iBuilt' = iBuilt /\ iModels' = iModels /\ iReq[q].pc = "views"
          /\ iMinute' = [at |-> iReq[q].seen, status |-> iReq[q].reply.status]
          /\ Api!Answered(q, Api!ViewOf(iMinute'))
      BY <2>12 DEF Api!Views, Api!model
    <3>2. Api!ViewOf(iMinute').at = iReq[q].seen /\ Api!ViewOf(iMinute').status = iReq[q].reply.status
      BY <3>1 DEF Api!ViewOf, Api!Reply
    <3>3. Claims(iReq[q].seen, iReq[q].reply.status)
      BY <3>1 DEF AnswerInv, Coherent
    <3>4. iMinute'.at = iReq[q].seen /\ iMinute'.status = iReq[q].reply.status
      BY <3>1
    <3>5. Claims(iMinute'.at, iMinute'.status)
      BY <3>3, <3>4
    <3> QED BY <2>1, <3>1, <3>2, <3>3, <3>5
  <2> QED BY <2>2, <2>3, <2>4, <2>5, <2>7, <2>8, <2>9, <2>10, <2>11, <2>12 DEF Api!Next, Api!Step
<1>4. AnswerInv => Api!OfOneSnapshot
  BY DEF AnswerInv, Coherent, Claims, Api!OfOneSnapshot, Api!At, Api!Seen
<1> QED BY <1>1, <1>2, <1>3, <1>4, PTL DEF Spec

-----------------------------------------------------------------------------
(* The slots of the event streams.                                           *)

\* The clients whose handler has a slot.
Open == {c \in Clients : sPc[c] # "closed"}
OpenOf(s) == {c \in Open : KeyOf[c] \in s}
StreamsOf(slots) == Stream!MapThenSumSet(LAMBDA k : slots[k], Stream!Keys)
StreamInv ==
    /\ sSlots \in [Stream!Keys -> Nat] /\ sPc = [c \in Clients |-> sPc[c]]
    /\ \A k \in Stream!Keys : sSlots[k] = Cardinality(OpenOf({k})) /\ sSlots[k] <= MaxPerKey
    /\ Cardinality(Open) <= MaxStreams

LEMMA ClientsAndKeys ==
    /\ IsFiniteSet(Clients) /\ IsFiniteSet(Stream!Keys) /\ \A c \in Clients : KeyOf[c] \in Stream!Keys
    /\ \A S : IsFiniteSet(OpenOf(S)) /\ Cardinality(OpenOf(S)) \in Nat
    /\ IsFiniteSet(Open) /\ Cardinality(Open) \in Nat
<1>1. IsFiniteSet(Clients)
  BY InstanceAssumption DEF Stream!StreamAssumption, Stream!IsFiniteSet, IsFiniteSet
<1>2. \A c \in Clients : KeyOf[c] \in Stream!Keys
  BY DEF Stream!Keys
<1>3. IsFiniteSet(Stream!Keys)
  <2> DEFINE f == [c \in Clients |-> KeyOf[c]]
  <2>1. f \in [Clients -> Stream!Keys] /\ \A k \in Stream!Keys : \E c \in Clients : f[c] = k
    BY <1>2 DEF Stream!Keys
  <2> HIDE DEF f
  <2>2. f \in Surjection(Clients, Stream!Keys)
    BY <2>1 DEF Surjection
  <2> QED BY <1>1, <2>2, FS_Surjection
<1>4. \A S : OpenOf(S) \subseteq Clients
  BY DEF OpenOf, Open
<1>5. Open \subseteq Clients
  BY DEF Open
<1> QED BY <1>1, <1>2, <1>3, <1>4, <1>5, FS_Subset, FS_CardinalityType

\* The sum the code takes of the keys' streams is the number of open streams.
LEMMA TotalIs ==
    ASSUME sSlots \in [Stream!Keys -> Nat], \A k \in Stream!Keys : sSlots[k] = Cardinality(OpenOf({k}))
    PROVE  StreamsOf(sSlots) = Cardinality(Open)
<1> DEFINE K == Stream!Keys
           h == [s \in SUBSET K |-> Cardinality(OpenOf(s))]
<1>1. StreamsOf(sSlots) = Summed(sSlots, K)
  BY DEF StreamsOf, Stream!MapThenSumSet, Stream!MapThenFoldSet, Summed, Adds
<1>2. OpenOf({}) = {} /\ OpenOf(K) = Open
  BY ClientsAndKeys DEF OpenOf, Open
<1>3. ASSUME NEW s \in SUBSET K, NEW x \in s PROVE h[s] = sSlots[x] + h[s \ {x}]
  <2>1. OpenOf(s) = OpenOf({x}) \cup OpenOf(s \ {x}) /\ OpenOf({x}) \cap OpenOf(s \ {x}) = {}
    BY <1>3 DEF OpenOf
  <2>2. Cardinality({}) = 0
    BY FS_EmptySet
  <2>3. Cardinality(OpenOf(s)) = Cardinality(OpenOf({x})) + Cardinality(OpenOf(s \ {x}))
    <3> DEFINE a == OpenOf({x})
               b == OpenOf(s \ {x})
    <3>1. IsFiniteSet(a) /\ IsFiniteSet(b) /\ Cardinality(a) \in Nat /\ Cardinality(b) \in Nat
      BY ClientsAndKeys
    <3>2. OpenOf(s) = a \cup b /\ a \cap b = {}
      BY <2>1
    <3> HIDE DEF a, b
    <3>3. Cardinality(a \cup b) = Cardinality(a) + Cardinality(b) - Cardinality(a \cap b)
      BY <3>1, FS_Union
    <3>4. Cardinality(OpenOf(s)) = Cardinality(a) + Cardinality(b)
      BY <2>2, <3>1, <3>2, <3>3
    <3> QED BY <3>4 DEF a, b
  <2> QED BY <2>3
<1>4. h[{}] = 0 /\ h[K] = Cardinality(Open) /\ h \in [SUBSET K -> Nat]
  BY <1>2, ClientsAndKeys, FS_EmptySet
<1> HIDE DEF h
<1>5. IsFiniteSet(K)
  BY ClientsAndKeys
<1>6. SumOf(sSlots, K, h)
  BY <1>3, <1>4 DEF SumOf
<1> HIDE DEF K
<1>7. Summed(sSlots, K) = h[K]
  BY <1>4, <1>5, <1>6, SumIs
<1> QED BY <1>1, <1>4, <1>7

\* A handler that is opened or closes moves its key's count by one, and the others keep
\* theirs.
LEMMA StreamsMove ==
    ASSUME StreamInv, NEW c \in Clients, NEW to, sPc' = [sPc EXCEPT ![c] = to],
           \/ sSlots' = sSlots /\ sPc[c] # "closed" /\ to # "closed"
           \/ /\ sSlots' = [sSlots EXCEPT ![KeyOf[c]] = sSlots[KeyOf[c]] + 1]
              /\ sPc[c] = "closed" /\ to # "closed" /\ sSlots[KeyOf[c]] < MaxPerKey /\ Cardinality(Open) < MaxStreams
           \/ /\ sSlots' = [sSlots EXCEPT ![KeyOf[c]] = sSlots[KeyOf[c]] - 1]
              /\ sPc[c] # "closed" /\ to = "closed"
    PROVE  StreamInv'
<1> DEFINE k == KeyOf[c]
<1>0. k \in Stream!Keys /\ MaxStreams \in Nat /\ MaxPerKey \in Nat
  BY ClientsAndKeys, InstanceAssumption DEF Stream!StreamAssumption
<1>1. sPc' = [d \in Clients |-> sPc'[d]] /\ sPc'[c] = to /\ \A d \in Clients \ {c} : sPc'[d] = sPc[d]
  BY DEF StreamInv
<1>2. \A S : IsFiniteSet(OpenOf(S)) /\ Cardinality(OpenOf(S)) \in Nat
  BY ClientsAndKeys
<1>3. IsFiniteSet(Open) /\ Cardinality(Open) \in Nat
  BY ClientsAndKeys
<1>4. CASE sSlots' = sSlots /\ sPc[c] # "closed" /\ to # "closed"
  <2>1. Open' = Open /\ \A S : OpenOf(S)' = OpenOf(S)
    BY <1>1, <1>4 DEF Open, OpenOf
  <2> QED BY <1>1, <1>4, <2>1 DEF StreamInv
<1>5. CASE /\ sSlots' = [sSlots EXCEPT ![KeyOf[c]] = sSlots[KeyOf[c]] + 1]
           /\ sPc[c] = "closed" /\ to # "closed" /\ sSlots[KeyOf[c]] < MaxPerKey /\ Cardinality(Open) < MaxStreams
  <2>1. Open' = Open \cup {c} /\ c \notin Open
    BY <1>1, <1>5 DEF Open
  <2>2. OpenOf({k})' = OpenOf({k}) \cup {c} /\ c \notin OpenOf({k})
    BY <2>1 DEF OpenOf
  <2>3. \A j \in Stream!Keys \ {k} : OpenOf({j})' = OpenOf({j})
    BY <2>1 DEF OpenOf
  <2>4. Cardinality(Open') = Cardinality(Open) + 1
    BY <1>3, <2>1, FS_AddElement
  <2>5. Cardinality(OpenOf({k})') = Cardinality(OpenOf({k})) + 1
    BY <1>2, <2>2, FS_AddElement
  <2> HIDE DEF k
  <2>6. sSlots' = [sSlots EXCEPT ![k] = sSlots[k] + 1] /\ sSlots[k] < MaxPerKey /\ sSlots[k] = Cardinality(OpenOf({k}))
    BY <1>0, <1>5 DEF k, StreamInv
  <2>7. sSlots' \in [Stream!Keys -> Nat] /\ sSlots'[k] = sSlots[k] + 1 /\ \A j \in Stream!Keys \ {k} : sSlots'[j] = sSlots[j]
    BY <1>0, <2>6 DEF StreamInv
  <2>8. \A j \in Stream!Keys : sSlots'[j] = Cardinality(OpenOf({j})') /\ sSlots'[j] <= MaxPerKey
    <3> TAKE j \in Stream!Keys
    <3>1. CASE j = k
      BY <1>0, <1>2, <2>5, <2>6, <2>7, <3>1
    <3>2. CASE j # k
      BY <2>3, <2>7, <3>2 DEF StreamInv
    <3> QED BY <3>1, <3>2
  <2>9. Cardinality(Open') <= MaxStreams
    BY <1>0, <1>3, <1>5, <2>4
  <2> QED BY <1>1, <2>7, <2>8, <2>9 DEF StreamInv
<1>6. CASE /\ sSlots' = [sSlots EXCEPT ![KeyOf[c]] = sSlots[KeyOf[c]] - 1]
           /\ sPc[c] # "closed" /\ to = "closed"
  <2>1. Open' = Open \ {c} /\ c \in Open
    BY <1>1, <1>6 DEF Open
  <2>2. OpenOf({k})' = OpenOf({k}) \ {c} /\ c \in OpenOf({k})
    BY <2>1 DEF OpenOf
  <2>3. \A j \in Stream!Keys \ {k} : OpenOf({j})' = OpenOf({j})
    BY <2>1 DEF OpenOf
  <2>4. Cardinality(Open') = Cardinality(Open) - 1 /\ Cardinality(Open') \in Nat
    BY <1>3, <2>1, FS_RemoveElement, FS_CardinalityType
  <2>5. Cardinality(OpenOf({k})') = Cardinality(OpenOf({k})) - 1 /\ Cardinality(OpenOf({k})') \in Nat
    BY <1>2, <2>2, FS_RemoveElement, FS_CardinalityType
  <2> HIDE DEF k
  <2>6. sSlots' = [sSlots EXCEPT ![k] = sSlots[k] - 1] /\ sSlots[k] = Cardinality(OpenOf({k}))
    BY <1>0, <1>6 DEF k, StreamInv
  <2>7. sSlots' \in [Stream!Keys -> Nat] /\ sSlots'[k] = sSlots[k] - 1 /\ \A j \in Stream!Keys \ {k} : sSlots'[j] = sSlots[j]
    <3>1. sSlots[k] - 1 \in Nat
      BY <1>2, <2>5, <2>6
    <3> QED BY <1>0, <2>6, <3>1 DEF StreamInv
  <2>8. \A j \in Stream!Keys : sSlots'[j] = Cardinality(OpenOf({j})') /\ sSlots'[j] <= MaxPerKey
    <3> TAKE j \in Stream!Keys
    <3>1. CASE j = k
      <4>1. sSlots[k] <= MaxPerKey /\ sSlots[k] \in Nat
        BY <1>0 DEF StreamInv
      <4> QED BY <1>0, <2>5, <2>6, <2>7, <3>1, <4>1
    <3>2. CASE j # k
      BY <2>3, <2>7, <3>2 DEF StreamInv
    <3> QED BY <3>1, <3>2
  <2>9. Cardinality(Open') <= MaxStreams
    BY <1>0, <1>3, <2>4 DEF StreamInv
  <2> QED BY <1>1, <2>7, <2>8, <2>9 DEF StreamInv
<1> QED BY <1>4, <1>5, <1>6

\* Whatever way a stream ends, its slot is its key's again, and both limits hold, which the
\* handshake checks with a sum over the keys (api.stream, streams_lock).
LEMMA StreamSlotsAreHeld == Spec => [](StreamInv /\ Stream!SlotsHeld)
<1>0. \A S : Stream!Cardinality(S) = Cardinality(S)
  BY DEF Stream!Cardinality, Cardinality
<1>1. Init => StreamInv
  <2> SUFFICES ASSUME Init PROVE StreamInv
    OBVIOUS
  <2>1. sSlots = [k \in Stream!Keys |-> 0] /\ sPc = [c \in Clients |-> "closed"]
    BY DEF Init, Stream!Init
  <2>2. Open = {} /\ \A S : OpenOf(S) = {}
    BY <2>1 DEF Open, OpenOf
  <2>3. MaxStreams \in Nat /\ MaxPerKey \in Nat
    BY InstanceAssumption DEF Stream!StreamAssumption
  <2>4. Cardinality({}) = 0
    BY FS_EmptySet
  <2> QED BY <2>1, <2>2, <2>3, <2>4 DEF StreamInv
<1>2. [Next]_vars => [Stream!Next]_(Stream!vars)
  BY DEF Next, vars, sVars, ArchiveOnly, BootOnly, MinuteOnly, LogOnly, StreamOnly, KeysOnly, LimiterOnly,
         ApiOnly, DerivativesOnly, ClientOnly, Stream!vars, Stream!handler, Stream!client
<1>3. StreamInv /\ [Stream!Next]_(Stream!vars) => StreamInv'
  <2> SUFFICES ASSUME StreamInv, [Stream!Next]_(Stream!vars) PROVE StreamInv'
    OBVIOUS
  <2>1. ASSUME UNCHANGED <<sSlots, sPc>> PROVE StreamInv'
    BY <2>1 DEF StreamInv, Open, OpenOf
  <2>2. ASSUME NEW c \in Clients, NEW to, sPc' = [sPc EXCEPT ![c] = to], sPc[c] # "closed", to # "closed",
               sSlots' = sSlots
        PROVE  StreamInv'
    BY <2>2, StreamsMove
  <2>3. CASE \/ Stream!_publish \/ (\E passes \in BOOLEAN : Stream!Store(passes)) \/ UNCHANGED Stream!vars
             \/ \E c \in Clients : Stream!Row(c) \/ Stream!Receive(c) \/ Stream!Leave(c)
    BY <2>1, <2>3 DEF Stream!_publish, Stream!Store, Stream!Row, Stream!Receive, Stream!Leave, Stream!vars,
       Stream!handler
  <2>4. ASSUME NEW c \in Clients, Stream!Connect(c) PROVE StreamInv'
    <3>1. StreamsOf(sSlots) = Cardinality(Open)
      BY TotalIs DEF StreamInv
    <3>2. KeyOf[c] \in Stream!Keys /\ sSlots[KeyOf[c]] \in Nat /\ Cardinality(Open) \in Nat
          /\ MaxStreams \in Nat /\ MaxPerKey \in Nat
      BY ClientsAndKeys, InstanceAssumption DEF StreamInv, Stream!StreamAssumption
    <3>3. ~(StreamsOf(sSlots) >= MaxStreams) /\ ~(sSlots[KeyOf[c]] >= MaxPerKey)
      BY <2>4 DEF Stream!Connect, Stream!Full, StreamsOf
    <3>4. Cardinality(Open) < MaxStreams /\ sSlots[KeyOf[c]] < MaxPerKey
      BY <3>1, <3>2, <3>3
    <3>5. /\ sSlots' = [sSlots EXCEPT ![KeyOf[c]] = sSlots[KeyOf[c]] + 1]
          /\ sPc' = [sPc EXCEPT ![c] = "hello"] /\ sPc[c] = "closed"
      BY <2>4 DEF Stream!Connect
    <3> QED BY <3>4, <3>5, StreamsMove
  <2>5. ASSUME NEW c \in Clients, Stream!Closed(c) PROVE StreamInv'
    <3>1. /\ sSlots' = [sSlots EXCEPT ![KeyOf[c]] = sSlots[KeyOf[c]] - 1]
          /\ sPc' = [sPc EXCEPT ![c] = "closed"] /\ sPc[c] # "closed"
      BY <2>5 DEF Stream!Closed, Stream!Released
    <3> QED BY <3>1, StreamsMove
  <2>6. ASSUME NEW c \in Clients, Stream!Hello(c) \/ Stream!Poll(c) \/ Stream!ReadSnapshot(c) \/ Stream!Mark(c) \/ Stream!Wait(c)
        PROVE  StreamInv'
    BY <2>2, <2>6 DEF Stream!Hello, Stream!Poll, Stream!ReadSnapshot, Stream!Mark, Stream!Wait
  <2>7. ASSUME NEW c \in Clients, Stream!Compare(c) PROVE StreamInv'
    BY <2>2, <2>7 DEF Stream!Compare
  <2> QED BY <2>3, <2>4, <2>5, <2>6, <2>7 DEF Stream!Next, Stream!Handler
<1>4. StreamInv => Stream!SlotsHeld
  <2> SUFFICES ASSUME StreamInv PROVE Stream!SlotsHeld
    OBVIOUS
  <2>1. StreamsOf(sSlots) <= MaxStreams
    BY TotalIs DEF StreamInv
  <2>2. \A k \in Stream!Keys : OpenOf({k}) = {c \in Clients : KeyOf[c] = k /\ sPc[c] # "closed"}
    BY DEF OpenOf, Open
  <2> QED BY <1>0, <2>1, <2>2 DEF Stream!SlotsHeld, StreamsOf, StreamInv
<1> QED BY <1>1, <1>2, <1>3, <1>4, PTL DEF Spec

-----------------------------------------------------------------------------
(* The days of the bootstrap.                                                *)

\* The directory that is being replaced is what its removal left.
PlaceInv ==
    /\ bDir = [d \in WantedSessions |-> bDir[d]]
    /\ bPc = "replace" /\ Boot!Min(bTodo) \in WantedSessions => bDir[Boot!Min(bTodo)] \in {"hollow", "headless"}

\* A directory of the live archive is never touched (Bootstrap.assemble, archived).
LEMMA LiveIsUntouched == Spec => Boot!LiveUntouched
<1>1. Init => PlaceInv
  BY DEF Init, Boot!Init, PlaceInv
<1>2. [Next]_vars => [Boot!Next]_(Boot!vars)
  BY DEF Next, vars, bVars, ArchiveOnly, BootOnly, MinuteOnly, LogOnly, StreamOnly, KeysOnly, LimiterOnly,
         ApiOnly, DerivativesOnly, ClientOnly, Boot!vars
<1>3. PlaceInv /\ [Boot!Next]_(Boot!vars)
          => PlaceInv' /\ \A d \in WantedSessions : bDir[d] \in {"live", "indices"} => bDir'[d] = bDir[d]
  <2> SUFFICES ASSUME PlaceInv, [Boot!Next]_(Boot!vars)
               PROVE  PlaceInv' /\ \A d \in WantedSessions : bDir[d] \in {"live", "indices"} => bDir'[d] = bDir[d]
    OBVIOUS
  <2> DEFINE first == Boot!Min(bTodo)
  <2>1. CASE Boot!Place
    <3>1. CASE bDir' = bDir /\ bPc' = bPc
      BY <2>1, <3>1 DEF Boot!Place, PlaceInv
    <3>2. CASE bDir[first] = "none" /\ bDir' = [bDir EXCEPT ![first] = "bootstrap"] /\ bPc' = bPc
      <4> HIDE DEF first
      <4>1. bPc = "place"
        BY <2>1 DEF Boot!Place
      <4> QED BY <3>2, <4>1 DEF PlaceInv
    <3>3. CASE /\ Boot!Owned(first) /\ bTodo' = bTodo
               /\ \E left \in {"hollow", "headless"} : bDir' = [bDir EXCEPT ![first] = left]
      <4>1. bDir[first] \notin {"live", "indices"}
        BY <3>3 DEF Boot!Owned, Boot!archived
      <4>2. first' = first
        BY <3>3
      <4> HIDE DEF first
      <4>3. bDir' = [d \in WantedSessions |-> bDir'[d]] /\ (first \in WantedSessions => bDir'[first] \in {"hollow", "headless"})
            /\ \A d \in WantedSessions : d # first => bDir'[d] = bDir[d]
        BY <3>3 DEF PlaceInv
      <4>4. PlaceInv'
        BY <4>2, <4>3 DEF PlaceInv, first
      <4> QED BY <4>1, <4>3, <4>4
    <3>4. \/ bDir' = bDir /\ bPc' = bPc
          \/ bDir[first] = "none" /\ bDir' = [bDir EXCEPT ![first] = "bootstrap"] /\ bPc' = bPc
          \/ /\ Boot!Owned(first) /\ bTodo' = bTodo
             /\ \E left \in {"hollow", "headless"} : bDir' = [bDir EXCEPT ![first] = left]
      BY <2>1 DEF Boot!Place
    <3> QED BY <3>1, <3>2, <3>3, <3>4
  <2>2. CASE Boot!Replace
    <3>1. bPc = "replace" /\ bPc' = "place" /\ bDir' = [bDir EXCEPT ![first] = "bootstrap"]
      BY <2>2 DEF Boot!Replace
    <3> HIDE DEF first
    <3> QED BY <3>1 DEF PlaceInv, first
  <2>3. ASSUME NEW d \in WantedSessions, Boot!Corrupted(d) PROVE PlaceInv' /\ \A e \in WantedSessions : bDir[e] \in {"live", "indices"} => bDir'[e] = bDir[e]
    <3>1. bPc = "idle" /\ bPc' = bPc /\ bDir[d] = "bootstrap" /\ bDir' = [bDir EXCEPT ![d] = "corrupt"]
      BY <2>3 DEF Boot!Corrupted
    <3> QED BY <3>1 DEF PlaceInv
  <2>4. ASSUME bDir' = bDir, bPc' # "replace" \/ (bPc' = bPc /\ bTodo' = bTodo)
        PROVE  PlaceInv' /\ \A d \in WantedSessions : bDir[d] \in {"live", "indices"} => bDir'[d] = bDir[d]
    BY <2>4 DEF PlaceInv
  <2>5. CASE \/ Boot!Start \/ Boot!Downloaded \/ Boot!Assemble \/ Boot!Finish \/ Boot!BootstrapBlocked \/ Boot!Killed
             \/ UNCHANGED Boot!vars
             \/ \E i \in Instruments : Boot!DownloadIntraday(i) \/ Boot!DownloadDaily(i) \/ Boot!RequestFailed(i)
    <3>1. bDir' = bDir /\ (bPc' # "replace" \/ (bPc' = bPc /\ bTodo' = bTodo))
      BY <2>5 DEF Boot!Start, Boot!Downloaded, Boot!Assemble, Boot!Finish, Boot!BootstrapBlocked, Boot!Killed,
         Boot!vars, Boot!DownloadIntraday, Boot!DownloadDaily, Boot!RequestFailed
    <3> QED BY <2>4, <3>1
  <2> QED BY <2>1, <2>2, <2>3, <2>5 DEF Boot!Next, Boot!Run
<1>4. PlaceInv /\ [Boot!Next]_(Boot!vars)
          => [\A d \in WantedSessions : bDir[d] \in {"live", "indices"} => bDir'[d] = bDir[d]]_(Boot!vars)
  BY <1>3
<1> QED BY <1>1, <1>2, <1>3, <1>4, PTL DEF Spec, Boot!LiveUntouched

\* A batch of sessions has a first and a last one.
LEMMA BatchKeys ==
    ASSUME NEW days \in SUBSET WantedSessions, days # {}
    PROVE  /\ Boot!Key(days) \in Boot!Keys
           /\ Boot!Min(days) \in days /\ \A d \in days : Boot!Min(days) <= d
<1>1. WantedSessions \subseteq Nat /\ \E n \in Nat : WantedSessions \subseteq 0 .. n
  BY InstanceAssumption DEF Boot!CalendarAssumption
<1>2. Boot!Min(days) \in days /\ \A d \in days : Boot!Min(days) <= d
  <2>1. \E p \in days : \A i \in days : p <= i
    BY <1>1, LeastNatural
  <2> QED BY <2>1 DEF Boot!Min
<1>3. Boot!Max(days) \in days
  <2>1. \E p \in days : \A i \in days : p >= i
    BY <1>1, GreatestUpTo
  <2> QED BY <2>1 DEF Boot!Max
<1>4. Boot!Key(days) \in Boot!Keys
  BY <1>2, <1>3 DEF Boot!Key, Boot!Keys
<1> QED BY <1>2, <1>4

\* A run takes up the plan of an interrupted batch whose sessions are all still missing, or all
\* of the missing sessions.
LEMMA Resumed ==
    ASSUME NEW days \in SUBSET WantedSessions, days # {}
    PROVE  \/ \E k \in Boot!Keys : /\ bPlan[k] # {} /\ bPlan[k] \subseteq days
                                   /\ Boot!_resumable(days) = bPlan[k]
           \/ /\ Boot!_resumable(days) = days
              /\ \A k \in Boot!Keys : bPlan[k] = {} \/ ~(bPlan[k] \subseteq days)
<1> DEFINE found == {k \in Boot!Keys : bPlan[k] # {} /\ bPlan[k] \subseteq days}
           chosen == CHOOSE k \in found : \A j \in found : Boot!Before(k, j)
<1>1. CASE found = {}
  BY <1>1 DEF Boot!_resumable
<1>2. CASE found # {}
  <2>0. Boot!Keys \subseteq Nat \X Nat
    BY InstanceAssumption DEF Boot!CalendarAssumption, Boot!Keys
  <2> DEFINE Firsts == {k[1] : k \in found}
  <2>1. Firsts \in SUBSET Nat /\ Firsts # {}
    BY <1>2, <2>0
  <2>2. PICK p \in Firsts : \A i \in Firsts : p <= i
    <3> HIDE DEF Firsts
    <3> QED BY <2>1, LeastNatural
  <2> DEFINE Lasts == {k[2] : k \in {k \in found : k[1] = p}}
  <2>3. Lasts \in SUBSET Nat /\ Lasts # {}
    BY <2>0, <2>2
  <2>4. PICK q \in Lasts : \A i \in Lasts : q <= i
    <3> HIDE DEF Lasts
    <3> QED BY <2>3, LeastNatural
  <2>5. PICK k \in found : k[1] = p /\ k[2] = q
    BY <2>4
  <2>6. ASSUME NEW j \in found PROVE Boot!Before(k, j)
    <3>1. p <= j[1] /\ j[1] \in Nat /\ p \in Nat
      BY <2>0, <2>2
    <3>2. j[1] = p => q <= j[2]
      BY <2>4
    <3> HIDE DEF found, Firsts, Lasts
    <3> QED BY <2>5, <3>1, <3>2 DEF Boot!Before
  <2>7. chosen \in found
    <3> HIDE DEF found
    <3> QED BY <2>6
  <2>8. Boot!_resumable(days) = bPlan[chosen]
    BY <1>2 DEF Boot!_resumable
  <2> HIDE DEF chosen
  <2> QED BY <2>7, <2>8
<1> QED BY <1>1, <1>2

\* No file of an archived day has lost its digest.
DiskHolds == \A d \in WantedSessions : bDir[d] # "corrupt"

Working == bPc \in {"download", "assemble", "place"}
Missing(d) == bDir[d] \in {"none", "indices"}
\* The sessions an instrument's staged file has rows of.
RowsOf(k, i) == bStage[k][i].rows
\* A staged file is of its folder's plan, or holds a session that has been archived since.
Staged(k, i) ==
    \/ bStage[k][i].done = "none"
    \/ /\ RowsOf(k, i) \subseteq bTrades
       /\ RowsOf(k, i) = bPlan[k] \cap bTrades \/ \E e \in RowsOf(k, i) : bDir[e] = "bootstrap"
Folder(k) ==
    /\ bPlan[k] = {} => \A i \in Instruments : bStage[k][i] = Boot!NotStaged
    /\ bPlan[k] # {} => Boot!Key(bPlan[k]) = k /\ \A d \in bPlan[k] : bDir[d] # "live"
    /\ \A i \in Instruments : Staged(k, i)
Day(d) ==
    /\ bDir[d] \in {"none", "live", "indices", "bootstrap"}
    /\ bDir[d] = "bootstrap" => d \in bTrades /\ bHolds[d] = Instruments
Batch ==
    LET k == Boot!Key(bMissing) IN
    /\ bMissing \in SUBSET WantedSessions /\ bMissing # {} /\ bPlan[k] = bMissing
    /\ bPc \in {"download", "assemble"} => \A d \in bMissing : Missing(d)
    /\ bPc \in {"assemble", "place"} => \A i \in Instruments : bStage[k][i].done = "daily"
    /\ bPc = "place" => /\ bTodo \subseteq bMissing /\ \A d \in bTodo : Missing(d)
                        /\ \A i \in Instruments : RowsOf(k, i) = bMissing \cap bTrades
BootTypes ==
    /\ bDir = [d \in WantedSessions |-> bDir[d]] /\ bHolds = [d \in WantedSessions |-> bHolds[d]]
    /\ bPlan \in [Boot!Keys -> SUBSET WantedSessions] /\ bPc \in {"idle", "download", "assemble", "place"}
    /\ bStage \in [Boot!Keys -> [Instruments -> [rows : SUBSET WantedSessions, done : {"none", "intraday", "daily"}]]]
BootInv ==
    /\ BootTypes /\ \A d \in WantedSessions : Day(d)
    /\ \A k \in Boot!Keys : Folder(k)
    /\ Working => Batch

\* What stays when only the run's place in its work changes.
LEMMA BootStays ==
    ASSUME BootInv, UNCHANGED <<bDir, bTrades, bPlan, bStage, bHolds>>,
           bPc' \in {"idle", "download", "assemble", "place"}, Working' => Batch'
    PROVE  BootInv'
<1>1. BootTypes' /\ (\A d \in WantedSessions : Day(d)')
  BY DEF BootInv, BootTypes, Day
<1>2. ASSUME NEW k \in Boot!Keys PROVE Folder(k)'
  <2>1. \A i \in Instruments : Staged(k, i)'
    BY DEF BootInv, Folder, Staged, RowsOf
  <2> QED BY <2>1 DEF BootInv, Folder
<1> QED BY <1>1, <1>2 DEF BootInv, Boot!Keys

\* A run begins with a batch none of whose sessions is archived, and with the staged files of
\* its folder.
LEMMA BootStarts == ASSUME BootInv, Boot!Start PROVE BootInv'
<1> PICK days : days = Boot!_resumable(Boot!targets)
  OBVIOUS
<1> PICK k : k = Boot!Key(days)
  OBVIOUS
<1>0. /\ Boot!targets # {} /\ bMissing' = days /\ bPlan' = [bPlan EXCEPT ![k] = days] /\ bPc' = "download"
      /\ UNCHANGED <<bDir, bTrades, bStage, bHolds>>
  BY DEF Boot!Start, Boot!_load_or_create_plan
<1>1. Boot!targets \in SUBSET WantedSessions /\ \A d \in WantedSessions : d \in Boot!targets <=> Missing(d)
  BY DEF BootInv, Day, Boot!targets, Boot!archived, Missing
<1>2. days \in SUBSET Boot!targets /\ days # {}
      /\ ((\E j \in Boot!Keys : bPlan[j] # {} /\ days = bPlan[j])
           \/ \A j \in Boot!Keys : bPlan[j] = {} \/ ~(bPlan[j] \subseteq Boot!targets))
  BY <1>0, <1>1, Resumed
<1>3. k \in Boot!Keys
  BY <1>1, <1>2, BatchKeys
<1>4. bPlan[k] = days \/ bPlan[k] = {} \/ \E e \in bPlan[k] : ~Missing(e) /\ e \in WantedSessions
  <2>1. ASSUME NEW j \in Boot!Keys, bPlan[j] # {}, days = bPlan[j] PROVE bPlan[k] = days
    <3>1. Boot!Key(bPlan[j]) = j
      BY <2>1 DEF BootInv, Folder
    <3> QED BY <2>1, <3>1
  <2>2. bPlan[k] \in SUBSET WantedSessions
    BY <1>3 DEF BootInv, BootTypes
  <2> QED BY <1>1, <1>2, <1>3, <2>1, <2>2
<1>5. bPlan'[k] = days /\ Boot!Key(days) = k /\ \A j \in Boot!Keys \ {k} : bPlan'[j] = bPlan[j]
  BY <1>0, <1>3 DEF BootInv, BootTypes
<1>6. BootTypes'
  BY <1>0, <1>1, <1>2 DEF BootInv, BootTypes, Boot!Keys
<1>7. \A d \in WantedSessions : Day(d)'
  BY <1>0 DEF BootInv, Day
<1>8. ASSUME NEW i \in Instruments PROVE Staged(k, i)'
  <2>0. bStage[k][i]' = bStage[k][i] /\ Staged(k, i)
    BY <1>0, <1>3 DEF BootInv, Folder
  <2>1. CASE bPlan[k] = days
    BY <1>0, <1>5, <2>0, <2>1 DEF Staged, RowsOf
  <2>2. CASE bPlan[k] = {}
    <3>1. bStage[k][i] = Boot!NotStaged
      BY <1>3, <2>2 DEF BootInv, Folder
    <3> QED BY <2>0, <3>1 DEF Staged, Boot!NotStaged
  <2>3. ASSUME NEW e \in bPlan[k], ~Missing(e), e \in WantedSessions PROVE Staged(k, i)'
    <3>1. bDir[e] = "bootstrap" /\ e \in bTrades
      BY <1>3, <2>3 DEF BootInv, Folder, Day, Missing
    <3> QED BY <1>0, <2>0, <2>3, <3>1 DEF Staged, RowsOf
  <2> QED BY <1>4, <2>1, <2>2, <2>3
<1>9. Folder(k)'
  BY <1>0, <1>1, <1>2, <1>5, <1>8 DEF Folder, Missing
<1>10. ASSUME NEW j \in Boot!Keys \ {k} PROVE Folder(j)'
  <2>1. Folder(j) /\ bPlan'[j] = bPlan[j]
    BY <1>5 DEF BootInv
  <2> QED BY <1>0, <2>1 DEF Folder, Staged, RowsOf
<1>11. Batch'
  BY <1>0, <1>1, <1>2, <1>5 DEF Batch, Missing
<1> QED BY <1>6, <1>7, <1>9, <1>10, <1>11 DEF BootInv, Boot!Keys

\* An instrument's staged file is replaced by one with the rows of the plan, or with the rows it
\* had.
LEMMA BootDownloads ==
    ASSUME BootInv, NEW i \in Instruments, Boot!DownloadIntraday(i) \/ Boot!DownloadDaily(i)
    PROVE  BootInv'
<1> PICK k : k = Boot!Key(bMissing)
  OBVIOUS
<1>0. /\ bPc = "download" /\ UNCHANGED <<bDir, bTrades, bPlan, bHolds, bPc, bMissing, bTodo>>
      /\ Batch /\ bPlan[k] = bMissing /\ bMissing # {} /\ k \in Boot!Keys
  <2>1. bPc = "download" /\ UNCHANGED <<bDir, bTrades, bPlan, bHolds, bPc, bMissing, bTodo>>
    BY DEF Boot!DownloadIntraday, Boot!DownloadDaily
  <2>2. Batch
    BY <2>1 DEF BootInv, Working
  <2> QED BY <2>1, <2>2, BatchKeys DEF Batch
<1>1. bStage[k][i] \in [rows : SUBSET WantedSessions, done : {"none", "intraday", "daily"}]
  BY <1>0 DEF BootInv, BootTypes
<1>2. PICK rec \in [rows : SUBSET WantedSessions, done : {"none", "intraday", "daily"}] :
          /\ bStage' = [bStage EXCEPT ![k][i] = rec] /\ rec.rows \subseteq bTrades
          /\ rec.rows = bPlan[k] \cap bTrades \/ \E e \in rec.rows : bDir[e] = "bootstrap"
  <2>1. CASE Boot!DownloadIntraday(i)
    <3> DEFINE rec == [rows |-> bMissing \cap bTrades, done |-> "intraday"]
    <3>1. bStage' = [bStage EXCEPT ![k][i] = rec]
      BY <2>1 DEF Boot!DownloadIntraday, Boot!_write_stage
    <3>2. rec \in [rows : SUBSET WantedSessions, done : {"none", "intraday", "daily"}]
          /\ rec.rows = bPlan[k] \cap bTrades
      BY <1>0 DEF Batch
    <3> HIDE DEF rec
    <3> QED BY <3>1, <3>2
  <2>2. CASE Boot!DownloadDaily(i)
    <3> DEFINE rec == [bStage[k][i] EXCEPT !.done = "daily"]
    <3>1. bStage' = [bStage EXCEPT ![k][i].done = "daily"] /\ bStage[k][i].done = "intraday"
      BY <2>2 DEF Boot!DownloadDaily
    <3>2. bStage' = [bStage EXCEPT ![k][i] = rec]
      BY <3>1
    <3>3. rec \in [rows : SUBSET WantedSessions, done : {"none", "intraday", "daily"}] /\ rec.rows = RowsOf(k, i)
      BY <1>1 DEF RowsOf
    <3>4. Staged(k, i)
      BY <1>0 DEF BootInv, Folder
    <3>5. RowsOf(k, i) \subseteq bTrades /\ (RowsOf(k, i) = bPlan[k] \cap bTrades \/ \E e \in RowsOf(k, i) : bDir[e] = "bootstrap")
      BY <3>1, <3>4 DEF Staged
    <3> HIDE DEF rec
    <3> QED BY <3>2, <3>3, <3>5
  <2> QED BY <2>1, <2>2
<1>3. /\ bStage' \in [Boot!Keys -> [Instruments -> [rows : SUBSET WantedSessions, done : {"none", "intraday", "daily"}]]]
      /\ bStage'[k][i] = rec /\ \A h \in Instruments \ {i} : bStage'[k][h] = bStage[k][h]
      /\ \A j \in Boot!Keys \ {k} : bStage'[j] = bStage[j]
  BY <1>0, <1>2 DEF BootInv, BootTypes
<1>4. BootTypes' /\ \A d \in WantedSessions : Day(d)'
  BY <1>0, <1>3 DEF BootInv, BootTypes, Day, Boot!Keys
<1>5. Folder(k)'
  <2>1. Staged(k, i)'
    BY <1>0, <1>2, <1>3 DEF Staged, RowsOf
  <2>2. \A h \in Instruments \ {i} : Staged(k, h)'
    BY <1>0, <1>3 DEF BootInv, Folder, Staged, RowsOf
  <2> QED BY <1>0, <2>1, <2>2 DEF BootInv, Folder
<1>6. ASSUME NEW j \in Boot!Keys \ {k} PROVE Folder(j)'
  <2>1. Folder(j)
    BY DEF BootInv
  <2> QED BY <1>0, <1>3, <2>1 DEF Folder, Staged, RowsOf
<1>7. Batch'
  BY <1>0 DEF Batch, Missing
<1> QED BY <1>4, <1>5, <1>6, <1>7 DEF BootInv, Boot!Keys

\* A day is placed with every instrument of the universe, and a finished batch leaves nothing.
LEMMA BootPlaces == ASSUME BootInv, Boot!Place \/ Boot!Finish PROVE BootInv'
<1> PICK k : k = Boot!Key(bMissing)
  OBVIOUS
<1>0. /\ bPc = "place" /\ UNCHANGED <<bTrades, bMissing>> /\ Batch /\ bPlan[k] = bMissing /\ k \in Boot!Keys
      /\ bTodo \subseteq bMissing /\ bMissing \in SUBSET WantedSessions /\ \A d \in bTodo : Missing(d)
      /\ \A i \in Instruments : RowsOf(k, i) = bMissing \cap bTrades
  <2>1. bPc = "place" /\ UNCHANGED <<bTrades, bMissing>>
    BY DEF Boot!Place, Boot!Finish
  <2>2. Batch
    BY <2>1 DEF BootInv, Working
  <2> QED BY <2>1, <2>2, BatchKeys DEF Batch
<1>1. CASE Boot!Place
  <2> PICK d : d = Boot!Min(bTodo)
    OBVIOUS
  <2>1. bTodo # {} /\ UNCHANGED <<bPlan, bStage>>
    BY <1>1 DEF Boot!Place
  <2>2. d \in bTodo /\ d \in WantedSessions /\ Missing(d)
    BY <1>0, <2>1, BatchKeys
  <2>3. Boot!With(d) = IF d \in bTrades THEN Instruments ELSE {}
    BY <1>0, <2>2 DEF Boot!With, RowsOf
  <2>4. ~Boot!Owned(d)
    BY <2>2 DEF Boot!Owned, Boot!archived, Missing
  <2>5. /\ bPc' = bPc /\ bTodo' = bTodo \ {d}
        /\ \/ UNCHANGED <<bDir, bHolds>>
           \/ /\ d \in bTrades /\ bDir' = [bDir EXCEPT ![d] = "bootstrap"]
              /\ bHolds' = [bHolds EXCEPT ![d] = Instruments]
    BY <1>1, <2>2, <2>3, <2>4 DEF Boot!Place, Missing
  <2>6. /\ BootTypes' /\ \A e \in WantedSessions \ {d} : bDir'[e] = bDir[e] /\ bHolds'[e] = bHolds[e]
        /\ \/ bDir'[d] = bDir[d] /\ bHolds'[d] = bHolds[d]
           \/ d \in bTrades /\ bDir'[d] = "bootstrap" /\ bHolds'[d] = Instruments
    <3>1. /\ bDir = [e \in WantedSessions |-> bDir[e]] /\ bHolds = [e \in WantedSessions |-> bHolds[e]]
          /\ bPlan \in [Boot!Keys -> SUBSET WantedSessions] /\ bPc \in {"idle", "download", "assemble", "place"}
          /\ bStage \in [Boot!Keys -> [Instruments -> [rows : SUBSET WantedSessions, done : {"none", "intraday", "daily"}]]]
      BY Zenon DEF BootInv, BootTypes
    <3>2. CASE UNCHANGED <<bDir, bHolds>>
      <4>1. BootTypes'
        BY <2>1, <2>5, <3>2 DEF BootInv, BootTypes
      <4> QED BY <3>2, <4>1
    <3>3. CASE /\ d \in bTrades /\ bDir' = [bDir EXCEPT ![d] = "bootstrap"]
               /\ bHolds' = [bHolds EXCEPT ![d] = Instruments]
      <4>1. /\ bDir' = [e \in WantedSessions |-> bDir'[e]] /\ bHolds' = [e \in WantedSessions |-> bHolds'[e]]
            /\ bDir'[d] = "bootstrap" /\ bHolds'[d] = Instruments
            /\ \A e \in WantedSessions \ {d} : bDir'[e] = bDir[e] /\ bHolds'[e] = bHolds[e]
        BY <2>2, <3>1, <3>3
      <4>2. BootTypes'
        BY <2>1, <2>5, <3>1, <4>1 DEF BootTypes, Boot!Keys
      <4> QED BY <3>3, <4>1, <4>2
    <3> QED BY <2>5, <3>2, <3>3
  <2>7. \A e \in WantedSessions : Day(e)'
    BY <1>0, <2>2, <2>6 DEF BootInv, Day
  <2>8. ASSUME NEW j \in Boot!Keys PROVE Folder(j)'
    <3>1. Folder(j) /\ bPlan[j] \in SUBSET WantedSessions
      BY DEF BootInv, BootTypes
    <3>2. \A e \in WantedSessions : (bDir[e] = "bootstrap" => bDir'[e] = "bootstrap") /\ (bDir[e] # "live" => bDir'[e] # "live")
      BY <2>2, <2>6
    <3>3. ASSUME NEW i \in Instruments PROVE Staged(j, i)'
      <4>1. RowsOf(j, i) \in SUBSET WantedSessions
        BY DEF BootInv, BootTypes, RowsOf
      <4> QED BY <1>0, <2>1, <3>1, <3>2, <4>1 DEF Folder, Staged, RowsOf
    <3> QED BY <2>1, <3>1, <3>2, <3>3 DEF Folder
  <2>9. Batch'
    <3>1. \A e \in bTodo' : Missing(e)'
      BY <1>0, <2>5, <2>6 DEF Missing
    <3> QED BY <1>0, <2>1, <2>5, <3>1 DEF Batch, RowsOf
  <2> QED BY <2>6, <2>7, <2>8, <2>9 DEF BootInv, Boot!Keys
<1>2. CASE Boot!Finish
  <2>1. /\ bPc' = "idle" /\ bPlan' = [bPlan EXCEPT ![k] = {}] /\ UNCHANGED <<bDir, bHolds>>
        /\ bStage' = [bStage EXCEPT ![k] = [i \in Instruments |-> Boot!NotStaged]]
    BY <1>2 DEF Boot!Finish
  <2>2. Boot!NotStaged \in [rows : SUBSET WantedSessions, done : {"none", "intraday", "daily"}]
        /\ Boot!NotStaged.done = "none"
    BY DEF Boot!NotStaged
  <2>3. /\ BootTypes' /\ bPlan'[k] = {} /\ \A i \in Instruments : bStage'[k][i] = Boot!NotStaged
        /\ \A j \in Boot!Keys \ {k} : bPlan'[j] = bPlan[j] /\ bStage'[j] = bStage[j]
    BY <1>0, <2>1, <2>2 DEF BootInv, BootTypes, Boot!Keys
  <2>4. \A d \in WantedSessions : Day(d)'
    BY <1>0, <2>1 DEF BootInv, Day
  <2>5. Folder(k)'
    BY <2>2, <2>3 DEF Folder, Staged, Boot!NotStaged
  <2>6. ASSUME NEW j \in Boot!Keys \ {k} PROVE Folder(j)'
    <3>1. Folder(j)
      BY DEF BootInv
    <3> QED BY <1>0, <2>1, <2>3, <3>1 DEF Folder, Staged, RowsOf
  <2> QED BY <2>1, <2>3, <2>4, <2>5, <2>6 DEF BootInv, Working, Boot!Keys
<1> QED BY <1>1, <1>2

\* Without a corrupted day, an archived session holds every instrument, however often a run is
\* refused, fails or is killed, and whatever it finds of earlier ones (history_bootstrap.run).
LEMMA DaysAreComplete == Spec /\ []DiskHolds => []Boot!CompleteDays
<1>1. Init => BootInv
  <2> SUFFICES ASSUME Init PROVE BootInv
    OBVIOUS
  <2>1. /\ bDir \in [WantedSessions -> {"none", "live", "indices"}] /\ bHolds = [d \in WantedSessions |-> {}]
        /\ bPlan = [k \in Boot!Keys |-> {}] /\ bPc = "idle"
        /\ bStage = [k \in Boot!Keys |-> [i \in Instruments |-> Boot!NotStaged]]
    BY DEF Init, Boot!Init
  <2>2. Boot!NotStaged \in [rows : SUBSET WantedSessions, done : {"none", "intraday", "daily"}]
        /\ Boot!NotStaged.done = "none"
    BY DEF Boot!NotStaged
  <2> HIDE DEF Boot!NotStaged
  <2>3. BootTypes /\ \A d \in WantedSessions : Day(d)
    BY <2>1, <2>2 DEF BootTypes, Day
  <2>4. \A k \in Boot!Keys : Folder(k)
    BY <2>1, <2>2 DEF Folder, Staged
  <2> QED BY <2>1, <2>3, <2>4 DEF BootInv, Working
<1>2. [Next]_vars => [Boot!Next]_(Boot!vars)
  BY DEF Next, vars, bVars, ArchiveOnly, BootOnly, MinuteOnly, LogOnly, StreamOnly, KeysOnly, LimiterOnly,
         ApiOnly, DerivativesOnly, ClientOnly, Boot!vars
<1>3. BootInv /\ DiskHolds' /\ [Boot!Next]_(Boot!vars) => BootInv'
  <2> SUFFICES ASSUME BootInv, DiskHolds', [Boot!Next]_(Boot!vars) PROVE BootInv'
    OBVIOUS
  <2>1. CASE \/ Boot!BootstrapBlocked \/ Boot!Killed \/ UNCHANGED Boot!vars
             \/ \E i \in Instruments : Boot!RequestFailed(i)
    <3>1. /\ UNCHANGED <<bDir, bTrades, bPlan, bStage, bHolds>>
          /\ bPc' = "idle" \/ UNCHANGED <<bPc, bMissing, bTodo>>
      BY <2>1 DEF Boot!BootstrapBlocked, Boot!Killed, Boot!vars, Boot!RequestFailed
    <3>2. Working' => Batch'
      BY <3>1 DEF BootInv, Working, Batch, Missing, RowsOf
    <3>3. bPc' \in {"idle", "download", "assemble", "place"}
      BY <3>1 DEF BootInv, BootTypes
    <3> QED BY <3>1, <3>2, <3>3, BootStays
  <2>2. CASE Boot!Downloaded
    <3>1. /\ bPc = "download" /\ UNCHANGED <<bDir, bTrades, bPlan, bStage, bHolds, bMissing>>
          /\ \/ bPc' = "idle"
             \/ bPc' = "assemble" /\ \A i \in Instruments : bStage[Boot!Key(bMissing)][i].done = "daily"
      BY <2>2 DEF Boot!Downloaded
    <3>2. Working' => Batch'
      BY <3>1 DEF BootInv, Working, Batch, Missing
    <3> QED BY <3>1, <3>2, BootStays
  <2>3. CASE Boot!Assemble
    <3> PICK k : k = Boot!Key(bMissing)
      OBVIOUS
    <3>1. /\ bPc = "assemble" /\ UNCHANGED <<bDir, bTrades, bPlan, bStage, bHolds, bMissing>>
          /\ bPc' = "idle" \/ (Boot!StagedDays \subseteq bMissing /\ bPc' = "place" /\ bTodo' = bMissing)
      BY <2>3 DEF Boot!Assemble
    <3>2. Batch /\ bPlan[k] = bMissing /\ k \in Boot!Keys
      BY <3>1, BatchKeys DEF BootInv, Working, Batch
    <3>3. ASSUME Boot!StagedDays \subseteq bMissing, NEW i \in Instruments
          PROVE  RowsOf(k, i) = bMissing \cap bTrades
      <4>1. RowsOf(k, i) \subseteq bMissing
        BY <3>3 DEF Boot!StagedDays, RowsOf
      <4>2. \A e \in bMissing : bDir[e] # "bootstrap"
        BY <3>1, <3>2 DEF Batch, Missing
      <4>3. bStage[k][i].done = "daily" /\ Staged(k, i)
        BY <3>1, <3>2 DEF Batch, BootInv, Folder
      <4> QED BY <3>2, <4>1, <4>2, <4>3 DEF Staged
    <3>4. Working' => Batch'
      BY <3>1, <3>2, <3>3 DEF Working, Batch, Missing, RowsOf
    <3> QED BY <3>1, <3>4, BootStays
  <2>4. CASE Boot!Replace
    BY <2>4 DEF Boot!Replace, BootInv, BootTypes
  <2>5. ASSUME NEW d \in WantedSessions, Boot!Corrupted(d) PROVE FALSE
    BY <2>5 DEF Boot!Corrupted, DiskHolds, BootInv, BootTypes
  <2> QED BY <2>1, <2>2, <2>3, <2>4, <2>5, BootStarts, BootDownloads, BootPlaces DEF Boot!Next, Boot!Run
<1>4. BootInv => Boot!CompleteDays
  BY DEF BootInv, Day, Boot!CompleteDays
<1> QED BY <1>1, <1>2, <1>3, <1>4, PTL DEF Spec

-----------------------------------------------------------------------------
(* The bars of the minute stream.                                            *)

\* A minute is written from here on: its candle takes no more packets.
ClosedAt(m) == (m + 1) * MinuteLen + Grace
Blocks == [min : Minute!Minutes, bar : Nat \cup {None}, whole : BOOLEAN]
\* What the feed thread is about to count is of a minute that is not closed yet, and a block
\* that stop() did not force is of a closed minute.
BarInv ==
    /\ mNow \in Nat /\ mCount \in [Minute!Minutes -> Nat] /\ mBars \in Seq(Blocks)
    /\ mTaken # None =>
           /\ mTaken \in [min : Minute!Minutes, at : Nat, kept : BOOLEAN]
           /\ mTaken.at + Grace < ClosedAt(mTaken.min) /\ mNow <= mTaken.at + Grace
    /\ mFlush # None => mFlush.min \in Minute!Minutes /\ (mFlush.min \in mCut \/ ClosedAt(mFlush.min) <= mNow)
    /\ \A i \in DOMAIN mBars :
           \/ mBars[i].min \in mCut
           \/ ClosedAt(mBars[i].min) <= mNow /\ mBars[i].bar \in {None, mCount[mBars[i].min]}

\* A time is in its minute.
LEMMA MinuteOfTime ==
    ASSUME NEW t \in Nat
    PROVE  Minute!Minute(t) \in Nat /\ t < (Minute!Minute(t) + 1) * MinuteLen
<1>1. MinuteLen \in Nat \ {0}
  BY InstanceAssumption DEF Minute!StreamAssumption
<1> QED BY <1>1 DEF Minute!Minute

\* The grace period keeps the feed thread out of a closed minute.
LEMMA BarsHeld == Spec => []BarInv
<1>0. /\ MinuteLen \in Nat \ {0} /\ Grace \in Nat /\ Minute!Minutes \subseteq Nat
      /\ \A m \in Minute!Minutes : ClosedAt(m) \in Nat /\ (Minute!Closed(m) <=> ClosedAt(m) <= mNow)
  <2>1. MinuteLen \in Nat \ {0} /\ Grace \in Nat /\ Minute!Minutes \subseteq Nat
    BY InstanceAssumption DEF Minute!StreamAssumption, Minute!Minutes
  <2> QED BY <2>1 DEF ClosedAt, Minute!Closed
<1>1. Init => BarInv
  BY DEF Init, Minute!Init, BarInv
<1>2. [Next]_vars => [Minute!Next]_(Minute!vars)
  BY DEF Next, vars, mVars, ArchiveOnly, BootOnly, MinuteOnly, LogOnly, StreamOnly, KeysOnly, LimiterOnly,
         ApiOnly, DerivativesOnly, ClientOnly, Minute!vars, Minute!feedVars, Minute!readVars
<1>3. BarInv /\ [Minute!Next]_(Minute!vars) => BarInv'
  <2> SUFFICES ASSUME BarInv, [Minute!Next]_(Minute!vars) PROVE BarInv'
    OBVIOUS
  <2>0. \A i \in DOMAIN mBars : mBars[i].min \in Minute!Minutes
    <3>1. mBars \in Seq(Blocks) /\ DOMAIN mBars = 1 .. Len(mBars)
      BY DEF BarInv
    <3>2. \A i \in DOMAIN mBars : mBars[i] \in Blocks
      BY <3>1, ElementOfSeq
    <3> QED BY <3>2 DEF Blocks
  <2>1. CASE Minute!Stop \/ Minute!Restart \/ Minute!Compact \/ Minute!Stat \/ Minute!Follow \/ UNCHANGED Minute!vars
    <3>1. UNCHANGED <<mNow, mCount, mBars, mTaken, mFlush, mCut>>
      BY <2>1 DEF Minute!Stop, Minute!Restart, Minute!Compact, Minute!Stat, Minute!Follow, Minute!vars,
         Minute!feedVars, Minute!readVars
    <3> QED BY <3>1 DEF BarInv, ClosedAt, Minute!Minutes
  <2>2. CASE Minute!Tick
    <3>1. mNow' = mNow + 1 /\ (mTaken # None => mNow < mTaken.at + Grace)
          /\ UNCHANGED <<mCount, mBars, mTaken, mFlush, mCut>>
      BY <2>2 DEF Minute!Tick
    <3>2. mNow \in Nat /\ \A m \in Minute!Minutes : ClosedAt(m) <= mNow => ClosedAt(m) <= mNow'
      BY <1>0, <3>1 DEF BarInv
    <3>3. mTaken # None => mNow' <= mTaken.at + Grace
      BY <1>0, <3>1, <3>2 DEF BarInv
    <3>4. mFlush # None => mFlush.min \in Minute!Minutes /\ (mFlush.min \in mCut \/ ClosedAt(mFlush.min) <= mNow')
      BY <3>2 DEF BarInv
    <3>5. \A i \in DOMAIN mBars :
              \/ mBars[i].min \in mCut
              \/ ClosedAt(mBars[i].min) <= mNow' /\ mBars[i].bar \in {None, mCount[mBars[i].min]}
      BY <2>0, <3>2 DEF BarInv
    <3> QED BY <3>1, <3>2, <3>3, <3>4, <3>5 DEF BarInv
  <2>3. CASE Minute!Observe
    <3> DEFINE m == Minute!Minute(mNow)
    <3>1. /\ m \in Minute!Minutes /\ mTaken' = [min |-> m, at |-> mNow, kept |-> TRUE]
          /\ UNCHANGED <<mNow, mCount, mBars, mFlush, mCut>>
      BY <2>3 DEF Minute!Observe
    <3>2. mNow \in Nat /\ mNow + Grace < ClosedAt(m)
      <4>1. mNow \in Nat
        BY DEF BarInv
      <4>2. m \in Nat /\ mNow < (m + 1) * MinuteLen /\ (m + 1) * MinuteLen \in Nat
        BY <1>0, <4>1, MinuteOfTime
      <4> HIDE DEF m
      <4> QED BY <1>0, <4>1, <4>2 DEF ClosedAt
    <3> HIDE DEF m
    <3> QED BY <1>0, <3>1, <3>2 DEF BarInv
  <2>4. CASE Minute!Account
    <3> DEFINE m == mTaken.min
    <3>1. mTaken # None /\ mTaken' = None /\ mCount' = [mCount EXCEPT ![m] = @ + 1]
          /\ UNCHANGED <<mNow, mBars, mFlush, mCut>>
      BY <2>4 DEF Minute!Account
    <3>2. m \in Minute!Minutes /\ ~(ClosedAt(m) <= mNow)
      BY <1>0, <3>1 DEF BarInv
    <3> HIDE DEF m
    <3>3. mCount' \in [Minute!Minutes -> Nat] /\ \A k \in Minute!Minutes \ {m} : mCount'[k] = mCount[k]
      BY <3>1, <3>2 DEF BarInv
    <3> QED BY <2>0, <3>1, <3>2, <3>3 DEF BarInv
  <2>5. CASE Minute!FlushPop
    <3> DEFINE m == Minute!Min(Minute!Ready)
    <3>1. /\ Minute!Ready # {} /\ UNCHANGED <<mNow, mCount, mBars>>
          /\ mCut' = IF Minute!Closed(m) THEN mCut ELSE mCut \cup {m}
          /\ mTaken' = mTaken \/ (mTaken # None /\ mTaken' = [mTaken EXCEPT !.kept = FALSE])
          /\ mFlush' = mFlush \/ \E p : mFlush' = [min |-> m, packets |-> p]
      BY <2>5 DEF Minute!FlushPop
    <3>2. m \in Minute!Minutes
      <4>1. Minute!Ready \in SUBSET Nat /\ Minute!Ready \subseteq Minute!Minutes
        BY <1>0 DEF Minute!Ready
      <4>2. \E p \in Minute!Ready : \A i \in Minute!Ready : p <= i
        BY <3>1, <4>1, LeastNatural
      <4> QED BY <4>1, <4>2 DEF Minute!Min
    <3> HIDE DEF m
    <3>3. mFlush' # None => mFlush'.min \in Minute!Minutes /\ (mFlush'.min \in mCut' \/ ClosedAt(mFlush'.min) <= mNow)
      BY <1>0, <3>1, <3>2 DEF BarInv
    <3>4. mTaken' # None =>
              /\ mTaken' \in [min : Minute!Minutes, at : Nat, kept : BOOLEAN]
              /\ mTaken'.at + Grace < ClosedAt(mTaken'.min) /\ mNow <= mTaken'.at + Grace
      BY <3>1 DEF BarInv
    <3>5. mCut \subseteq mCut'
      BY <3>1
    <3> QED BY <3>1, <3>3, <3>4, <3>5 DEF BarInv
  \* A block of the minute the flush thread holds.
  <2>6. ASSUME NEW w \in BOOLEAN, mFlush # None,
               mBars' = Append(mBars, [min |-> mFlush.min, bar |-> Minute!BarOf(mFlush.min), whole |-> w]),
               mFlush' = None, mTaken' \in {mTaken, None}, UNCHANGED <<mNow, mCount, mCut>>
        PROVE  BarInv'
    <3> DEFINE b == [min |-> mFlush.min, bar |-> Minute!BarOf(mFlush.min), whole |-> w]
    <3>1. mFlush.min \in Minute!Minutes /\ (mFlush.min \in mCut \/ ClosedAt(mFlush.min) <= mNow)
      BY <2>6 DEF BarInv
    <3>2. b.min = mFlush.min /\ b.bar \in {None, mCount[mFlush.min]} /\ b \in Blocks
      BY <3>1 DEF Minute!BarOf, BarInv, Blocks
    <3> HIDE DEF b
    <3>3. mBars \in Seq(Blocks) /\ mBars' = Append(mBars, b)
      BY <2>6 DEF BarInv, b
    <3>4. /\ mBars' \in Seq(Blocks) /\ DOMAIN mBars = 1 .. Len(mBars) /\ DOMAIN mBars' = 1 .. (Len(mBars) + 1)
          /\ mBars'[Len(mBars) + 1] = b /\ \A i \in 1 .. Len(mBars) : mBars'[i] = mBars[i]
      BY <3>2, <3>3
    <3>5. ASSUME NEW i \in DOMAIN mBars'
          PROVE  \/ mBars'[i].min \in mCut
                 \/ ClosedAt(mBars'[i].min) <= mNow /\ mBars'[i].bar \in {None, mCount[mBars'[i].min]}
      <4>1. CASE i \in DOMAIN mBars
        BY <3>4, <4>1 DEF BarInv
      <4>2. CASE i = Len(mBars) + 1
        BY <3>1, <3>2, <3>4, <4>2
      <4> QED BY <3>3, <3>4, <4>1, <4>2
    <3> QED BY <2>6, <3>4, <3>5 DEF BarInv
  <2>7. CASE Minute!WriteMinute
    BY <2>6, <2>7 DEF Minute!WriteMinute
  <2>8. CASE Minute!WriteError
    BY <2>8 DEF Minute!WriteError, BarInv
  <2>9. CASE Minute!Ends
    <3>1. mFlush' = None /\ mTaken' = None /\ UNCHANGED <<mNow, mCount, mCut>>
      BY <2>9 DEF Minute!Ends
    <3>2. CASE mBars' = mBars
      BY <3>1, <3>2 DEF BarInv
    <3>3. CASE /\ mFlush # None
               /\ mBars' = Append(mBars, [min |-> mFlush.min, bar |-> Minute!BarOf(mFlush.min), whole |-> FALSE])
      BY <2>6, <3>1, <3>3
    <3> QED BY <2>9, <3>2, <3>3 DEF Minute!Ends
  <2> QED BY <2>1, <2>2, <2>3, <2>4, <2>5, <2>7, <2>8, <2>9 DEF Minute!Next, Minute!Recorder, Minute!Reader
<1> QED BY <1>1, <1>2, <1>3, PTL DEF Spec

\* A bar of a closed minute is the minute's final bar, however late the flush thread writes it
\* and whenever the process is stopped or killed (microstructure.MicrostructureRecorder).
LEMMA BarsAreFinal == Spec => []Minute!BarsFinal
<1>1. BarInv => Minute!BarsFinal
  BY DEF BarInv, Minute!BarsFinal
<1> QED BY <1>1, BarsHeld, PTL

-----------------------------------------------------------------------------
(* The events of a session.                                                  *)

\* What the last event is after bar k, from what it was before.
Stepped(g, k) == IF lCandidate[k] > 0 /\ Log!Due(g[k - 1], k) THEN <<k, lCandidate[k]>> ELSE g[k - 1]
\* g is the last event after each bar up to m.
RunUpTo(m, g) == g = [k \in -1 .. m |-> IF k = -1 THEN None ELSE Stepped(g, k)]

\* The uninterrupted run exists, and goes bar by bar.
LEMMA OneRunExists ==
    Log!LastOf[-1] = None /\ \A k \in Log!Bars : Log!LastOf[k] = Stepped(Log!LastOf, k)
<1>0. LastBar \in Nat /\ Log!Bars = 0 .. LastBar
  BY InstanceAssumption DEF Log!LogAssumption, Log!Bars
<1> DEFINE Bad == {n \in Nat : n <= LastBar + 1 /\ ~ \E g : RunUpTo(n - 1, g)}
<1>1. Bad = {}
  <2> SUFFICES ASSUME Bad # {} PROVE FALSE
    OBVIOUS
  <2>1. PICK n \in Bad : \A k \in Bad : n <= k
    <3>1. Bad \in SUBSET Nat
      OBVIOUS
    <3> HIDE DEF Bad
    <3> QED BY <3>1, LeastNatural
  <2>2. n # 0
    <3>1. RunUpTo(-1, [k \in -1 .. -1 |-> None])
      BY DEF RunUpTo
    <3> QED BY <2>1, <3>1
  <2> DEFINE m == n - 1
  <2>3. PICK g : RunUpTo(m - 1, g)
    <3>1. n - 1 \in Nat /\ n - 1 <= LastBar + 1 /\ n - 1 \notin Bad
      BY <1>0, <2>1, <2>2
    <3> QED BY <3>1
  <2>4. m \in Nat
    BY <2>1, <2>2
  <2> HIDE DEF m
  <2> DEFINE h == [k \in -1 .. m |-> IF k = m THEN Stepped(g, m) ELSE g[k]]
  <2>5. RunUpTo(m, h)
    <3>1. \A k \in -1 .. m - 1 : g[k] = IF k = -1 THEN None ELSE Stepped(g, k)
      BY <2>3 DEF RunUpTo
    <3>2. ASSUME NEW k \in -1 .. m PROVE h[k] = IF k = -1 THEN None ELSE Stepped(h, k)
      BY <2>4, <3>1 DEF Stepped
    <3> HIDE DEF h
    <3>3. h = [k \in -1 .. m |-> h[k]]
      BY DEF h
    <3> QED BY <3>2, <3>3, Zenon DEF RunUpTo
  <2> QED BY <2>1, <2>5 DEF m
<1>2. \E g : RunUpTo(LastBar, g)
  <2>1. LastBar + 1 \notin Bad /\ LastBar + 1 - 1 = LastBar
    <3> HIDE DEF Bad
    <3> QED BY <1>0, <1>1
  <2> QED BY <1>0, <2>1
<1> DEFINE g == CHOOSE g : RunUpTo(LastBar, g)
<1>3. RunUpTo(LastBar, g)
  BY <1>2
<1>4. Log!LastOf = g
  BY DEF Log!LastOf, RunUpTo, Stepped, Log!Due
<1> HIDE DEF g
<1> QED BY <1>0, <1>3, <1>4 DEF RunUpTo

\* The last event is one of a bar that has been, and a bar fires when its candidate is due
\* after the bars before it.
LEMMA LastEvents ==
    ASSUME lCandidate \in [Log!Bars -> Nat]
    PROVE  /\ \A m \in -1 .. LastBar : Log!LastOf[m] = None \/ \E j \in 0 .. m : Log!LastOf[m] = <<j, lCandidate[j]>>
           /\ \A m \in Log!Bars :
                 /\ Log!Fires(m) <=> lCandidate[m] > 0 /\ Log!Due(Log!LastOf[m - 1], m)
                 /\ Log!LastOf[m] = IF Log!Fires(m) THEN <<m, lCandidate[m]>> ELSE Log!LastOf[m - 1]
<1>0. LastBar \in Nat /\ Log!Bars = 0 .. LastBar /\ None \notin Int \cup (Int \X Int)
  BY InstanceAssumption DEF Log!LogAssumption, Log!Bars
<1> DEFINE Known(m) == Log!LastOf[m] = None \/ \E j \in 0 .. m : Log!LastOf[m] = <<j, lCandidate[j]>>
           Bad == {n \in Nat : n <= LastBar + 1 /\ ~Known(n - 1)}
<1>1. Bad = {}
  <2> SUFFICES ASSUME Bad # {} PROVE FALSE
    OBVIOUS
  <2>1. PICK n \in Bad : \A k \in Bad : n <= k
    <3>1. Bad \in SUBSET Nat
      OBVIOUS
    <3> HIDE DEF Bad
    <3> QED BY <3>1, LeastNatural
  <2>2. n # 0
    <3>1. Known(-1)
      BY OneRunExists
    <3> QED BY <2>1, <3>1
  <2>3. Known(n - 2) /\ n - 1 \in 0 .. LastBar /\ n \in Nat
    <3>1. n - 1 \in Nat /\ n - 1 <= LastBar + 1 /\ n - 1 \notin Bad /\ (n - 1) - 1 = n - 2
      BY <1>0, <2>1, <2>2
    <3> QED BY <1>0, <2>1, <3>1
  <2>4. Log!LastOf[n - 1] = <<n - 1, lCandidate[n - 1]>> \/ Log!LastOf[n - 1] = Log!LastOf[n - 2]
    <3>1. (n - 1) - 1 = n - 2
      BY <2>3
    <3> QED BY <1>0, <2>3, <3>1, OneRunExists DEF Stepped
  <2>5. Known(n - 1)
    BY <2>3, <2>4
  <2> QED BY <2>1, <2>5
<1>2. ASSUME NEW m \in -1 .. LastBar PROVE Known(m)
  <2>1. m + 1 \in Nat /\ m + 1 <= LastBar + 1 /\ m + 1 - 1 = m
    BY <1>0
  <2>2. m + 1 \notin Bad
    <3> HIDE DEF Bad
    <3> QED BY <1>1
  <2> QED BY <2>1, <2>2
<1>3. ASSUME NEW m \in Log!Bars
      PROVE  /\ Log!Fires(m) <=> lCandidate[m] > 0 /\ Log!Due(Log!LastOf[m - 1], m)
             /\ Log!LastOf[m] = IF Log!Fires(m) THEN <<m, lCandidate[m]>> ELSE Log!LastOf[m - 1]
  <2>1. Log!LastOf[m] = Stepped(Log!LastOf, m)
    BY OneRunExists
  <2>2. Known(m - 1) /\ m \in Nat /\ lCandidate[m] \in Nat
    BY <1>0, <1>2
  <2>3. <<m, lCandidate[m]>> # None /\ <<m, lCandidate[m]>> # Log!LastOf[m - 1]
    <3>1. <<m, lCandidate[m]>> \in Int \X Int
      BY <2>2
    <3> QED BY <1>0, <2>2, <3>1
  <2> HIDE DEF Known
  <2> QED BY <2>1, <2>3 DEF Stepped, Log!Fires
<1> QED BY <1>2, <1>3

\* An engine's last event is that of the uninterrupted run; or it began again with the store's
\* last event, has not reached that event's bar and has met no candidate above it.
InStep(e) == lLast[e] = Log!LastOf[lNext[e] - 1]
Behind(e) ==
    \E s \in lStore : /\ lLast[e] = <<s, lCandidate[s]>> /\ lNext[e] <= s
                      /\ \A k \in 0 .. lNext[e] - 1 : lCandidate[k] <= lCandidate[s]
Engine(e) ==
    /\ \A m \in Log!Bars : m < lNext[e] /\ Log!Fires(m) => m \in lStore
    /\ ~lSession[e] => lNext[e] = 0 /\ lAdding[e] = None
    /\ lAdding[e] # None => lAdding[e] = lNext[e] /\ Log!Fires(lNext[e]) /\ lLast[e] = Log!LastOf[lNext[e]]
    /\ lSession[e] /\ lAdding[e] = None => InStep(e) \/ Behind(e)
StoreInv == \A m \in lStore : Log!Fires(m) /\ \A k \in Log!Bars : k < m /\ Log!Fires(k) => k \in lStore
LogTypes ==
    /\ lCandidate \in [Log!Bars -> Nat] /\ lStore \subseteq Log!Bars /\ lErrors \in Nat
    /\ lNext \in [Engines -> Nat] /\ lLast = [e \in Engines |-> lLast[e]]
    /\ lSession \in [Engines -> BOOLEAN] /\ lAdding \in [Engines -> Log!Bars \cup {None}]
LogInv == LogTypes /\ (lErrors = 0 => StoreInv /\ \A e \in Engines : Engine(e))

\* The other engines stay as they are when one of them steps or adds to the store.
LEMMA OthersStay ==
    ASSUME NEW e \in Engines, Engine(e), lCandidate' = lCandidate, lStore \subseteq lStore',
           lNext'[e] = lNext[e], lLast'[e] = lLast[e], lSession'[e] = lSession[e], lAdding'[e] = lAdding[e]
    PROVE  Engine(e)'
<1>1. Log!LastOf' = Log!LastOf
  BY DEF Log!LastOf
<1>2. \A m : Log!Fires(m)' <=> Log!Fires(m)
  BY <1>1 DEF Log!Fires
<1>3. InStep(e) => InStep(e)'
  BY <1>1 DEF InStep
<1>4. Behind(e) => Behind(e)'
  BY DEF Behind
<1> QED BY <1>1, <1>2, <1>3, <1>4 DEF Engine, Log!Bars

\* The engine's next bar fires exactly when its candidate is due after the last event the engine
\* has: after that event it is in step again, and an engine that has passed the bar it began
\* from is too.
LEMMA NextBar ==
    ASSUME LogTypes, StoreInv, NEW e \in Engines, Engine(e), lAdding[e] = None, lNext[e] \in Log!Bars,
           NEW l, l = Log!Cooling(e), NEW m, m = lNext[e]
    PROVE  IF lCandidate[m] > 0 /\ Log!Due(l, m)
           THEN Log!Fires(m) /\ Log!LastOf[m] = <<m, lCandidate[m]>>
           ELSE /\ Log!Fires(m) => m \in lStore
                /\ \/ l = Log!LastOf[m]
                   \/ \E s \in lStore : /\ l = <<s, lCandidate[s]>> /\ m + 1 <= s
                                        /\ \A k \in 0 .. m : lCandidate[k] <= lCandidate[s]
<1>0. LastBar \in Nat /\ Log!Bars = 0 .. LastBar /\ Cooldown \in Nat \ {0} /\ None \notin Int \cup (Int \X Int)
      /\ m \in Nat /\ lCandidate[m] \in Nat
  BY InstanceAssumption DEF Log!LogAssumption, Log!Bars, LogTypes
<1>1. /\ Log!Fires(m) <=> lCandidate[m] > 0 /\ Log!Due(Log!LastOf[m - 1], m)
      /\ Log!LastOf[m] = IF Log!Fires(m) THEN <<m, lCandidate[m]>> ELSE Log!LastOf[m - 1]
  BY LastEvents DEF LogTypes
<1>2. \/ l = Log!LastOf[m - 1]
      \/ \E s \in lStore : /\ l = <<s, lCandidate[s]>> /\ m <= s
                           /\ \A k \in 0 .. m - 1 : lCandidate[k] <= lCandidate[s]
  <2>1. CASE lSession[e]
    BY <2>1 DEF Engine, InStep, Behind, Log!Cooling
  <2>2. CASE ~lSession[e] /\ lStore = {}
    BY <2>2, OneRunExists DEF Engine, Log!Cooling, Log!last_fired
  <2>3. CASE ~lSession[e] /\ lStore # {}
    <3> DEFINE s == Log!Max(lStore)
    <3>1. s \in lStore
      <4>1. lStore \in SUBSET (0 .. LastBar)
        BY <1>0 DEF LogTypes
      <4>2. \E p \in lStore : \A i \in lStore : p >= i
        BY <1>0, <2>3, <4>1, GreatestUpTo
      <4> QED BY <4>2 DEF Log!Max
    <3>2. l = <<s, lCandidate[s]>> /\ m = 0
      BY <2>3 DEF Engine, Log!Cooling, Log!last_fired
    <3> HIDE DEF s
    <3>3. m <= s /\ 0 .. m - 1 = {}
      BY <1>0, <3>1, <3>2 DEF LogTypes
    <3> QED BY <3>1, <3>2, <3>3
  <2> QED BY <2>1, <2>2, <2>3
<1>3. CASE l = Log!LastOf[m - 1]
  BY <1>1, <1>3
<1>4. ASSUME NEW s \in lStore, l = <<s, lCandidate[s]>>, m <= s,
             \A k \in 0 .. m - 1 : lCandidate[k] <= lCandidate[s]
      PROVE  IF lCandidate[m] > 0 /\ Log!Due(l, m)
             THEN Log!Fires(m) /\ Log!LastOf[m] = <<m, lCandidate[m]>>
             ELSE /\ Log!Fires(m) => m \in lStore
                  /\ l = Log!LastOf[m] \/ (m + 1 <= s /\ \A k \in 0 .. m : lCandidate[k] <= lCandidate[s])
  <2>1. s \in Nat /\ s \in Log!Bars /\ lCandidate[s] \in Nat
    BY <1>0 DEF LogTypes
  <2>2. Log!Due(l, m) <=> lCandidate[m] > lCandidate[s]
    <3>1. l # None /\ l[1] = s /\ l[2] = lCandidate[s]
      BY <1>0, <1>4, <2>1
    <3>2. ~(m - s >= Cooldown)
      BY <1>0, <1>4, <2>1
    <3> QED BY <3>1, <3>2 DEF Log!Due
  <2>3. Log!Fires(m) => m \in lStore
    <3>1. m = s \/ m < s
      BY <1>0, <1>4, <2>1
    <3> QED BY <1>0, <3>1 DEF StoreInv
  <2>4. CASE lCandidate[m] > lCandidate[s]
    <3>1. Log!LastOf[m - 1] = None \/ \E j \in 0 .. m - 1 : Log!LastOf[m - 1] = <<j, lCandidate[j]>>
      <4>1. m - 1 \in -1 .. LastBar
        BY <1>0
      <4> QED BY <4>1, LastEvents DEF LogTypes
    <3>2. ASSUME NEW j \in 0 .. m - 1, Log!LastOf[m - 1] = <<j, lCandidate[j]>>
          PROVE  Log!Due(Log!LastOf[m - 1], m)
      <4>1. lCandidate[j] \in Nat /\ lCandidate[j] <= lCandidate[s]
        BY <1>0, <1>4, <3>2 DEF LogTypes
      <4>2. lCandidate[m] > lCandidate[j]
        BY <1>0, <2>1, <2>4, <4>1
      <4> QED BY <3>2, <4>2 DEF Log!Due
    <3>3. Log!Due(Log!LastOf[m - 1], m)
      BY <3>1, <3>2 DEF Log!Due
    <3>4. lCandidate[m] > 0
      BY <1>0, <2>1, <2>4
    <3> QED BY <1>1, <2>2, <2>4, <3>3, <3>4
  <2>5. CASE ~(lCandidate[m] > lCandidate[s])
    <3>1. CASE m = s
      <4>1. Log!Fires(m)
        BY <3>1 DEF StoreInv
      <4> QED BY <1>1, <1>4, <2>2, <2>3, <2>5, <3>1, <4>1
    <3>2. CASE m # s
      <4>1. m + 1 <= s
        BY <1>0, <1>4, <2>1, <3>2
      <4>2. \A k \in 0 .. m : lCandidate[k] <= lCandidate[s]
        BY <1>0, <1>4, <2>1, <2>5
      <4> QED BY <2>2, <2>3, <2>5, <4>1, <4>2
    <3> QED BY <3>1, <3>2
  <2> QED BY <2>4, <2>5
<1> QED BY <1>2, <1>3, <1>4

\* The store is that of one uninterrupted run, in whatever order the engines reach the bars and
\* wherever they are cut off and started again (events.EventEngine, event_store.EventStore).
LEMMA EventsOfOneRun == Spec => [](LogInv /\ Log!OneRun)
<1>0. LastBar \in Nat /\ Log!Bars = 0 .. LastBar /\ Ranks \subseteq Nat /\ None \notin Int
  BY InstanceAssumption DEF Log!LogAssumption, Log!Bars
<1>1. Init => LogInv
  <2> SUFFICES ASSUME Init PROVE LogInv
    OBVIOUS
  <2>1. /\ lCandidate \in [Log!Bars -> Ranks \cup {0}] /\ lStore = {} /\ lNext = [e \in Engines |-> 0]
        /\ lLast = [e \in Engines |-> None] /\ lSession = [e \in Engines |-> FALSE]
        /\ lAdding = [e \in Engines |-> None] /\ lErrors = 0
    BY DEF Init, Log!Init
  <2>2. LogTypes
    <3>1. lCandidate \in [Log!Bars -> Nat]
      <4>1. Ranks \cup {0} \subseteq Nat
        BY <1>0
      <4> QED BY <2>1, <4>1
    <3>2. lLast = [e \in Engines |-> lLast[e]]
      BY <2>1
    <3> QED BY <2>1, <3>1, <3>2 DEF LogTypes
  <2>3. \A e \in Engines : Engine(e)
    BY <1>0, <2>1 DEF Engine
  <2> QED BY <2>1, <2>2, <2>3 DEF LogInv, StoreInv
<1>2. [Next]_vars => [Log!Next]_(Log!vars)
  BY DEF Next, vars, lVars, ArchiveOnly, BootOnly, MinuteOnly, LogOnly, StreamOnly, KeysOnly, LimiterOnly,
         ApiOnly, DerivativesOnly, ClientOnly, Log!vars
<1>3. LogInv /\ [Log!Next]_(Log!vars) => LogInv'
  <2> SUFFICES ASSUME LogInv, [Log!Next]_(Log!vars) PROVE LogInv'
    OBVIOUS
  <2>0. LogTypes
    BY DEF LogInv
  \* What holds of the uninterrupted run holds after the step.
  <2>1. ASSUME lCandidate' = lCandidate
        PROVE  /\ \A m : Log!LastOf'[m] = Log!LastOf[m] /\ (Log!Fires(m)' <=> Log!Fires(m))
               /\ lStore' = lStore /\ StoreInv => StoreInv'
    <3>1. Log!LastOf' = Log!LastOf
      BY <2>1 DEF Log!LastOf
    <3>2. \A m : Log!Fires(m)' <=> Log!Fires(m)
      BY <3>1 DEF Log!Fires
    <3> QED BY <3>1, <3>2 DEF StoreInv, Log!Bars
  \* A step of one engine that leaves the store, or adds the bar the engine has reached.
  <2>2. ASSUME NEW e \in Engines, LogTypes', lCandidate' = lCandidate, lErrors' = lErrors,
               lStore' = lStore \/ (lErrors = 0 => StoreInv' /\ lStore \subseteq lStore'), lErrors = 0 => Engine(e)',
               \A f \in Engines \ {e} : /\ lNext'[f] = lNext[f] /\ lLast'[f] = lLast[f]
                                        /\ lSession'[f] = lSession[f] /\ lAdding'[f] = lAdding[f]
        PROVE  LogInv'
    <3>1. ASSUME lErrors = 0 PROVE StoreInv' /\ lStore \subseteq lStore'
      BY <2>1, <2>2, <3>1 DEF LogInv
    <3>2. ASSUME lErrors = 0, NEW f \in Engines \ {e} PROVE Engine(f)'
      BY <2>2, <3>1, <3>2, OthersStay DEF LogInv
    <3> QED BY <2>2, <3>1, <3>2 DEF LogInv
  <2>3. CASE UNCHANGED Log!vars
    <3>1. /\ lCandidate' = lCandidate /\ lStore' = lStore /\ lErrors' = lErrors /\ lNext' = lNext /\ lLast' = lLast
          /\ lSession' = lSession /\ lAdding' = lAdding
      BY <2>3 DEF Log!vars
    <3>2. LogTypes'
      BY <2>0, <3>1 DEF LogTypes, Log!Bars
    <3>3. \A e \in Engines : lErrors = 0 => Engine(e)'
      BY <3>1, OthersStay DEF LogInv
    <3> QED BY <2>1, <3>1, <3>2, <3>3 DEF LogInv
  <2>4. ASSUME NEW e \in Engines, Log!Build(e) PROVE LogInv'
    <3> DEFINE m == lNext[e]
               l == Log!Cooling(e)
               due == lCandidate[m] > 0 /\ Log!Due(l, m)
               event == IF due THEN <<m, lCandidate[m]>> ELSE l
               bar == IF due THEN m ELSE None
               next == IF due THEN m ELSE m + 1
    <3>1. /\ lAdding[e] = None /\ m \in Log!Bars /\ lSession' = [lSession EXCEPT ![e] = TRUE]
          /\ lLast' = [lLast EXCEPT ![e] = event] /\ lAdding' = [lAdding EXCEPT ![e] = bar]
          /\ lNext' = [lNext EXCEPT ![e] = next]
          /\ lCandidate' = lCandidate /\ lStore' = lStore /\ lErrors' = lErrors
      BY <2>4 DEF Log!Build
    <3>2. lErrors = 0 =>
              IF due THEN Log!Fires(m) /\ Log!LastOf[m] = <<m, lCandidate[m]>>
              ELSE /\ Log!Fires(m) => m \in lStore
                   /\ \/ l = Log!LastOf[m]
                      \/ \E s \in lStore : /\ l = <<s, lCandidate[s]>> /\ m + 1 <= s
                                           /\ \A k \in 0 .. m : lCandidate[k] <= lCandidate[s]
      BY <2>0, <3>1, NextBar DEF LogInv
    <3>3. lErrors = 0 => \A k \in Log!Bars : k < m /\ Log!Fires(k) => k \in lStore
      BY DEF LogInv, Engine
    <3>4. m \in Nat /\ bar \in Log!Bars \cup {None} /\ next \in Nat
      BY <1>0, <3>1
    <3> HIDE DEF due, l, m, event, bar, next
    <3>5. LogTypes'
      BY <2>0, <3>1, <3>4 DEF LogTypes, Log!Bars
    <3>6. /\ lSession'[e] = TRUE /\ lAdding'[e] = bar /\ lLast'[e] = event /\ lNext'[e] = next
          /\ \A f \in Engines \ {e} : /\ lNext'[f] = lNext[f] /\ lLast'[f] = lLast[f]
                                      /\ lSession'[f] = lSession[f] /\ lAdding'[f] = lAdding[f]
      BY <2>0, <3>1 DEF LogTypes
    <3>7. ASSUME lErrors = 0 PROVE Engine(e)'
      <4>1. CASE due
        <5>1. bar = m /\ next = m /\ event = Log!LastOf[m] /\ m # None /\ Log!Fires(m)
          BY <1>0, <3>2, <3>4, <3>7, <4>1 DEF bar, next, event
        <5> QED BY <2>1, <3>1, <3>3, <3>6, <3>7, <5>1 DEF Engine, Log!Bars
      <4>2. CASE ~due
        <5>1. bar = None /\ next = m + 1 /\ event = l /\ m + 1 - 1 = m
          BY <3>4, <4>2 DEF bar, next, event
        <5>2. \A k \in Log!Bars : k < m + 1 /\ Log!Fires(k) => k \in lStore
          BY <1>0, <3>2, <3>3, <3>4, <3>7, <4>2
        <5>3. lLast'[e] = l /\ lNext'[e] = m + 1 /\ lNext'[e] - 1 = m
          <6>1. lLast'[e] = l /\ lNext'[e] = m + 1
            BY <3>6, <5>1
          <6> QED BY <3>4, <6>1
        <5>4. ASSUME l = Log!LastOf[m] PROVE InStep(e)'
          <6>1. lLast'[e] = Log!LastOf'[m]
            BY <2>1, <3>1, <5>3, <5>4
          <6> QED BY <5>3, <6>1 DEF InStep
        <5>5. ASSUME NEW s \in lStore, l = <<s, lCandidate[s]>>, m + 1 <= s,
                     \A k \in 0 .. m : lCandidate[k] <= lCandidate[s]
              PROVE  Behind(e)'
          <6>1. s \in lStore' /\ lLast'[e] = <<s, lCandidate'[s]>> /\ lNext'[e] <= s
            BY <3>1, <5>3, <5>5
          <6>2. \A k \in 0 .. lNext'[e] - 1 : lCandidate'[k] <= lCandidate'[s]
            BY <3>1, <5>3, <5>5
          <6> QED BY <6>1, <6>2 DEF Behind
        <5>6. \/ l = Log!LastOf[m]
              \/ \E s \in lStore : /\ l = <<s, lCandidate[s]>> /\ m + 1 <= s
                                   /\ \A k \in 0 .. m : lCandidate[k] <= lCandidate[s]
          BY <3>2, <3>7, <4>2
        <5>7. InStep(e)' \/ Behind(e)'
          BY <5>4, <5>5, <5>6
        <5> QED BY <2>1, <3>1, <3>6, <5>1, <5>2, <5>7 DEF Engine, Log!Bars
      <4> QED BY <4>1, <4>2
    <3> QED BY <2>2, <3>1, <3>5, <3>6, <3>7
  <2>5. ASSUME NEW e \in Engines, Log!Add(e) PROVE LogInv'
    <3> DEFINE m == lAdding[e]
    <3>1. /\ m # None /\ lStore' = lStore \cup {m}
          /\ lAdding' = [lAdding EXCEPT ![e] = None] /\ lNext' = [lNext EXCEPT ![e] = @ + 1]
          /\ lCandidate' = lCandidate /\ lLast' = lLast /\ lSession' = lSession /\ lErrors' = lErrors
      BY <2>5 DEF Log!Add
    <3>2. m \in Log!Bars /\ m \in Nat
      BY <1>0, <2>0, <3>1 DEF LogTypes
    <3>3. lErrors = 0 => /\ StoreInv /\ Engine(e) /\ lNext[e] = m /\ Log!Fires(m) /\ lLast[e] = Log!LastOf[m]
                         /\ \A k \in Log!Bars : k < m /\ Log!Fires(k) => k \in lStore
      BY <3>1 DEF LogInv, Engine
    <3> HIDE DEF m
    <3>4. /\ LogTypes' /\ lAdding'[e] = None /\ lNext'[e] = lNext[e] + 1
          /\ \A f \in Engines \ {e} : /\ lNext'[f] = lNext[f] /\ lLast'[f] = lLast[f]
                                      /\ lSession'[f] = lSession[f] /\ lAdding'[f] = lAdding[f]
      BY <2>0, <3>1, <3>2 DEF LogTypes, Log!Bars
    <3>5. ASSUME lErrors = 0 PROVE StoreInv'
      BY <2>1, <3>1, <3>3, <3>5 DEF StoreInv, Log!Bars
    <3>6. ASSUME lErrors = 0 PROVE Engine(e)'
      <4>1. lNext'[e] = m + 1 /\ m + 1 - 1 = m
        BY <3>2, <3>3, <3>4, <3>6
      <4>2. \A k \in Log!Bars : k < m + 1 /\ Log!Fires(k) => k \in lStore'
        BY <1>0, <3>1, <3>2, <3>3, <3>6
      <4>3. InStep(e)'
        <5>1. lNext'[e] - 1 = m
          BY <3>2, <4>1
        <5>2. lLast'[e] = Log!LastOf'[m]
          BY <2>1, <3>1, <3>3, <3>6
        <5> QED BY <5>1, <5>2 DEF InStep
      <4>4. lSession'[e]
        BY <2>0, <3>1, <3>3, <3>6 DEF LogInv, Engine, LogTypes, m
      <4> QED BY <2>1, <3>1, <3>4, <4>1, <4>2, <4>3, <4>4 DEF Engine, Log!Bars
    <3> QED BY <2>2, <3>1, <3>4, <3>5, <3>6
  <2>6. ASSUME NEW e \in Engines, Log!AddFails(e) PROVE LogInv'
    <3>1. LogTypes' /\ lErrors' = lErrors + 1 /\ lErrors \in Nat
      BY <2>0, <2>6 DEF Log!AddFails, LogTypes, Log!Bars
    <3> QED BY <3>1 DEF LogInv
  <2>7. ASSUME NEW e \in Engines, Log!Restart(e) PROVE LogInv'
    <3>1. /\ lNext' = [lNext EXCEPT ![e] = 0] /\ lLast' = [lLast EXCEPT ![e] = None]
          /\ lSession' = [lSession EXCEPT ![e] = FALSE] /\ lAdding' = [lAdding EXCEPT ![e] = None]
          /\ lCandidate' = lCandidate /\ lStore' = lStore /\ lErrors' = lErrors
      BY <2>7 DEF Log!Restart
    <3>2. /\ LogTypes' /\ lNext'[e] = 0 /\ lSession'[e] = FALSE /\ lAdding'[e] = None
          /\ \A f \in Engines \ {e} : /\ lNext'[f] = lNext[f] /\ lLast'[f] = lLast[f]
                                      /\ lSession'[f] = lSession[f] /\ lAdding'[f] = lAdding[f]
      BY <2>0, <3>1 DEF LogTypes, Log!Bars
    <3>3. Engine(e)'
      BY <1>0, <3>2 DEF Engine, Log!Bars
    <3> QED BY <2>2, <3>1, <3>2, <3>3
  <2> QED BY <2>3, <2>4, <2>5, <2>6, <2>7 DEF Log!Next
<1>4. LogInv => Log!OneRun
  BY DEF LogInv, StoreInv, Engine, Log!OneRun
<1> QED BY <1>1, <1>2, <1>3, <1>4, PTL DEF Spec

-----------------------------------------------------------------------------
(* The archive of the day.                                                   *)

\* Short sequences are their elements.
LEMMA Short ==
    ASSUME NEW S, NEW s \in Seq(S), NEW a, NEW b
    PROVE  /\ Len(s) = 1 /\ s[1] = a => s = <<a>>
           /\ Len(s) = 2 /\ s[1] = a /\ s[2] = b => s = <<a, b>>
<1>1. ASSUME Len(s) = 1, s[1] = a PROVE s = <<a>>
  <2> DEFINE t == <<a>>
  <2>1. t \in Seq(S) /\ Len(t) = 1 /\ t[1] = a
    <3>1. a \in S
      BY <1>1, ElementOfSeq
    <3> QED BY <3>1
  <2> HIDE DEF t
  <2>2. Len(s) = Len(t) /\ \A i \in 1..Len(s) : s[i] = t[i]
    BY <1>1, <2>1
  <2>3. s = t
    BY <2>1, <2>2, SeqEqual
  <2> QED BY <2>3 DEF t
<1>2. ASSUME Len(s) = 2, s[1] = a, s[2] = b PROVE s = <<a, b>>
  <2> DEFINE t == <<a, b>>
  <2>1. t \in Seq(S) /\ Len(t) = 2 /\ t[1] = a /\ t[2] = b
    <3>1. 1 \in 1..Len(s) /\ 2 \in 1..Len(s)
      BY <1>2
    <3>2. s[1] \in S /\ s[2] \in S
      BY <3>1, ElementOfSeq
    <3>3. a \in S /\ b \in S
      BY <1>2, <3>2
    <3> QED BY <3>3
  <2> HIDE DEF t
  <2>2. Len(s) = Len(t) /\ \A i \in 1..Len(s) : s[i] = t[i]
    BY <1>2, <2>1
  <2>3. s = t
    BY <2>1, <2>2, SeqEqual
  <2> QED BY <2>3 DEF t
<1> QED BY <1>1, <1>2

\* What is left of a writer's tables after the first, and with one put before it.
LEMMA Rests ==
    ASSUME NEW a, NEW b
    PROVE  /\ Arch!Tail1(<<a>>) = <<>> /\ Arch!Tail1(<<a, b>>) = <<b>>
           /\ <<a>> \o <<>> = <<a>> /\ <<a>> \o <<b>> = <<a, b>>
<1>1. Arch!Tail1(<<a>>) = <<>>
  BY DEF Arch!Tail1
<1>2. Arch!Tail1(<<a, b>>) = <<b>>
  <2> DEFINE s == <<a, b>>
  <2>1. s \in Seq({a, b}) /\ Len(s) = 2 /\ s[2] = b
    OBVIOUS
  <2> HIDE DEF s
  <2>2. SubSeq(s, 2, 2) \in Seq({a, b}) /\ Len(SubSeq(s, 2, 2)) = 1 /\ SubSeq(s, 2, 2)[1] = s[2]
    BY <2>1
  <2>3. SubSeq(s, 2, 2) = <<b>>
    BY <2>1, <2>2, Short
  <2> QED BY <2>1, <2>3 DEF Arch!Tail1, s
<1>3. <<a>> \o <<>> = <<a>>
  OBVIOUS
<1>4. <<a>> \o <<b>> = <<a, b>>
  <2> DEFINE s == <<a>> \o <<b>>
  <2>1. <<a>> \in Seq({a, b}) /\ <<b>> \in Seq({a, b}) /\ Len(<<a>>) = 1 /\ Len(<<b>>) = 1
    OBVIOUS
  <2>2. s \in Seq({a, b}) /\ Len(s) = 2 /\ s[1] = a /\ s[2] = b
    BY <2>1
  <2> HIDE DEF s
  <2>3. s = <<a, b>>
    BY <2>2, Short
  <2> QED BY <2>3 DEF s
<1> QED BY <1>1, <1>2, <1>3, <1>4

\* What a writer may have before it.
Tasks == {<<>>, <<"equity">>, <<"index">>, <<"reference">>, <<"equity", "index">>, <<"reference", "index">>}
After(s) == IF Len(s) = 2 THEN <<"index">> ELSE <<>>
LEMMA TasksGoOn ==
    \A s \in Tasks \ {<<>>} :
        /\ Head(s) \in Arch!Tables /\ Arch!Tail1(s) = After(s) /\ After(s) \in {<<>>, <<"index">>}
        /\ Head(s) = "equity" => <<"reference">> \o After(s) \in Tasks \ {<<>>}
        /\ Arch!Tail1(s) = <<"index">> <=> Len(s) = 2
<1> SUFFICES ASSUME NEW s \in Tasks \ {<<>>}
             PROVE  /\ Head(s) \in Arch!Tables /\ Arch!Tail1(s) = After(s) /\ After(s) \in {<<>>, <<"index">>}
                    /\ Head(s) = "equity" => <<"reference">> \o After(s) \in Tasks \ {<<>>}
                    /\ Arch!Tail1(s) = <<"index">> <=> Len(s) = 2
  OBVIOUS
<1>0. <<"reference">> \in Tasks \ {<<>>} /\ <<"reference", "index">> \in Tasks \ {<<>>} /\ <<>> # <<"index">>
  BY DEF Tasks
<1>1. CASE \E a \in Arch!Tables : s = <<a>>
  <2>1. PICK a \in Arch!Tables : s = <<a>>
    BY <1>1
  <2>2. Head(s) = a /\ Len(s) = 1 /\ Arch!Tail1(s) = <<>>
    <3>1. Head(s) = a /\ Len(s) = 1
      BY <2>1
    <3>2. Arch!Tail1(s) = <<>>
      BY <2>1, Rests, Zenon
    <3> QED BY <3>1, <3>2
  <2>3. After(s) = <<>> /\ <<"reference">> \o <<>> = <<"reference">>
    BY <2>2, Rests DEF After
  <2> QED BY <1>0, <2>2, <2>3
<1>2. CASE \E a \in Arch!Tables : s = <<a, "index">>
  <2>1. PICK a \in Arch!Tables : s = <<a, "index">>
    BY <1>2
  <2>2. Head(s) = a /\ Len(s) = 2
    BY <2>1
  <2>3. Arch!Tail1(s) = <<"index">>
    BY <2>1, Rests
  <2>4. After(s) = <<"index">> /\ <<"reference">> \o <<"index">> = <<"reference", "index">>
    BY <2>2, Rests DEF After
  <2> QED BY <1>0, <2>2, <2>3, <2>4
<1>3. \E a \in Arch!Tables : s = <<a>> \/ s = <<a, "index">>
  BY DEF Tasks, Arch!Tables
<1> QED BY <1>1, <1>2, <1>3

\* s's rows are in its table and in the manifest.
Saved(s) == aFile[s] >= aRam[s] /\ aManifest[s] >= aRam[s]
\* The hook of a session that ends has still to take its snapshot or is writing it.
Saving(s) ==
    /\ aPc[Arch!Hook(s)] # "idle" /\ aWork[Arch!Hook(s)] = <<s>>
    /\ aPc[Arch!Hook(s)] # "snapshot" => aRows[Arch!Hook(s)] = aRam[s]
ArchTypes ==
    /\ aStatus \in [Arch!Sources -> {"LIVE", "ENDING", "CLOSED"}] /\ aRam \in [Arch!Sources -> Nat]
    /\ aFile \in [Arch!Tables -> Nat] /\ aManifest \in [Arch!Tables -> Nat]
    /\ aLock \in Arch!Writers \cup {"free"} /\ aPc \in [Arch!Writers -> {"idle", "snapshot", "table", "manifest"}]
    /\ aWork \in [Arch!Writers -> Tasks] /\ aRows \in [Arch!Writers -> Nat]
    /\ aRead \in [Arch!Writers -> [Arch!Tables -> Nat]]
\* A writer between its table and its manifest holds the lock: what it read is still the
\* manifest, and its table is the one on disk.
Writing(w) ==
    /\ aPc[w] # "idle" => aWork[w] # <<>>
    /\ aPc[w] = "manifest" =>
           /\ aLock = w /\ aRead[w] = aManifest
           /\ aRows[w] = aFile[Head(aWork[w])] /\ aRows[w] >= aManifest[Head(aWork[w])]
ArchInv ==
    /\ ArchTypes /\ Arch!ManifestHonest
    /\ \A w \in Arch!Writers : Writing(w)
    /\ \A s \in Arch!Sources : aStatus[s] = "ENDING" => s \in aFailed \/ Saved(s) \/ Saving(s)

\* What does not touch the tables, nor a session that ends, nor a writer at work.
LEMMA ArchQuiet ==
    ASSUME ArchInv, ArchTypes', UNCHANGED <<aFile, aManifest, aLock>>,
           \A w \in Arch!Writers : Writing(w)',
           \A s \in Arch!Sources : aStatus'[s] = "ENDING" => s \in aFailed' \/ Saved(s)' \/ Saving(s)'
    PROVE  ArchInv'
BY DEF ArchInv, Arch!ManifestHonest

\* A writer that goes on with its next table, or has none: nothing else is of concern to it.
LEMMA ArchContinues ==
    ASSUME ArchInv, NEW w \in Arch!Writers, NEW rest \in Tasks, Arch!Continue(w, rest)
    PROVE  /\ aWork' \in [Arch!Writers -> Tasks] /\ aRows' \in [Arch!Writers -> Nat]
           /\ aRead' \in [Arch!Writers -> [Arch!Tables -> Nat]]
           /\ aPc' \in [Arch!Writers -> {"idle", "snapshot", "table", "manifest"}]
           /\ aWork'[w] = rest /\ aPc'[w] = (IF rest = <<>> THEN "idle" ELSE "snapshot")
           /\ \A v \in Arch!Writers \ {w} :
                  aWork'[v] = aWork[v] /\ aPc'[v] = aPc[v] /\ aRows'[v] = aRows[v] /\ aRead'[v] = aRead[v]
<1>1. Arch!Nothing \in [Arch!Tables -> Nat]
  BY DEF Arch!Nothing
<1> QED BY <1>1 DEF Arch!Continue, ArchInv, ArchTypes

\* The archive's threads and the sessions they write.
LEMMA Hooks ==
    /\ \A s \in Arch!Sources : Arch!Hook(s) \in Arch!Writers /\ Arch!Hook(s) \notin {"loop", "shutdown"}
    /\ \A s, t \in Arch!Sources : Arch!Hook(s) = Arch!Hook(t) => s = t
    /\ "free" \notin Arch!Writers /\ "loop" \in Arch!Writers /\ "shutdown" \in Arch!Writers
    /\ Arch!Sources \subseteq Arch!Tables /\ Arch!Tables \ {"reference"} \subseteq Arch!Sources
    /\ \A s \in Arch!Sources : s # "reference" /\ <<s>> \in Tasks /\ <<s>> # <<>> /\ Head(<<s>>) = s /\ Arch!SourceOf(s) = s
BY DEF Arch!Hook, Arch!Sources, Arch!Writers, Arch!Tables, Tasks, Arch!SourceOf

\* Candles, and the loop, the shutdown and the hooks that begin.
LEMMA ArchBegins ==
    ASSUME ArchInv,
           \/ \E s \in Arch!Sources : Arch!Candle(s) \/ Arch!EndSession(s) \/ Arch!Wipe(s)
           \/ Arch!_loop \/ Arch!Shutdown
    PROVE  ArchInv'
<1> USE DEF ArchTypes
<1>1. ASSUME NEW s \in Arch!Sources, Arch!Candle(s) PROVE ArchInv'
  <2>1. /\ aStatus[s] = "LIVE" /\ aRam' = [aRam EXCEPT ![s] = aRam[s] + 1]
        /\ UNCHANGED <<aStatus, aFile, aManifest, aLock, aWork, aRows, aPc, aRead, aFailed>>
    BY <1>1 DEF Arch!Candle
  <2>2. ArchTypes' /\ \A t \in Arch!Sources \ {s} : aRam'[t] = aRam[t]
    BY <2>1 DEF ArchInv
  <2>3. \A w \in Arch!Writers : Writing(w)'
    BY <2>1 DEF ArchInv, Writing
  <2>4. ASSUME NEW t \in Arch!Sources, aStatus'[t] = "ENDING" PROVE t \in aFailed' \/ Saved(t)' \/ Saving(t)'
    BY <2>1, <2>2, <2>4 DEF ArchInv, Saved, Saving
  <2> QED BY <2>1, <2>2, <2>3, <2>4, ArchQuiet
<1>2. ASSUME NEW s \in Arch!Sources, Arch!Wipe(s) PROVE ArchInv'
  <2>1. /\ aStatus' = [aStatus EXCEPT ![s] = "CLOSED"] /\ aRam' = [aRam EXCEPT ![s] = 0]
        /\ UNCHANGED <<aFile, aManifest, aLock, aWork, aRows, aPc, aRead, aFailed>>
    BY <1>2 DEF Arch!Wipe
  <2>2. ArchTypes' /\ \A t \in Arch!Sources \ {s} : aRam'[t] = aRam[t] /\ aStatus'[t] = aStatus[t]
    BY <2>1 DEF ArchInv
  <2>3. \A w \in Arch!Writers : Writing(w)'
    BY <2>1 DEF ArchInv, Writing
  <2>4. ASSUME NEW t \in Arch!Sources, aStatus'[t] = "ENDING" PROVE t \in aFailed' \/ Saved(t)' \/ Saving(t)'
    <3>1. t # s
      BY <2>1, <2>4 DEF ArchInv
    <3> QED BY <2>1, <2>2, <2>4, <3>1 DEF ArchInv, Saved, Saving
  <2> QED BY <2>1, <2>2, <2>3, <2>4, ArchQuiet
<1>3. ASSUME NEW w \in {"loop", "shutdown"}, Arch!Begin(w, <<"equity", "index">>),
             UNCHANGED <<aStatus, aRam, aFile, aManifest, aLock, aRows, aRead, aFailed>>
      PROVE  ArchInv'
  <2>1. w \in Arch!Writers /\ <<"equity", "index">> \in Tasks \ {<<>>} /\ \A s \in Arch!Sources : Arch!Hook(s) \in Arch!Writers \ {w}
    BY Hooks DEF Tasks
  <2>2. /\ aWork' = [aWork EXCEPT ![w] = <<"equity", "index">>] /\ aPc' = [aPc EXCEPT ![w] = "snapshot"]
    BY <1>3 DEF Arch!Begin
  <2>3. ArchTypes' /\ aPc'[w] = "snapshot" /\ aWork'[w] # <<>> /\ \A v \in Arch!Writers \ {w} : aWork'[v] = aWork[v] /\ aPc'[v] = aPc[v]
    BY <1>3, <2>1, <2>2 DEF ArchInv
  <2>4. \A v \in Arch!Writers : Writing(v)'
    <3>1. Writing(w)'
      BY <2>3 DEF Writing
    <3>2. \A v \in Arch!Writers \ {w} : Writing(v)'
      BY <1>3, <2>3 DEF ArchInv, Writing
    <3> QED BY <3>1, <3>2
  <2>5. \A t \in Arch!Sources : aStatus'[t] = "ENDING" => t \in aFailed' \/ Saved(t)' \/ Saving(t)'
    BY <1>3, <2>1, <2>3 DEF ArchInv, Saved, Saving
  <2> QED BY <1>3, <2>3, <2>4, <2>5, ArchQuiet
<1>4. CASE Arch!_loop \/ Arch!Shutdown
  BY <1>3, <1>4 DEF Arch!_loop, Arch!Shutdown
<1>5. ASSUME NEW s \in Arch!Sources, Arch!EndSession(s) PROVE ArchInv'
  <2> DEFINE w == Arch!Hook(s)
  <2>1. w \in Arch!Writers /\ <<s>> \in Tasks \ {<<>>} /\ \A t \in Arch!Sources \ {s} : Arch!Hook(t) \in Arch!Writers \ {w}
    BY Hooks
  <2>2. /\ aWork' = [aWork EXCEPT ![w] = <<s>>] /\ aPc' = [aPc EXCEPT ![w] = "snapshot"]
        /\ aStatus' = [aStatus EXCEPT ![s] = "ENDING"]
        /\ UNCHANGED <<aRam, aFile, aManifest, aLock, aRows, aRead, aFailed>>
    BY <1>5 DEF Arch!EndSession, Arch!Begin
  <2> HIDE DEF w
  <2>3. /\ ArchTypes' /\ aPc'[w] = "snapshot" /\ aWork'[w] = <<s>>
        /\ \A v \in Arch!Writers \ {w} : aWork'[v] = aWork[v] /\ aPc'[v] = aPc[v]
        /\ \A t \in Arch!Sources \ {s} : aStatus'[t] = aStatus[t]
    BY <2>1, <2>2 DEF ArchInv
  <2>4. \A v \in Arch!Writers : Writing(v)'
    BY <2>1, <2>2, <2>3 DEF ArchInv, Writing
  <2>5. ASSUME NEW t \in Arch!Sources, aStatus'[t] = "ENDING" PROVE t \in aFailed' \/ Saved(t)' \/ Saving(t)'
    <3>1. CASE t = s
      BY <2>3, <3>1 DEF Saving, w
    <3>2. CASE t # s
      BY <2>1, <2>2, <2>3, <2>5, <3>2 DEF ArchInv, Saved, Saving
    <3> QED BY <3>1, <3>2
  <2> QED BY <2>2, <2>3, <2>4, <2>5, ArchQuiet
<1> QED BY <1>1, <1>2, <1>4, <1>5

\* The snapshot, the table and the manifest of a writer, and a write that fails.
LEMMA ArchWrites ==
    ASSUME ArchInv, NEW w \in Arch!Writers,
           Arch!Snapshot(w) \/ Arch!WriteTable(w) \/ Arch!WriteManifest(w) \/ Arch!WriteFails(w)
    PROVE  ArchInv'
<1> DEFINE s == aWork[w]
           t == Head(s)
<1> USE DEF ArchTypes
<1>0. /\ s \in Tasks \ {<<>>} /\ aPc[w] # "idle"
  BY DEF ArchInv, Writing, Arch!Snapshot, Arch!WriteTable, Arch!WriteManifest, Arch!WriteFails
<1>1. /\ t \in Arch!Tables /\ Arch!Tail1(s) = After(s) /\ After(s) \in Tasks
      /\ t = "equity" => <<"reference">> \o After(s) \in Tasks
      /\ <<"index">> \in Tasks /\ <<>> \in Tasks
  <2>1. <<"index">> \in Tasks /\ <<>> \in Tasks
    BY DEF Tasks
  <2> QED BY <1>0, <2>1, TasksGoOn
<1>2. \A v \in Arch!Sources : Arch!Hook(v) = w /\ Saving(v) => t = v
  BY Hooks DEF Saving
<1>3. /\ aRows[w] \in Nat /\ aManifest[t] \in Nat /\ aFile[t] \in Nat /\ aManifest[t] <= aFile[t]
      /\ \A v \in Arch!Tables : aManifest[v] <= aFile[v] /\ aManifest[v] \in Nat /\ aFile[v] \in Nat
      /\ \A v \in Arch!Sources : aRam[v] \in Nat /\ v \in Arch!Tables
  BY <1>1, Hooks DEF ArchInv, Arch!ManifestHonest
<1> HIDE DEF s, t
\* What the step leaves of the sessions whose hook is another writer.
<1>4. ASSUME UNCHANGED <<aStatus, aRam>>, aFailed \subseteq aFailed',
             \A v \in Arch!Writers \ {w} : aWork'[v] = aWork[v] /\ aPc'[v] = aPc[v] /\ aRows'[v] = aRows[v],
             \A v \in Arch!Sources : Saved(v) => Saved(v)',
             \A v \in Arch!Sources : Arch!Hook(v) = w /\ Saving(v) => v \in aFailed' \/ Saved(v)' \/ Saving(v)'
      PROVE  \A v \in Arch!Sources : aStatus'[v] = "ENDING" => v \in aFailed' \/ Saved(v)' \/ Saving(v)'
  <2> TAKE v \in Arch!Sources
  <2> HAVE aStatus'[v] = "ENDING"
  <2>1. v \in aFailed \/ Saved(v) \/ Saving(v)
    BY <1>4 DEF ArchInv
  <2>2. CASE Saving(v) /\ Arch!Hook(v) # w
    <3>1. Arch!Hook(v) \in Arch!Writers \ {w}
      BY <2>2, Hooks
    <3> QED BY <1>4, <2>2, <3>1 DEF Saving
  <2> QED BY <1>4, <2>1, <2>2
<1>5. CASE Arch!Snapshot(w)
  <2> DEFINE n == IF t = "reference" THEN Stocks ELSE aRam[t]
  <2>0. /\ aPc[w] = "snapshot" /\ UNCHANGED <<aStatus, aRam, aFile, aManifest, aLock, aFailed>>
    BY <1>5 DEF Arch!Snapshot
  <2>1. n \in Nat
    BY <1>1, <1>3, Hooks, InstanceAssumption DEF Arch!ArchiveAssumption
  <2>2. \/ ((t # "reference" /\ aStatus[t] = "CLOSED") \/ n = 0) /\ Arch!Continue(w, Arch!Tail1(s))
        \/ /\ ~((t # "reference" /\ aStatus[t] = "CLOSED") \/ n = 0)
           /\ aRows' = [aRows EXCEPT ![w] = n] /\ aPc' = [aPc EXCEPT ![w] = "table"]
           /\ UNCHANGED <<aWork, aRead>>
    BY <1>5, Zenon DEF Arch!Snapshot, s, t
  <2> HIDE DEF n
  <2>3. CASE ((t # "reference" /\ aStatus[t] = "CLOSED") \/ n = 0) /\ Arch!Continue(w, Arch!Tail1(s))
    <3>1. /\ ArchTypes' /\ aWork'[w] = After(s) /\ aPc'[w] = (IF After(s) = <<>> THEN "idle" ELSE "snapshot")
          /\ \A v \in Arch!Writers \ {w} :
                  aWork'[v] = aWork[v] /\ aPc'[v] = aPc[v] /\ aRows'[v] = aRows[v] /\ aRead'[v] = aRead[v]
      BY <1>1, <2>0, <2>3, ArchContinues DEF ArchInv
    <3>2. \A v \in Arch!Writers : Writing(v)'
      <4>1. Writing(w)'
        BY <3>1 DEF Writing
      <4>2. ASSUME NEW v \in Arch!Writers \ {w} PROVE Writing(v)'
        <5>1. Writing(v)
          BY DEF ArchInv
        <5>2. aWork'[v] = aWork[v] /\ aPc'[v] = aPc[v] /\ aRows'[v] = aRows[v] /\ aRead'[v] = aRead[v]
          BY <3>1
        <5> QED BY <2>0, <5>1, <5>2, Zenon DEF Writing
      <4> QED BY <4>1, <4>2
    <3>3. ASSUME NEW v \in Arch!Sources, Arch!Hook(v) = w, Saving(v), aStatus[v] = "ENDING" PROVE Saved(v)'
      <4>1. t = v /\ v # "reference"
        BY <1>2, <3>3, Hooks
      <4>2. aRam[v] = 0
        BY <2>3, <3>3, <4>1 DEF n
      <4> QED BY <1>3, <2>0, <4>2 DEF Saved
    <3>4. \A v \in Arch!Sources : aStatus'[v] = "ENDING" => v \in aFailed' \/ Saved(v)' \/ Saving(v)'
      <4> TAKE v \in Arch!Sources
      <4> HAVE aStatus'[v] = "ENDING"
      <4>1. v \in aFailed \/ Saved(v) \/ Saving(v)
        BY <2>0 DEF ArchInv
      <4>2. CASE Saving(v) /\ Arch!Hook(v) # w
        <5>1. Arch!Hook(v) \in Arch!Writers \ {w}
          BY <4>2, Hooks
        <5> QED BY <2>0, <3>1, <4>2, <5>1 DEF Saving
      <4>3. CASE Saving(v) /\ Arch!Hook(v) = w
        BY <2>0, <3>3, <4>3
      <4>4. CASE v \in aFailed \/ Saved(v)
        BY <2>0, <4>4 DEF Saved
      <4> QED BY <4>1, <4>2, <4>3, <4>4
    <3> QED BY <2>0, <3>1, <3>2, <3>4, ArchQuiet
  <2>4. CASE /\ aRows' = [aRows EXCEPT ![w] = n] /\ aPc' = [aPc EXCEPT ![w] = "table"]
             /\ UNCHANGED <<aWork, aRead>>
    <3>1. /\ ArchTypes' /\ aRows'[w] = n /\ aPc'[w] = "table" /\ aWork' = aWork
          /\ \A v \in Arch!Writers \ {w} :
                  aWork'[v] = aWork[v] /\ aPc'[v] = aPc[v] /\ aRows'[v] = aRows[v] /\ aRead'[v] = aRead[v]
      BY <2>0, <2>1, <2>4 DEF ArchInv
    <3>2. \A v \in Arch!Writers : Writing(v)'
      BY <1>0, <2>0, <3>1 DEF ArchInv, Writing, s
    <3>3. \A v \in Arch!Sources : Arch!Hook(v) = w /\ Saving(v) => Saving(v)'
      BY <1>2, <2>0, <3>1, Hooks DEF Saving, n
    <3>4. \A v \in Arch!Sources : aStatus'[v] = "ENDING" => v \in aFailed' \/ Saved(v)' \/ Saving(v)'
      BY <1>4, <2>0, <3>1, <3>3 DEF Saved
    <3> QED BY <2>0, <3>1, <3>2, <3>4, ArchQuiet
  <2> QED BY <2>2, <2>3, <2>4
<1>6. CASE Arch!WriteTable(w)
  <2>0. /\ aPc[w] = "table" /\ aLock = "free" /\ UNCHANGED <<aStatus, aRam, aManifest, aFailed>>
    BY <1>6 DEF Arch!WriteTable, Arch!Taken
  <2>1. \A v \in Arch!Writers : aPc[v] # "manifest"
    BY <2>0, Hooks DEF ArchInv, Writing
  <2>2. \/ aManifest[t] > aRows[w] /\ Arch!Continue(w, Arch!Tail1(s)) /\ UNCHANGED <<aFile, aLock>>
        \/ /\ ~(aManifest[t] > aRows[w])
           /\ aFile' = [aFile EXCEPT ![t] = aRows[w]]
           /\ aLock' = w /\ aRead' = [aRead EXCEPT ![w] = aManifest]
           /\ aPc' = [aPc EXCEPT ![w] = "manifest"]
           /\ UNCHANGED <<aWork, aRows>>
    BY <1>6, Zenon DEF Arch!WriteTable, Arch!Refuses, s, t
  <2>3. CASE aManifest[t] > aRows[w] /\ Arch!Continue(w, Arch!Tail1(s)) /\ UNCHANGED <<aFile, aLock>>
    <3>1. /\ ArchTypes' /\ aWork'[w] = After(s) /\ aPc'[w] = (IF After(s) = <<>> THEN "idle" ELSE "snapshot")
          /\ \A v \in Arch!Writers \ {w} :
                  aWork'[v] = aWork[v] /\ aPc'[v] = aPc[v] /\ aRows'[v] = aRows[v] /\ aRead'[v] = aRead[v]
      BY <1>1, <2>0, <2>3, ArchContinues DEF ArchInv
    <3>2. \A v \in Arch!Writers : Writing(v)'
      <4>1. Writing(w)'
        BY <3>1 DEF Writing
      <4>2. \A v \in Arch!Writers \ {w} : Writing(v)'
        BY <2>0, <2>3, <3>1 DEF ArchInv, Writing
      <4> QED BY <4>1, <4>2
    <3>3. ASSUME NEW v \in Arch!Sources, Arch!Hook(v) = w, Saving(v) PROVE Saved(v)'
      <4>1. v = t /\ aRows[w] = aRam[v]
        BY <1>2, <2>0, <3>3 DEF Saving
      <4> QED BY <1>3, <2>0, <2>3, <4>1 DEF Saved
    <3>4. \A v \in Arch!Sources : aStatus'[v] = "ENDING" => v \in aFailed' \/ Saved(v)' \/ Saving(v)'
      BY <1>4, <2>0, <2>3, <3>1, <3>3 DEF Saved
    <3> QED BY <2>0, <2>3, <3>1, <3>2, <3>4, ArchQuiet
  <2>4. CASE /\ ~(aManifest[t] > aRows[w])
             /\ aFile' = [aFile EXCEPT ![t] = aRows[w]]
             /\ aLock' = w /\ aRead' = [aRead EXCEPT ![w] = aManifest]
             /\ aPc' = [aPc EXCEPT ![w] = "manifest"]
             /\ UNCHANGED <<aWork, aRows>>
    <3>1. /\ ArchTypes' /\ aPc'[w] = "manifest" /\ aRead'[w] = aManifest /\ aFile'[t] = aRows[w]
          /\ \A v \in Arch!Writers \ {w} :
                  aWork'[v] = aWork[v] /\ aPc'[v] = aPc[v] /\ aRows'[v] = aRows[v] /\ aRead'[v] = aRead[v]
          /\ \A v \in Arch!Tables \ {t} : aFile'[v] = aFile[v]
      BY <1>1, <2>0, <2>4 DEF ArchInv
    <3>2. Arch!ManifestHonest'
      BY <1>3, <2>0, <2>4, <3>1 DEF Arch!ManifestHonest
    <3>3. \A v \in Arch!Writers : Writing(v)'
      <4>1. Writing(w)'
        BY <1>0, <1>3, <2>0, <2>4, <3>1 DEF Writing, s, t
      <4>2. \A v \in Arch!Writers \ {w} : Writing(v)'
        BY <2>1, <3>1 DEF ArchInv, Writing
      <4> QED BY <4>1, <4>2
    <3>4. \A v \in Arch!Sources : Saved(v) => Saved(v)'
      BY <1>3, <2>0, <2>4, <3>1 DEF Saved
    <3>5. \A v \in Arch!Sources : Arch!Hook(v) = w /\ Saving(v) => Saving(v)'
      BY <2>0, <2>4, <3>1 DEF Saving
    <3>6. \A v \in Arch!Sources : aStatus'[v] = "ENDING" => v \in aFailed' \/ Saved(v)' \/ Saving(v)'
      BY <1>4, <2>0, <2>4, <3>1, <3>4, <3>5
    <3> QED BY <3>1, <3>2, <3>3, <3>6 DEF ArchInv
  <2> QED BY <2>2, <2>3, <2>4
<1>7. CASE Arch!WriteManifest(w)
  <2> DEFINE rest == IF t = "equity" THEN <<"reference">> \o Arch!Tail1(s) ELSE Arch!Tail1(s)
  <2>0. /\ aPc[w] = "manifest" /\ aLock' = "free" /\ UNCHANGED <<aStatus, aRam, aFile, aFailed>>
        /\ aManifest' = [aRead[w] EXCEPT ![t] = aRows[w]] /\ Arch!Continue(w, rest)
    BY <1>7, Zenon DEF Arch!WriteManifest, s, t
  <2>1. rest \in Tasks
    BY <1>1
  <2> HIDE DEF rest
  <2>2. aRead[w] = aManifest /\ aRows[w] = aFile[t] /\ aRows[w] >= aManifest[t] /\ aLock = w
    BY <2>0 DEF ArchInv, Writing, s, t
  <2>3. \A v \in Arch!Writers \ {w} : aPc[v] # "manifest"
    BY <2>2 DEF ArchInv, Writing
  <2>4. /\ aManifest' \in [Arch!Tables -> Nat] /\ aManifest'[t] = aRows[w]
        /\ \A v \in Arch!Tables \ {t} : aManifest'[v] = aManifest[v]
    BY <1>1, <1>3, <2>0, <2>2 DEF ArchInv
  <2>5. /\ ArchTypes' /\ aWork'[w] = rest /\ aPc'[w] = (IF rest = <<>> THEN "idle" ELSE "snapshot")
        /\ \A v \in Arch!Writers \ {w} :
                aWork'[v] = aWork[v] /\ aPc'[v] = aPc[v] /\ aRows'[v] = aRows[v] /\ aRead'[v] = aRead[v]
    BY <2>0, <2>1, <2>4, ArchContinues DEF ArchInv
  <2>6. Arch!ManifestHonest'
    BY <1>3, <2>0, <2>2, <2>4 DEF Arch!ManifestHonest
  <2>7. \A v \in Arch!Writers : Writing(v)'
    BY <2>3, <2>5 DEF ArchInv, Writing
  <2>8. \A v \in Arch!Sources : Saved(v) => Saved(v)'
    BY <1>3, <2>0, <2>2, <2>4 DEF Saved
  <2>9. ASSUME NEW v \in Arch!Sources, Arch!Hook(v) = w, Saving(v) PROVE Saved(v)'
    <3>1. v = t /\ aRows[w] = aRam[v]
      BY <1>2, <2>0, <2>9 DEF Saving
    <3> QED BY <1>3, <2>0, <2>2, <2>4, <3>1 DEF Saved
  <2>10. \A v \in Arch!Sources : aStatus'[v] = "ENDING" => v \in aFailed' \/ Saved(v)' \/ Saving(v)'
    BY <1>4, <2>0, <2>5, <2>8, <2>9
  <2> QED BY <2>5, <2>6, <2>7, <2>10 DEF ArchInv
<1>8. CASE Arch!WriteFails(w)
  <2> DEFINE rest == IF Arch!Tail1(s) = <<"index">> THEN <<"index">> ELSE <<>>
  <2>0. /\ aPc[w] \in {"table", "manifest"} /\ (aPc[w] = "table" => aLock = "free")
        /\ aLock' = "free" /\ UNCHANGED <<aStatus, aRam, aFile, aManifest>>
        /\ aFailed' = aFailed \cup {Arch!SourceOf(t)} /\ Arch!Continue(w, rest)
    BY <1>8, Zenon DEF Arch!WriteFails, Arch!Taken, s, t
  <2>1. rest \in Tasks
    BY <1>1
  <2> HIDE DEF rest
  <2>2. \A v \in Arch!Writers \ {w} : aPc[v] # "manifest"
    BY <2>0, Hooks DEF ArchInv, Writing
  <2>3. /\ ArchTypes' /\ aWork'[w] = rest /\ aPc'[w] = (IF rest = <<>> THEN "idle" ELSE "snapshot")
        /\ \A v \in Arch!Writers \ {w} :
                aWork'[v] = aWork[v] /\ aPc'[v] = aPc[v] /\ aRows'[v] = aRows[v] /\ aRead'[v] = aRead[v]
    BY <2>0, <2>1, ArchContinues DEF ArchInv
  <2>4. \A v \in Arch!Writers : Writing(v)'
    BY <2>2, <2>3 DEF ArchInv, Writing
  <2>5. \A v \in Arch!Sources : Arch!Hook(v) = w /\ Saving(v) => v \in aFailed'
    BY <1>2, <2>0, Hooks
  <2>6. \A v \in Arch!Sources : aStatus'[v] = "ENDING" => v \in aFailed' \/ Saved(v)' \/ Saving(v)'
    BY <1>4, <2>0, <2>3, <2>5 DEF Saved
  <2> QED BY <2>0, <2>3, <2>4, <2>6 DEF ArchInv, Arch!ManifestHonest
<1> QED BY <1>5, <1>6, <1>7, <1>8

\* A restart has no session that ends and no writer at work.
LEMMA ArchRestarts == ASSUME ArchInv, Arch!Restart PROVE ArchInv'
<1> USE DEF ArchTypes
<1>1. /\ aStatus' = [s \in Arch!Sources |-> IF aStatus[s] = "CLOSED" THEN "CLOSED" ELSE "LIVE"]
      /\ aLock' = "free" /\ UNCHANGED <<aFile, aManifest>>
      /\ aWork' = [w \in Arch!Writers |-> <<>>] /\ aRows' = [w \in Arch!Writers |-> 0]
      /\ aPc' = [w \in Arch!Writers |-> "idle"] /\ aRead' = [w \in Arch!Writers |-> Arch!Nothing]
  BY DEF Arch!Restart
<1>2. aRam' \in [Arch!Sources -> Nat]
  <2>1. PICK e \in 0 .. aRam["equity"], i \in 0 .. aRam["index"] : aRam' = [equity |-> e, index |-> i]
    BY DEF Arch!Restart
  <2>2. e \in Nat /\ i \in Nat
    BY DEF ArchInv, Arch!Sources
  <2> QED BY <2>1, <2>2 DEF Arch!Sources
<1>3. Arch!Nothing \in [Arch!Tables -> Nat] /\ <<>> \in Tasks
  BY DEF Arch!Nothing, Tasks
<1>4. ArchTypes'
  BY <1>1, <1>2, <1>3 DEF ArchInv
<1>5. (\A w \in Arch!Writers : Writing(w)') /\ \A s \in Arch!Sources : aStatus'[s] # "ENDING"
  BY <1>1 DEF Writing
<1> QED BY <1>1, <1>4, <1>5 DEF ArchInv, Arch!ManifestHonest

LEMMA ArchiveHeld == Spec => []ArchInv
<1>1. Init => ArchInv
  <2> SUFFICES ASSUME Init PROVE ArchInv
    OBVIOUS
  <2>1. /\ aStatus = [s \in Arch!Sources |-> "LIVE"] /\ aRam = [s \in Arch!Sources |-> 0]
        /\ aFile = Arch!Nothing /\ aManifest = Arch!Nothing /\ aLock = "free"
        /\ aWork = [w \in Arch!Writers |-> <<>>] /\ aRows = [w \in Arch!Writers |-> 0]
        /\ aPc = [w \in Arch!Writers |-> "idle"] /\ aRead = [w \in Arch!Writers |-> Arch!Nothing]
    BY DEF Init, Arch!Init
  <2>2. Arch!Nothing \in [Arch!Tables -> Nat] /\ <<>> \in Tasks
    BY DEF Arch!Nothing, Tasks
  <2> HIDE DEF Arch!Nothing
  <2>3. ArchTypes
    BY <2>1, <2>2 DEF ArchTypes
  <2>4. (\A w \in Arch!Writers : Writing(w)) /\ \A s \in Arch!Sources : aStatus[s] # "ENDING"
    BY <2>1 DEF Writing
  <2>5. Arch!ManifestHonest
    BY <2>1, <2>2 DEF Arch!ManifestHonest
  <2> QED BY <2>3, <2>4, <2>5 DEF ArchInv
<1>2. [Next]_vars => [Arch!Next]_(Arch!vars)
  BY DEF Next, vars, aVars, ArchiveOnly, BootOnly, MinuteOnly, LogOnly, StreamOnly, KeysOnly, LimiterOnly,
         ApiOnly, DerivativesOnly, ClientOnly, Arch!vars
<1>3. ArchInv /\ [Arch!Next]_(Arch!vars) => ArchInv'
  <2>1. ArchInv /\ UNCHANGED Arch!vars => ArchInv'
    BY DEF Arch!vars, ArchInv, ArchTypes, Arch!ManifestHonest, Writing, Saved, Saving
  <2> QED BY <2>1, ArchBegins, ArchWrites, ArchRestarts DEF Arch!Next
<1> QED BY <1>1, <1>2, <1>3, PTL DEF Spec

\* A session's last rows are archived before they are wiped, unless writing them failed
\* (daily_archive.ArchiveManager, the sessions' on_session_end).
LEMMA RowsAreArchived == Spec => Arch!ArchivedBeforeWipe
<1>2. [Next]_vars => [Arch!Next]_(Arch!vars)
  BY DEF Next, vars, aVars, ArchiveOnly, BootOnly, MinuteOnly, LogOnly, StreamOnly, KeysOnly, LimiterOnly,
         ApiOnly, DerivativesOnly, ClientOnly, Arch!vars
<1>4. ArchInv /\ [Arch!Next]_(Arch!vars)
          => [\A s \in Arch!Sources : aStatus[s] = "ENDING" /\ aStatus'[s] = "CLOSED" =>
                 s \in aFailed \/ (aFile[s] >= aRam[s] /\ aManifest[s] >= aRam[s])]_(Arch!vars)
  <2> SUFFICES ASSUME ArchInv, Arch!Next, NEW s \in Arch!Sources, aStatus[s] = "ENDING", aStatus'[s] = "CLOSED"
               PROVE  s \in aFailed \/ (aFile[s] >= aRam[s] /\ aManifest[s] >= aRam[s])
    OBVIOUS
  <2>1. Arch!Wipe(s)
    <3>1. CASE Arch!Restart
      BY <3>1 DEF Arch!Restart
    <3>2. ASSUME NEW t \in Arch!Sources, Arch!EndSession(t) PROVE FALSE
      BY <3>2 DEF Arch!EndSession, ArchInv, ArchTypes
    <3>3. ASSUME NEW t \in Arch!Sources, Arch!Wipe(t) PROVE t = s
      BY <3>3 DEF Arch!Wipe, ArchInv, ArchTypes
    <3>4. CASE aStatus' = aStatus
      BY <3>4
    <3>5. ASSUME \/ \E t \in Arch!Sources : Arch!Candle(t)
                 \/ Arch!_loop \/ Arch!Shutdown
                 \/ \E w \in Arch!Writers : Arch!Snapshot(w) \/ Arch!WriteTable(w) \/ Arch!WriteManifest(w) \/ Arch!WriteFails(w)
          PROVE  aStatus' = aStatus
      BY <3>5 DEF Arch!Candle, Arch!_loop, Arch!Shutdown, Arch!Snapshot, Arch!WriteTable, Arch!WriteManifest,
         Arch!WriteFails
    <3> QED BY <3>1, <3>2, <3>3, <3>4, <3>5 DEF Arch!Next
  <2>2. aPc[Arch!Hook(s)] = "idle"
    BY <2>1 DEF Arch!Wipe
  <2> QED BY <2>2 DEF ArchInv, Saved, Saving
<1> QED BY ArchiveHeld, <1>2, <1>4, PTL DEF Spec, Arch!ArchivedBeforeWipe

-----------------------------------------------------------------------------
(* The lines of the derivatives log.                                         *)

Recordable == 1 .. LastRecord
Line == [minute : Recordable, torn : BOOLEAN, parses : BOOLEAN]
Reads(file) == {file[k].minute : k \in Deriv!Readable(file)}
WrittenOn(d) == {m \in Recordable : Deriv!DayOf(m) = d /\ dRecorded[m] > 0}
LostOn(d) == WrittenOn(d) \ Reads(dLines[d])
\* A torn line does not parse, only recorded minutes read back, and each minute that does not,
\* or that the next line will join, had its own fault.
LineInv ==
    /\ dNow \in Recordable /\ dFaults \in Nat
    /\ dRecorded \in [Recordable -> Nat] /\ dLines \in [Deriv!Files -> Seq(Line)]
    /\ \A d \in Deriv!Files :
           /\ \A k \in 1 .. Len(dLines[d]) : dLines[d][k].torn => ~dLines[d][k].parses
           /\ Reads(dLines[d]) \subseteq WrittenOn(d)
           /\ Cardinality(LostOn(d)) + (IF Deriv!Ends(dLines[d]) THEN 1 ELSE 0) <= dFaults

\* Today is one of the days, and two minutes of one day are not of another.
LEMMA DaysOfMinutes ==
    /\ LastRecord \in Nat \ {0} /\ \A m \in Recordable : Deriv!DayOf(m) \in Deriv!Files
<1>1. DayMinutes \in Nat \ {0} /\ LastRecord \in Nat \ {0}
  BY InstanceAssumption DEF Deriv!LogAssumption
<1>2. \A m \in Recordable : Deriv!DayOf(m) \in Int /\ 1 <= Deriv!DayOf(m) /\ Deriv!DayOf(m) <= Deriv!DayOf(LastRecord)
  BY <1>1, Z3 DEF Recordable, Deriv!DayOf
<1>3. Deriv!DayOf(LastRecord) \in Int
  BY <1>1, <1>2 DEF Recordable
<1> QED BY <1>1, <1>2, <1>3 DEF Deriv!Files

\* What one more write makes of a file whose torn lines do not parse.
LEMMA FileGrows ==
    ASSUME NEW file \in Seq(Line), NEW m \in Recordable, NEW t \in BOOLEAN,
           \A k \in 1 .. Len(file) : file[k].torn => ~file[k].parses
    PROVE  LET g == Deriv!Appended(file, m, t)
           IN  /\ g \in Seq(Line) /\ \A k \in 1 .. Len(g) : g[k].torn => ~g[k].parses
               /\ Deriv!Ends(g) = t
               /\ Reads(g) = IF t \/ Deriv!Ends(file) THEN Reads(file) ELSE Reads(file) \cup {m}
<1> DEFINE g == Deriv!Appended(file, m, t)
           n == Len(file)
           joined == [minute |-> m, torn |-> t, parses |-> FALSE]
           added == [minute |-> m, torn |-> t, parses |-> ~t]
<1>0. n \in Nat /\ DOMAIN file = 1 .. n /\ joined \in Line /\ added \in Line /\ \A k \in 1 .. n : file[k] \in Line
  <2>1. joined \in Line /\ added \in Line
    BY DEF Line
  <2>2. n \in Nat /\ DOMAIN file = 1 .. n
    OBVIOUS
  <2>3. \A k \in 1 .. n : file[k] \in Line
    BY ElementOfSeq
  <2> QED BY <2>1, <2>2, <2>3
<1>9. joined.minute = m /\ joined.torn = t /\ ~joined.parses
      /\ added.minute = m /\ added.torn = t /\ (added.parses <=> ~t)
  OBVIOUS
<1> HIDE DEF joined, added
<1>1. CASE Deriv!Ends(file)
  <2>1. n \in 1 .. n /\ file[n].torn /\ ~file[n].parses
    BY <1>0, <1>1 DEF Deriv!Ends
  <2>2. g = [file EXCEPT ![n] = joined]
    BY <1>1 DEF Deriv!Appended, joined
  <2> HIDE DEF g
  <2>3. g \in Seq(Line) /\ Len(g) = n /\ g[n] = joined /\ \A k \in 1 .. n : k # n => g[k] = file[k]
    <3>1. /\ [file EXCEPT ![n] = joined] \in Seq(Line) /\ Len([file EXCEPT ![n] = joined]) = Len(file)
          /\ \A k \in 1 .. Len(file) : [file EXCEPT ![n] = joined][k] = IF k = n THEN joined ELSE file[k]
      BY <1>0, <2>1, ExceptSeq
    <3> QED BY <2>1, <2>2, <3>1
  <2>4. Reads(g) = Reads(file)
    <3>1. Deriv!Readable(g) = Deriv!Readable(file)
      BY <1>9, <2>1, <2>3 DEF Deriv!Readable
    <3>2. n \notin Deriv!Readable(file) /\ Deriv!Readable(file) \subseteq 1 .. n
      BY <2>1 DEF Deriv!Readable
    <3> QED BY <2>3, <3>1, <3>2 DEF Reads
  <2>5. \A k \in 1 .. n : g[k].torn => ~g[k].parses
    BY <1>9, <2>3
  <2>6. Deriv!Ends(g) = t
    BY <1>9, <2>1, <2>3 DEF Deriv!Ends
  <2>7. g \in Seq(Line) /\ (\A k \in 1 .. Len(g) : g[k].torn => ~g[k].parses) /\ Deriv!Ends(g) = t
        /\ Reads(g) = IF t \/ Deriv!Ends(file) THEN Reads(file) ELSE Reads(file) \cup {m}
    BY <1>1, <2>3, <2>4, <2>5, <2>6
  <2> QED BY <2>7 DEF g
<1>2. CASE ~Deriv!Ends(file)
  <2>1. g = Append(file, added)
    BY <1>2 DEF Deriv!Appended, added
  <2> HIDE DEF g
  <2>2. g \in Seq(Line) /\ Len(g) = n + 1 /\ g[n + 1] = added /\ \A k \in 1 .. n : g[k] = file[k]
    BY <1>0, <2>1
  <2>3. Reads(g) = IF t THEN Reads(file) ELSE Reads(file) \cup {m}
    <3>1. \A k \in 1 .. (n + 1) : k \in 1 .. n \/ k = n + 1
      BY <1>0
    <3>2. 1 .. n \subseteq 1 .. (n + 1) /\ n + 1 \in 1 .. (n + 1)
      BY <1>0
    <3>3. Deriv!Readable(g) = IF t THEN Deriv!Readable(file) ELSE Deriv!Readable(file) \cup {n + 1}
      <4>1. Deriv!Readable(g) = {k \in 1 .. (n + 1) : g[k].parses} /\ Deriv!Readable(file) = {k \in 1 .. n : file[k].parses}
        BY <2>2 DEF Deriv!Readable
      <4>2. g[n + 1].parses <=> ~t
        BY <1>9, <2>2
      <4> QED BY <2>2, <3>1, <3>2, <4>1, <4>2
    <3>4. Deriv!Readable(file) \subseteq 1 .. n
      BY DEF Deriv!Readable
    <3> QED BY <1>9, <2>2, <3>3, <3>4 DEF Reads
  <2>4. \A k \in 1 .. (n + 1) : g[k].torn => ~g[k].parses
    <3> TAKE k \in 1 .. (n + 1)
    <3>1. CASE k \in 1 .. n
      BY <2>2, <3>1
    <3>2. CASE k = n + 1
      BY <1>9, <2>2, <3>2
    <3> QED BY <1>0, <3>1, <3>2
  <2>5. Deriv!Ends(g) = t
    BY <1>0, <1>9, <2>2 DEF Deriv!Ends
  <2>6. g \in Seq(Line) /\ (\A k \in 1 .. Len(g) : g[k].torn => ~g[k].parses) /\ Deriv!Ends(g) = t
        /\ Reads(g) = IF t \/ Deriv!Ends(file) THEN Reads(file) ELSE Reads(file) \cup {m}
    BY <1>2, <2>2, <2>3, <2>4, <2>5
  <2> QED BY <2>6 DEF g
<1> QED BY <1>1, <1>2

\* The size that the log's module takes is the library's.
LEMMA SameCardinality == \A S : Deriv!Cardinality(S) = Cardinality(S)
BY DEF Deriv!Cardinality, Cardinality

\* A minute that reads back leaves the lost ones, one more that does not costs what the torn
\* line before it was charged, and a torn line is charged to its fault.
LEMMA LinesSteady == LineInv /\ [Deriv!Next]_(Deriv!vars) => LineInv'
<1> SUFFICES ASSUME LineInv, [Deriv!Next]_(Deriv!vars) PROVE LineInv'
  OBVIOUS
<1> DEFINE today == Deriv!DayOf(dNow)
<1>0. /\ dNow \in Recordable /\ dFaults \in Nat /\ today \in Deriv!Files
      /\ LastRecord \in Nat \ {0} /\ Recordable \subseteq Nat /\ IsFiniteSet(Recordable)
  <2>1. dNow \in Recordable /\ dFaults \in Nat
    BY DEF LineInv
  <2>2. LastRecord \in Nat \ {0} /\ today \in Deriv!Files
    BY <2>1, DaysOfMinutes
  <2> QED BY <2>1, <2>2, FS_Interval DEF Recordable
<1>1. \A d \in Deriv!Files : IsFiniteSet(LostOn(d)) /\ Cardinality(LostOn(d)) \in Nat
  <2>1. \A d \in Deriv!Files : LostOn(d) \subseteq Recordable
    BY DEF LostOn, WrittenOn
  <2> QED BY <1>0, <2>1, FS_Subset, FS_CardinalityType
<1>2. ASSUME UNCHANGED <<dLines, dRecorded>>, dNow' \in Recordable, dFaults' \in Nat, dFaults <= dFaults'
      PROVE  LineInv'
  <2>1. \A d \in Deriv!Files : Cardinality(LostOn(d)) + (IF Deriv!Ends(dLines[d]) THEN 1 ELSE 0) <= dFaults'
    BY <1>0, <1>1, <1>2 DEF LineInv
  <2>2. \A d \in Deriv!Files : LostOn(d)' = LostOn(d) /\ WrittenOn(d)' = WrittenOn(d) /\ Deriv!Ends(dLines[d])' = Deriv!Ends(dLines[d])
                               /\ Reads(dLines[d])' = Reads(dLines[d])
    BY <1>2 DEF LostOn, WrittenOn
  <2> QED BY <1>2, <2>1, <2>2 DEF LineInv
\* One more write to today's file.
<1>3. ASSUME NEW t \in BOOLEAN, dLines' = [dLines EXCEPT ![today] = Deriv!Appended(@, dNow, t)],
             dNow' = dNow, dFaults' \in Nat,
             \/ t /\ dRecorded' = dRecorded /\ dFaults' = dFaults + 1
             \/ ~t /\ dRecorded' = [dRecorded EXCEPT ![dNow] = @ + 1] /\ dFaults' = dFaults
      PROVE  LineInv'
  <2> DEFINE file == dLines[today]
             g == Deriv!Appended(file, dNow, t)
  <2>0. dLines \in [Deriv!Files -> Seq(Line)] /\ file \in Seq(Line) /\ \A k \in 1 .. Len(file) : file[k].torn => ~file[k].parses
    BY <1>0 DEF LineInv
  <2>1. /\ g \in Seq(Line) /\ (\A k \in 1 .. Len(g) : g[k].torn => ~g[k].parses) /\ Deriv!Ends(g) = t
        /\ Reads(g) = IF t \/ Deriv!Ends(file) THEN Reads(file) ELSE Reads(file) \cup {dNow}
    BY <1>0, <2>0, FileGrows
  <2> HIDE DEF g
  <2>2. /\ dLines' \in [Deriv!Files -> Seq(Line)] /\ dLines'[today] = g
        /\ \A d \in Deriv!Files \ {today} : dLines'[d] = dLines[d]
    BY <1>0, <1>3, <2>0, <2>1 DEF g
  <2>3. /\ dRecorded' \in [Recordable -> Nat] /\ \A m \in Recordable : dRecorded[m] > 0 => dRecorded'[m] > 0
        /\ \A m \in Recordable \ {dNow} : dRecorded'[m] = dRecorded[m]
        /\ t => dRecorded' = dRecorded
        /\ ~t => dRecorded'[dNow] > 0
    BY <1>0, <1>3 DEF LineInv
  <2>4. ASSUME NEW d \in Deriv!Files
        PROVE  /\ \A k \in 1 .. Len(dLines'[d]) : dLines'[d][k].torn => ~dLines'[d][k].parses
               /\ Reads(dLines'[d]) \subseteq WrittenOn(d)'
               /\ Cardinality(LostOn(d)') + (IF Deriv!Ends(dLines'[d]) THEN 1 ELSE 0) <= dFaults'
    <3>0. /\ Reads(dLines[d]) \subseteq WrittenOn(d)
          /\ Cardinality(LostOn(d)) + (IF Deriv!Ends(dLines[d]) THEN 1 ELSE 0) <= dFaults
          /\ \A k \in 1 .. Len(dLines[d]) : dLines[d][k].torn => ~dLines[d][k].parses
      BY DEF LineInv
    <3>1. LostOn(d)' = WrittenOn(d)' \ Reads(dLines'[d])
      BY DEF LostOn
    <3>2. CASE d # today
      <4>1. dLines'[d] = dLines[d]
        BY <2>2, <3>2
      <4>2. WrittenOn(d)' = WrittenOn(d)
        BY <2>3, <3>2 DEF WrittenOn
      <4>3. LostOn(d)' = LostOn(d)
        BY <3>1, <4>1, <4>2 DEF LostOn
      <4>4. dFaults <= dFaults'
        BY <1>0, <1>3
      <4> HIDE DEF today
      <4> QED BY <1>0, <1>1, <1>3, <3>0, <4>1, <4>2, <4>3, <4>4
    <3>3. CASE d = today /\ t
      <4>1. WrittenOn(d)' = WrittenOn(d)
        BY <2>3, <3>3 DEF WrittenOn
      <4>2. Reads(dLines'[d]) = Reads(dLines[d]) /\ Deriv!Ends(dLines'[d])
        BY <2>1, <2>2, <3>3
      <4>3. LostOn(d)' = LostOn(d)
        BY <3>1, <4>1, <4>2 DEF LostOn
      <4>4. Cardinality(LostOn(d)) <= dFaults /\ dFaults' = dFaults + 1
        BY <1>0, <1>1, <1>3, <3>0, <3>3
      <4>5. Cardinality(LostOn(d)') + (IF Deriv!Ends(dLines'[d]) THEN 1 ELSE 0) <= dFaults'
        BY <1>0, <1>1, <4>2, <4>3, <4>4
      <4> QED BY <2>1, <2>2, <3>0, <3>3, <4>1, <4>2, <4>5
    <3>4. CASE d = today /\ ~t
      <4>1. WrittenOn(d)' = WrittenOn(d) \cup {dNow}
        BY <1>0, <2>3, <3>4 DEF WrittenOn
      <4>2. ~Deriv!Ends(dLines'[d]) /\ dFaults' = dFaults
            /\ Reads(dLines'[d]) = IF Deriv!Ends(dLines[d]) THEN Reads(dLines[d]) ELSE Reads(dLines[d]) \cup {dNow}
        BY <1>3, <2>1, <2>2, <3>4
      <4>3. Reads(dLines'[d]) \subseteq WrittenOn(d)'
        BY <3>0, <4>1, <4>2
      <4>4. CASE Deriv!Ends(dLines[d])
        <5>1. LostOn(d)' \subseteq LostOn(d) \cup {dNow}
          BY <3>1, <4>1, <4>2, <4>4 DEF LostOn
        <5>2. /\ IsFiniteSet(LostOn(d) \cup {dNow}) /\ Cardinality(LostOn(d) \cup {dNow}) <= Cardinality(LostOn(d)) + 1
              /\ Cardinality(LostOn(d) \cup {dNow}) \in Nat
          <6>1. /\ IsFiniteSet(LostOn(d) \cup {dNow})
                /\ \/ Cardinality(LostOn(d) \cup {dNow}) = Cardinality(LostOn(d))
                   \/ Cardinality(LostOn(d) \cup {dNow}) = Cardinality(LostOn(d)) + 1
            BY <1>1, FS_AddElement
          <6> QED BY <1>1, <6>1
        <5>3. Cardinality(LostOn(d)') <= Cardinality(LostOn(d) \cup {dNow}) /\ Cardinality(LostOn(d)') \in Nat
          BY <5>1, <5>2, FS_Subset, FS_CardinalityType
        <5>4. Cardinality(LostOn(d)) + 1 <= dFaults
          BY <3>0, <4>4
        <5>5. Cardinality(LostOn(d)') + 0 <= dFaults
          BY <1>0, <1>1, <5>2, <5>3, <5>4
        <5> QED BY <2>1, <2>2, <3>4, <4>2, <4>3, <5>5
      <4>5. CASE ~Deriv!Ends(dLines[d])
        <5>1. LostOn(d)' \subseteq LostOn(d)
          BY <3>1, <4>1, <4>2, <4>5 DEF LostOn
        <5>2. Cardinality(LostOn(d)') <= Cardinality(LostOn(d)) /\ Cardinality(LostOn(d)') \in Nat
          BY <1>1, <5>1, FS_Subset, FS_CardinalityType
        <5>3. Cardinality(LostOn(d)') + 0 <= dFaults
          BY <1>0, <1>1, <3>0, <4>5, <5>2
        <5> QED BY <2>1, <2>2, <3>4, <4>2, <4>3, <5>3
      <4> QED BY <4>4, <4>5
    <3> QED BY <3>2, <3>3, <3>4
  <2> QED BY <1>0, <1>3, <2>2, <2>3, <2>4 DEF LineInv
<1>4. CASE Deriv!Minute
  <2>1. dNow' \in Recordable
    BY <1>0, <1>4 DEF Deriv!Minute, Recordable
  <2> QED BY <1>0, <1>2, <1>4, <2>1 DEF Deriv!Minute
<1>5. CASE \/ Deriv!record_derivatives \/ Deriv!Skip \/ Deriv!AppendChain \/ Deriv!Marked \/ Deriv!Restart
           \/ UNCHANGED Deriv!vars
  BY <1>0, <1>2, <1>5 DEF Deriv!record_derivatives, Deriv!Skip, Deriv!AppendChain, Deriv!Marked, Deriv!Restart,
     Deriv!vars
<1>6. CASE Deriv!housekeeping
  <2>1. UNCHANGED <<dLines, dRecorded, dNow>> /\ (dFaults' = dFaults \/ dFaults' = dFaults + 1)
    BY <1>6 DEF Deriv!housekeeping
  <2> QED BY <1>0, <1>2, <2>1
<1>7. CASE Deriv!AppendLine
  <2>1. /\ dLines' = [dLines EXCEPT ![today] = Deriv!Appended(@, dNow, FALSE)] /\ dNow' = dNow /\ dFaults' = dFaults
        /\ dRecorded' = [dRecorded EXCEPT ![dNow] = @ + 1]
    BY <1>7 DEF Deriv!AppendLine
  <2> HIDE DEF today
  <2> QED BY <1>0, <1>3, <2>1
<1>8. CASE Deriv!AppendFails \/ Deriv!Crash
  <2>1. dFaults' = dFaults + 1 /\ dNow' = dNow /\ dRecorded' = dRecorded /\ Deriv!CutShort
    BY <1>8 DEF Deriv!AppendFails, Deriv!Crash
  <2>2. dLines' = dLines \/ dLines' = [dLines EXCEPT ![today] = Deriv!Appended(@, dNow, TRUE)]
    BY <2>1 DEF Deriv!CutShort
  <2>3. dFaults' \in Nat /\ dFaults <= dFaults'
    BY <1>0, <2>1
  <2> HIDE DEF today
  <2> QED BY <1>0, <1>2, <1>3, <2>1, <2>2, <2>3
<1> QED BY <1>4, <1>5, <1>6, <1>7, <1>8 DEF Deriv!Next

\* A crash costs at most one recorded minute, the one the torn line joins, and no minute reads
\* back that was never recorded (derivatives.DerivativesRecorder.append, load_derivatives).
LEMMA LinesAreKept == Spec => [](LineInv /\ Deriv!LinesSurvive)
<1>1. Init => LineInv
  <2> SUFFICES ASSUME Init PROVE LineInv
    OBVIOUS
  <2>1. /\ dNow = 1 /\ dFaults = 0 /\ dRecorded = [m \in Recordable |-> 0] /\ dLines = [d \in Deriv!Files |-> <<>>]
    BY DEF Init, Deriv!Init, Recordable
  <2>2. dNow \in Recordable
    BY <2>1, DaysOfMinutes DEF Recordable
  <2>3. dRecorded \in [Recordable -> Nat] /\ dLines \in [Deriv!Files -> Seq(Line)]
    BY <2>1
  <2>4. ASSUME NEW d \in Deriv!Files
        PROVE  WrittenOn(d) = {} /\ Reads(dLines[d]) = {} /\ Len(dLines[d]) = 0 /\ ~Deriv!Ends(dLines[d])
    BY <2>1 DEF WrittenOn, Reads, Deriv!Readable, Deriv!Ends
  <2>5. \A d \in Deriv!Files : Cardinality(LostOn(d)) = 0
    BY <2>4, FS_EmptySet DEF LostOn
  <2> QED BY <2>1, <2>2, <2>3, <2>4, <2>5 DEF LineInv
<1>2. [Next]_vars => [Deriv!Next]_(Deriv!vars)
  BY DEF Next, vars, dVars, ArchiveOnly, BootOnly, MinuteOnly, LogOnly, StreamOnly, KeysOnly, LimiterOnly,
         ApiOnly, DerivativesOnly, ClientOnly, Deriv!vars, Deriv!keeping
<1>3. LineInv => Deriv!LinesSurvive
  <2> SUFFICES ASSUME LineInv, NEW d \in Deriv!Files
               PROVE  /\ Cardinality(LostOn(d)) <= dFaults /\ Reads(dLines[d]) \subseteq WrittenOn(d)
    BY SameCardinality DEF Deriv!LinesSurvive, LostOn, WrittenOn, Reads, Recordable, Deriv!load_derivatives
  <2>1. IsFiniteSet(LostOn(d)) /\ Cardinality(LostOn(d)) \in Nat
    <3>1. LostOn(d) \subseteq Recordable /\ IsFiniteSet(Recordable)
      BY DaysOfMinutes, FS_Interval DEF LostOn, WrittenOn, Recordable
    <3> QED BY <3>1, FS_Subset, FS_CardinalityType
  <2> QED BY <2>1 DEF LineInv
<1> QED BY <1>1, <1>2, <1>3, LinesSteady, PTL DEF Spec

-----------------------------------------------------------------------------
(* The repeats of the derivatives log.                                       *)

Repeats == [m \in Recordable |-> IF dRecorded[m] > 1 THEN dRecorded[m] - 1 ELSE 0]
\* The minute is recorded already and may be once more, which a fault has paid for.
Again ==
    dRecorded[dNow] > 0 /\ (dPc \in {"line", "down"} \/ (dPc \in {"idle", "house"} /\ dLast # dNow))
\* h is the sum of the repeats over every part of the minutes.
RepeatInv ==
    /\ dNow \in Recordable /\ dFaults \in Nat /\ dRecorded \in [Recordable -> Nat]
    /\ \A m \in Recordable : m > dNow => dRecorded[m] = 0
    /\ \E h \in [SUBSET Recordable -> Nat] :
           SumOf(Repeats, Recordable, h) /\ h[Recordable] + (IF Again THEN 1 ELSE 0) <= dFaults

\* A fault pays for the repeat it may cause, until the minute is marked or over.
LEMMA RepeatsSteady == RepeatInv /\ [Deriv!Next]_(Deriv!vars) => RepeatInv'
<1> SUFFICES ASSUME RepeatInv, [Deriv!Next]_(Deriv!vars) PROVE RepeatInv'
  OBVIOUS
<1>0. dNow \in Recordable /\ dFaults \in Nat /\ dRecorded \in [Recordable -> Nat] /\ Recordable \subseteq Nat
  BY DEF RepeatInv, Recordable
<1>1. PICK h \in [SUBSET Recordable -> Nat] :
          SumOf(Repeats, Recordable, h) /\ h[Recordable] + (IF Again THEN 1 ELSE 0) <= dFaults
  BY DEF RepeatInv
<1>2. h[Recordable] \in Nat
  BY <1>1
\* Nothing is recorded: what is due again is no more, or a fault was added.
<1>3. ASSUME dRecorded' = dRecorded, dNow' = dNow, dFaults' \in {dFaults, dFaults + 1},
             Again' => Again \/ dFaults' = dFaults + 1
      PROVE  RepeatInv'
  <2>1. Repeats' = Repeats
    BY <1>3 DEF Repeats
  <2>2. SumOf(Repeats', Recordable, h)
    BY <1>1, <2>1
  <2>3. h[Recordable] + (IF Again' THEN 1 ELSE 0) <= dFaults' /\ dFaults' \in Nat
    BY <1>0, <1>1, <1>2, <1>3
  <2> QED BY <1>0, <1>1, <1>3, <2>2, <2>3 DEF RepeatInv
<1>4. CASE Deriv!Minute
  <2>1. dNow < LastRecord /\ dNow' = dNow + 1 /\ UNCHANGED <<dRecorded, dFaults>>
    BY <1>4 DEF Deriv!Minute
  <2>2. dNow' \in Recordable /\ (\A m \in Recordable : m > dNow' => dRecorded'[m] = 0) /\ dRecorded'[dNow'] = 0
    BY <1>0, <2>1, DaysOfMinutes DEF Recordable, RepeatInv
  <2>3. ~Again'
    BY <2>2 DEF Again
  <2>4. SumOf(Repeats', Recordable, h)
    <3>1. Repeats' = Repeats
      BY <2>1 DEF Repeats
    <3> QED BY <1>1, <3>1
  <2>5. h[Recordable] + (IF Again' THEN 1 ELSE 0) <= dFaults'
    BY <1>0, <1>1, <1>2, <2>1, <2>3
  <2> QED BY <1>0, <1>1, <2>1, <2>2, <2>4, <2>5 DEF RepeatInv
<1>5. CASE Deriv!AppendLine
  <2> DEFINE x == IF dRecorded[dNow] > 0 THEN 1 ELSE 0
             g == [s \in SUBSET Recordable |-> IF dNow \in s THEN h[s] + x ELSE h[s]]
  <2>1. /\ dPc = "line" /\ dPc' = "chains" /\ dNow' = dNow /\ dFaults' = dFaults
        /\ dRecorded' = [dRecorded EXCEPT ![dNow] = @ + 1]
    BY <1>5 DEF Deriv!AppendLine
  <2>2. dRecorded' \in [Recordable -> Nat] /\ dRecorded'[dNow] = dRecorded[dNow] + 1
        /\ \A m \in Recordable \ {dNow} : dRecorded'[m] = dRecorded[m]
    BY <1>0, <2>1
  <2>3. x \in Nat /\ g \in [SUBSET Recordable -> Nat]
    BY <1>1
  <2>4. Repeats' = [m \in Recordable |-> IF m = dNow THEN Repeats[m] + x ELSE Repeats[m]]
        /\ Repeats \in [Recordable -> Nat]
    <3>1. Repeats'[dNow] = Repeats[dNow] + x
      BY <1>0, <2>2 DEF Repeats
    <3>2. \A m \in Recordable \ {dNow} : Repeats'[m] = Repeats[m]
      BY <2>2 DEF Repeats
    <3>3. Repeats \in [Recordable -> Nat]
      BY <1>0 DEF Repeats
    <3>4. Repeats' = [m \in Recordable |-> Repeats'[m]]
      BY DEF Repeats
    <3> HIDE DEF x
    <3> QED BY <3>1, <3>2, <3>3, <3>4
  <2>5. SumOf(Repeats', Recordable, g)
    <3>1. g[{}] = 0
      BY <1>1 DEF SumOf
    <3>2. ASSUME NEW s \in SUBSET Recordable, NEW y \in s PROVE g[s] = Repeats'[y] + g[s \ {y}]
      <4>1. h[s] = Repeats[y] + h[s \ {y}] /\ h[s] \in Nat /\ h[s \ {y}] \in Nat /\ Repeats[y] \in Nat
        BY <1>1, <2>4, <3>2 DEF SumOf
      <4>2. g[s] = (IF dNow \in s THEN h[s] + x ELSE h[s])
            /\ g[s \ {y}] = (IF dNow \in s \ {y} THEN h[s \ {y}] + x ELSE h[s \ {y}])
        OBVIOUS
      <4>3. Repeats'[y] = IF y = dNow THEN Repeats[y] + x ELSE Repeats[y]
        BY <2>4
      <4> HIDE DEF x, g
      <4>4. CASE y = dNow
        BY <2>3, <4>1, <4>2, <4>3, <4>4
      <4>5. CASE y # dNow
        <5>1. dNow \in s <=> dNow \in s \ {y}
          BY <4>5
        <5> QED BY <2>3, <4>1, <4>2, <4>3, <4>5, <5>1
      <4> QED BY <4>4, <4>5
    <3> HIDE DEF g
    <3> QED BY <3>1, <3>2 DEF SumOf
  <2>6. ~Again' /\ (Again <=> x = 1)
    BY <1>0, <2>1 DEF Again
  <2>7. g[Recordable] = h[Recordable] + x
    BY <1>0
  <2>8. g[Recordable] + (IF Again' THEN 1 ELSE 0) <= dFaults'
    BY <1>0, <1>1, <1>2, <2>1, <2>3, <2>6, <2>7
  <2>9. \A m \in Recordable : m > dNow' => dRecorded'[m] = 0
    BY <1>0, <2>1, <2>2 DEF RepeatInv
  <2> HIDE DEF g
  <2> QED BY <1>0, <2>1, <2>2, <2>3, <2>5, <2>8, <2>9 DEF RepeatInv
<1>6. CASE \/ Deriv!record_derivatives \/ Deriv!Skip \/ Deriv!AppendChain \/ Deriv!Marked \/ Deriv!Restart
           \/ UNCHANGED Deriv!vars
  <2>1. dRecorded' = dRecorded /\ dNow' = dNow /\ dFaults' = dFaults
    BY <1>6 DEF Deriv!record_derivatives, Deriv!Skip, Deriv!AppendChain, Deriv!Marked, Deriv!Restart, Deriv!vars
  <2>2. Again' => Again
    BY <1>6, <2>1 DEF Deriv!record_derivatives, Deriv!Due, Deriv!Skip, Deriv!AppendChain, Deriv!Marked,
       Deriv!Restart, Deriv!vars, Again
  <2> QED BY <1>3, <2>1, <2>2
<1>7. CASE Deriv!housekeeping
  <2>1. /\ dRecorded' = dRecorded /\ dNow' = dNow /\ dLast' = dLast /\ dPc = "house" /\ dPc' = "idle"
        /\ dFaults' \in {dFaults, dFaults + 1}
    BY <1>7 DEF Deriv!housekeeping
  <2>2. Again' => Again
    BY <2>1 DEF Again
  <2> QED BY <1>3, <2>1, <2>2
<1>8. CASE Deriv!AppendFails \/ Deriv!Crash
  BY <1>3, <1>8 DEF Deriv!AppendFails, Deriv!Crash
<1> QED BY <1>4, <1>5, <1>6, <1>7, <1>8 DEF Deriv!Next

\* However often the loop polls in a minute, the repeats do not outnumber the faults
\* (live.LiveRunner.record_derivatives, _last_derivatives_minute).
LEMMA RepeatsArePaid == Spec => []Deriv!RecordedOnce
<1>1. Init => RepeatInv
  <2> SUFFICES ASSUME Init PROVE RepeatInv
    OBVIOUS
  <2> DEFINE h == [s \in SUBSET Recordable |-> 0]
  <2>1. dNow = 1 /\ dFaults = 0 /\ dRecorded = [m \in Recordable |-> 0]
    BY DEF Init, Deriv!Init, Recordable
  <2>2. dNow \in Recordable
    BY <2>1, DaysOfMinutes DEF Recordable
  <2>3. dRecorded \in [Recordable -> Nat] /\ Repeats = [m \in Recordable |-> 0]
    BY <2>1 DEF Repeats
  <2>4. SumOf(Repeats, Recordable, h)
    BY <2>3 DEF SumOf
  <2>5. ~Again
    BY <2>1, <2>2 DEF Again
  <2>6. h \in [SUBSET Recordable -> Nat] /\ h[Recordable] + (IF Again THEN 1 ELSE 0) <= dFaults
    BY <2>1, <2>5
  <2> HIDE DEF h
  <2>7. \A m \in Recordable : m > dNow => dRecorded[m] = 0
    BY <2>1
  <2> QED BY <2>1, <2>2, <2>3, <2>4, <2>6, <2>7 DEF RepeatInv
<1>2. [Next]_vars => [Deriv!Next]_(Deriv!vars)
  BY DEF Next, vars, dVars, ArchiveOnly, BootOnly, MinuteOnly, LogOnly, StreamOnly, KeysOnly, LimiterOnly,
         ApiOnly, DerivativesOnly, ClientOnly, Deriv!vars, Deriv!keeping
<1>3. RepeatInv => Deriv!RecordedOnce
  <2> SUFFICES ASSUME RepeatInv PROVE Deriv!RecordedOnce
    OBVIOUS
  <2>1. PICK h \in [SUBSET Recordable -> Nat] :
            SumOf(Repeats, Recordable, h) /\ h[Recordable] + (IF Again THEN 1 ELSE 0) <= dFaults
    BY DEF RepeatInv
  <2>2. IsFiniteSet(Recordable)
    BY DaysOfMinutes, FS_Interval DEF Recordable
  <2>3. Summed(Repeats, Recordable) = h[Recordable]
    BY <2>1, <2>2, SumIs
  <2>4. DOMAIN Repeats = Recordable
    BY DEF Repeats
  <2>5. Deriv!SumFunction(Repeats) = Summed(Repeats, Recordable)
    BY <2>4 DEF Deriv!SumFunction, Deriv!SumFunctionOnSet, Deriv!FoldFunctionOnSet, Deriv!MapThenFoldSet, Summed, Adds
  <2>6. Summed(Repeats, Recordable) <= dFaults
    <3>1. h[Recordable] \in Nat /\ dFaults \in Nat
      BY <2>1 DEF RepeatInv
    <3> QED BY <2>1, <2>3, <3>1
  <2>7. Deriv!RecordedOnce <=> Deriv!SumFunction(Repeats) <= dFaults
    BY DEF Deriv!RecordedOnce, Repeats, Recordable
  <2> QED BY <2>5, <2>6, <2>7
<1> QED BY <1>1, <1>2, <1>3, RepeatsSteady, PTL DEF Spec

-----------------------------------------------------------------------------
(* The packets of the minute stream.                                         *)

\* The sum over a file's blocks of one minute, folded from the last block to the first.
Pile(q, m, n, g) ==
    g = [s \in SUBSET (1 .. n) |->
            IF s = {} THEN 0
            ELSE LET x == Minute!Max(s) IN IF q[x][1] = m THEN g[s \ {x}] + q[x][2] ELSE g[s \ {x}]]
Piled(q, m, n) == (CHOOSE g : Pile(q, m, n, g))[1 .. n]

\* The greatest of the first n numbers is n.
LEMMA LastOfBlocks ==
    ASSUME NEW n \in Nat, NEW s \in SUBSET (1 .. (n + 1)), n + 1 \in s
    PROVE  Minute!Max(s) = n + 1
<1>1. \A y \in s : n + 1 >= y
  OBVIOUS
<1>2. \A x \in s : (\A y \in s : x >= y) => x = n + 1
  OBVIOUS
<1> QED BY <1>1, <1>2 DEF Minute!Max

\* The greatest of some blocks is one of them.
LEMMA GreatestBlock ==
    ASSUME NEW n \in Nat, NEW s \in SUBSET (1 .. n), s # {}
    PROVE  Minute!Max(s) \in s
<1>1. s \in SUBSET (0 .. n)
  OBVIOUS
<1>2. \E p \in s : \A i \in s : p >= i
  BY <1>1, GreatestUpTo
<1> QED BY <1>2 DEF Minute!Max

\* The sum of one block more from the sum so far.
LEMMA PileGrows ==
    ASSUME NEW q, NEW m, NEW n \in Nat, NEW g, Pile(q, m, n, g)
    PROVE  \E h : Pile(q, m, n + 1, h)
<1> DEFINE h == [s \in SUBSET (1 .. (n + 1)) |->
                    IF n + 1 \in s
                    THEN IF q[n + 1][1] = m THEN g[s \ {n + 1}] + q[n + 1][2] ELSE g[s \ {n + 1}]
                    ELSE g[s]]
<1>1. ASSUME NEW s \in SUBSET (1 .. (n + 1))
      PROVE  h[s] = IF s = {} THEN 0
                    ELSE LET x == Minute!Max(s) IN IF q[x][1] = m THEN h[s \ {x}] + q[x][2] ELSE h[s \ {x}]
  <2>1. CASE n + 1 \in s
    <3>1. Minute!Max(s) = n + 1
      BY <2>1, LastOfBlocks
    <3>2. h[s \ {n + 1}] = g[s \ {n + 1}]
      OBVIOUS
    <3>3. h[s] = IF q[n + 1][1] = m THEN g[s \ {n + 1}] + q[n + 1][2] ELSE g[s \ {n + 1}]
      BY <2>1
    <3> HIDE DEF h
    <3> QED BY <2>1, <3>1, <3>2, <3>3
  <2>2. CASE n + 1 \notin s
    <3>1. s \in SUBSET (1 .. n)
      <4>1. \A y \in 1 .. (n + 1) : y = n + 1 \/ y \in 1 .. n
        OBVIOUS
      <4> QED BY <2>2, <4>1
    <3>2. h[s] = g[s] /\ \A x \in s : h[s \ {x}] = g[s \ {x}]
      BY <2>2
    <3> HIDE DEF h
    <3>3. g[s] = IF s = {} THEN 0
                 ELSE LET x == Minute!Max(s) IN IF q[x][1] = m THEN g[s \ {x}] + q[x][2] ELSE g[s \ {x}]
      BY <3>1 DEF Pile
    <3>4. s # {} => Minute!Max(s) \in s
      BY <3>1, GreatestBlock
    <3> QED BY <3>2, <3>3, <3>4
  <2> QED BY <2>1, <2>2
<1>2. h = [s \in SUBSET (1 .. (n + 1)) |-> h[s]]
  OBVIOUS
<1>3. \E j : j = h
  OBVIOUS
<1> HIDE DEF h
<1>4. h = [s \in SUBSET (1 .. (n + 1)) |->
              IF s = {} THEN 0
              ELSE LET x == Minute!Max(s) IN IF q[x][1] = m THEN h[s \ {x}] + q[x][2] ELSE h[s \ {x}]]
  BY <1>1, <1>2
<1> QED BY <1>4 DEF Pile

\* There is such a sum.
LEMMA PileExists ==
    ASSUME NEW q, NEW m, NEW n \in Nat
    PROVE  \E g : Pile(q, m, n, g)
<1> DEFINE Bad == {k \in Nat : ~\E g : Pile(q, m, k, g)}
<1>1. SUFFICES ASSUME Bad # {} PROVE FALSE
  OBVIOUS
<1>2. PICK k \in Bad : \A i \in Bad : k <= i
  BY <1>1, LeastNatural
<1>3. CASE k = 0
  <2> DEFINE g == [s \in SUBSET (1 .. 0) |-> 0]
  <2>1. \A s \in SUBSET (1 .. 0) : s = {}
    OBVIOUS
  <2>2. Pile(q, m, 0, g)
    BY <2>1 DEF Pile
  <2> QED BY <1>2, <1>3, <2>2
<1>4. CASE k # 0
  <2>1. k - 1 \in Nat /\ k - 1 + 1 = k /\ ~(k <= k - 1)
    BY <1>4
  <2>2. k - 1 \notin Bad
    <3> HIDE DEF Bad
    <3> QED BY <1>2, <2>1
  <2>3. PICK g : Pile(q, m, k - 1, g)
    BY <2>1, <2>2
  <2>4. \E h : Pile(q, m, k, h)
    <3>1. \E h : Pile(q, m, k - 1 + 1, h)
      BY <2>1, <2>3, PileGrows
    <3> QED BY <2>1, <3>1
  <2> QED BY <1>2, <2>4
<1> QED BY <1>3, <1>4

\* A sum of the first blocks does not depend on what follows them.
LEMMA PilesAgree ==
    ASSUME NEW q, NEW r, NEW m, NEW n \in Nat, NEW k \in Nat, n <= k, NEW g, Pile(q, m, n, g), NEW h, Pile(r, m, k, h),
           \A i \in 1 .. n : q[i] = r[i]
    PROVE  g[1 .. n] = h[1 .. n]
<1> DEFINE Bad == {i \in Nat : i <= n /\ g[1 .. i] # h[1 .. i]}
<1>1. SUFFICES ASSUME Bad # {} PROVE FALSE
  OBVIOUS
<1>2. PICK i \in Bad : \A j \in Bad : i <= j
  BY <1>1, LeastNatural
<1>3. i \in Nat /\ i <= n /\ 1 .. i \in SUBSET (1 .. n) /\ 1 .. i \in SUBSET (1 .. k)
  BY <1>2
<1>4. i # 0
  <2>1. 1 .. 0 = {}
    OBVIOUS
  <2>2. g[{}] = 0 /\ h[{}] = 0
    BY DEF Pile
  <2> QED BY <1>2, <2>1, <2>2
<1>5. Minute!Max(1 .. i) = i /\ (1 .. i) \ {i} = 1 .. (i - 1) /\ i \in 1 .. i /\ 1 .. i # {}
  <2>1. i - 1 \in Nat /\ i \in 1 .. i
    BY <1>3, <1>4
  <2>2. Minute!Max(1 .. i) = i
    <3>1. i - 1 + 1 = i
      BY <1>3
    <3>2. 1 .. i \in SUBSET (1 .. (i - 1 + 1)) /\ i - 1 + 1 \in 1 .. i
      BY <2>1, <3>1
    <3> QED BY <2>1, <3>1, <3>2, LastOfBlocks
  <2>3. (1 .. i) \ {i} = 1 .. (i - 1)
    BY <1>3, <2>1
  <2> QED BY <2>1, <2>2, <2>3
<1>6. g[1 .. i] = IF q[i][1] = m THEN g[1 .. (i - 1)] + q[i][2] ELSE g[1 .. (i - 1)]
  <2>1. g[1 .. i] = LET x == Minute!Max(1 .. i)
                    IN  IF q[x][1] = m THEN g[(1 .. i) \ {x}] + q[x][2] ELSE g[(1 .. i) \ {x}]
    BY <1>3, <1>5 DEF Pile
  <2> QED BY <1>5, <2>1
<1>7. h[1 .. i] = IF r[i][1] = m THEN h[1 .. (i - 1)] + r[i][2] ELSE h[1 .. (i - 1)]
  <2>1. h[1 .. i] = LET x == Minute!Max(1 .. i)
                    IN  IF r[x][1] = m THEN h[(1 .. i) \ {x}] + r[x][2] ELSE h[(1 .. i) \ {x}]
    BY <1>3, <1>5 DEF Pile
  <2> QED BY <1>5, <2>1
<1>8. q[i] = r[i]
  BY <1>3, <1>4
<1>9. i - 1 \in Nat /\ i - 1 <= n /\ ~(i <= i - 1)
  BY <1>3, <1>4
<1>10. g[1 .. (i - 1)] = h[1 .. (i - 1)]
  <2>1. i - 1 \notin Bad
    <3> HIDE DEF Bad
    <3> QED BY <1>2, <1>9
  <2> QED BY <1>9, <2>1
<1> QED BY <1>2, <1>6, <1>7, <1>8, <1>10

\* What one more block adds to the sum of a minute.
LEMMA PiledAppends ==
    ASSUME NEW q \in Seq(Minute!Minutes \X Nat), NEW b \in Minute!Minutes \X Nat, NEW m
    PROVE  /\ Piled(<<>>, m, 0) = 0
           /\ Piled(Append(q, b), m, Len(q) + 1)
                  = IF b[1] = m THEN Piled(q, m, Len(q)) + b[2] ELSE Piled(q, m, Len(q))
<1> DEFINE n == Len(q)
<1>1. PICK r : r = Append(q, b)
  OBVIOUS
<1>2. n \in Nat /\ r[n + 1] = b /\ \A i \in 1 .. n : q[i] = r[i]
  BY <1>1
<1> HIDE DEF n
<1>3. PICK g : g = CHOOSE sum : Pile(q, m, n, sum)
  OBVIOUS
<1>4. Pile(q, m, n, g) /\ Piled(q, m, n) = g[1 .. n]
  BY <1>2, <1>3, PileExists DEF Piled
<1>5. PICK h : h = CHOOSE sum : Pile(r, m, n + 1, sum)
  OBVIOUS
<1>6. Pile(r, m, n + 1, h) /\ Piled(r, m, n + 1) = h[1 .. (n + 1)]
  <2>1. n + 1 \in Nat
    BY <1>2
  <2> QED BY <1>5, <2>1, PileExists DEF Piled
<1>7. g[1 .. n] = h[1 .. n]
  <2>1. n + 1 \in Nat /\ n <= n + 1
    BY <1>2
  <2> QED BY <1>2, <1>4, <1>6, <2>1, PilesAgree
<1>8. h[1 .. (n + 1)] = IF r[n + 1][1] = m THEN h[1 .. n] + r[n + 1][2] ELSE h[1 .. n]
  <2>1. 1 .. (n + 1) \in SUBSET (1 .. (n + 1)) /\ n + 1 \in 1 .. (n + 1) /\ (1 .. (n + 1)) \ {n + 1} = 1 .. n
    BY <1>2
  <2>2. Minute!Max(1 .. (n + 1)) = n + 1
    BY <1>2, <2>1, LastOfBlocks
  <2>3. h[1 .. (n + 1)] = LET x == Minute!Max(1 .. (n + 1))
                          IN  IF r[x][1] = m THEN h[(1 .. (n + 1)) \ {x}] + r[x][2] ELSE h[(1 .. (n + 1)) \ {x}]
    BY <1>6, <2>1 DEF Pile
  <2> QED BY <2>1, <2>2, <2>3
<1>9. Piled(<<>>, m, 0) = 0
  <2>1. PICK z : z = CHOOSE sum : Pile(<<>>, m, 0, sum)
    OBVIOUS
  <2>2. Pile(<<>>, m, 0, z) /\ Piled(<<>>, m, 0) = z[1 .. 0]
    BY <2>1, PileExists DEF Piled
  <2>3. 1 .. 0 = {}
    OBVIOUS
  <2> QED BY <2>2, <2>3 DEF Pile
<1> QED BY <1>1, <1>2, <1>4, <1>6, <1>7, <1>8, <1>9 DEF n

\* The sum the property takes.
LEMMA WrittenIs ==
    ASSUME mMicro \in Seq(Minute!Minutes \X Nat), NEW m
    PROVE  Minute!Written(m) = Piled(mMicro, m, Len(mMicro))
<1>1. DOMAIN mMicro = 1 .. Len(mMicro)
  OBVIOUS
<1> QED BY <1>1 DEF Minute!Written, Minute!FoldLeft, Minute!MapThenFoldSet, Piled, Pile

Block == Minute!Minutes \X Nat
WrittenTo(m) == Piled(mMicro, m, Len(mMicro))
\* A bucket that left _buckets while the feed thread held it is of a minute that stop() cut.
PacketInv ==
    /\ mCount \in [Minute!Minutes -> Nat] /\ mBucket \in [Minute!Minutes -> Nat \cup {None}]
    /\ mDropped \in [Minute!Minutes -> Nat] /\ mMicro \in Seq(Block)
    /\ mFlush # None => mFlush \in [min : Minute!Minutes, packets : Nat]
    /\ mTaken # None =>
           /\ mTaken.min \in Minute!Minutes
           /\ IF mTaken.kept THEN mBucket[mTaken.min] # None ELSE mTaken.min \in mCut
    /\ \A m \in Minute!Minutes : WrittenTo(m) \in Nat
    /\ \A m \in Minute!Minutes \ mCut : mCount[m] = WrittenTo(m) + Minute!Pending(m) + mDropped[m]

\* None is no number and no flush, and minutes are numbers.
LEMMA NoneIsNone == None \notin Nat /\ (\A r \in [min : Minute!Minutes, packets : Nat] : r # None) /\ Minute!Minutes \subseteq Nat
<1>1. Minute!Minutes \subseteq Nat
  BY InstanceAssumption DEF Minute!StreamAssumption, Minute!Minutes
<1>2. None \notin Nat /\ None \notin [min : Nat, packets : Nat]
  BY InstanceAssumption DEF Minute!StreamAssumption
<1>3. [min : Minute!Minutes, packets : Nat] \subseteq [min : Nat, packets : Nat]
  BY <1>1
<1> QED BY <1>1, <1>2, <1>3

\* What a minute has pending is a number.
LEMMA PendingIs ==
    ASSUME PacketInv, NEW m \in Minute!Minutes
    PROVE  Minute!Pending(m) \in Nat
<1>1. (IF mBucket[m] = None THEN 0 ELSE mBucket[m]) \in Nat
  BY DEF PacketInv
<1>2. (IF mFlush # None /\ mFlush.min = m THEN mFlush.packets ELSE 0) \in Nat
  BY DEF PacketInv
<1> QED BY <1>1, <1>2 DEF Minute!Pending

\* The feed thread: it takes a bucket, and adds to it.
LEMMA FeedKeepsPackets ==
    ASSUME BarInv, PacketInv, Minute!Observe \/ Minute!Account
    PROVE  PacketInv'
<1>0. None \notin Nat /\ Minute!Minutes \subseteq Nat
  BY NoneIsNone
<1>1. CASE Minute!Observe
  <2>1. PICK m \in Minute!Minutes :
            /\ mTaken' = [min |-> m, at |-> mNow, kept |-> TRUE]
            /\ mBucket' = [mBucket EXCEPT ![m] = IF @ = None THEN 0 ELSE @]
            /\ UNCHANGED <<mCount, mFlush, mMicro, mDropped, mCut>>
    BY <1>1 DEF Minute!Observe
  <2>2. /\ mBucket' \in [Minute!Minutes -> Nat \cup {None}]
        /\ mBucket'[m] = (IF mBucket[m] = None THEN 0 ELSE mBucket[m]) /\ mBucket'[m] # None
        /\ \A k \in Minute!Minutes \ {m} : mBucket'[k] = mBucket[k]
    BY <1>0, <2>1 DEF PacketInv
  <2>3. \A k \in Minute!Minutes : Minute!Pending(k)' = Minute!Pending(k)
    <3>1. \A k \in Minute!Minutes :
              (IF mBucket'[k] = None THEN 0 ELSE mBucket'[k]) = (IF mBucket[k] = None THEN 0 ELSE mBucket[k])
      BY <2>2
    <3> QED BY <2>1, <3>1 DEF Minute!Pending
  <2>4. \A k : WrittenTo(k)' = WrittenTo(k)
    BY <2>1 DEF WrittenTo
  <2> QED BY <2>1, <2>2, <2>3, <2>4 DEF PacketInv
<1>2. CASE Minute!Account
  <2> DEFINE m == mTaken.min
  <2>1. /\ mTaken # None /\ mTaken' = None /\ mCount' = [mCount EXCEPT ![m] = @ + 1]
        /\ mBucket' = IF mTaken.kept THEN [mBucket EXCEPT ![m] = @ + 1] ELSE mBucket
        /\ UNCHANGED <<mFlush, mMicro, mDropped, mCut>>
    BY <1>2 DEF Minute!Account
  <2>2. m \in Minute!Minutes /\ IF mTaken.kept THEN mBucket[m] # None ELSE m \in mCut
    BY <2>1 DEF PacketInv
  <2> HIDE DEF m
  <2>3. mCount' \in [Minute!Minutes -> Nat] /\ mCount'[m] = mCount[m] + 1
        /\ \A k \in Minute!Minutes \ {m} : mCount'[k] = mCount[k]
    BY <2>1, <2>2 DEF PacketInv
  <2>4. \A k : WrittenTo(k)' = WrittenTo(k)
    BY <2>1 DEF WrittenTo
  <2>5. CASE mTaken.kept
    <3>1. mBucket' \in [Minute!Minutes -> Nat \cup {None}] /\ mBucket'[m] = mBucket[m] + 1 /\ mBucket[m] \in Nat
          /\ \A k \in Minute!Minutes \ {m} : mBucket'[k] = mBucket[k]
      BY <2>1, <2>2, <2>5 DEF PacketInv
    <3>2. \A k \in Minute!Minutes \ {m} : Minute!Pending(k)' = Minute!Pending(k)
      BY <2>1, <3>1 DEF Minute!Pending
    <3>3. ASSUME NEW k \in Minute!Minutes, k = m PROVE Minute!Pending(k)' = Minute!Pending(k) + 1
      <4>1. (IF mFlush # None /\ mFlush.min = k THEN mFlush.packets ELSE 0) \in Nat
        BY DEF PacketInv
      <4>2. PICK f : f = IF mFlush # None /\ mFlush.min = k THEN mFlush.packets ELSE 0
        OBVIOUS
      <4>3. mBucket[k] # None /\ mBucket'[k] # None /\ mBucket'[k] = mBucket[k] + 1 /\ mBucket[k] \in Nat /\ f \in Nat
        BY <1>0, <3>1, <3>3, <4>1, <4>2
      <4>4. (IF mBucket[k] = None THEN 0 ELSE mBucket[k]) = mBucket[k]
            /\ (IF mBucket'[k] = None THEN 0 ELSE mBucket'[k]) = mBucket'[k]
        BY <4>3
      <4>5. Minute!Pending(k) = mBucket[k] + f
        BY <4>2, <4>4 DEF Minute!Pending
      <4>6. Minute!Pending(k)' = mBucket'[k] + f
        BY <2>1, <4>2, <4>4 DEF Minute!Pending
      <4> QED BY <4>3, <4>5, <4>6
    <3>4. ASSUME NEW k \in Minute!Minutes \ mCut PROVE mCount'[k] = WrittenTo(k) + Minute!Pending(k)' + mDropped[k]
      <4>1. mCount[k] = WrittenTo(k) + Minute!Pending(k) + mDropped[k] /\ WrittenTo(k) \in Nat /\ mDropped[k] \in Nat
            /\ Minute!Pending(k) \in Nat
        BY PendingIs DEF PacketInv
      <4>2. CASE k = m
        BY <2>3, <3>3, <4>1, <4>2
      <4>3. CASE k # m
        BY <2>3, <3>2, <4>1, <4>3
      <4> QED BY <4>2, <4>3
    <3> QED BY <2>1, <2>3, <2>4, <3>1, <3>4 DEF PacketInv
  <2>6. CASE ~mTaken.kept
    <3>1. mBucket' = mBucket /\ m \in mCut
      BY <2>1, <2>2, <2>6
    <3>2. \A k \in Minute!Minutes : Minute!Pending(k)' = Minute!Pending(k)
      BY <2>1, <3>1 DEF Minute!Pending
    <3> QED BY <2>1, <2>3, <2>4, <3>1, <3>2 DEF PacketInv
  <2> QED BY <2>5, <2>6
<1> QED BY <1>1, <1>2

\* The flush thread: a bucket leaves _buckets, and its block is written, fails or is dropped.
LEMMA FlushKeepsPackets ==
    ASSUME BarInv, PacketInv, Minute!FlushPop \/ Minute!WriteMinute \/ Minute!WriteError
    PROVE  PacketInv'
<1>0. /\ None \notin Nat /\ Minute!Minutes \subseteq Nat
      /\ \A r \in [min : Minute!Minutes, packets : Nat] : r # None
  BY NoneIsNone
<1>1. CASE Minute!FlushPop
  <2> DEFINE m == Minute!Min(Minute!Ready)
  <2>1. /\ mFlush = None /\ Minute!Ready # {} /\ mBucket' = [mBucket EXCEPT ![m] = None]
        /\ mCut' = IF Minute!Closed(m) THEN mCut ELSE mCut \cup {m}
        /\ mTaken' = IF mTaken # None /\ mTaken.min = m THEN [mTaken EXCEPT !.kept = FALSE] ELSE mTaken
        /\ UNCHANGED <<mCount, mMicro>>
        /\ \/ mFlush' = [min |-> m, packets |-> mBucket[m]] /\ mDropped' = mDropped
           \/ mDropped' = [mDropped EXCEPT ![m] = @ + mBucket[m]] /\ mFlush' = mFlush
    BY <1>1 DEF Minute!FlushPop, Minute!Lost
  <2>2. m \in Minute!Minutes /\ mBucket[m] # None
    <3>1. Minute!Ready \in SUBSET Nat /\ Minute!Ready \subseteq Minute!Minutes
          /\ \A k \in Minute!Ready : mBucket[k] # None
      BY <1>0 DEF Minute!Ready
    <3>2. \E p \in Minute!Ready : \A i \in Minute!Ready : p <= i
      BY <2>1, <3>1, LeastNatural
    <3> QED BY <3>1, <3>2 DEF Minute!Min
  <2> HIDE DEF m
  <2>3. mBucket[m] \in Nat /\ mBucket' \in [Minute!Minutes -> Nat \cup {None}] /\ mBucket'[m] = None
        /\ \A k \in Minute!Minutes \ {m} : mBucket'[k] = mBucket[k]
    BY <2>1, <2>2 DEF PacketInv
  <2>4. mTaken # None /\ mTaken.min = m => ~Minute!Closed(m)
    <3>1. MinuteLen \in Nat \ {0} /\ Grace \in Nat
      BY InstanceAssumption DEF Minute!StreamAssumption
    <3>2. m \in Nat
      BY <1>0, <2>2
    <3>3. Minute!Closed(m) <=> ClosedAt(m) <= mNow
      BY DEF ClosedAt, Minute!Closed
    <3>4. ClosedAt(m) \in Nat
      BY <3>1, <3>2 DEF ClosedAt
    <3> QED BY <3>1, <3>3, <3>4 DEF BarInv
  <2>5. mTaken' # None =>
            /\ mTaken'.min \in Minute!Minutes
            /\ IF mTaken'.kept THEN mBucket'[mTaken'.min] # None ELSE mTaken'.min \in mCut'
    <3>1. CASE mTaken # None /\ mTaken.min = m
      <4>1. mTaken' = [mTaken EXCEPT !.kept = FALSE] /\ m \in mCut'
        BY <2>1, <2>4, <3>1
      <4>2. mTaken \in [min : Minute!Minutes, at : Nat, kept : BOOLEAN]
        BY <3>1 DEF BarInv
      <4>3. mTaken'.min = m /\ mTaken'.kept = FALSE
        BY <3>1, <4>1, <4>2
      <4> QED BY <2>2, <4>1, <4>3
    <3>2. CASE ~(mTaken # None /\ mTaken.min = m)
      <4>1. mTaken' = mTaken /\ mCut \subseteq mCut'
        BY <2>1, <3>2
      <4> QED BY <2>3, <3>2, <4>1 DEF PacketInv
    <3> QED BY <3>1, <3>2
  <2>6. \A k : WrittenTo(k)' = WrittenTo(k)
    BY <2>1 DEF WrittenTo
  <2>7. mCut \subseteq mCut'
    BY <2>1
  <2>8. CASE mFlush' = [min |-> m, packets |-> mBucket[m]] /\ mDropped' = mDropped
    <3>1. mFlush' \in [min : Minute!Minutes, packets : Nat] /\ mFlush' # None /\ mFlush'.min = m /\ mFlush'.packets = mBucket[m]
      BY <1>0, <2>2, <2>3, <2>8
    <3>2. \A k \in Minute!Minutes : Minute!Pending(k)' = Minute!Pending(k)
      <4> TAKE k \in Minute!Minutes
      <4>1. CASE k = m
        BY <2>1, <2>2, <2>3, <3>1, <4>1 DEF Minute!Pending
      <4>2. CASE k # m
        BY <2>1, <2>3, <3>1, <4>2 DEF Minute!Pending
      <4> QED BY <4>1, <4>2
    <3> QED BY <2>1, <2>3, <2>5, <2>6, <2>7, <2>8, <3>1, <3>2 DEF PacketInv
  <2>9. CASE mDropped' = [mDropped EXCEPT ![m] = @ + mBucket[m]] /\ mFlush' = mFlush
    <3>1. mDropped' \in [Minute!Minutes -> Nat] /\ mDropped'[m] = mDropped[m] + mBucket[m]
          /\ \A k \in Minute!Minutes \ {m} : mDropped'[k] = mDropped[k]
      BY <2>2, <2>3, <2>9 DEF PacketInv
    <3>2. mFlush' = None
      BY <2>1, <2>9
    <3>3. ASSUME NEW k \in Minute!Minutes, k = m PROVE Minute!Pending(k) = mBucket[k] /\ Minute!Pending(k)' = 0
      <4>1. mFlush = None /\ mFlush' = None /\ mBucket[k] # None /\ mBucket'[k] = None /\ mBucket[k] \in Nat
        BY <2>1, <2>2, <2>3, <3>2, <3>3
      <4> QED BY <4>1 DEF Minute!Pending
    <3>4. \A k \in Minute!Minutes \ {m} : Minute!Pending(k)' = Minute!Pending(k)
      BY <2>1, <2>3, <3>2 DEF Minute!Pending
    <3>5. ASSUME NEW k \in Minute!Minutes \ mCut PROVE mCount[k] = WrittenTo(k) + Minute!Pending(k)' + mDropped'[k]
      <4>1. mCount[k] = WrittenTo(k) + Minute!Pending(k) + mDropped[k] /\ WrittenTo(k) \in Nat /\ mDropped[k] \in Nat
            /\ Minute!Pending(k) \in Nat
        BY PendingIs DEF PacketInv
      <4>2. CASE k = m
        BY <2>3, <3>1, <3>3, <4>1, <4>2
      <4>3. CASE k # m
        BY <3>1, <3>4, <4>1, <4>3
      <4> QED BY <4>2, <4>3
    <3> QED BY <2>1, <2>3, <2>5, <2>6, <2>7, <3>1, <3>2, <3>5 DEF PacketInv
  <2> QED BY <2>1, <2>8, <2>9
\* What the flush thread holds goes to the file or to the drop counters.
<1>2. ASSUME mFlush # None, mFlush' = None, UNCHANGED <<mCount, mBucket, mTaken, mCut>>,
             NEW w \in [Minute!Minutes -> Nat], \A k \in Minute!Minutes : WrittenTo(k)' = w[k],
             mMicro' \in Seq(Block), mDropped' \in [Minute!Minutes -> Nat],
             \A k \in Minute!Minutes : w[k] + mDropped'[k] =
                  WrittenTo(k) + mDropped[k] + IF mFlush.min = k THEN mFlush.packets ELSE 0
      PROVE  PacketInv'
  <2>1. ASSUME NEW k \in Minute!Minutes \ mCut PROVE mCount[k] = w[k] + Minute!Pending(k)' + mDropped'[k]
    <3>1. mCount[k] = WrittenTo(k) + Minute!Pending(k) + mDropped[k] /\ WrittenTo(k) \in Nat /\ mDropped[k] \in Nat
      BY DEF PacketInv
    <3>2. PICK f : f = IF mFlush.min = k THEN mFlush.packets ELSE 0
      OBVIOUS
    <3>3. PICK b : b = IF mBucket[k] = None THEN 0 ELSE mBucket[k]
      OBVIOUS
    <3>4. f \in Nat /\ b \in Nat
      BY <1>2, <3>2, <3>3 DEF PacketInv
    <3>5. Minute!Pending(k) = b + f /\ Minute!Pending(k)' = b
      BY <1>2, <3>2, <3>3, <3>4 DEF Minute!Pending
    <3>6. w[k] \in Nat /\ mDropped'[k] \in Nat /\ w[k] + mDropped'[k] = WrittenTo(k) + mDropped[k] + f
      BY <1>2, <3>2
    <3> QED BY <3>1, <3>4, <3>5, <3>6
  <2> QED BY <1>2, <2>1 DEF PacketInv
<1>3. CASE Minute!WriteMinute
  <2> DEFINE b == <<mFlush.min, mFlush.packets>>
  <2>1. /\ mFlush # None /\ mFlush' = None /\ mMicro' = Append(mMicro, b)
        /\ UNCHANGED <<mCount, mBucket, mTaken, mDropped, mCut>>
    BY <1>3 DEF Minute!WriteMinute
  <2>2. b \in Block /\ b[1] = mFlush.min /\ b[2] = mFlush.packets /\ mFlush.packets \in Nat
    BY <2>1 DEF PacketInv, Block
  <2> HIDE DEF b
  <2>3. mMicro \in Seq(Block) /\ mMicro' \in Seq(Block) /\ Len(mMicro') = Len(mMicro) + 1
    BY <2>1, <2>2 DEF PacketInv
  <2>4. ASSUME NEW k \in Minute!Minutes
        PROVE  WrittenTo(k)' = IF mFlush.min = k THEN WrittenTo(k) + mFlush.packets ELSE WrittenTo(k)
    <3>1. Piled(Append(mMicro, b), k, Len(mMicro) + 1)
              = IF b[1] = k THEN Piled(mMicro, k, Len(mMicro)) + b[2] ELSE Piled(mMicro, k, Len(mMicro))
      BY <2>2, <2>3, PiledAppends DEF Block
    <3> QED BY <2>1, <2>2, <2>3, <3>1 DEF WrittenTo
  <2>5. PICK w : w = [k \in Minute!Minutes |-> IF mFlush.min = k THEN WrittenTo(k) + mFlush.packets ELSE WrittenTo(k)]
    OBVIOUS
  <2>6. w \in [Minute!Minutes -> Nat] /\ \A k \in Minute!Minutes : WrittenTo(k)' = w[k]
    BY <2>2, <2>4, <2>5 DEF PacketInv
  <2>7. mDropped' \in [Minute!Minutes -> Nat]
    BY <2>1 DEF PacketInv
  <2>8. \A k \in Minute!Minutes : w[k] + mDropped'[k] =
             WrittenTo(k) + mDropped[k] + IF mFlush.min = k THEN mFlush.packets ELSE 0
    <3> TAKE k \in Minute!Minutes
    <3>1. WrittenTo(k) \in Nat /\ mDropped[k] \in Nat
      BY DEF PacketInv
    <3> QED BY <2>1, <2>2, <2>5, <3>1
  <2> QED BY <1>2, <2>1, <2>3, <2>6, <2>7, <2>8
<1>4. CASE Minute!WriteError
  <2>1. /\ mFlush # None /\ mFlush' = None /\ mDropped' = [mDropped EXCEPT ![mFlush.min] = @ + mFlush.packets]
        /\ UNCHANGED <<mCount, mBucket, mTaken, mMicro, mCut>>
    BY <1>4 DEF Minute!WriteError
  <2>2. mFlush.min \in Minute!Minutes /\ mFlush.packets \in Nat
    BY <2>1 DEF PacketInv
  <2>3. PICK w : w = [k \in Minute!Minutes |-> WrittenTo(k)]
    OBVIOUS
  <2>4. w \in [Minute!Minutes -> Nat] /\ \A k \in Minute!Minutes : WrittenTo(k)' = w[k]
    BY <2>1, <2>3 DEF PacketInv, WrittenTo
  <2>5. mDropped' \in [Minute!Minutes -> Nat] /\ mMicro' \in Seq(Block)
    BY <2>1, <2>2 DEF PacketInv
  <2>6. \A k \in Minute!Minutes : w[k] + mDropped'[k] =
             WrittenTo(k) + mDropped[k] + IF mFlush.min = k THEN mFlush.packets ELSE 0
    <3> TAKE k \in Minute!Minutes
    <3>1. WrittenTo(k) \in Nat /\ mDropped[k] \in Nat /\ w[k] = WrittenTo(k)
      BY <2>3 DEF PacketInv
    <3>2. mDropped'[k] = IF mFlush.min = k THEN mDropped[k] + mFlush.packets ELSE mDropped[k]
      BY <2>1, <2>2 DEF PacketInv
    <3> QED BY <2>2, <3>1, <3>2
  <2> QED BY <1>2, <2>1, <2>4, <2>5, <2>6
<1> QED BY <1>1, <1>3, <1>4

\* Every packet the feed accounted is in one bucket, one block or one drop counter, except of
\* the minutes stop() flushed while the feed was in them (microstructure.MicrostructureRecorder).
LEMMA PacketsAreConserved == Spec => [](PacketInv /\ Minute!PacketsConserved)
<1>1. Init => PacketInv
  <2> SUFFICES ASSUME Init PROVE PacketInv
    OBVIOUS
  <2>1. /\ mCount = [m \in Minute!Minutes |-> 0] /\ mBucket = [m \in Minute!Minutes |-> None]
        /\ mTaken = None /\ mFlush = None /\ mMicro = <<>> /\ mDropped = [m \in Minute!Minutes |-> 0]
    BY DEF Init, Minute!Init
  <2>2. \A m \in Minute!Minutes : WrittenTo(m) = 0
    <3> TAKE m \in Minute!Minutes
    <3>1. <<>> \in Seq(Minute!Minutes \X Nat) /\ <<m, 0>> \in Minute!Minutes \X Nat
      OBVIOUS
    <3>2. Piled(<<>>, m, 0) = 0
      BY <3>1, PiledAppends
    <3> QED BY <2>1, <3>2 DEF WrittenTo
  <2>3. \A m \in Minute!Minutes : Minute!Pending(m) = 0
    BY <2>1 DEF Minute!Pending
  <2> QED BY <2>1, <2>2, <2>3 DEF PacketInv
<1>2. [Next]_vars => [Minute!Next]_(Minute!vars)
  BY DEF Next, vars, mVars, ArchiveOnly, BootOnly, MinuteOnly, LogOnly, StreamOnly, KeysOnly, LimiterOnly,
         ApiOnly, DerivativesOnly, ClientOnly, Minute!vars, Minute!feedVars, Minute!readVars
<1>3. BarInv /\ PacketInv /\ [Minute!Next]_(Minute!vars) => PacketInv'
  <2> SUFFICES ASSUME BarInv, PacketInv, [Minute!Next]_(Minute!vars) PROVE PacketInv'
    OBVIOUS
  <2>1. CASE Minute!Tick \/ Minute!Stop \/ Minute!Restart \/ Minute!Compact \/ Minute!Stat \/ Minute!Follow \/ UNCHANGED Minute!vars
    <3>1. UNCHANGED <<mCount, mBucket, mTaken, mFlush, mMicro, mDropped, mCut>>
      BY <2>1 DEF Minute!Tick, Minute!Stop, Minute!Restart, Minute!Compact, Minute!Stat, Minute!Follow, Minute!vars,
         Minute!feedVars, Minute!readVars
    <3>2. \A m : WrittenTo(m)' = WrittenTo(m) /\ Minute!Pending(m)' = Minute!Pending(m)
      BY <3>1 DEF WrittenTo, Minute!Pending
    <3> QED BY <3>1, <3>2 DEF PacketInv
  <2>2. CASE Minute!Ends
    <3>1. /\ mFlush' = None /\ mTaken' = None /\ mBucket' = [m \in Minute!Minutes |-> None]
          /\ mDropped' = [m \in Minute!Minutes |-> mDropped[m] + Minute!Pending(m)]
          /\ UNCHANGED <<mCount, mMicro, mCut>>
      BY <2>2 DEF Minute!Ends
    <3>2. \A m \in Minute!Minutes : Minute!Pending(m) \in Nat /\ mDropped[m] \in Nat /\ WrittenTo(m) \in Nat
      BY PendingIs DEF PacketInv
    <3>3. mDropped' \in [Minute!Minutes -> Nat]
      BY <3>1, <3>2
    <3>4. \A m \in Minute!Minutes : WrittenTo(m)' = WrittenTo(m) /\ Minute!Pending(m)' = 0
      BY <3>1 DEF WrittenTo, Minute!Pending
    <3>5. \A m \in Minute!Minutes \ mCut : mCount[m] = WrittenTo(m) + 0 + mDropped'[m]
      <4> TAKE m \in Minute!Minutes \ mCut
      <4>1. mCount[m] = WrittenTo(m) + Minute!Pending(m) + mDropped[m] /\ mDropped'[m] = mDropped[m] + Minute!Pending(m)
        BY <3>1 DEF PacketInv
      <4> QED BY <3>2, <4>1
    <3>6. mBucket' \in [Minute!Minutes -> Nat \cup {None}]
      BY <3>1
    <3> QED BY <3>1, <3>2, <3>3, <3>4, <3>5, <3>6 DEF PacketInv
  <2> QED BY <2>1, <2>2, FeedKeepsPackets, FlushKeepsPackets DEF Minute!Next, Minute!Recorder, Minute!Reader
<1>4. PacketInv => Minute!PacketsConserved
  <2> SUFFICES ASSUME PacketInv, NEW m \in Minute!Minutes \ mCut
               PROVE  mCount[m] = Minute!Written(m) + Minute!Pending(m) + mDropped[m]
    BY DEF Minute!PacketsConserved
  <2>1. Minute!Written(m) = WrittenTo(m)
    BY WrittenIs DEF PacketInv, Block, WrittenTo
  <2> QED BY <2>1 DEF PacketInv
<1> QED BY <1>1, <1>2, <1>3, <1>4, BarsHeld, PTL DEF Spec

-----------------------------------------------------------------------------
(* The events of a client.                                                   *)

Message == {"hello", "event", "snapshot", "heartbeat"} \X Nat
\* No event passes after a and up to b.
Quiet(a, b) == \A s \in (a + 1) .. b : ~sLog[s]
\* A client that saw p, or nothing yet, sees q with the message and misses no passing event.
Leads(p, message, q) ==
    /\ q \in Nat /\ q <= Len(sLog)
    /\ \/ message[1] = "hello" /\ message[2] = q /\ (p = None \/ p = q)
       \/ message[1] = "snapshot" /\ p = q
       \/ message[1] = "event" /\ message[2] = q /\ p \in Nat /\ p < q /\ sLog[q] /\ Quiet(p, q - 1)
       \/ message[1] = "heartbeat" /\ message[2] = q /\ p \in Nat /\ p <= q /\ Quiet(p, q)
\* What the client has seen after each message on the wire.
Path(c, P) ==
    /\ P \in [0 .. Len(sWire[c]) -> Nat \cup {None}] /\ P[0] = sResume[c]
    /\ \A i \in 1 .. Len(sWire[c]) : Leads(P[i - 1], sWire[c][i], P[i])
\* The handler goes on from where the last message leaves the client.
GoesOn(c, p) ==
    /\ sPc[c] = "closed" => sWire[c] = <<>>
    /\ sPc[c] = "hello" => sWire[c] = <<>> /\ sCursor[c] = sResume[c]
    /\ sPc[c] \notin {"closed", "hello"} =>
           p \in Nat /\ p <= sCursor[c] /\ sCursor[c] <= Len(sLog) /\ Quiet(p, sCursor[c])
    /\ sPc[c] = "rows" => \A s \in sRows[c] : s <= Len(sLog) /\ sCursor[c] < s /\ (sCursor[c] + 1) .. s \subseteq sRows[c]
Carries(c, P) == Path(c, P) /\ GoesOn(c, P[Len(sWire[c])])
Connected(c) == sGone[c] \/ \E P : Carries(c, P)

DueTo(c) == {s \in (sBase[c] + 1) .. sResume[c] : sLog[s]}
\* A client has what it is due, in order and once.
HasAll(c) ==
    IF sBase[c] = None THEN sResume[c] = None /\ sReceived[c] = <<>>
    ELSE /\ sBase[c] \in Nat /\ sResume[c] \in Nat /\ sBase[c] <= sResume[c] /\ sResume[c] <= Len(sLog)
         /\ Stream!ToSet(sReceived[c]) = DueTo(c) /\ Len(sReceived[c]) = Cardinality(DueTo(c))
         /\ \A i \in 1 .. (Len(sReceived[c]) - 1) : sReceived[c][i] < sReceived[c][i + 1]

MessageTypes ==
    /\ sLog \in Seq(BOOLEAN) /\ sVersion \in Nat /\ sHeld \in [Clients -> Nat]
    /\ sPc = [c \in Clients |-> sPc[c]] /\ sGone = [c \in Clients |-> sGone[c]]
    /\ sCursor \in [Clients -> Nat \cup {None}] /\ sRows \in [Clients -> SUBSET Nat]
    /\ sWire \in [Clients -> Seq(Message)] /\ sReceived \in [Clients -> Seq(Nat)]
    /\ sBase \in [Clients -> Nat \cup {None}] /\ sResume \in [Clients -> Nat \cup {None}]
    /\ \A c \in Clients : sPc[c] \notin {"closed", "hello"} => sCursor[c] \in Nat
DueInv == MessageTypes /\ \A c \in Clients : Connected(c) /\ HasAll(c)

\* The store only grows.
Longer ==
    /\ sLog' \in Seq(BOOLEAN) /\ Len(sLog) \in Nat /\ Len(sLog') \in Nat /\ Len(sLog) <= Len(sLog')
    /\ \A s \in 1 .. Len(sLog) : sLog'[s] = sLog[s]

\* What no event passes up to the end stays so.
LEMMA QuietStays ==
    ASSUME Longer, NEW a \in Nat, NEW b \in Int, b <= Len(sLog)
    PROVE  Quiet(a, b)' <=> Quiet(a, b)
<1>1. \A s \in (a + 1) .. b : s \in 1 .. Len(sLog)
  BY DEF Longer
<1> QED BY <1>1 DEF Quiet, Longer

\* Nor does what a message means change.
LEMMA LeadsStays ==
    ASSUME Longer, NEW p \in Nat \cup {None}, NEW message, NEW q, Leads(p, message, q)
    PROVE  Leads(p, message, q)'
<1>1. q \in Nat /\ q <= Len(sLog) /\ q <= Len(sLog')
  BY DEF Leads, Longer
<1>2. q - 1 \in Int /\ q - 1 <= Len(sLog)
  BY <1>1 DEF Longer
<1>3. p \in Nat => (Quiet(p, q - 1)' <=> Quiet(p, q - 1)) /\ (Quiet(p, q)' <=> Quiet(p, q))
  BY <1>1, <1>2, QuietStays
<1>4. p \in Nat /\ p < q => sLog'[q] = sLog[q]
  BY <1>1 DEF Longer
<1> QED BY <1>1, <1>3, <1>4 DEF Leads

\* A client that takes no part keeps what it has and what is on its way.
LEMMA ClientStays ==
    ASSUME MessageTypes, NEW c \in Clients, Connected(c), HasAll(c), Longer,
           sPc'[c] = sPc[c], sGone'[c] = sGone[c], sCursor'[c] = sCursor[c], sRows'[c] = sRows[c],
           sWire'[c] = sWire[c], sReceived'[c] = sReceived[c], sBase'[c] = sBase[c], sResume'[c] = sResume[c]
    PROVE  Connected(c)' /\ HasAll(c)'
<1>1. sCursor[c] \in Nat \cup {None} /\ sRows[c] \in SUBSET Nat /\ sWire[c] \in Seq(Message) /\ Len(sWire[c]) \in Nat
  BY DEF MessageTypes
<1>2. ASSUME ~sGone[c] PROVE Connected(c)'
  <2>1. PICK P : Path(c, P) /\ GoesOn(c, P[Len(sWire[c])])
    BY <1>2 DEF Connected, Carries
  <2>2. PICK p : p = P[Len(sWire[c])]
    OBVIOUS
  <2>3. Path(c, P)'
    <3>1. \A i \in 1 .. Len(sWire[c]) : P[i - 1] \in Nat \cup {None}
      <4>1. \A i \in 1 .. Len(sWire[c]) : i - 1 \in 0 .. Len(sWire[c])
        BY <1>1
      <4> QED BY <2>1, <4>1 DEF Path
    <3>2. \A i \in 1 .. Len(sWire[c]) : Leads(P[i - 1], sWire[c][i], P[i])'
      <4> TAKE i \in 1 .. Len(sWire[c])
      <4>1. Leads(P[i - 1], sWire[c][i], P[i])
        BY <2>1 DEF Path
      <4>2. PICK a, m, b : a = P[i - 1] /\ m = sWire[c][i] /\ b = P[i]
        OBVIOUS
      <4>3. Leads(a, m, b)'
        BY <3>1, <4>1, <4>2, LeadsStays
      <4>4. sWire'[c][i] = m
        BY <4>2
      <4> QED BY <4>2, <4>3, <4>4
    <3> QED BY <2>1, <3>2 DEF Path
  <2>4. GoesOn(c, P[Len(sWire[c])])'
    <3>1. CASE sPc[c] \notin {"closed", "hello"}
      <4>1. p \in Nat /\ sCursor[c] \in Nat /\ p <= sCursor[c] /\ sCursor[c] <= Len(sLog) /\ Quiet(p, sCursor[c])
        BY <2>1, <2>2, <3>1 DEF GoesOn, MessageTypes
      <4>2. PICK k : k = sCursor[c]
        OBVIOUS
      <4>3. Quiet(p, k)'
        BY <4>1, <4>2, QuietStays
      <4>4. Quiet(p, sCursor[c])'
        BY <4>2, <4>3
      <4>5. sCursor[c] <= Len(sLog') /\ \A s \in Nat : s <= Len(sLog) => s <= Len(sLog')
        BY <4>1 DEF Longer
      <4>6. P[Len(sWire'[c])] \in Nat /\ P[Len(sWire'[c])] <= sCursor'[c] /\ sCursor'[c] <= Len(sLog')
            /\ Quiet(P[Len(sWire[c])], sCursor[c])'
        BY <2>2, <4>1, <4>4, <4>5 DEF Quiet
      <4>7. sPc[c] = "rows" =>
                \A s \in sRows[c] : s <= Len(sLog') /\ sCursor[c] < s /\ (sCursor[c] + 1) .. s \subseteq sRows[c]
        BY <1>1, <2>1, <4>5 DEF GoesOn
      <4> QED BY <3>1, <4>6, <4>7 DEF GoesOn
    <3>2. CASE sPc[c] \in {"closed", "hello"}
      BY <2>1, <3>2 DEF GoesOn
    <3> QED BY <3>1, <3>2
  <2>5. Carries(c, P)'
    BY <2>3, <2>4 DEF Carries
  <2> QED BY <2>5 DEF Connected
<1>3. HasAll(c)'
  <2>1. CASE sBase[c] = None
    BY <2>1 DEF HasAll
  <2>2. CASE sBase[c] # None
    <3>1. sBase[c] \in Nat /\ sResume[c] \in Nat /\ sResume[c] <= Len(sLog) /\ sResume[c] <= Len(sLog')
      BY <2>2 DEF HasAll, Longer
    <3>2. \A s \in (sBase[c] + 1) .. sResume[c] : sLog'[s] = sLog[s]
      BY <3>1 DEF Longer
    <3>3. DueTo(c)' = DueTo(c)
      BY <3>2 DEF DueTo
    <3> QED BY <2>2, <3>1, <3>3 DEF HasAll
  <2> QED BY <2>1, <2>2
<1>4. ASSUME sGone[c] PROVE Connected(c)'
  <2>1. sGone'[c]
    BY <1>4
  <2> QED BY <2>1 DEF Connected
<1> QED BY <1>2, <1>3, <1>4

\* One more message on the wire.
LEMMA Sends ==
    ASSUME NEW c \in Clients, NEW P, Path(c, P), sWire[c] \in Seq(Message), NEW message \in Message, NEW q \in Nat,
           Leads(P[Len(sWire[c])], message, q), sWire'[c] = Append(sWire[c], message),
           sResume'[c] = sResume[c], sLog' = sLog
    PROVE  \E Q : Path(c, Q)' /\ Q[Len(sWire'[c])] = q
<1> DEFINE n == Len(sWire[c])
<1>1. PICK Q : Q = [i \in 0 .. (n + 1) |-> IF i = n + 1 THEN q ELSE P[i]]
  OBVIOUS
<1>2. /\ n \in Nat /\ Len(sWire'[c]) = n + 1 /\ sWire'[c][n + 1] = message
      /\ \A i \in 1 .. n : sWire'[c][i] = sWire[c][i]
  OBVIOUS
<1> HIDE DEF n
<1>3. P \in [0 .. n -> Nat \cup {None}] /\ P[0] = sResume[c] /\ \A i \in 1 .. n : Leads(P[i - 1], sWire[c][i], P[i])
  BY DEF Path, n
<1>4. /\ Q \in [0 .. (n + 1) -> Nat \cup {None}] /\ Q[0] = sResume[c] /\ Q[n + 1] = q
      /\ \A i \in 0 .. n : Q[i] = P[i]
  <2>1. \A i \in 0 .. (n + 1) : i = n + 1 \/ i \in 0 .. n
    BY <1>2
  <2>2. \A i \in 0 .. n : i \in 0 .. (n + 1) /\ i # n + 1
    BY <1>2
  <2>3. 0 \in 0 .. n /\ n + 1 \in 0 .. (n + 1)
    BY <1>2
  <2> QED BY <1>1, <1>3, <2>1, <2>2, <2>3
<1>5. \A i \in 1 .. (n + 1) : Leads(Q[i - 1], sWire[c][i], Q[i])'
  <2> TAKE i \in 1 .. (n + 1)
  <2>3. ASSUME NEW a, NEW m, NEW b, Leads(a, m, b), a = Q[i - 1], m = sWire'[c][i], b = Q[i]
        PROVE  Leads(Q[i - 1], sWire[c][i], Q[i])'
    <3>1. Leads(a, m, b)'
      BY <2>3 DEF Leads, Quiet
    <3> QED BY <2>3, <3>1
  <2>1. CASE i \in 1 .. n
    <3>1. Q[i - 1] = P[i - 1] /\ Q[i] = P[i] /\ sWire'[c][i] = sWire[c][i]
      <4>1. i - 1 \in 0 .. n /\ i \in 0 .. n
        BY <1>2, <2>1
      <4> QED BY <1>2, <1>4, <2>1, <4>1
    <3>2. Leads(P[i - 1], sWire[c][i], P[i])
      BY <1>3, <2>1
    <3> QED BY <3>1, <3>2, <2>3
  <2>2. CASE i = n + 1
    <3>1. Q[i - 1] = P[n] /\ Q[i] = q /\ sWire'[c][i] = message
      <4>1. i - 1 = n /\ n \in 0 .. n
        BY <1>2, <2>2
      <4> QED BY <1>2, <1>4, <2>2, <4>1
    <3>2. Leads(P[n], message, q)
      BY DEF n
    <3> QED BY <3>1, <3>2, <2>3
  <2> QED BY <1>2, <2>1, <2>2
<1>6. Path(c, Q)'
  BY <1>2, <1>4, <1>5 DEF Path
<1> QED BY <1>2, <1>4, <1>6

\* What the client has, does not change with what its handler does.
LEMMA HandlerReceives ==
    ASSUME NEW c \in Clients, HasAll(c), sLog' = sLog, UNCHANGED <<sReceived, sBase, sResume>>
    PROVE  HasAll(c)'
<1>1. DueTo(c)' = DueTo(c)
  BY DEF DueTo
<1> QED BY <1>1 DEF HasAll

\* The least of the rows is the next one.
LEMMA NextRow ==
    ASSUME NEW rows \in SUBSET Nat, NEW k \in Nat, rows # {},
           \A s \in rows : k < s /\ (k + 1) .. s \subseteq rows
    PROVE  Stream!Min(rows) = k + 1 /\ k + 1 \in rows
<1>1. PICK s \in rows : TRUE
  OBVIOUS
<1>2. k + 1 \in (k + 1) .. s
  BY <1>1
<1>3. k + 1 \in rows /\ \A t \in rows : k + 1 <= t
  BY <1>1, <1>2
<1>4. \A x \in rows : (\A t \in rows : x <= t) => x = k + 1
  BY <1>3
<1> QED BY <1>3, <1>4 DEF Stream!Min

\* A handshake, and the hello of a stream.
LEMMA Greets ==
    ASSUME DueInv, NEW c \in Clients, Stream!Connect(c) \/ Stream!Hello(c)
    PROVE  MessageTypes' /\ Connected(c)'
<1>0. /\ MessageTypes /\ Connected(c) /\ None \notin Nat
      /\ sResume[c] \in Nat \cup {None} /\ sWire[c] \in Seq(Message) /\ Len(sLog) \in Nat
  <2>1. MessageTypes /\ Connected(c)
    BY DEF DueInv
  <2> QED BY <2>1, NoneIsNone DEF MessageTypes
<1>1. CASE Stream!Connect(c)
  <2>1. /\ sPc[c] = "closed" /\ ~sGone[c] /\ sPc' = [sPc EXCEPT ![c] = "hello"]
        /\ sCursor' = [sCursor EXCEPT ![c] = sResume[c]]
        /\ UNCHANGED <<sLog, sVersion, sRows, sHeld, sGone, sWire, sReceived, sBase, sResume>>
    BY <1>1 DEF Stream!Connect, Stream!client
  <2>2. PICK P : Path(c, P) /\ GoesOn(c, P[Len(sWire[c])])
    BY <1>0, <2>1 DEF Connected, Carries
  <2>3. sWire[c] = <<>>
    BY <2>1, <2>2 DEF GoesOn
  <2>4. sPc'[c] = "hello" /\ sCursor'[c] = sResume'[c] /\ sCursor' \in [Clients -> Nat \cup {None}]
        /\ sPc' = [d \in Clients |-> sPc'[d]] /\ \A d \in Clients \ {c} : sPc'[d] = sPc[d] /\ sCursor'[d] = sCursor[d]
    BY <1>0, <2>1 DEF MessageTypes
  <2>5. MessageTypes'
    BY <1>0, <2>1, <2>4 DEF MessageTypes
  <2>6. Path(c, P)'
    BY <2>1, <2>2 DEF Path, Leads, Quiet
  <2>7. GoesOn(c, P[Len(sWire[c])])'
    BY <2>1, <2>3, <2>4 DEF GoesOn
  <2>8. Carries(c, P)'
    BY <2>1, <2>6, <2>7 DEF Carries
  <2> QED BY <2>5, <2>8 DEF Connected
<1>2. CASE Stream!Hello(c)
  <2>1. PICK start : start = IF sCursor[c] = None THEN Len(sLog) ELSE sCursor[c]
    OBVIOUS
  <2>2. /\ sPc[c] = "hello" /\ sPc' = [sPc EXCEPT ![c] = "poll"] /\ sCursor' = [sCursor EXCEPT ![c] = start]
        /\ sWire' = [sWire EXCEPT ![c] = Append(@, <<"hello", start>>)]
        /\ UNCHANGED <<sLog, sVersion, sRows, sHeld, sGone, sReceived, sBase, sResume>>
    BY <1>2, <2>1 DEF Stream!Hello, Stream!Send, Stream!client
  <2>3. start \in Nat /\ <<"hello", start>> \in Message
    BY <1>0, <2>1 DEF MessageTypes, Message
  <2>4. /\ sPc'[c] = "poll" /\ sPc' = [d \in Clients |-> sPc'[d]] /\ \A d \in Clients \ {c} : sPc'[d] = sPc[d]
        /\ sCursor' \in [Clients -> Nat \cup {None}] /\ sCursor'[c] = start
        /\ \A d \in Clients \ {c} : sCursor'[d] = sCursor[d]
    BY <1>0, <2>2, <2>3 DEF MessageTypes
  <2>5. sWire' \in [Clients -> Seq(Message)] /\ sWire'[c] = Append(sWire[c], <<"hello", start>>)
    BY <1>0, <2>2, <2>3 DEF MessageTypes
  <2>6. MessageTypes'
    BY <1>0, <2>2, <2>3, <2>4, <2>5 DEF MessageTypes
  <2>7. ASSUME ~sGone[c] PROVE \E Q : Carries(c, Q)'
    <3>1. PICK P : Path(c, P) /\ GoesOn(c, P[Len(sWire[c])])
      BY <1>0, <2>7 DEF Connected, Carries
    <3>2. sWire[c] = <<>> /\ sCursor[c] = sResume[c] /\ P[0] = sResume[c]
      BY <2>2, <3>1 DEF GoesOn, Path
    <3>3. start <= Len(sLog)
      <4>1. CASE sResume[c] = None
        BY <1>0, <2>1, <3>2, <4>1
      <4>2. CASE sResume[c] # None
        <5>1. HasAll(c) /\ start = sResume[c]
          BY <2>1, <3>2, <4>2 DEF DueInv
        <5> QED BY <4>2, <5>1 DEF HasAll
      <4> QED BY <4>1, <4>2
    <3>4. Leads(P[Len(sWire[c])], <<"hello", start>>, start)
      <4>1. P[0] = None \/ P[0] = start
        BY <2>1, <3>2
      <4>2. Len(sWire[c]) = 0
        BY <3>2
      <4> QED BY <2>3, <3>3, <4>1, <4>2 DEF Leads
    <3>5. PICK Q : Path(c, Q)' /\ Q[Len(sWire'[c])] = start
      BY <1>0, <2>2, <2>3, <2>5, <3>1, <3>4, Sends
    <3>6. \A s \in (start + 1) .. start : FALSE
      BY <2>3
    <3>7. GoesOn(c, Q[Len(sWire[c])])'
      BY <2>2, <2>3, <2>4, <3>3, <3>5, <3>6 DEF GoesOn, Quiet
    <3>8. Carries(c, Q)'
      BY <3>5, <3>7 DEF Carries
    <3> QED BY <3>8
  <2> QED BY <2>2, <2>6, <2>7 DEF Connected
<1> QED BY <1>1, <1>2

\* The search, and the steps of the handler that send nothing.
LEMMA LooksOn ==
    ASSUME DueInv, NEW c \in Clients, Stream!Poll(c) \/ Stream!ReadSnapshot(c) \/ Stream!Compare(c)
    PROVE  MessageTypes' /\ Connected(c)'
<1>0. MessageTypes /\ Connected(c) /\ Len(sLog) \in Nat /\ Limit \in Nat
  <2>1. MessageTypes /\ Connected(c)
    BY DEF DueInv
  <2> QED BY <2>1, InstanceAssumption DEF MessageTypes, Stream!StreamAssumption
<1>1. PICK to, found :
          /\ sPc[c] \notin {"closed", "hello"} /\ to \notin {"closed", "hello"}
          /\ sPc' = [sPc EXCEPT ![c] = to] /\ sRows' = [sRows EXCEPT ![c] = found]
          /\ to = "rows" => found = Stream!Search(sCursor[c])
          /\ to # "rows" => found = sRows[c]
          /\ sHeld' = sHeld \/ sHeld' = [sHeld EXCEPT ![c] = sVersion]
          /\ UNCHANGED <<sLog, sVersion, sCursor, sGone, sWire, sReceived, sBase, sResume>>
  <2>1. sRows = [sRows EXCEPT ![c] = sRows[c]]
    BY <1>0 DEF MessageTypes
  <2>2. CASE Stream!Poll(c)
    BY <2>2 DEF Stream!Poll, Stream!client
  <2>3. CASE Stream!ReadSnapshot(c)
    BY <2>1, <2>3 DEF Stream!ReadSnapshot, Stream!client
  <2>4. CASE Stream!Compare(c)
    <3>1. PICK to : to = IF sHeld[c] > 0 /\ sVersion # sSeen[c] THEN "mark" ELSE "wait"
      OBVIOUS
    <3>2. to \in {"mark", "wait"}
      BY <3>1
    <3> QED BY <2>1, <2>4, <3>1, <3>2 DEF Stream!Compare, Stream!client
  <2> QED BY <2>2, <2>3, <2>4
<1>2. sCursor[c] \in Nat /\ sRows[c] \in SUBSET Nat
  BY <1>0, <1>1 DEF MessageTypes
<1>3. found \in SUBSET Nat
  BY <1>0, <1>1, <1>2 DEF Stream!Search
<1>4. /\ sPc'[c] = to /\ sPc' = [d \in Clients |-> sPc'[d]] /\ \A d \in Clients \ {c} : sPc'[d] = sPc[d]
      /\ sRows' \in [Clients -> SUBSET Nat] /\ sRows'[c] = found
      /\ sHeld' \in [Clients -> Nat]
  BY <1>0, <1>1, <1>3 DEF MessageTypes
<1>5. MessageTypes'
  BY <1>0, <1>1, <1>2, <1>4 DEF MessageTypes
<1>6. ASSUME ~sGone[c] PROVE \E P : Carries(c, P)'
  <2>1. PICK P : Path(c, P) /\ GoesOn(c, P[Len(sWire[c])])
    BY <1>0, <1>6 DEF Connected, Carries
  <2>2. Path(c, P)'
    BY <1>1, <2>1 DEF Path, Leads, Quiet
  <2>3. to = "rows" => \A s \in found : s <= Len(sLog) /\ sCursor[c] < s /\ (sCursor[c] + 1) .. s \subseteq found
    <3> SUFFICES ASSUME to = "rows", NEW s \in found
                 PROVE  s <= Len(sLog) /\ sCursor[c] < s /\ (sCursor[c] + 1) .. s \subseteq found
      OBVIOUS
    <3>1. found = {t \in (sCursor[c] + 1) .. Len(sLog) : t <= sCursor[c] + Limit}
      BY <1>1 DEF Stream!Search
    <3>2. s \in Nat /\ s <= Len(sLog) /\ sCursor[c] < s /\ s <= sCursor[c] + Limit
      BY <1>0, <1>2, <3>1
    <3>3. \A t \in (sCursor[c] + 1) .. s : t \in (sCursor[c] + 1) .. Len(sLog) /\ t <= sCursor[c] + Limit
      BY <1>0, <1>2, <3>2
    <3> QED BY <3>1, <3>2, <3>3
  <2>4. GoesOn(c, P[Len(sWire[c])])'
    BY <1>1, <1>4, <2>1, <2>3 DEF GoesOn, Quiet
  <2>5. Carries(c, P)'
    BY <1>1, <2>2, <2>4 DEF Carries
  <2> QED BY <2>5
<1> QED BY <1>1, <1>5, <1>6 DEF Connected

\* The steps that send an event, a snapshot or a heartbeat, and a row the filters hold back.
LEMMA Reports ==
    ASSUME DueInv, NEW c \in Clients, Stream!Row(c) \/ Stream!Mark(c) \/ Stream!Wait(c)
    PROVE  MessageTypes' /\ Connected(c)'
<1>0. MessageTypes /\ Connected(c) /\ Len(sLog) \in Nat /\ sWire[c] \in Seq(Message) /\ sRows[c] \in SUBSET Nat
  <2>1. MessageTypes /\ Connected(c)
    BY DEF DueInv
  <2> QED BY <2>1 DEF MessageTypes
<1>1. CASE Stream!Row(c)
  <2>1. PICK s : s = Stream!Min(sRows[c])
    OBVIOUS
  <2>2. /\ sPc[c] = "rows" /\ sRows[c] # {} /\ sCursor' = [sCursor EXCEPT ![c] = s]
        /\ sRows' = [sRows EXCEPT ![c] = @ \ {s}]
        /\ IF sLog[s] THEN sWire' = [sWire EXCEPT ![c] = Append(@, <<"event", s>>)] ELSE sWire' = sWire
        /\ UNCHANGED <<sLog, sVersion, sPc, sHeld, sGone, sReceived, sBase, sResume>>
    BY <1>1, <2>1 DEF Stream!Row, Stream!Send, Stream!client
  <2>3. sCursor[c] \in Nat
    BY <1>0, <2>2 DEF MessageTypes
  <2>4. s \in sRows[c] /\ s \in Nat
    <3>1. \E p \in sRows[c] : \A i \in sRows[c] : p <= i
      BY <1>0, <2>2, LeastNatural
    <3> QED BY <1>0, <2>1, <3>1 DEF Stream!Min
  <2>5. /\ sCursor' \in [Clients -> Nat \cup {None}] /\ sCursor'[c] = s /\ \A d \in Clients \ {c} : sCursor'[d] = sCursor[d]
        /\ sRows' \in [Clients -> SUBSET Nat] /\ sRows'[c] = sRows[c] \ {s}
    BY <1>0, <2>2, <2>4 DEF MessageTypes
  <2>6. <<"event", s>> \in Message
    BY <2>4 DEF Message
  <2>7. sWire' \in [Clients -> Seq(Message)]
    <3>1. sWire \in [Clients -> Seq(Message)] /\ Append(sWire[c], <<"event", s>>) \in Seq(Message)
      BY <1>0, <2>6 DEF MessageTypes
    <3>2. CASE sLog[s]
      BY <2>2, <3>1, <3>2
    <3>3. CASE ~sLog[s]
      BY <2>2, <3>1, <3>3
    <3> QED BY <3>2, <3>3
  <2>8. MessageTypes'
    BY <1>0, <2>2, <2>4, <2>5, <2>7 DEF MessageTypes
  <2>9. ASSUME ~sGone[c] PROVE \E Q : Carries(c, Q)'
    <3>1. PICK P : Path(c, P) /\ GoesOn(c, P[Len(sWire[c])])
      BY <1>0, <2>9 DEF Connected, Carries
    <3>2. PICK p : p = P[Len(sWire[c])]
      OBVIOUS
    <3>3. p \in Nat /\ p <= sCursor[c] /\ Quiet(p, sCursor[c])
          /\ \A t \in sRows[c] : t <= Len(sLog) /\ sCursor[c] < t /\ (sCursor[c] + 1) .. t \subseteq sRows[c]
      BY <2>2, <3>1, <3>2 DEF GoesOn
    <3>4. s = sCursor[c] + 1 /\ s <= Len(sLog)
      BY <1>0, <2>1, <2>2, <2>3, <2>4, <3>3, NextRow
    <3>5. \A t \in sRows'[c] : t <= Len(sLog) /\ s < t /\ (s + 1) .. t \subseteq sRows'[c]
      <4> TAKE t \in sRows'[c]
      <4>1. t \in sRows[c] /\ t \in Nat /\ t # s /\ t <= Len(sLog) /\ sCursor[c] < t /\ (sCursor[c] + 1) .. t \subseteq sRows[c]
        BY <1>0, <2>5, <3>3
      <4>2. (s + 1) .. t \subseteq (sCursor[c] + 1) .. t /\ s \notin (s + 1) .. t
        BY <2>3, <3>4, <4>1
      <4> QED BY <2>3, <2>5, <3>4, <4>1, <4>2
    <3>6. CASE sLog[s]
      <4>1. sWire'[c] = Append(sWire[c], <<"event", s>>)
        BY <1>0, <2>2, <3>6 DEF MessageTypes
      <4>2. s - 1 = sCursor[c] /\ p < s
        BY <2>3, <3>3, <3>4
      <4>3. Leads(P[Len(sWire[c])], <<"event", s>>, s)
        BY <2>4, <3>2, <3>3, <3>4, <3>6, <4>2 DEF Leads
      <4>4. PICK Q : Path(c, Q)' /\ Q[Len(sWire'[c])] = s
        BY <1>0, <2>2, <2>4, <2>6, <3>1, <4>1, <4>3, Sends
      <4>5. \A t \in (s + 1) .. s : FALSE
        BY <2>4
      <4>6. GoesOn(c, Q[Len(sWire[c])])'
        BY <2>2, <2>4, <2>5, <3>4, <3>5, <4>4, <4>5 DEF GoesOn, Quiet
      <4>7. Carries(c, Q)'
        BY <4>4, <4>6 DEF Carries
      <4> QED BY <4>7
    <3>7. CASE ~sLog[s]
      <4>1. sWire' = sWire
        BY <2>2, <3>7
      <4>2. Path(c, P)'
        BY <2>2, <3>1, <4>1 DEF Path, Leads, Quiet
      <4>3. \A t \in (p + 1) .. s : ~sLog[t]
        <5>1. \A t \in (p + 1) .. s : t = s \/ t \in (p + 1) .. sCursor[c]
          BY <2>3, <3>3, <3>4
        <5> QED BY <3>3, <3>7, <5>1 DEF Quiet
      <4>4. p <= s
        BY <2>3, <3>3, <3>4
      <4>5. GoesOn(c, P[Len(sWire[c])])'
        BY <2>2, <2>4, <2>5, <3>2, <3>3, <3>4, <3>5, <4>1, <4>3, <4>4 DEF GoesOn, Quiet
      <4>6. Carries(c, P)'
        BY <4>1, <4>2, <4>5 DEF Carries
      <4> QED BY <4>6
    <3> QED BY <3>6, <3>7
  <2> QED BY <2>2, <2>8, <2>9 DEF Connected
\* A message that leaves the cursor where it is.
<1>2. ASSUME NEW to, NEW message \in Message, sPc[c] \in {"mark", "wait"}, to \in {"wait", "poll"},
             sPc' = [sPc EXCEPT ![c] = to],
             \/ sWire' = [sWire EXCEPT ![c] = Append(@, message)]
             \/ sWire' = sWire,
             message[1] = "snapshot" \/ message = <<"heartbeat", sCursor[c]>>,
             UNCHANGED <<sLog, sVersion, sCursor, sRows, sHeld, sGone, sReceived, sBase, sResume>>
      PROVE  MessageTypes' /\ Connected(c)'
  <2>1. sCursor[c] \in Nat
    BY <1>0, <1>2 DEF MessageTypes
  <2>2. /\ sPc'[c] = to /\ sPc' = [d \in Clients |-> sPc'[d]] /\ \A d \in Clients \ {c} : sPc'[d] = sPc[d]
        /\ sWire' \in [Clients -> Seq(Message)]
    <3>1. sWire \in [Clients -> Seq(Message)] /\ Append(sWire[c], message) \in Seq(Message)
      BY <1>0, <1>2 DEF MessageTypes
    <3>2. sWire' \in [Clients -> Seq(Message)]
      <4>1. CASE sWire' = sWire
        BY <3>1, <4>1
      <4>2. CASE sWire' = [sWire EXCEPT ![c] = Append(@, message)]
        BY <3>1, <4>2
      <4> QED BY <1>2, <4>1, <4>2
    <3>3. sPc'[c] = to /\ sPc' = [d \in Clients |-> sPc'[d]] /\ \A d \in Clients \ {c} : sPc'[d] = sPc[d]
      BY <1>0, <1>2 DEF MessageTypes
    <3> QED BY <3>2, <3>3
  <2>3. MessageTypes'
    BY <1>0, <1>2, <2>1, <2>2 DEF MessageTypes
  <2>4. ASSUME ~sGone[c] PROVE \E Q : Carries(c, Q)'
    <3>1. PICK P : Path(c, P) /\ GoesOn(c, P[Len(sWire[c])])
      BY <1>0, <2>4 DEF Connected, Carries
    <3>2. PICK p : p = P[Len(sWire[c])]
      OBVIOUS
    <3>3. p \in Nat /\ p <= sCursor[c] /\ sCursor[c] <= Len(sLog) /\ Quiet(p, sCursor[c])
      BY <1>2, <3>1, <3>2 DEF GoesOn
    <3>4. CASE sWire' = sWire
      <4>1. Path(c, P)'
        BY <1>2, <3>1, <3>4 DEF Path, Leads, Quiet
      <4>2. GoesOn(c, P[Len(sWire[c])])'
        BY <1>2, <2>2, <3>2, <3>3, <3>4 DEF GoesOn, Quiet
      <4>3. Carries(c, P)'
        BY <3>4, <4>1, <4>2 DEF Carries
      <4> QED BY <4>3
    <3>5. CASE sWire' = [sWire EXCEPT ![c] = Append(@, message)]
      <4>1. sWire'[c] = Append(sWire[c], message)
        BY <1>0, <3>5 DEF MessageTypes
      <4>2. PICK q : q = IF message[1] = "snapshot" THEN p ELSE sCursor[c]
        OBVIOUS
      <4>3. q \in Nat /\ q <= sCursor[c] /\ Quiet(q, sCursor[c])
        <5>1. \A s \in (sCursor[c] + 1) .. sCursor[c] : FALSE
          BY <2>1
        <5>2. Quiet(sCursor[c], sCursor[c])
          BY <5>1 DEF Quiet
        <5> QED BY <2>1, <3>3, <4>2, <5>2
      <4>4. Leads(p, message, q)
        <5>1. CASE message[1] = "snapshot"
          BY <2>1, <1>0, <3>3, <4>2, <5>1 DEF Leads
        <5>2. CASE message[1] # "snapshot"
          <6>1. message = <<"heartbeat", sCursor[c]>> /\ q = sCursor[c]
            BY <1>2, <4>2, <5>2
          <6> QED BY <2>1, <3>3, <6>1 DEF Leads
        <5> QED BY <5>1, <5>2
      <4>5. PICK Q : Path(c, Q)' /\ Q[Len(sWire'[c])] = q
        BY <1>0, <1>2, <3>1, <3>2, <4>1, <4>3, <4>4, Sends
      <4>6. GoesOn(c, Q[Len(sWire[c])])'
        BY <1>2, <2>2, <3>3, <4>3, <4>5 DEF GoesOn, Quiet
      <4>7. Carries(c, Q)'
        BY <4>5, <4>6 DEF Carries
      <4> QED BY <4>7
    <3> QED BY <1>2, <3>4, <3>5
  <2> QED BY <1>2, <2>3, <2>4 DEF Connected
<1>3. CASE Stream!Mark(c)
  <2>1. <<"snapshot", sHeld[c]>> \in Message
    BY <1>0 DEF MessageTypes, Message
  <2>2. PICK message \in Message : message = <<"snapshot", sHeld[c]>>
    BY <2>1
  <2>3. message[1] = "snapshot"
    BY <2>2
  <2>4. /\ sPc[c] = "mark" /\ sPc' = [sPc EXCEPT ![c] = "wait"] /\ sWire' = [sWire EXCEPT ![c] = Append(@, message)]
        /\ UNCHANGED <<sLog, sVersion, sCursor, sRows, sHeld, sGone, sReceived, sBase, sResume>>
    BY <1>3, <2>2 DEF Stream!Mark, Stream!Send, Stream!client
  <2> QED BY <1>2, <2>3, <2>4
<1>4. CASE Stream!Wait(c)
  <2>1. sPc[c] = "wait" /\ sPc' = [sPc EXCEPT ![c] = "poll"]
        /\ UNCHANGED <<sLog, sVersion, sCursor, sRows, sHeld, sGone, sReceived, sBase, sResume>>
        /\ (sWire' = sWire \/ sWire' = [sWire EXCEPT ![c] = Append(@, <<"heartbeat", sCursor[c]>>)])
    BY <1>4 DEF Stream!Wait, Stream!Send, Stream!client
  <2>2. <<"heartbeat", sCursor[c]>> \in Message
    BY <1>0, <2>1 DEF MessageTypes, Message
  <2>3. PICK message \in Message : message = <<"heartbeat", sCursor[c]>>
    BY <2>2
  <2> QED BY <1>2, <2>1, <2>3
<1> QED BY <1>1, <1>3, <1>4

\* A client leaves, and its handler notices.
LEMMA Parts ==
    ASSUME DueInv, NEW c \in Clients, Stream!Closed(c) \/ Stream!Leave(c)
    PROVE  MessageTypes' /\ Connected(c)'
<1>0. /\ MessageTypes /\ sWire \in [Clients -> Seq(Message)] /\ <<>> \in Seq(Message)
      /\ sResume[c] \in Nat \cup {None}
  <2>1. MessageTypes
    BY DEF DueInv
  <2> QED BY <2>1 DEF MessageTypes
<1>1. CASE Stream!Closed(c)
  <2>1. /\ sPc' = [sPc EXCEPT ![c] = "closed"] /\ sGone' = [sGone EXCEPT ![c] = FALSE]
        /\ sRows' = [sRows EXCEPT ![c] = {}] /\ sWire' = [sWire EXCEPT ![c] = <<>>]
        /\ UNCHANGED <<sLog, sVersion, sCursor, sHeld, sReceived, sBase, sResume>>
    BY <1>1 DEF Stream!Closed
  <2>2. /\ sPc'[c] = "closed" /\ sPc' = [d \in Clients |-> sPc'[d]] /\ \A d \in Clients \ {c} : sPc'[d] = sPc[d]
        /\ sGone' = [d \in Clients |-> sGone'[d]] /\ sRows' \in [Clients -> SUBSET Nat]
    BY <1>0, <2>1 DEF MessageTypes
  <2>3. sWire' \in [Clients -> Seq(Message)] /\ sWire'[c] = <<>> /\ Len(sWire'[c]) = 0
    BY <1>0, <2>1
  <2>4. MessageTypes'
    BY <1>0, <2>1, <2>2, <2>3 DEF MessageTypes
  <2>5. PICK P : P = [i \in 0 .. 0 |-> sResume[c]]
    OBVIOUS
  <2>6. Path(c, P)'
    BY <1>0, <2>1, <2>3, <2>5 DEF Path
  <2>7. GoesOn(c, P[Len(sWire[c])])'
    BY <2>2, <2>3 DEF GoesOn
  <2>8. Carries(c, P)'
    BY <2>6, <2>7 DEF Carries
  <2> QED BY <2>4, <2>8 DEF Connected
<1>2. CASE Stream!Leave(c)
  <2>1. /\ sGone' = [sGone EXCEPT ![c] = TRUE] /\ sWire' = [sWire EXCEPT ![c] = <<>>]
        /\ UNCHANGED <<sLog, sVersion, sPc, sCursor, sRows, sHeld, sReceived, sBase, sResume>>
    BY <1>2 DEF Stream!Leave, Stream!handler
  <2>2. sGone'[c] /\ sGone' = [d \in Clients |-> sGone'[d]] /\ sWire' \in [Clients -> Seq(Message)]
    BY <1>0, <2>1 DEF MessageTypes
  <2>3. MessageTypes'
    BY <1>0, <2>1, <2>2 DEF MessageTypes
  <2> QED BY <2>2, <2>3 DEF Connected
<1> QED BY <1>1, <1>2

\* A client takes the next message.
LEMMA Takes ==
    ASSUME DueInv, NEW c \in Clients, Stream!Receive(c)
    PROVE  MessageTypes' /\ Connected(c)' /\ HasAll(c)'
<1>0. /\ MessageTypes /\ Connected(c) /\ HasAll(c) /\ None \notin Nat /\ sWire[c] \in Seq(Message)
      /\ sReceived[c] \in Seq(Nat) /\ Len(sLog) \in Nat
  <2>1. MessageTypes /\ Connected(c) /\ HasAll(c)
    BY DEF DueInv
  <2> QED BY <2>1, NoneIsNone DEF MessageTypes
<1>1. PICK message, kind, n : message = Head(sWire[c]) /\ kind = message[1] /\ n = message[2]
  OBVIOUS
<1>2. /\ sWire[c] # <<>> /\ ~sGone[c] /\ sWire' = [sWire EXCEPT ![c] = Tail(@)]
      /\ sReceived' = IF kind = "event" THEN [sReceived EXCEPT ![c] = Append(@, n)] ELSE sReceived
      /\ sBase' = IF kind = "hello" /\ sBase[c] = None THEN [sBase EXCEPT ![c] = n] ELSE sBase
      /\ sResume' = IF kind # "snapshot" THEN [sResume EXCEPT ![c] = n] ELSE sResume
      /\ UNCHANGED <<sLog, sVersion, sPc, sCursor, sRows, sHeld, sGone>>
  BY <1>1 DEF Stream!Receive, Stream!handler
<1>3. PICK k : k = Len(sWire[c])
  OBVIOUS
<1>4. /\ k \in Nat /\ k >= 1 /\ message \in Message /\ message = sWire[c][1]
      /\ Tail(sWire[c]) \in Seq(Message) /\ Len(Tail(sWire[c])) = k - 1
      /\ \A i \in 1 .. (k - 1) : Tail(sWire[c])[i] = sWire[c][i + 1]
  BY <1>0, <1>1, <1>2, <1>3
<1>5. kind \in {"hello", "event", "snapshot", "heartbeat"} /\ n \in Nat
  BY <1>1, <1>4 DEF Message
<1>6. /\ sWire' \in [Clients -> Seq(Message)] /\ sWire'[c] = Tail(sWire[c])
  BY <1>0, <1>2, <1>4 DEF MessageTypes
<1>7. sReceived' \in [Clients -> Seq(Nat)] /\ sBase' \in [Clients -> Nat \cup {None}]
  <2>1. sReceived \in [Clients -> Seq(Nat)] /\ Append(sReceived[c], n) \in Seq(Nat) /\ sBase \in [Clients -> Nat \cup {None}]
    BY <1>0, <1>5 DEF MessageTypes
  <2>2. sReceived' \in [Clients -> Seq(Nat)]
    BY <1>2, <2>1
  <2> QED BY <1>2, <1>5, <2>1, <2>2
<1>8. sResume' \in [Clients -> Nat \cup {None}]
  BY <1>0, <1>2, <1>5 DEF MessageTypes
<1>9. MessageTypes'
  BY <1>0, <1>2, <1>6, <1>7, <1>8 DEF MessageTypes
<1>10. PICK P : Path(c, P) /\ GoesOn(c, P[Len(sWire[c])])
  BY <1>0, <1>2 DEF Connected, Carries
<1>11. PICK p, q : p = sResume[c] /\ q = P[1]
  OBVIOUS
<1>12. /\ P \in [0 .. k -> Nat \cup {None}] /\ P[0] = p /\ Leads(p, message, q)
       /\ \A i \in 1 .. k : Leads(P[i - 1], sWire[c][i], P[i])
  <2>1. /\ P \in [0 .. k -> Nat \cup {None}] /\ P[0] = p
        /\ \A i \in 1 .. k : Leads(P[i - 1], sWire[c][i], P[i])
    BY <1>3, <1>10, <1>11 DEF Path
  <2>2. 1 \in 1 .. k /\ 1 - 1 = 0
    BY <1>4
  <2>3. Leads(P[1 - 1], sWire[c][1], P[1])
    BY <2>1, <2>2
  <2> QED BY <1>4, <1>11, <2>1, <2>2, <2>3
<1>13. /\ q \in Nat /\ q <= Len(sLog) /\ (kind = "hello" => n = q /\ (p = None \/ p = q))
       /\ (kind = "snapshot" => p = q)
       /\ (kind = "event" => n = q /\ p \in Nat /\ p < q /\ sLog[q] /\ Quiet(p, q - 1))
       /\ (kind = "heartbeat" => n = q /\ p \in Nat /\ p <= q /\ Quiet(p, q))
  BY <1>1, <1>12 DEF Leads
<1>14. sResume'[c] = q
  <2>1. sResume \in [Clients -> Nat \cup {None}]
    BY <1>0 DEF MessageTypes
  <2> QED BY <1>2, <1>5, <1>11, <1>13, <2>1
<1>15. Connected(c)'
  <2>1. PICK Q : Q = [i \in 0 .. (k - 1) |-> P[i + 1]]
    OBVIOUS
  <2>2. /\ Q \in [0 .. (k - 1) -> Nat \cup {None}] /\ Q[0] = q /\ Q[k - 1] = P[k]
        /\ \A i \in 0 .. (k - 1) : Q[i] = P[i + 1]
    <3>1. \A i \in 0 .. (k - 1) : i + 1 \in 0 .. k
      BY <1>4
    <3>2. 0 \in 0 .. (k - 1) /\ k - 1 \in 0 .. (k - 1) /\ (k - 1) + 1 = k /\ 0 + 1 = 1
      BY <1>4
    <3>3. Q[0] = P[0 + 1] /\ Q[k - 1] = P[(k - 1) + 1]
      BY <2>1, <3>2
    <3> QED BY <1>11, <1>12, <2>1, <3>1, <3>2, <3>3
  <2>3. Len(sWire'[c]) = k - 1
    BY <1>4, <1>6
  <2>4. \A i \in 1 .. (k - 1) : Leads(Q[i - 1], sWire[c][i], Q[i])'
    <3> TAKE i \in 1 .. (k - 1)
    <3>1. i + 1 \in 1 .. k /\ (i + 1) - 1 = i /\ i - 1 \in 0 .. (k - 1) /\ i \in 0 .. (k - 1) /\ (i - 1) + 1 = i
      BY <1>4
    <3>2. Leads(P[(i + 1) - 1], sWire[c][i + 1], P[i + 1])
      BY <1>12, <3>1
    <3>3. Q[i - 1] = P[i] /\ Q[i] = P[i + 1]
      <4>1. Q[i - 1] = P[(i - 1) + 1]
        BY <2>2, <3>1
      <4> QED BY <2>2, <3>1, <4>1
    <3>4. sWire'[c][i] = sWire[c][i + 1]
      BY <1>4, <1>6
    <3>5. PICK a, m, b : a = Q[i - 1] /\ m = sWire'[c][i] /\ b = Q[i]
      OBVIOUS
    <3>6. Leads(a, m, b)
      BY <3>1, <3>2, <3>3, <3>4, <3>5
    <3>7. Leads(a, m, b)'
      BY <1>2, <3>6 DEF Leads, Quiet
    <3> QED BY <3>5, <3>7
  <2>5. Path(c, Q)'
    BY <1>14, <2>2, <2>3, <2>4 DEF Path
  <2>6. GoesOn(c, Q[Len(sWire[c])])'
    <3>1. sPc[c] \notin {"closed", "hello"}
      BY <1>2, <1>10 DEF GoesOn
    <3>2. GoesOn(c, P[k])
      BY <1>3, <1>10
    <3>3. Q[Len(sWire'[c])] = P[k]
      BY <2>2, <2>3
    <3> QED BY <1>2, <3>1, <3>2, <3>3 DEF GoesOn, Quiet
  <2>7. Carries(c, Q)'
    BY <2>5, <2>6 DEF Carries
  <2> QED BY <2>7 DEF Connected
<1>16. HasAll(c)'
  <2>0. sReceived \in [Clients -> Seq(Nat)] /\ sBase \in [Clients -> Nat \cup {None}]
    BY <1>0 DEF MessageTypes
  <2>1. CASE kind = "snapshot"
    BY <1>0, <1>2, <2>1, HandlerReceives
  <2>2. CASE kind # "snapshot" /\ sBase[c] = None
    <3>1. p = None /\ sReceived[c] = <<>>
      BY <1>0, <1>11, <2>2 DEF HasAll
    <3>2. kind = "hello" /\ n = q
      BY <1>0, <1>5, <1>13, <2>2, <3>1
    <3>3. sBase'[c] = q /\ sReceived'[c] = <<>>
      BY <1>2, <2>0, <2>2, <3>1, <3>2
    <3>4. \A s \in (q + 1) .. q : FALSE
      BY <1>13
    <3>5. DueTo(c)' = {}
      BY <1>14, <3>3, <3>4 DEF DueTo
    <3>6. Stream!ToSet(<<>>) = {} /\ Len(<<>>) = 0 /\ Cardinality({}) = 0
      BY FS_EmptySet DEF Stream!ToSet
    <3>7. q # None
      BY <1>0, <1>13
    <3>8. \A i \in 1 .. (0 - 1) : FALSE
      OBVIOUS
    <3>9. /\ Stream!ToSet(sReceived'[c]) = DueTo(c)' /\ Len(sReceived'[c]) = Cardinality(DueTo(c)')
          /\ \A i \in 1 .. (Len(sReceived'[c]) - 1) : sReceived'[c][i] < sReceived'[c][i + 1]
      BY <3>3, <3>5, <3>6, <3>8
    <3>10. q \in Nat /\ q <= q /\ q <= Len(sLog')
      BY <1>2, <1>13
    <3> QED BY <1>14, <3>3, <3>7, <3>9, <3>10 DEF HasAll
  <2>3. CASE kind # "snapshot" /\ sBase[c] # None
    <3>1. PICK b, r : b = sBase[c] /\ r = sReceived[c]
      OBVIOUS
    <3>2. /\ b \in Nat /\ p \in Nat /\ b <= p /\ p <= Len(sLog) /\ Stream!ToSet(r) = DueTo(c)
          /\ Len(r) = Cardinality(DueTo(c)) /\ \A i \in 1 .. (Len(r) - 1) : r[i] < r[i + 1]
      BY <1>0, <1>11, <2>3, <3>1 DEF HasAll
    <3>3. sBase'[c] = b /\ b # None /\ r \in Seq(Nat)
      BY <1>0, <1>2, <2>3, <3>1
    <3>4. p <= q
      BY <1>0, <1>5, <1>13, <2>3, <3>2
    <3>5. b <= q
      BY <1>13, <3>2, <3>4
    <3>6. DueTo(c) = {s \in (b + 1) .. p : sLog[s]} /\ DueTo(c)' = {s \in (b + 1) .. q : sLog[s]}
      BY <1>2, <1>11, <1>14, <3>1, <3>3 DEF DueTo
    <3>7. CASE kind # "event"
      <4>1. sReceived'[c] = r
        BY <1>2, <3>1, <3>7
      <4>2. \A s \in (p + 1) .. q : ~sLog[s]
        <5>1. p = q \/ Quiet(p, q)
          BY <1>0, <1>5, <1>13, <2>3, <3>2, <3>7
        <5> QED BY <1>13, <3>2, <5>1 DEF Quiet
      <4>3. \A s \in (b + 1) .. q : s \in (b + 1) .. p \/ s \in (p + 1) .. q
        BY <1>13, <3>2
      <4>4. \A s \in (b + 1) .. p : s \in (b + 1) .. q
        BY <1>13, <3>2, <3>4
      <4>5. DueTo(c)' = DueTo(c)
        BY <3>6, <4>2, <4>3, <4>4
      <4> QED BY <1>2, <1>13, <1>14, <3>2, <3>3, <3>5, <4>1, <4>5 DEF HasAll
    <3>8. CASE kind = "event"
      <4>1. n = q /\ p < q /\ sLog[q] /\ Quiet(p, q - 1)
        BY <1>13, <3>8
      <4>2. sReceived'[c] = Append(r, q)
        BY <1>2, <2>0, <3>1, <3>8, <4>1
      <4>3. DueTo(c)' = DueTo(c) \cup {q} /\ q \notin DueTo(c) /\ \A s \in DueTo(c) : s < q
        <5>1. \A s \in (b + 1) .. q : s \in (b + 1) .. p \/ s \in (p + 1) .. (q - 1) \/ s = q
          BY <1>13, <3>2
        <5>2. \A s \in (b + 1) .. p : s \in (b + 1) .. q /\ s < q
          BY <1>13, <3>2, <4>1
        <5>3. q \in (b + 1) .. q /\ q \notin (b + 1) .. p
          BY <1>13, <3>2, <4>1
        <5>4. \A s \in (p + 1) .. (q - 1) : ~sLog[s]
          BY <4>1 DEF Quiet
        <5> QED BY <3>6, <4>1, <5>1, <5>2, <5>3, <5>4
      <4>4. IsFiniteSet(DueTo(c))
        <5>1. IsFiniteSet((b + 1) .. p)
          BY <3>2, FS_Interval
        <5> QED BY <3>6, <5>1, FS_Subset
      <4>5. Cardinality(DueTo(c) \cup {q}) = Cardinality(DueTo(c)) + 1
        BY <4>3, <4>4, FS_AddElement
      <4>6. /\ Len(r) \in Nat /\ Len(Append(r, q)) = Len(r) + 1 /\ Append(r, q)[Len(r) + 1] = q
            /\ \A i \in 1 .. Len(r) : Append(r, q)[i] = r[i]
        BY <1>13, <3>3
      <4>7. Stream!ToSet(Append(r, q)) = Stream!ToSet(r) \cup {q}
        <5>1. DOMAIN r = 1 .. Len(r) /\ DOMAIN Append(r, q) = 1 .. (Len(r) + 1)
          BY <1>13, <3>3
        <5>2. \A i \in 1 .. (Len(r) + 1) : i \in 1 .. Len(r) \/ i = Len(r) + 1
          BY <4>6
        <5>3. \A i \in 1 .. Len(r) : i \in 1 .. (Len(r) + 1)
          BY <4>6
        <5>4. Len(r) + 1 \in 1 .. (Len(r) + 1)
          BY <4>6
        <5> QED BY <4>6, <5>1, <5>2, <5>3, <5>4 DEF Stream!ToSet
      <4>8. \A i \in 1 .. Len(r) : Append(r, q)[i] < Append(r, q)[i + 1]
        <5> TAKE i \in 1 .. Len(r)
        <5>1. CASE i \in 1 .. (Len(r) - 1)
          <6>1. i + 1 \in 1 .. Len(r)
            BY <4>6, <5>1
          <6> QED BY <3>2, <4>6, <5>1, <6>1
        <5>2. CASE i = Len(r)
          <6>1. r[i] \in Stream!ToSet(r)
            BY <3>3 DEF Stream!ToSet
          <6> QED BY <3>2, <4>3, <4>6, <5>2, <6>1
        <5> QED BY <4>6, <5>1, <5>2
      <4>9. (Len(r) + 1) - 1 = Len(r)
        BY <4>6
      <4>10. /\ Stream!ToSet(sReceived'[c]) = DueTo(c)' /\ Len(sReceived'[c]) = Cardinality(DueTo(c)')
             /\ \A i \in 1 .. (Len(sReceived'[c]) - 1) : sReceived'[c][i] < sReceived'[c][i + 1]
        BY <3>2, <4>2, <4>3, <4>5, <4>6, <4>7, <4>8, <4>9
      <4>11. q \in Nat /\ q <= Len(sLog')
        BY <1>2, <1>13
      <4> QED BY <1>14, <3>2, <3>3, <3>5, <4>10, <4>11 DEF HasAll
    <3> QED BY <3>7, <3>8
  <2> QED BY <2>1, <2>2, <2>3
<1> QED BY <1>9, <1>15, <1>16

\* A step of a client or of its handler is no step of another client.
LEMMA OthersKeep ==
    ASSUME MessageTypes, NEW c \in Clients, Stream!Handler(c) \/ Stream!Receive(c) \/ Stream!Leave(c), NEW d \in Clients \ {c}
    PROVE  /\ sLog' = sLog
           /\ sPc'[d] = sPc[d] /\ sGone'[d] = sGone[d] /\ sCursor'[d] = sCursor[d] /\ sRows'[d] = sRows[d]
           /\ sWire'[d] = sWire[d] /\ sReceived'[d] = sReceived[d] /\ sBase'[d] = sBase[d] /\ sResume'[d] = sResume[d]
<1> USE DEF Stream!client, Stream!handler, Stream!Send
<1>0. /\ sPc = [e \in Clients |-> sPc[e]] /\ sGone = [e \in Clients |-> sGone[e]]
      /\ sCursor \in [Clients -> Nat \cup {None}] /\ sRows \in [Clients -> SUBSET Nat]
      /\ sWire \in [Clients -> Seq(Message)] /\ sReceived \in [Clients -> Seq(Nat)]
      /\ sBase \in [Clients -> Nat \cup {None}] /\ sResume \in [Clients -> Nat \cup {None}]
  BY DEF MessageTypes
<1>1. CASE Stream!Connect(c)
  BY <1>0, <1>1 DEF Stream!Connect
<1>2. CASE Stream!Hello(c)
  BY <1>0, <1>2 DEF Stream!Hello
<1>3. CASE Stream!Poll(c)
  BY <1>0, <1>3 DEF Stream!Poll
<1>4. CASE Stream!Row(c)
  <2>1. sWire'[d] = sWire[d]
    BY <1>0, <1>4 DEF Stream!Row
  <2> QED BY <1>0, <1>4, <2>1 DEF Stream!Row
<1>5. CASE Stream!ReadSnapshot(c)
  BY <1>0, <1>5 DEF Stream!ReadSnapshot
<1>6. CASE Stream!Compare(c)
  BY <1>0, <1>6 DEF Stream!Compare
<1>7. CASE Stream!Mark(c)
  BY <1>0, <1>7 DEF Stream!Mark
<1>8. CASE Stream!Wait(c)
  <2>1. sWire'[d] = sWire[d]
    BY <1>0, <1>8 DEF Stream!Wait
  <2> QED BY <1>0, <1>8, <2>1 DEF Stream!Wait
<1>9. CASE Stream!Closed(c)
  BY <1>0, <1>9 DEF Stream!Closed
<1>10. CASE Stream!Receive(c)
  <2>1. sReceived'[d] = sReceived[d] /\ sBase'[d] = sBase[d] /\ sResume'[d] = sResume[d] /\ sWire'[d] = sWire[d]
    BY <1>0, <1>10 DEF Stream!Receive
  <2> QED BY <1>10, <2>1 DEF Stream!Receive
<1>11. CASE Stream!Leave(c)
  BY <1>0, <1>11 DEF Stream!Leave
<1> QED BY <1>1, <1>2, <1>3, <1>4, <1>5, <1>6, <1>7, <1>8, <1>9, <1>10, <1>11 DEF Stream!Handler

\* Every client has the passing events since its first hello, in order and once.
LEMMA EventsReachClients == Spec => [](DueInv /\ Stream!NothingLost)
<1>1. Init => DueInv
  <2> SUFFICES ASSUME Init PROVE DueInv
    OBVIOUS
  <2>1. /\ sLog = <<>> /\ sVersion = 0 /\ sPc = [c \in Clients |-> "closed"] /\ sCursor = [c \in Clients |-> None]
        /\ sRows = [c \in Clients |-> {}] /\ sHeld = [c \in Clients |-> 0] /\ sGone = [c \in Clients |-> FALSE]
        /\ sWire = [c \in Clients |-> <<>>] /\ sReceived = [c \in Clients |-> <<>>]
        /\ sBase = [c \in Clients |-> None] /\ sResume = [c \in Clients |-> None]
    BY DEF Init, Stream!Init
  <2>2. MessageTypes
    BY <2>1 DEF MessageTypes
  <2>3. ASSUME NEW c \in Clients PROVE Connected(c) /\ HasAll(c)
    <3>1. PICK P : P = [i \in 0 .. 0 |-> None]
      OBVIOUS
    <3>2. Path(c, P) /\ GoesOn(c, P[Len(sWire[c])])
      BY <2>1, <3>1 DEF Path, GoesOn
    <3>3. Carries(c, P)
      BY <3>2 DEF Carries
    <3>4. HasAll(c)
      BY <2>1 DEF HasAll
    <3> QED BY <3>3, <3>4 DEF Connected
  <2> QED BY <2>2, <2>3 DEF DueInv
<1>2. [Next]_vars => [Stream!Next]_(Stream!vars)
  BY DEF Next, vars, sVars, ArchiveOnly, BootOnly, MinuteOnly, LogOnly, StreamOnly, KeysOnly, LimiterOnly,
         ApiOnly, DerivativesOnly, ClientOnly, Stream!vars, Stream!handler, Stream!client
<1>3. DueInv /\ [Stream!Next]_(Stream!vars) => DueInv'
  <2> SUFFICES ASSUME DueInv, [Stream!Next]_(Stream!vars) PROVE DueInv'
    OBVIOUS
  <2>0. MessageTypes /\ \A c \in Clients : Connected(c) /\ HasAll(c)
    BY DEF DueInv
  <2>1. ASSUME NEW passes \in BOOLEAN, Stream!Store(passes) PROVE DueInv'
    <3>1. sLog' = Append(sLog, passes)
          /\ UNCHANGED <<sVersion, sPc, sCursor, sRows, sHeld, sGone, sWire, sReceived, sBase, sResume>>
      BY <2>1 DEF Stream!Store, Stream!handler, Stream!client
    <3>2. sLog \in Seq(BOOLEAN) /\ sLog' \in Seq(BOOLEAN)
      BY <2>0, <3>1 DEF MessageTypes
    <3>3. Longer
      BY <3>1, <3>2 DEF Longer
    <3>4. MessageTypes'
      BY <2>0, <3>1, <3>2 DEF MessageTypes
    <3>5. \A c \in Clients : Connected(c)' /\ HasAll(c)'
      BY <2>0, <3>1, <3>3, ClientStays
    <3> QED BY <3>4, <3>5 DEF DueInv
  <2>2. CASE Stream!_publish \/ UNCHANGED Stream!vars
    <3>1. UNCHANGED <<sLog, sPc, sCursor, sRows, sHeld, sGone, sWire, sReceived, sBase, sResume>>
          /\ (sVersion' = sVersion \/ sVersion' = sVersion + 1)
      BY <2>2 DEF Stream!_publish, Stream!vars, Stream!handler, Stream!client
    <3>2. MessageTypes' /\ Longer
      BY <2>0, <3>1 DEF MessageTypes, Longer
    <3>3. \A c \in Clients : Connected(c)' /\ HasAll(c)'
      BY <2>0, <3>1, <3>2, ClientStays
    <3> QED BY <3>2, <3>3 DEF DueInv
  <2>3. ASSUME NEW c \in Clients, Stream!Handler(c) \/ Stream!Receive(c) \/ Stream!Leave(c) PROVE DueInv'
    <3>1. MessageTypes' /\ Connected(c)'
      <4>1. CASE Stream!Handler(c)
        BY <4>1, Greets, LooksOn, Reports, Parts DEF Stream!Handler
      <4>2. CASE Stream!Receive(c) \/ Stream!Leave(c)
        BY <4>2, Takes, Parts
      <4> QED BY <2>3, <4>1, <4>2
    <3>2. HasAll(c)'
      <4>1. CASE Stream!Receive(c)
        BY <4>1, Takes
      <4>2. CASE Stream!Handler(c)
        <5>1. UNCHANGED <<sLog, sReceived, sBase, sResume>>
          BY <4>2 DEF Stream!Handler, Stream!Connect, Stream!Hello, Stream!Poll, Stream!Row, Stream!ReadSnapshot,
             Stream!Compare, Stream!Mark, Stream!Wait, Stream!Closed, Stream!client
        <5> QED BY <2>0, <5>1, HandlerReceives
      <4>3. CASE Stream!Leave(c)
        <5>1. UNCHANGED <<sLog, sReceived, sBase, sResume>>
          BY <4>3 DEF Stream!Leave
        <5> QED BY <2>0, <5>1, HandlerReceives
      <4> QED BY <2>3, <4>1, <4>2, <4>3
    <3>3. ASSUME NEW d \in Clients \ {c} PROVE Connected(d)' /\ HasAll(d)'
      <4>1. /\ sLog' = sLog
            /\ sPc'[d] = sPc[d] /\ sGone'[d] = sGone[d] /\ sCursor'[d] = sCursor[d] /\ sRows'[d] = sRows[d]
            /\ sWire'[d] = sWire[d] /\ sReceived'[d] = sReceived[d] /\ sBase'[d] = sBase[d] /\ sResume'[d] = sResume[d]
        BY <2>0, <2>3, OthersKeep
      <4>2. Longer
        BY <2>0, <4>1 DEF Longer, MessageTypes
      <4> QED BY <2>0, <4>1, <4>2, ClientStays
    <3> QED BY <3>1, <3>2, <3>3 DEF DueInv
  <2> QED BY <2>1, <2>2, <2>3 DEF Stream!Next
<1>4. DueInv => Stream!NothingLost
  <2> SUFFICES ASSUME DueInv, NEW c \in Clients, sBase[c] # None
               PROVE  LET due == {s \in (sBase[c] + 1) .. sResume[c] : sLog[s]}
                      IN  /\ Stream!ToSet(sReceived[c]) = due /\ Len(sReceived[c]) = Stream!Cardinality(due)
                          /\ \A i \in 1 .. (Len(sReceived[c]) - 1) : sReceived[c][i] < sReceived[c][i + 1]
    BY DEF Stream!NothingLost
  <2>1. Stream!Cardinality(DueTo(c)) = Cardinality(DueTo(c))
    BY DEF Stream!Cardinality, Cardinality
  <2>2. HasAll(c)
    BY DEF DueInv
  <2> QED BY <2>1, <2>2 DEF HasAll, DueTo
<1> QED BY <1>1, <1>2, <1>3, <1>4, PTL DEF Spec

-----------------------------------------------------------------------------
\* The limits hold for any number of threads, requests, clients and keys, any rates and
\* sizes, and whatever fails.
THEOREM LimitsAreHeld == Spec => []LimitsHeld
<1>1. Stream!SlotsHeld /\ Api!SlotsConserved /\ Keys!RevokedRefused /\ Limiter!RateHeld
      /\ (Client!RateKept /\ Client!CooldownShared) /\ Deriv!BackupsKept => LimitsHeld
  BY DEF LimitsHeld
<1> QED BY <1>1, StreamSlotsAreHeld, SlotsAreConserved, RevokedKeysRefused, RateIsHeld, DownloadsPaced,
        BackupsAreKept, PTL

\* Rows are archived before they are wiped and the live archive's days stay, for any number of
\* rows, sessions and instruments, and however often the process is killed.
THEOREM NothingOverwritten == Spec => NeverOverwritten
<1>1. Spec => Arch!ArchivedBeforeWipe /\ Boot!LiveUntouched
  BY RowsAreArchived, LiveIsUntouched
<1> QED BY <1>1 DEF NeverOverwritten

\* What is called complete is, unless an archived day loses its digest: for any number of rows,
\* sessions, instruments, minutes, bars, engines and requests, and however often a process is
\* killed, a request fails or a store is begun again.
THEOREM NothingByHalves == Spec /\ []DiskHolds => []WholeOrNothing
<1>1. Arch!ManifestHonest /\ Boot!CompleteDays /\ Minute!BarsFinal /\ Log!OneRun /\ Api!OfOneSnapshot
          => WholeOrNothing
  BY DEF WholeOrNothing
<1>2. ArchInv => Arch!ManifestHonest
  BY DEF ArchInv
<1> QED BY <1>1, <1>2, ArchiveHeld, DaysAreComplete, BarsAreFinal, EventsOfOneRun, AnswersAreOfOneSnapshot, PTL

\* Nothing is lost or doubled: every packet is in a bucket, a block or counted as dropped, a
\* client has every passing event since its first hello once, and a crash costs the derivatives
\* log one minute at most, whatever is killed, refused, disconnected or repeated and however far
\* the stores grow.
THEOREM NothingIsLost == Spec => []NothingLost
<1>1. Minute!PacketsConserved /\ Stream!NothingLost /\ (Deriv!LinesSurvive /\ Deriv!RecordedOnce) => NothingLost
  BY DEF NothingLost
<1> QED BY <1>1, PacketsAreConserved, EventsReachClients, LinesAreKept, RepeatsArePaid, PTL

-----------------------------------------------------------------------------
(* The types of the parts.                                                   *)

\* What ArchInv does not say of the archive's types.
ArchRest == aStopped \in BOOLEAN /\ aFaults \in 0 .. MaxFaults /\ aFailed \subseteq Arch!Tables

\* Only a write that fails or a kill counts as a fault, while there are any left.
LEMMA ArchRestStays == ArchRest /\ [Arch!Next]_(Arch!vars) => ArchRest'
<1> SUFFICES ASSUME ArchRest, [Arch!Next]_(Arch!vars) PROVE ArchRest'
  OBVIOUS
<1>0. MaxFaults \in Nat /\ \A t : Arch!SourceOf(t) \in Arch!Tables
  BY InstanceAssumption DEF Arch!ArchiveAssumption, Arch!SourceOf, Arch!Tables
<1>1. ASSUME aFaults' = aFaults \/ (aFaults < MaxFaults /\ aFaults' = aFaults + 1) PROVE aFaults' \in 0 .. MaxFaults
  BY <1>0, <1>1 DEF ArchRest
<1>2. CASE UNCHANGED <<aStopped, aFaults, aFailed>>
  BY <1>2 DEF ArchRest
<1>3. CASE Arch!Shutdown
  BY <1>3 DEF Arch!Shutdown, ArchRest
<1>4. CASE Arch!Restart
  <2>1. aStopped' = FALSE /\ aFailed' = {} /\ aFaults < MaxFaults /\ aFaults' = aFaults + 1
    BY <1>4 DEF Arch!Restart
  <2> QED BY <1>1, <2>1 DEF ArchRest
<1>5. ASSUME NEW w \in Arch!Writers, Arch!WriteFails(w) PROVE ArchRest'
  <2>1. aStopped' = aStopped /\ aFailed' = aFailed \cup {Arch!SourceOf(Head(aWork[w]))}
        /\ aFaults < MaxFaults /\ aFaults' = aFaults + 1
    BY <1>5 DEF Arch!WriteFails
  <2>2. aFailed' \subseteq Arch!Tables
    BY <1>0, <2>1 DEF ArchRest
  <2> QED BY <1>1, <2>1, <2>2 DEF ArchRest
<1>6. CASE \/ \E s \in Arch!Sources : Arch!Candle(s) \/ Arch!EndSession(s) \/ Arch!Wipe(s)
           \/ Arch!_loop \/ UNCHANGED Arch!vars
           \/ \E w \in Arch!Writers : Arch!Snapshot(w) \/ Arch!WriteTable(w) \/ Arch!WriteManifest(w)
  BY <1>2, <1>6 DEF Arch!Candle, Arch!EndSession, Arch!Wipe, Arch!_loop, Arch!vars, Arch!Snapshot,
     Arch!WriteTable, Arch!WriteManifest
<1> QED BY <1>3, <1>4, <1>5, <1>6 DEF Arch!Next

LEMMA ArchiveTyped == Spec => []Arch!TypeOK
<1>1. Init => ArchRest
  <2> SUFFICES ASSUME Init PROVE ArchRest
    OBVIOUS
  <2>1. aStopped = FALSE /\ aFaults = 0 /\ aFailed = {}
    BY DEF Init, Arch!Init
  <2>2. 0 \in 0 .. MaxFaults
    BY InstanceAssumption DEF Arch!ArchiveAssumption
  <2> QED BY <2>1, <2>2 DEF ArchRest
<1>2. [Next]_vars => [Arch!Next]_(Arch!vars)
  BY DEF Next, vars, aVars, ArchiveOnly, BootOnly, MinuteOnly, LogOnly, StreamOnly, KeysOnly, LimiterOnly,
         ApiOnly, DerivativesOnly, ClientOnly, Arch!vars
<1>3. ArchInv /\ ArchRest => Arch!TypeOK
  <2>1. Tasks \subseteq Seq(Arch!Tables)
    BY DEF Tasks, Arch!Tables
  <2>2. ASSUME aWork \in [Arch!Writers -> Tasks] PROVE aWork \in [Arch!Writers -> Seq(Arch!Tables)]
    BY <2>1, <2>2
  <2> QED BY <2>2 DEF ArchInv, ArchTypes, ArchRest, Arch!TypeOK
<1> QED BY <1>1, <1>2, <1>3, ArchRestStays, ArchiveHeld, PTL DEF Spec

\* The types of the bootstrap, where a killed run leaves its days behind: they are of
\* its batch only while it places them.
BootTyped ==
    /\ bDir \in [WantedSessions -> Boot!DirStates] /\ bTrades \subseteq WantedSessions
    /\ bPlan \in [Boot!Keys -> SUBSET WantedSessions]
    /\ bStage \in [Boot!Keys -> [Instruments -> [rows : SUBSET WantedSessions, done : {"none", "intraday", "daily"}]]]
    /\ bPc \in {"idle", "download", "assemble", "place", "replace"}
    /\ bMissing \subseteq WantedSessions /\ (bPc # "idle" => bMissing # {})
    /\ bTodo \subseteq WantedSessions /\ (bPc \in {"place", "replace"} => bTodo \subseteq bMissing)
    /\ (bPc = "replace" => bTodo # {})
    /\ bFailures \subseteq Instruments /\ bHolds \in [WantedSessions -> SUBSET Instruments]
    /\ bFaults \in 0 .. MaxFaults /\ bKills \in 0 .. MaxKills /\ bTorn \in BOOLEAN

\* A day that is placed is of the batch, and what it holds are instruments.
LEMMA BootPlacesTyped == ASSUME BootTyped, Boot!Place \/ Boot!Replace PROVE BootTyped'
<1> DEFINE d == Boot!Min(bTodo)
<1>1. /\ UNCHANGED <<bTrades, bPlan, bStage, bMissing, bFailures, bFaults, bKills, bTorn>>
      /\ bTodo # {} /\ bPc \in {"place", "replace"}
  BY DEF Boot!Place, Boot!Replace, BootTyped
<1>2. d \in bTodo /\ d \in WantedSessions
  BY <1>1, BatchKeys DEF BootTyped
<1>3. Boot!With(d) \in SUBSET Instruments
  BY DEF Boot!With
<1>4. \/ bTodo' = bTodo \ {d} /\ bPc' = "place" /\ UNCHANGED <<bDir, bHolds>>
      \/ bTodo' = bTodo \ {d} /\ bPc' = "place" /\ bDir' = [bDir EXCEPT ![d] = "bootstrap"]
         /\ bHolds' = [bHolds EXCEPT ![d] = Boot!With(d)]
      \/ bTodo' = bTodo /\ bPc' = "replace" /\ (\E left \in {"hollow", "headless"} : bDir' = [bDir EXCEPT ![d] = left])
         /\ bHolds' = [bHolds EXCEPT ![d] = {}]
  BY DEF Boot!Place, Boot!Replace
<1> HIDE DEF d
<1>5. bDir' \in [WantedSessions -> Boot!DirStates] /\ bHolds' \in [WantedSessions -> SUBSET Instruments]
  BY <1>2, <1>3, <1>4 DEF BootTyped, Boot!DirStates
<1>6. /\ bTodo' \subseteq WantedSessions /\ bTodo' \subseteq bMissing /\ bPc' \in {"place", "replace"}
      /\ (bPc' = "replace" => bTodo' # {})
  BY <1>1, <1>4 DEF BootTyped
<1> QED BY <1>1, <1>5, <1>6 DEF BootTyped

\* A run's staged files are of its batch's folder.
LEMMA BootStagesTyped ==
    ASSUME BootTyped, NEW i \in Instruments, Boot!DownloadIntraday(i) \/ Boot!DownloadDaily(i)
    PROVE  BootTyped'
<1> DEFINE k == Boot!Key(bMissing)
<1>1. /\ bPc = "download"
      /\ UNCHANGED <<bDir, bTrades, bPlan, bPc, bMissing, bFailures, bTodo, bHolds, bFaults, bKills, bTorn>>
  BY DEF Boot!DownloadIntraday, Boot!DownloadDaily
<1>2. k \in Boot!Keys
  BY <1>1, BatchKeys DEF BootTyped
<1>3. \/ bStage' = [bStage EXCEPT ![k][i] = [rows |-> bMissing \cap bTrades, done |-> "intraday"]]
      \/ bStage' = [bStage EXCEPT ![k][i].done = "daily"]
  BY DEF Boot!DownloadIntraday, Boot!DownloadDaily, Boot!_write_stage
<1> HIDE DEF k
<1>4. bMissing \cap bTrades \in SUBSET WantedSessions
  BY DEF BootTyped
<1> DEFINE File == [rows : SUBSET WantedSessions, done : {"none", "intraday", "daily"}]
<1>5. bStage' \in [Boot!Keys -> [Instruments -> File]]
  <2>1. bStage \in [Boot!Keys -> [Instruments -> File]] /\ bStage[k] \in [Instruments -> File] /\ bStage[k][i] \in File
    BY <1>2 DEF BootTyped
  <2>2. [rows |-> bMissing \cap bTrades, done |-> "intraday"] \in File /\ [bStage[k][i] EXCEPT !.done = "daily"] \in File
    BY <1>4, <2>1
  <2> HIDE DEF File
  <2>3. \E f \in File : bStage' = [bStage EXCEPT ![k] = [bStage[k] EXCEPT ![i] = f]]
    <3>1. CASE bStage' = [bStage EXCEPT ![k][i] = [rows |-> bMissing \cap bTrades, done |-> "intraday"]]
      BY <2>2, <3>1
    <3>2. CASE bStage' = [bStage EXCEPT ![k][i].done = "daily"]
      <4>1. bStage' = [bStage EXCEPT ![k] = [bStage[k] EXCEPT ![i] = [bStage[k][i] EXCEPT !.done = "daily"]]]
        BY <3>2
      <4> QED BY <2>2, <4>1
    <3> QED BY <1>3, <3>1, <3>2
  <2> QED BY <1>2, <2>1, <2>3
<1> QED BY <1>1, <1>5 DEF BootTyped, Boot!Keys

LEMMA BootStaysTyped == BootTyped /\ [Boot!Next]_(Boot!vars) => BootTyped'
<1> SUFFICES ASSUME BootTyped, [Boot!Next]_(Boot!vars) PROVE BootTyped'
  OBVIOUS
<1>0. MaxFaults \in Nat /\ MaxKills \in Nat
  BY InstanceAssumption DEF Boot!CalendarAssumption
<1>1. Boot!Keys' = Boot!Keys /\ Boot!DirStates' = Boot!DirStates
  BY DEF Boot!Keys, Boot!DirStates
<1>2. CASE Boot!Start
  <2> DEFINE days == Boot!_resumable(Boot!targets)
             k == Boot!Key(days)
  <2>1. /\ Boot!targets # {} /\ bMissing' = days /\ bPlan' = [bPlan EXCEPT ![k] = days]
        /\ bPc' = "download" /\ bFailures' = {}
        /\ UNCHANGED <<bDir, bTrades, bStage, bTodo, bHolds, bFaults, bKills, bTorn>>
    BY <1>2 DEF Boot!Start, Boot!_load_or_create_plan
  <2>2. Boot!targets \in SUBSET WantedSessions
    BY DEF Boot!targets
  <2>3. days \in SUBSET WantedSessions /\ days # {}
    BY <2>1, <2>2, Resumed DEF BootTyped
  <2>4. k \in Boot!Keys
    BY <2>3, BatchKeys
  <2> HIDE DEF days, k
  <2>5. bPlan' \in [Boot!Keys -> SUBSET WantedSessions]
    BY <2>1, <2>3, <2>4 DEF BootTyped
  <2> QED BY <1>1, <2>1, <2>3, <2>5 DEF BootTyped
<1>3. ASSUME NEW i \in Instruments, Boot!RequestFailed(i) PROVE BootTyped'
  <2>1. /\ bFaults < MaxFaults /\ bFaults' = bFaults + 1 /\ bFailures' = bFailures \cup {i}
        /\ UNCHANGED <<bDir, bTrades, bPlan, bStage, bPc, bMissing, bTodo, bHolds, bKills, bTorn>>
    BY <1>3 DEF Boot!RequestFailed
  <2>2. bFaults' \in 0 .. MaxFaults
    BY <1>0, <2>1 DEF BootTyped
  <2> QED BY <1>1, <2>1, <2>2 DEF BootTyped
<1>4. CASE Boot!BootstrapBlocked
  <2>1. /\ bFaults < MaxFaults /\ bFaults' = bFaults + 1 /\ bPc' = "idle"
        /\ UNCHANGED <<bDir, bTrades, bPlan, bStage, bMissing, bFailures, bTodo, bHolds, bKills, bTorn>>
    BY <1>4 DEF Boot!BootstrapBlocked
  <2>2. bFaults' \in 0 .. MaxFaults
    BY <1>0, <2>1 DEF BootTyped
  <2> QED BY <1>1, <2>1, <2>2 DEF BootTyped
<1>5. CASE Boot!Downloaded
  <2>1. /\ bPc = "download" /\ bPc' \in {"assemble", "idle"}
        /\ UNCHANGED <<bDir, bTrades, bPlan, bStage, bMissing, bFailures, bTodo, bHolds, bFaults, bKills, bTorn>>
    BY <1>5 DEF Boot!Downloaded
  <2> QED BY <1>1, <2>1 DEF BootTyped
<1>6. CASE Boot!Assemble
  <2>1. /\ bPc = "assemble" /\ ((bPc' = "place" /\ bTodo' = bMissing) \/ (bPc' = "idle" /\ bTodo' = bTodo))
        /\ UNCHANGED <<bDir, bTrades, bPlan, bStage, bMissing, bFailures, bHolds, bFaults, bKills, bTorn>>
    <3>1. CASE Boot!StagedDays \subseteq bMissing
      <4>1. bPc = "assemble" /\ UNCHANGED <<bDir, bTrades, bPlan, bStage, bMissing, bFailures, bHolds, bFaults, bKills, bTorn>>
        BY <1>6, Zenon DEF Boot!Assemble
      <4>2. bPc' = "place" /\ bTodo' = bMissing
        BY <1>6, <3>1 DEF Boot!Assemble
      <4> QED BY <4>1, <4>2
    <3>2. CASE ~(Boot!StagedDays \subseteq bMissing)
      BY <1>6, <3>2, Zenon DEF Boot!Assemble
    <3> QED BY <3>1, <3>2
  <2> QED BY <1>1, <2>1 DEF BootTyped
<1>7. CASE Boot!Finish
  <2> DEFINE k == Boot!Key(bMissing)
  <2>1. /\ bPc = "place" /\ bPc' = "idle" /\ bPlan' = [bPlan EXCEPT ![k] = {}]
        /\ bStage' = [bStage EXCEPT ![k] = [i \in Instruments |-> Boot!NotStaged]]
        /\ UNCHANGED <<bDir, bTrades, bMissing, bFailures, bTodo, bHolds, bFaults, bKills, bTorn>>
    BY <1>7 DEF Boot!Finish
  <2> HIDE DEF k
  <2>2. Boot!NotStaged \in [rows : SUBSET WantedSessions, done : {"none", "intraday", "daily"}]
    BY DEF Boot!NotStaged
  <2>3. bPlan' \in [Boot!Keys -> SUBSET WantedSessions]
    BY <2>1 DEF BootTyped
  <2>4. bStage' \in [Boot!Keys -> [Instruments -> [rows : SUBSET WantedSessions, done : {"none", "intraday", "daily"}]]]
    BY <2>1, <2>2 DEF BootTyped
  <2> QED BY <1>1, <2>1, <2>3, <2>4 DEF BootTyped
<1>8. CASE Boot!Killed
  <2>1. /\ bKills < MaxKills /\ bKills' = bKills + 1 /\ bPc' = "idle"
        /\ UNCHANGED <<bDir, bTrades, bPlan, bStage, bMissing, bFailures, bTodo, bHolds, bFaults>>
    BY <1>8 DEF Boot!Killed
  <2>2. bTorn' \in BOOLEAN
    BY <1>8 DEF Boot!Killed
  <2>3. bKills' \in 0 .. MaxKills
    BY <1>0, <2>1 DEF BootTyped
  <2> QED BY <1>1, <2>1, <2>2, <2>3 DEF BootTyped
<1>9. ASSUME NEW d \in WantedSessions, Boot!Corrupted(d) PROVE BootTyped'
  <2>1. /\ bKills < MaxKills /\ bKills' = bKills + 1 /\ bDir' = [bDir EXCEPT ![d] = "corrupt"]
        /\ UNCHANGED <<bTrades, bPlan, bStage, bPc, bMissing, bFailures, bTodo, bHolds, bFaults, bTorn>>
    BY <1>9 DEF Boot!Corrupted
  <2>2. bKills' \in 0 .. MaxKills
    BY <1>0, <2>1 DEF BootTyped
  <2>3. bDir' \in [WantedSessions -> Boot!DirStates]
    BY <2>1 DEF BootTyped, Boot!DirStates
  <2> QED BY <1>1, <2>1, <2>2, <2>3 DEF BootTyped
<1>10. CASE UNCHANGED Boot!vars
  BY <1>1, <1>10 DEF Boot!vars, BootTyped
<1> QED BY <1>2, <1>3, <1>4, <1>5, <1>6, <1>7, <1>8, <1>9, <1>10, BootStagesTyped, BootPlacesTyped
        DEF Boot!Next, Boot!Run

LEMMA BootstrapTyped == Spec => []Boot!TypeOK
<1>1. Init => BootTyped
  <2> SUFFICES ASSUME Init PROVE BootTyped
    OBVIOUS
  <2>1. /\ bDir \in [WantedSessions -> {"none", "live", "indices"}] /\ bTrades \in SUBSET WantedSessions
        /\ bPlan = [k \in Boot!Keys |-> {}]
        /\ bStage = [k \in Boot!Keys |-> [i \in Instruments |-> Boot!NotStaged]]
        /\ bPc = "idle" /\ bMissing = {} /\ bFailures = {} /\ bTodo = {}
        /\ bHolds = [d \in WantedSessions |-> {}] /\ bFaults = 0 /\ bKills = 0 /\ bTorn = FALSE
    BY DEF Init, Boot!Init
  <2>2. bDir \in [WantedSessions -> Boot!DirStates]
    BY <2>1 DEF Boot!DirStates
  <2>3. 0 \in 0 .. MaxFaults /\ 0 \in 0 .. MaxKills
    BY InstanceAssumption DEF Boot!CalendarAssumption
  <2>4. bStage \in [Boot!Keys -> [Instruments -> [rows : SUBSET WantedSessions, done : {"none", "intraday", "daily"}]]]
    BY <2>1 DEF Boot!NotStaged
  <2>5. bTorn \in BOOLEAN
    BY <2>1
  <2> QED BY <2>1, <2>2, <2>3, <2>4, <2>5 DEF BootTyped
<1>2. [Next]_vars => [Boot!Next]_(Boot!vars)
  BY DEF Next, vars, bVars, ArchiveOnly, BootOnly, MinuteOnly, LogOnly, StreamOnly, KeysOnly, LimiterOnly,
         ApiOnly, DerivativesOnly, ClientOnly, Boot!vars
<1>3. BootTyped => Boot!TypeOK
  BY DEF BootTyped, Boot!TypeOK
<1> QED BY <1>1, <1>2, <1>3, BootStaysTyped, PTL DEF Spec

\* The counts of the minute stream: a bucket never holds more packets than its minute counted.
MinuteCounts ==
    /\ \A m \in Minute!Minutes : mCount[m] <= MaxPackets /\ (mBucket[m] # None => mBucket[m] <= mCount[m])
    /\ mTaken # None => mTaken.at <= Minute!End /\ mCount[mTaken.min] < MaxPackets
    /\ mFlush # None => mFlush.packets <= MaxPackets
\* The rest of its types.
MinuteRest ==
    /\ mNow <= Minute!End /\ mUp \in {"up", "closing", "down"} /\ mFaults \in 0 .. MaxFaults
    /\ mSeen \in Nat /\ mStat \in Nat \cup {None} /\ mAsOf \in Minute!Minutes \cup {-1} /\ mArchived \in BOOLEAN
    /\ mCut \subseteq Minute!Minutes

\* The numbers of the stream's clock.
LEMMA MinuteNumbers ==
    /\ MinuteLen \in Nat \ {0} /\ Grace \in Nat /\ LastMinute \in Nat /\ MaxPackets \in Nat /\ MaxFaults \in Nat
    /\ Minute!End \in Nat /\ None \notin Int /\ Minute!Minutes = 0 .. LastMinute
<1>1. /\ MinuteLen \in Nat \ {0} /\ Grace \in Nat /\ LastMinute \in Nat /\ MaxPackets \in Nat /\ MaxFaults \in Nat
      /\ None \notin Int
  BY InstanceAssumption DEF Minute!StreamAssumption
<1> QED BY <1>1 DEF Minute!End, Minute!Minutes

\* A packet raises the count and its bucket together.
LEMMA MinuteCountsStay ==
    ASSUME BarInv, PacketInv, MinuteRest, MinuteCounts, [Minute!Next]_(Minute!vars)
    PROVE  MinuteCounts'
<1>0. MaxPackets \in Nat /\ None \notin Nat /\ Minute!Minutes' = Minute!Minutes /\ Minute!End' = Minute!End
  BY MinuteNumbers DEF Minute!Minutes, Minute!End
<1>1. CASE UNCHANGED <<mCount, mBucket, mTaken, mFlush>>
  BY <1>0, <1>1 DEF MinuteCounts
<1>2. CASE Minute!Observe
  <2>1. PICK m \in Minute!Minutes :
            /\ mCount[m] < MaxPackets /\ mTaken' = [min |-> m, at |-> mNow, kept |-> TRUE]
            /\ mBucket' = [mBucket EXCEPT ![m] = IF @ = None THEN 0 ELSE @]
            /\ UNCHANGED <<mCount, mFlush>>
    BY <1>2 DEF Minute!Observe
  <2>2. /\ mBucket'[m] = (IF mBucket[m] = None THEN 0 ELSE mBucket[m])
        /\ \A k \in Minute!Minutes \ {m} : mBucket'[k] = mBucket[k]
    BY <2>1 DEF PacketInv
  <2>3. \A k \in Minute!Minutes : mCount[k] \in Nat
    BY DEF PacketInv
  <2>4. \A k \in Minute!Minutes : mBucket'[k] # None => mBucket'[k] <= mCount[k]
    BY <2>1, <2>2, <2>3 DEF MinuteCounts
  <2> QED BY <1>0, <2>1, <2>4 DEF MinuteCounts, MinuteRest
<1>3. CASE Minute!Account
  <2> DEFINE m == mTaken.min
  <2>1. /\ mTaken # None /\ mTaken' = None /\ mCount' = [mCount EXCEPT ![m] = @ + 1]
        /\ mBucket' = IF mTaken.kept THEN [mBucket EXCEPT ![m] = @ + 1] ELSE mBucket
        /\ mFlush' = mFlush
    BY <1>3 DEF Minute!Account
  <2>2. m \in Minute!Minutes /\ (mTaken.kept => mBucket[m] # None) /\ mCount[m] < MaxPackets
    BY <2>1 DEF PacketInv, MinuteCounts
  <2> HIDE DEF m
  <2>3. \A k \in Minute!Minutes : mCount[k] \in Nat /\ mBucket[k] \in Nat \cup {None}
    BY DEF PacketInv
  <2>4. mCount'[m] = mCount[m] + 1 /\ \A k \in Minute!Minutes \ {m} : mCount'[k] = mCount[k]
    BY <2>1, <2>2 DEF PacketInv
  <2>5. \/ mBucket' = mBucket
        \/ mBucket[m] # None /\ mBucket'[m] = mBucket[m] + 1 /\ \A k \in Minute!Minutes \ {m} : mBucket'[k] = mBucket[k]
    BY <2>1, <2>2 DEF PacketInv
  <2>6. ASSUME NEW k \in Minute!Minutes
        PROVE  mCount'[k] <= MaxPackets /\ (mBucket'[k] # None => mBucket'[k] <= mCount'[k])
    <3>1. mCount[k] <= MaxPackets /\ (mBucket[k] # None => mBucket[k] <= mCount[k])
      BY DEF MinuteCounts
    <3>2. CASE k = m
      BY <1>0, <2>2, <2>3, <2>4, <2>5, <3>1, <3>2
    <3>3. CASE k # m
      BY <2>4, <2>5, <3>1, <3>3
    <3> QED BY <3>2, <3>3
  <2> QED BY <1>0, <2>1, <2>6 DEF MinuteCounts
<1>4. CASE Minute!FlushPop
  <2> DEFINE m == Minute!Min(Minute!Ready)
  <2>1. /\ Minute!Ready # {} /\ mBucket' = [mBucket EXCEPT ![m] = None] /\ mCount' = mCount
        /\ mTaken' = IF mTaken # None /\ mTaken.min = m THEN [mTaken EXCEPT !.kept = FALSE] ELSE mTaken
        /\ (mFlush' = [min |-> m, packets |-> mBucket[m]] \/ mFlush' = mFlush)
    BY <1>4 DEF Minute!FlushPop
  <2>2. m \in Minute!Minutes /\ mBucket[m] # None
    <3>1. Minute!Ready \in SUBSET Nat /\ Minute!Ready \subseteq Minute!Minutes
          /\ \A k \in Minute!Ready : mBucket[k] # None
      BY NoneIsNone DEF Minute!Ready
    <3>2. \E p \in Minute!Ready : \A i \in Minute!Ready : p <= i
      BY <2>1, <3>1, LeastNatural
    <3> QED BY <3>1, <3>2 DEF Minute!Min
  <2> HIDE DEF m
  <2>3. \A k \in Minute!Minutes : mBucket'[k] # None => mBucket'[k] = mBucket[k]
    BY <2>1, <2>2 DEF PacketInv
  <2>4. mTaken' # None => mTaken # None /\ mTaken'.at = mTaken.at /\ mTaken'.min = mTaken.min
    <3>1. mTaken # None => mTaken \in [min : Minute!Minutes, at : Nat, kept : BOOLEAN]
      BY DEF BarInv
    <3> QED BY <2>1, <3>1
  <2>5. mBucket[m] <= MaxPackets
    <3>1. mBucket[m] \in Nat /\ mCount[m] \in Nat /\ mBucket[m] <= mCount[m] /\ mCount[m] <= MaxPackets
      BY <2>2 DEF PacketInv, MinuteCounts
    <3> QED BY <1>0, <3>1
  <2>6. mFlush' # None => mFlush'.packets <= MaxPackets
    BY <2>1, <2>5 DEF MinuteCounts
  <2> QED BY <1>0, <2>1, <2>3, <2>4, <2>6 DEF MinuteCounts
<1>5. CASE Minute!Ends
  <2>1. mFlush' = None /\ mTaken' = None /\ mBucket' = [m \in Minute!Minutes |-> None] /\ mCount' = mCount
    BY <1>5 DEF Minute!Ends
  <2> QED BY <1>0, <2>1 DEF MinuteCounts
<1>6. CASE Minute!WriteMinute \/ Minute!WriteError
  <2>1. mFlush' = None /\ UNCHANGED <<mCount, mBucket, mTaken>>
    BY <1>6 DEF Minute!WriteMinute, Minute!WriteError
  <2> QED BY <1>0, <2>1 DEF MinuteCounts
<1>7. CASE Minute!Tick \/ Minute!Stop \/ Minute!Restart \/ Minute!Compact \/ Minute!Stat \/ Minute!Follow
           \/ UNCHANGED Minute!vars
  BY <1>1, <1>7 DEF Minute!Tick, Minute!Stop, Minute!Restart, Minute!Compact, Minute!Stat, Minute!Follow,
     Minute!vars, Minute!feedVars, Minute!readVars
<1> QED BY <1>2, <1>3, <1>4, <1>5, <1>6, <1>7 DEF Minute!Next, Minute!Recorder, Minute!Reader

\* The runner steps to a minute of the session, and before the first whole block to none.
LEMMA StepsAreMinutes == ASSUME BarInv, MinuteRest, Minute!Follow PROVE mAsOf' \in Minute!Minutes \cup {-1}
<1> DEFINE c == Minute!Covered
           n == Minute!Minute(mNow)
<1>1. c \in Minute!Minutes \cup {-1}
  <2>1. mBars \in Seq(Blocks) /\ DOMAIN mBars = 1 .. Len(mBars)
    BY DEF BarInv
  <2>2. \A i \in DOMAIN mBars : mBars[i] \in Blocks
    BY <2>1, ElementOfSeq
  <2>3. \A i \in DOMAIN mBars : mBars[i].min \in Minute!Minutes
    BY <2>2 DEF Blocks
  <2> DEFINE mins == {mBars[i].min : i \in Minute!Wholes}
  <2>4. mins \in SUBSET (0 .. LastMinute) /\ (Minute!Wholes # {} => mins # {})
    BY <2>3, MinuteNumbers DEF Minute!Wholes
  <2>5. c = IF Minute!Wholes = {} THEN -1 ELSE Minute!Max(mins)
    BY DEF Minute!Covered
  <2> HIDE DEF mins, c
  <2>6. CASE Minute!Wholes # {}
    <3>1. \E p \in mins : \A i \in mins : p >= i
      BY <2>4, <2>6, MinuteNumbers, GreatestUpTo
    <3>2. Minute!Max(mins) \in mins
      BY <3>1 DEF Minute!Max
    <3> QED BY <2>4, <2>5, <2>6, <3>2, MinuteNumbers
  <2> QED BY <2>5, <2>6
<1>2. n \in Nat
  BY MinuteOfTime DEF BarInv
<1>3. mAsOf' = IF (IF c < n THEN c ELSE n - 1) > mAsOf THEN (IF c < n THEN c ELSE n - 1) ELSE mAsOf
  BY DEF Minute!Follow, Minute!StepTo
<1> HIDE DEF c, n
<1> QED BY <1>1, <1>2, <1>3, MinuteNumbers DEF MinuteRest

LEMMA MinuteRestStays ==
    ASSUME BarInv, MinuteRest, [Minute!Next]_(Minute!vars)
    PROVE  MinuteRest'
<1>0. /\ MaxFaults \in Nat /\ Minute!End \in Nat /\ Minute!Minutes' = Minute!Minutes /\ Minute!End' = Minute!End
      /\ Minute!Minutes \subseteq Nat
  BY MinuteNumbers DEF Minute!Minutes, Minute!End
<1>1. ASSUME mFaults' = mFaults \/ (mFaults < MaxFaults /\ mFaults' = mFaults + 1) PROVE mFaults' \in 0 .. MaxFaults
  BY <1>0, <1>1 DEF MinuteRest
<1>2. CASE UNCHANGED <<mNow, mUp, mFaults, mSeen, mStat, mAsOf, mArchived, mCut>>
  BY <1>0, <1>2 DEF MinuteRest
<1>3. CASE Minute!Tick
  <2>1. mNow < Minute!End /\ mNow' = mNow + 1 /\ UNCHANGED <<mUp, mFaults, mSeen, mStat, mAsOf, mArchived, mCut>>
    BY <1>3 DEF Minute!Tick, Minute!readVars
  <2>2. mNow' <= Minute!End
    BY <1>0, <2>1 DEF BarInv
  <2> QED BY <1>0, <2>1, <2>2 DEF MinuteRest
<1>4. CASE Minute!FlushPop
  <2> DEFINE m == Minute!Min(Minute!Ready)
  <2>1. /\ Minute!Ready # {} /\ mCut' \subseteq mCut \cup {m}
        /\ UNCHANGED <<mNow, mUp, mSeen, mStat, mAsOf, mArchived>>
    BY <1>4 DEF Minute!FlushPop, Minute!readVars
  <2>2. mFaults' = mFaults \/ (mFaults < MaxFaults /\ mFaults' = mFaults + 1)
    BY <1>4 DEF Minute!FlushPop
  <2>3. m \in Minute!Minutes
    <3>1. Minute!Ready \in SUBSET Nat /\ Minute!Ready \subseteq Minute!Minutes
      BY <1>0 DEF Minute!Ready
    <3>2. \E p \in Minute!Ready : \A i \in Minute!Ready : p <= i
      BY <2>1, <3>1, LeastNatural
    <3> QED BY <3>1, <3>2 DEF Minute!Min
  <2> HIDE DEF m
  <2>4. mFaults' \in 0 .. MaxFaults
    BY <1>1, <2>2
  <2> QED BY <1>0, <2>1, <2>3, <2>4 DEF MinuteRest
<1>5. CASE Minute!WriteError \/ Minute!Stop \/ Minute!Ends \/ Minute!Restart
  <2>1. mUp' \in {"up", "closing", "down"} /\ UNCHANGED <<mNow, mSeen, mStat, mAsOf, mArchived, mCut>>
    BY <1>5 DEF Minute!WriteError, Minute!Stop, Minute!Ends, Minute!Restart, Minute!readVars, MinuteRest
  <2>2. mFaults' = mFaults \/ (mFaults < MaxFaults /\ mFaults' = mFaults + 1)
    BY <1>5 DEF Minute!WriteError, Minute!Stop, Minute!Ends, Minute!Restart
  <2>3. mFaults' \in 0 .. MaxFaults
    BY <1>1, <2>2
  <2> QED BY <1>0, <2>1, <2>3 DEF MinuteRest
<1>6. CASE Minute!Compact
  <2>1. mArchived' = TRUE /\ UNCHANGED <<mNow, mUp, mFaults, mSeen, mStat, mAsOf, mCut>>
    BY <1>6 DEF Minute!Compact, Minute!readVars
  <2> QED BY <1>0, <2>1 DEF MinuteRest
<1>7. CASE Minute!Stat
  <2>1. mStat' = Len(mBars) /\ UNCHANGED <<mNow, mUp, mFaults, mSeen, mAsOf, mArchived, mCut>>
    BY <1>7 DEF Minute!Stat, Minute!feedVars
  <2>2. mStat' \in Nat
    BY <2>1 DEF BarInv
  <2> QED BY <1>0, <2>1, <2>2 DEF MinuteRest
<1>8. CASE Minute!Follow
  <2>1. mStat # None /\ mStat' = None /\ mSeen' = mStat /\ UNCHANGED <<mNow, mUp, mFaults, mArchived, mCut>>
    BY <1>8 DEF Minute!Follow, Minute!feedVars
  <2> QED BY <1>0, <1>8, <2>1, StepsAreMinutes DEF MinuteRest
<1>9. CASE Minute!Observe \/ Minute!Account \/ Minute!WriteMinute \/ UNCHANGED Minute!vars
  BY <1>2, <1>9 DEF Minute!Observe, Minute!Account, Minute!WriteMinute, Minute!vars, Minute!feedVars, Minute!readVars
<1> QED BY <1>3, <1>4, <1>5, <1>6, <1>7, <1>8, <1>9 DEF Minute!Next, Minute!Recorder, Minute!Reader

LEMMA MinuteTyped == Spec => []Minute!TypeOK
<1>1. Init => MinuteCounts /\ MinuteRest
  <2> SUFFICES ASSUME Init PROVE MinuteCounts /\ MinuteRest
    OBVIOUS
  <2>1. /\ mNow = 0 /\ mUp = "up" /\ mCount = [m \in Minute!Minutes |-> 0] /\ mBucket = [m \in Minute!Minutes |-> None]
        /\ mTaken = None /\ mFlush = None /\ mFaults = 0 /\ mArchived = FALSE /\ mCut = {}
        /\ mSeen = 0 /\ mStat = None /\ mAsOf = -1
    BY DEF Init, Minute!Init
  <2>2. 0 <= MaxPackets /\ 0 <= Minute!End /\ 0 \in 0 .. MaxFaults
    BY MinuteNumbers
  <2> QED BY <2>1, <2>2 DEF MinuteCounts, MinuteRest
<1>2. [Next]_vars => [Minute!Next]_(Minute!vars)
  BY DEF Next, vars, mVars, ArchiveOnly, BootOnly, MinuteOnly, LogOnly, StreamOnly, KeysOnly, LimiterOnly,
         ApiOnly, DerivativesOnly, ClientOnly, Minute!vars, Minute!feedVars, Minute!readVars
<1>3. BarInv /\ PacketInv /\ MinuteCounts /\ MinuteRest => Minute!TypeOK
  <2> SUFFICES ASSUME BarInv, PacketInv, MinuteCounts, MinuteRest PROVE Minute!TypeOK
    OBVIOUS
  <2>1. mNow \in 0 .. Minute!End
    BY MinuteNumbers DEF BarInv, MinuteRest
  <2>2. mCount \in [Minute!Minutes -> 0 .. MaxPackets]
    <3>1. \A m \in Minute!Minutes : mCount[m] \in 0 .. MaxPackets
      BY MinuteNumbers DEF PacketInv, MinuteCounts
    <3> QED BY <3>1 DEF PacketInv
  <2>3. mBucket \in [Minute!Minutes -> (0 .. MaxPackets) \cup {None}]
    <3>1. \A m \in Minute!Minutes : mBucket[m] \in (0 .. MaxPackets) \cup {None}
      BY MinuteNumbers DEF PacketInv, MinuteCounts
    <3> QED BY <3>1 DEF PacketInv
  <2>4. mTaken = None \/ mTaken \in [min : Minute!Minutes, at : 0 .. Minute!End, kept : BOOLEAN]
    <3>1. ASSUME mTaken # None PROVE mTaken \in [min : Minute!Minutes, at : 0 .. Minute!End, kept : BOOLEAN]
      <4>1. mTaken \in [min : Minute!Minutes, at : Nat, kept : BOOLEAN] /\ mTaken.at <= Minute!End
        BY <3>1 DEF BarInv, MinuteCounts
      <4>2. mTaken.at \in 0 .. Minute!End
        BY <4>1, MinuteNumbers
      <4> QED BY <4>1, <4>2
    <3> QED BY <3>1
  <2>5. mFlush = None \/ mFlush \in [min : Minute!Minutes, packets : 0 .. MaxPackets]
    <3>1. ASSUME mFlush # None PROVE mFlush \in [min : Minute!Minutes, packets : 0 .. MaxPackets]
      <4>1. mFlush \in [min : Minute!Minutes, packets : Nat] /\ mFlush.packets <= MaxPackets
        BY <3>1 DEF PacketInv, MinuteCounts
      <4>2. mFlush.packets \in 0 .. MaxPackets
        BY <4>1, MinuteNumbers
      <4> QED BY <4>1, <4>2
    <3> QED BY <3>1
  <2>6. mMicro \in Seq(Minute!Minutes \X Nat) /\ mDropped \in [Minute!Minutes -> Nat]
    BY DEF PacketInv, Block
  <2> QED BY <2>1, <2>2, <2>3, <2>4, <2>5, <2>6 DEF MinuteRest, Minute!TypeOK
<1> QED BY <1>1, <1>2, <1>3, MinuteCountsStay, MinuteRestStays, BarsHeld, PacketsAreConserved, PTL DEF Spec

\* A stored event and the one a run remembers are of a candidate.
LogRest ==
    /\ lCandidate \in [Log!Bars -> Ranks \cup {0}] /\ \A m \in lStore : lCandidate[m] > 0
    /\ \A e \in Engines :
           /\ lNext[e] <= LastBar + 1
           /\ lAdding[e] # None => lNext[e] = lAdding[e] /\ lCandidate[lAdding[e]] > 0
           /\ lLast[e] # None => lLast[e] \in Log!Bars \X Ranks

LEMMA LogNumbers ==
    LastBar \in Nat /\ Log!Bars = 0 .. LastBar /\ Ranks \subseteq Nat \ {0} /\ None \notin Int \cup (Int \X Int)
BY InstanceAssumption DEF Log!LogAssumption, Log!Bars

\* An engine that begins the session takes the store's last event.
LEMMA CoolingTyped ==
    ASSUME LogTypes, LogRest, NEW e \in Engines, Log!Cooling(e) # None
    PROVE  Log!Cooling(e) \in Log!Bars \X Ranks
<1>1. CASE lSession[e]
  BY <1>1 DEF Log!Cooling, LogRest
<1>2. CASE ~lSession[e]
  <2> DEFINE s == Log!Max(lStore)
  <2>1. lStore # {} /\ Log!Cooling(e) = <<s, lCandidate[s]>>
    BY <1>2 DEF Log!Cooling, Log!last_fired
  <2>2. s \in lStore
    <3>1. lStore \in SUBSET (0 .. LastBar)
      BY LogNumbers DEF LogTypes
    <3>2. \E p \in lStore : \A i \in lStore : p >= i
      BY <2>1, <3>1, LogNumbers, GreatestUpTo
    <3> QED BY <3>2 DEF Log!Max
  <2> HIDE DEF s
  <2>3. s \in Log!Bars /\ lCandidate[s] \in Ranks
    BY <2>2, LogNumbers DEF LogTypes, LogRest
  <2> QED BY <2>1, <2>3
<1> QED BY <1>1, <1>2

LEMMA LogRestStays == LogTypes /\ LogRest /\ [Log!Next]_(Log!vars) => LogRest'
<1> SUFFICES ASSUME LogTypes, LogRest, [Log!Next]_(Log!vars) PROVE LogRest'
  OBVIOUS
<1>0. Log!Bars' = Log!Bars
  BY DEF Log!Bars
<1>1. ASSUME NEW e \in Engines, Log!Build(e) PROVE LogRest'
  <2> DEFINE m == lNext[e]
             c == Log!Cooling(e)
             due == lCandidate[m] > 0 /\ Log!Due(c, m)
  <2>1. /\ lAdding[e] = None /\ m \in Log!Bars
        /\ lLast' = [lLast EXCEPT ![e] = IF due THEN <<m, lCandidate[m]>> ELSE c]
        /\ lAdding' = [lAdding EXCEPT ![e] = IF due THEN m ELSE None]
        /\ lNext' = [lNext EXCEPT ![e] = IF due THEN m ELSE m + 1]
        /\ UNCHANGED <<lCandidate, lStore>>
    BY <1>1 DEF Log!Build
  <2>2. due => lCandidate[m] > 0 /\ lCandidate[m] \in Ranks
    BY <2>1, LogNumbers DEF LogRest
  <2>3. c # None => c \in Log!Bars \X Ranks
    BY CoolingTyped
  <2>4. m <= LastBar + 1 /\ m + 1 <= LastBar + 1 /\ m = lNext[e]
    BY <2>1, LogNumbers
  <2> HIDE DEF m, c, due
  <2>5. lLast'[e] = (IF due THEN <<m, lCandidate[m]>> ELSE c) /\ lAdding'[e] = (IF due THEN m ELSE None)
        /\ lNext'[e] = (IF due THEN m ELSE m + 1)
        /\ \A o \in Engines \ {e} : lLast'[o] = lLast[o] /\ lAdding'[o] = lAdding[o] /\ lNext'[o] = lNext[o]
    BY <2>1 DEF LogTypes
  <2>6. /\ lNext'[e] <= LastBar + 1
        /\ lAdding'[e] # None => lNext'[e] = lAdding'[e] /\ lCandidate[lAdding'[e]] > 0
        /\ lLast'[e] # None => lLast'[e] \in Log!Bars \X Ranks
    <3>1. CASE due
      BY <2>1, <2>2, <2>4, <2>5, <3>1
    <3>2. CASE ~due
      BY <2>3, <2>4, <2>5, <3>2
    <3> QED BY <3>1, <3>2
  <2>7. ASSUME NEW o \in Engines
        PROVE  /\ lNext'[o] <= LastBar + 1
               /\ lAdding'[o] # None => lNext'[o] = lAdding'[o] /\ lCandidate[lAdding'[o]] > 0
               /\ lLast'[o] # None => lLast'[o] \in Log!Bars \X Ranks
    BY <2>5, <2>6 DEF LogRest
  <2> QED BY <1>0, <2>1, <2>7 DEF LogRest
<1>2. ASSUME NEW e \in Engines, Log!Add(e) PROVE LogRest'
  <2>1. /\ lAdding[e] # None /\ lStore' = lStore \cup {lAdding[e]} /\ lAdding' = [lAdding EXCEPT ![e] = None]
        /\ lNext' = [lNext EXCEPT ![e] = @ + 1] /\ UNCHANGED <<lCandidate, lLast>>
    BY <1>2 DEF Log!Add
  <2>2. lNext[e] \in 0 .. LastBar /\ lCandidate[lAdding[e]] > 0
    <3>1. lAdding[e] \in Log!Bars /\ lNext[e] = lAdding[e]
      BY <2>1 DEF LogTypes, LogRest
    <3> QED BY <2>1, <3>1, LogNumbers DEF LogRest
  <2>3. lNext'[e] = lNext[e] + 1 /\ lAdding'[e] = None
        /\ \A o \in Engines \ {e} : lAdding'[o] = lAdding[o] /\ lNext'[o] = lNext[o]
    BY <2>1 DEF LogTypes
  <2>4. lNext'[e] <= LastBar + 1
    BY <2>2, <2>3, LogNumbers
  <2> QED BY <1>0, <2>1, <2>2, <2>3, <2>4 DEF LogRest
<1>3. ASSUME NEW e \in Engines, Log!AddFails(e) PROVE LogRest'
  <2>1. lAdding' = [lAdding EXCEPT ![e] = None] /\ UNCHANGED <<lCandidate, lStore, lNext, lLast>>
    BY <1>3 DEF Log!AddFails
  <2> QED BY <1>0, <2>1 DEF LogRest, LogTypes
<1>4. ASSUME NEW e \in Engines, Log!Restart(e) PROVE LogRest'
  <2>1. /\ lNext' = [lNext EXCEPT ![e] = 0] /\ lLast' = [lLast EXCEPT ![e] = None]
        /\ lAdding' = [lAdding EXCEPT ![e] = None] /\ UNCHANGED <<lCandidate, lStore>>
    BY <1>4 DEF Log!Restart
  <2>2. lNext'[e] = 0 /\ lLast'[e] = None /\ lAdding'[e] = None /\ 0 <= LastBar + 1
        /\ \A o \in Engines \ {e} : lLast'[o] = lLast[o] /\ lAdding'[o] = lAdding[o] /\ lNext'[o] = lNext[o]
    BY <2>1, LogNumbers DEF LogTypes
  <2> QED BY <1>0, <2>1, <2>2 DEF LogRest
<1>5. CASE UNCHANGED Log!vars
  BY <1>0, <1>5 DEF Log!vars, LogRest
<1> QED BY <1>1, <1>2, <1>3, <1>4, <1>5 DEF Log!Next

LEMMA LogTyped == Spec => []Log!TypeOK
<1>1. Init => LogRest
  <2> SUFFICES ASSUME Init PROVE LogRest
    OBVIOUS
  <2>1. /\ lCandidate \in [Log!Bars -> Ranks \cup {0}] /\ lStore = {} /\ lNext = [e \in Engines |-> 0]
        /\ lLast = [e \in Engines |-> None] /\ lAdding = [e \in Engines |-> None]
    BY DEF Init, Log!Init
  <2>2. 0 <= LastBar + 1
    BY LogNumbers
  <2> QED BY <2>1, <2>2 DEF LogRest
<1>2. [Next]_vars => [Log!Next]_(Log!vars)
  BY DEF Next, vars, lVars, ArchiveOnly, BootOnly, MinuteOnly, LogOnly, StreamOnly, KeysOnly, LimiterOnly,
         ApiOnly, DerivativesOnly, ClientOnly, Log!vars
<1>3. LogTypes /\ LogRest => Log!TypeOK
  <2> SUFFICES ASSUME LogTypes, LogRest PROVE Log!TypeOK
    OBVIOUS
  <2>1. \A e \in Engines : lNext[e] \in 0 .. (LastBar + 1)
    BY LogNumbers DEF LogTypes, LogRest
  <2>2. lNext \in [Engines -> 0 .. (LastBar + 1)]
    BY <2>1 DEF LogTypes
  <2> QED BY <2>2 DEF LogTypes, LogRest, Log!TypeOK
<1>4. LogInv => LogTypes
  BY DEF LogInv
<1> QED BY <1>1, <1>2, <1>3, <1>4, LogRestStays, EventsOfOneRun, PTL DEF Spec

\* The file is rewritten as often as its mtime says, the command under way not counted.
KeyRest ==
    kMtime <= MaxSaves /\ (kCommand # None => kMtime < MaxSaves) /\ \A t \in Threads : kStat[t] <= MaxSaves

LEMMA KeysTyped == Spec => []Keys!TypeOK
<1>0. MaxSaves \in Nat
  BY InstanceAssumption DEF Keys!KeyAssumption
<1>1. Init => KeyRest
  BY <1>0 DEF Init, Keys!Init, KeyRest
<1>2. [Next]_vars => [Keys!Next]_(Keys!vars)
  BY DEF Next, vars, kVars, ArchiveOnly, BootOnly, MinuteOnly, LogOnly, StreamOnly, KeysOnly, LimiterOnly,
         ApiOnly, DerivativesOnly, ClientOnly, Keys!vars, Keys!thread
<1>3. KeyInv /\ KeyRest /\ [Keys!Next]_(Keys!vars) => KeyRest'
  <2> SUFFICES ASSUME KeyInv, KeyRest, [Keys!Next]_(Keys!vars) PROVE KeyRest'
    OBVIOUS
  <2>1. CASE \E k \in ApiKeys : Keys!create(k) \/ Keys!revoke(k)
    <3>1. kMtime < MaxSaves /\ kMtime' = kMtime /\ kStat' = kStat
      BY <2>1 DEF Keys!create, Keys!revoke, Keys!thread
    <3> QED BY <3>1 DEF KeyRest
  <2>2. CASE Keys!_save
    <3>1. kCommand # None /\ kMtime' = kMtime + 1 /\ kCommand' = None /\ kStat' = kStat
      BY <2>2 DEF Keys!_save, Keys!thread
    <3>2. kMtime' <= MaxSaves
      BY <1>0, <3>1 DEF KeyInv, KeyRest
    <3> QED BY <3>1, <3>2 DEF KeyRest
  <2>3. ASSUME NEW t \in Threads, Keys!Stat(t) PROVE KeyRest'
    <3>1. kStat' = [kStat EXCEPT ![t] = kMtime] /\ UNCHANGED <<kMtime, kCommand>>
      BY <2>3 DEF Keys!Stat
    <3> QED BY <3>1 DEF KeyRest, KeyInv
  <2>4. CASE \/ UNCHANGED Keys!vars
             \/ \E t \in Threads : Keys!Copy(t) \/ Keys!Load(t) \/ Keys!Store(t) \/ Keys!Check(t)
                                       \/ \E k \in ApiKeys : Keys!verify(t, k)
    <3>1. UNCHANGED <<kMtime, kCommand, kStat>>
      BY <2>4 DEF Keys!vars, Keys!Copy, Keys!Load, Keys!Store, Keys!Check, Keys!verify
    <3> QED BY <3>1 DEF KeyRest
  <2> QED BY <2>1, <2>2, <2>3, <2>4 DEF Keys!Next
<1>4. KeyInv /\ KeyRest => Keys!TypeOK
  <2> SUFFICES ASSUME KeyInv, KeyRest PROVE Keys!TypeOK
    OBVIOUS
  <2>1. kMtime \in 0 .. MaxSaves /\ \A t \in Threads : kStat[t] \in 0 .. MaxSaves
    BY <1>0 DEF KeyInv, KeyRest
  <2>2. kStat \in [Threads -> 0 .. MaxSaves]
    BY <2>1 DEF KeyInv
  <2>3. kEnded \subseteq ApiKeys
    BY DEF KeyInv
  <2> QED BY <2>1, <2>2, <2>3 DEF KeyInv, KeyStates, Keys!TypeOK
<1> QED BY <1>1, <1>2, <1>3, <1>4, RevokedKeysRefused, PTL DEF Spec

LEMMA LimiterTyped == Spec => []Limiter!TypeOK
<1>0. LastSecond \in Nat
  BY InstanceAssumption DEF Limiter!LimiterAssumption
<1>1. Init => rNow <= LastSecond
  BY <1>0 DEF Init, Limiter!Init
<1>2. [Next]_vars => [Limiter!Next]_(Limiter!vars)
  BY DEF Next, vars, rVars, ArchiveOnly, BootOnly, MinuteOnly, LogOnly, StreamOnly, KeysOnly, LimiterOnly,
         ApiOnly, DerivativesOnly, ClientOnly, Limiter!vars
<1>3. LimiterInv /\ rNow <= LastSecond /\ [Limiter!Next]_(Limiter!vars) => (rNow <= LastSecond)'
  <2> SUFFICES ASSUME LimiterInv, rNow <= LastSecond, [Limiter!Next]_(Limiter!vars) PROVE rNow' <= LastSecond
    OBVIOUS
  <2>1. rNow' = rNow \/ (rNow < LastSecond /\ rNow' = rNow + 1)
    BY DEF Limiter!Next, Limiter!vars, Limiter!Tick, Limiter!ReadClock, Limiter!check
  <2> QED BY <1>0, <2>1 DEF LimiterInv
<1>4. LimiterInv /\ rNow <= LastSecond => Limiter!TypeOK
  <2> SUFFICES ASSUME LimiterInv, rNow <= LastSecond PROVE Limiter!TypeOK
    OBVIOUS
  <2>1. rNow \in 0 .. LastSecond /\ 0 .. rNow \subseteq 0 .. LastSecond
    BY <1>0 DEF LimiterInv
  <2>2. \A t \in Threads : rRead[t] \in (0 .. LastSecond) \cup {None}
    BY <2>1 DEF LimiterInv
  <2>3. rRead \in [Threads -> (0 .. LastSecond) \cup {None}]
    BY <2>2 DEF LimiterInv
  <2>4. rBucket # None => rBucket \in Int \X (0 .. LastSecond)
    BY <2>1 DEF LimiterInv
  <2> QED BY <2>1, <2>3, <2>4 DEF LimiterInv, Limiter!TypeOK
<1> QED BY <1>1, <1>2, <1>3, <1>4, RateIsHeld, PTL DEF Spec

\* A chain file within its budget, and the rest of the recorder's types.
Members == Seq([minute : Nat, torn : BOOLEAN])
DerivRest ==
    /\ dPc \in {"idle", "line", "chains", "house", "down"} /\ dOptions \subseteq Chains
    /\ dBackups \subseteq Deriv!Files /\ dFaults \in 0 .. MaxCrashes
    /\ dMembers \in [Deriv!Files -> Members] /\ \A d \in Deriv!Files : Len(dMembers[d]) <= Budget

\* One more member of a file below its budget.
LEMMA ChainAppended ==
    ASSUME DerivRest, NEW d \in Deriv!Files, NEW m \in Nat, NEW t \in BOOLEAN, Len(dMembers[d]) < Budget,
           dMembers' = [dMembers EXCEPT ![d] = Append(@, [minute |-> m, torn |-> t])]
    PROVE  dMembers' \in [Deriv!Files -> Members] /\ \A f \in Deriv!Files : Len(dMembers'[f]) <= Budget
<1>0. Budget \in Nat
  BY InstanceAssumption DEF Deriv!LogAssumption
<1>1. dMembers[d] \in Members
  BY DEF DerivRest
<1>2. Append(dMembers[d], [minute |-> m, torn |-> t]) \in Members
      /\ Len(Append(dMembers[d], [minute |-> m, torn |-> t])) = Len(dMembers[d]) + 1 /\ Len(dMembers[d]) \in Nat
  BY <1>1 DEF Members
<1>3. dMembers'[d] \in Members /\ Len(dMembers'[d]) <= Budget /\ \A f \in Deriv!Files \ {d} : dMembers'[f] = dMembers[f]
  BY <1>0, <1>2 DEF DerivRest
<1>4. dMembers' = [f \in Deriv!Files |-> dMembers'[f]]
  BY DEF DerivRest
<1>5. \A f \in Deriv!Files : dMembers'[f] \in Members /\ Len(dMembers'[f]) <= Budget
  BY <1>3 DEF DerivRest
<1> QED BY <1>4, <1>5

LEMMA DerivStays ==
    ASSUME LineInv, DerivRest, [Deriv!Next]_(Deriv!vars)
    PROVE  DerivRest'
<1> DEFINE today == Deriv!DayOf(dNow)
<1>0. /\ MaxCrashes \in Nat /\ today \in Deriv!Files /\ Deriv!Files' = Deriv!Files /\ dNow \in Nat
  BY InstanceAssumption, DaysOfMinutes DEF Deriv!LogAssumption, LineInv, Recordable, Deriv!Files, Deriv!DayOf
<1>1. CASE Deriv!Minute \/ Deriv!Skip \/ Deriv!AppendLine \/ Deriv!Marked \/ Deriv!Restart \/ UNCHANGED Deriv!vars
  <2>1. dPc' \in {"idle", "line", "chains", "house", "down"} /\ UNCHANGED <<dOptions, dBackups, dFaults, dMembers>>
    BY <1>1 DEF Deriv!Minute, Deriv!Skip, Deriv!AppendLine, Deriv!Marked, Deriv!Restart, Deriv!vars, Deriv!keeping,
       DerivRest
  <2> QED BY <1>0, <2>1 DEF DerivRest
<1>2. CASE Deriv!record_derivatives
  <2>1. dPc' \in {"house", "line"} /\ dOptions' \subseteq Chains /\ UNCHANGED <<dBackups, dFaults, dMembers>>
    BY <1>2 DEF Deriv!record_derivatives, Deriv!keeping
  <2> QED BY <1>0, <2>1 DEF DerivRest
<1>3. CASE Deriv!AppendChain
  <2>1. /\ dPc' = dPc /\ dOptions' \subseteq dOptions /\ UNCHANGED <<dBackups, dFaults>>
        /\ dMembers' = IF Len(dMembers[today]) >= Budget THEN dMembers
                       ELSE [dMembers EXCEPT ![today] = Append(@, [minute |-> dNow, torn |-> FALSE])]
    BY <1>3 DEF Deriv!AppendChain, Deriv!keeping
  <2> HIDE DEF today
  <2>2. Len(dMembers[today]) \in Nat /\ Budget \in Nat
    BY <1>0, InstanceAssumption DEF DerivRest, Members, Deriv!LogAssumption
  <2>3. dMembers' \in [Deriv!Files -> Members] /\ \A f \in Deriv!Files : Len(dMembers'[f]) <= Budget
    <3>1. CASE Len(dMembers[today]) >= Budget
      BY <2>1, <3>1 DEF DerivRest
    <3>2. CASE Len(dMembers[today]) < Budget
      <4>1. dMembers' = [dMembers EXCEPT ![today] = Append(@, [minute |-> dNow, torn |-> FALSE])]
        BY <2>1, <2>2, <3>2
      <4> QED BY <1>0, <3>2, <4>1, ChainAppended
    <3> QED BY <2>2, <3>1, <3>2
  <2> QED BY <1>0, <2>1, <2>3 DEF DerivRest
<1>4. CASE Deriv!AppendFails \/ Deriv!Crash
  <2>1. /\ dPc' \in {"house", "down"} /\ dOptions' = {} /\ dBackups' = dBackups
        /\ dFaults < MaxCrashes /\ dFaults' = dFaults + 1 /\ Deriv!CutShort
    BY <1>4 DEF Deriv!AppendFails, Deriv!Crash, Deriv!keeping
  <2>2. \/ dMembers' = dMembers
        \/ Len(dMembers[today]) < Budget /\ dMembers' = [dMembers EXCEPT ![today] = Append(@, [minute |-> dNow, torn |-> TRUE])]
    BY <2>1 DEF Deriv!CutShort
  <2> HIDE DEF today
  <2>3. dMembers' \in [Deriv!Files -> Members] /\ \A f \in Deriv!Files : Len(dMembers'[f]) <= Budget
    BY <1>0, <2>2, ChainAppended DEF DerivRest
  <2>4. dFaults' \in 0 .. MaxCrashes
    BY <1>0, <2>1 DEF DerivRest
  <2> QED BY <1>0, <2>1, <2>3, <2>4 DEF DerivRest
<1>5. CASE Deriv!housekeeping
  <2>1. dPc' = "idle" /\ UNCHANGED <<dOptions, dMembers>>
    BY <1>5 DEF Deriv!housekeeping
  <2>2. dFaults' = dFaults \/ (dFaults < MaxCrashes /\ dFaults' = dFaults + 1)
    BY <1>5 DEF Deriv!housekeeping
  <2>3. dBackups' \subseteq dBackups \cup {today}
    BY <1>5 DEF Deriv!housekeeping, Deriv!backup, Deriv!Pruned
  <2> HIDE DEF today
  <2>4. dFaults' \in 0 .. MaxCrashes
    BY <1>0, <2>2 DEF DerivRest
  <2> QED BY <1>0, <2>1, <2>3, <2>4 DEF DerivRest
<1> QED BY <1>1, <1>2, <1>3, <1>4, <1>5 DEF Deriv!Next

LEMMA DerivTyped == Spec => []Deriv!TypeOK
<1>1. Init => DerivRest
  <2> SUFFICES ASSUME Init PROVE DerivRest
    OBVIOUS
  <2>1. dPc = "idle" /\ dOptions = {} /\ dBackups = {} /\ dFaults = 0 /\ dMembers = [d \in Deriv!Files |-> <<>>]
    BY DEF Init, Deriv!Init
  <2>2. 0 \in 0 .. MaxCrashes /\ 0 <= Budget
    BY InstanceAssumption DEF Deriv!LogAssumption
  <2>3. <<>> \in Members /\ Len(<<>>) = 0
    BY DEF Members
  <2> QED BY <2>1, <2>2, <2>3 DEF DerivRest
<1>2. [Next]_vars => [Deriv!Next]_(Deriv!vars)
  BY DEF Next, vars, dVars, ArchiveOnly, BootOnly, MinuteOnly, LogOnly, StreamOnly, KeysOnly, LimiterOnly,
         ApiOnly, DerivativesOnly, ClientOnly, Deriv!vars, Deriv!keeping
<1>3. LineInv /\ DerivRest => Deriv!TypeOK
  BY DEF LineInv, Recordable, DerivRest, Deriv!TypeOK
<1> QED BY <1>1, <1>2, <1>3, DerivStays, LinesAreKept, PTL DEF Spec

\* A request that is about to be sent has an attempt left.
Tried(r) ==
    r.attempt \in 0 .. MaxAttempts /\ (r.pc \in {"idle", "slot", "again"} => r.attempt < MaxAttempts)
ClientRest ==
    /\ hNow <= LastTime /\ hLeft \in 0 .. Total /\ hRun \in {"start", "download", "blocked"}
    /\ \A k \in Workers : Tried(hWorker[k])

\* One thread moves, and the others keep their attempts.
LEMMA ThreadMoves ==
    ASSUME ClientInv, ClientRest, NEW k \in Workers, NEW r \in Thread, Tried(r), hWorker' = [hWorker EXCEPT ![k] = r]
    PROVE  \A j \in Workers : Tried(hWorker'[j])
<1>1. hWorker'[k] = r /\ \A j \in Workers \ {k} : hWorker'[j] = hWorker[j]
  BY DEF ClientInv
<1> QED BY <1>1 DEF ClientRest

LEMMA ClientRestStays ==
    ASSUME ClientInv, ClientRest, [Client!Next]_(Client!vars)
    PROVE  ClientRest'
<1>0. MaxAttempts \in Nat \ {0} /\ Total \in Nat /\ LastTime \in Nat /\ hNow \in Nat
  BY InstanceAssumption DEF Client!TimesAssumption, ClientInv
<1>1. \A k \in Workers : hWorker[k] \in Thread /\ Tried(hWorker[k])
  BY DEF ClientInv, ClientRest
<1>2. Tried(Client!Idle) /\ Client!Idle \in Thread
  BY <1>0 DEF Tried, Client!Idle, Thread
<1>3. CASE Client!Tick
  <2>1. hNow < LastTime /\ hNow' = hNow + 1 /\ UNCHANGED <<hWorker, hLeft, hRun>>
    BY <1>3 DEF Client!Tick
  <2>2. hNow' <= LastTime
    BY <1>0, <2>1
  <2> QED BY <2>1, <2>2 DEF ClientRest, Tried
<1>4. ASSUME NEW env, NEW allowed, NEW plan, Client!preflight(env, allowed, plan) PROVE ClientRest'
  <2>1. hRun' \in {"download", "blocked"} /\ UNCHANGED <<hNow, hWorker, hLeft>>
    BY <1>4 DEF Client!preflight
  <2> QED BY <2>1 DEF ClientRest, Tried
<1>5. ASSUME NEW k \in Workers, Client!acquire(k) PROVE ClientRest'
  <2> DEFINE at == Client!Slot
  <2>1. UNCHANGED <<hNow, hRun>> /\ (hLeft' = hLeft \/ (hLeft > 0 /\ hLeft' = hLeft - 1))
        /\ hWorker[k].pc \in {"idle", "again"}
        /\ hWorker' = [hWorker EXCEPT ![k].pc = "slot", ![k].at = at]
    BY <1>5 DEF Client!acquire
  <2>2. at \in Int
    BY DEF Client!Slot, Client!Later, ClientInv
  <2> HIDE DEF at
  <2>3. /\ hWorker'[k] = [pc |-> "slot", at |-> at, attempt |-> hWorker[k].attempt]
        /\ \A j \in Workers \ {k} : hWorker'[j] = hWorker[j]
    <3>1. hWorker \in [Workers -> Thread] /\ hWorker[k] \in Thread
      BY DEF ClientInv
    <3> QED BY <2>1, <2>2, <3>1 DEF Thread
  <2>4. Tried(hWorker'[k])
    BY <1>1, <2>1, <2>3 DEF Tried
  <2>5. \A j \in Workers : Tried(hWorker'[j])
    BY <1>1, <2>3, <2>4
  <2>6. hLeft' \in 0 .. Total
    BY <1>0, <2>1 DEF ClientRest
  <2> QED BY <2>1, <2>5, <2>6 DEF ClientRest, Tried
<1>6. ASSUME NEW k \in Workers, Client!Send(k) PROVE ClientRest'
  <2> DEFINE r == [pc |-> "sent", at |-> hWorker[k].at, attempt |-> hWorker[k].attempt + 1]
  <2>1. UNCHANGED <<hNow, hRun, hLeft>> /\ hWorker[k].pc = "slot"
        /\ hWorker' = [hWorker EXCEPT ![k].pc = "sent", ![k].attempt = @ + 1]
    BY <1>6 DEF Client!Send
  <2>2. hWorker' = [hWorker EXCEPT ![k] = r]
    BY <1>1, <2>1 DEF ClientInv, Thread
  <2>3. r \in Thread
    BY <1>1 DEF Thread
  <2>4. hWorker[k].attempt + 1 \in 0 .. MaxAttempts
    BY <1>0, <1>1, <2>1 DEF Tried
  <2>5. Tried(r)
    BY <2>4 DEF Tried
  <2> HIDE DEF r
  <2>6. \A j \in Workers : Tried(hWorker'[j])
    BY <2>2, <2>3, <2>5, ThreadMoves
  <2> QED BY <2>1, <2>6 DEF ClientRest, Tried
<1>7. ASSUME NEW k \in Workers, Client!Answered(k) \/ Client!Unauthorised(k) PROVE ClientRest'
  <2>1. UNCHANGED <<hNow, hLeft>> /\ hRun' \in {hRun, "blocked"} /\ hWorker' = [hWorker EXCEPT ![k] = Client!Idle]
    BY <1>7 DEF Client!Answered, Client!Unauthorised
  <2>2. \A j \in Workers : Tried(hWorker'[j])
    BY <1>2, <2>1, ThreadMoves
  <2> QED BY <2>1, <2>2 DEF ClientRest, Tried
<1>8. ASSUME NEW k \in Workers, NEW at \in Int, UNCHANGED <<hNow, hLeft, hRun>>,
             hWorker' = [hWorker EXCEPT ![k] = Client!Again(k, at)]
      PROVE  ClientRest'
  <2>1. CASE hWorker[k].attempt = MaxAttempts
    <3>1. Client!Again(k, at) = Client!Idle
      BY <2>1 DEF Client!Again
    <3>2. \A j \in Workers : Tried(hWorker'[j])
      BY <1>2, <1>8, <3>1, ThreadMoves
    <3> QED BY <1>8, <3>2 DEF ClientRest, Tried
  <2>2. CASE hWorker[k].attempt # MaxAttempts
    <3> DEFINE r == [pc |-> "again", at |-> at, attempt |-> hWorker[k].attempt]
    <3>1. Client!Again(k, at) = r
      BY <2>2 DEF Client!Again
    <3>2. r \in Thread
      BY <1>1 DEF Thread
    <3>3. hWorker[k].attempt \in 0 .. MaxAttempts /\ hWorker[k].attempt < MaxAttempts
      BY <1>0, <1>1, <2>2 DEF Tried
    <3>4. Tried(r)
      BY <3>3 DEF Tried
    <3> HIDE DEF r
    <3>5. \A j \in Workers : Tried(hWorker'[j])
      BY <1>8, <3>1, <3>2, <3>4, ThreadMoves
    <3> QED BY <1>8, <3>5 DEF ClientRest, Tried
  <2> QED BY <2>1, <2>2
<1>9. ASSUME NEW k \in Workers, NEW pause \in Pauses, Client!Failed(k, pause) PROVE ClientRest'
  <2>1. UNCHANGED <<hNow, hLeft, hRun>> /\ hWorker' = [hWorker EXCEPT ![k] = Client!Again(k, hNow + pause)]
    BY <1>9 DEF Client!Failed
  <2>2. hNow + pause \in Int
    BY <1>0, InstanceAssumption DEF Client!TimesAssumption
  <2> QED BY <1>8, <2>1, <2>2
<1>10. ASSUME NEW k \in Workers, NEW seconds \in RetryAfter, Client!RateLimited(k, seconds) PROVE ClientRest'
  <2>1. UNCHANGED <<hNow, hLeft, hRun>> /\ hWorker' = [hWorker EXCEPT ![k] = Client!Again(k, hNow)]
    BY <1>10 DEF Client!RateLimited
  <2>2. hNow \in Int
    BY <1>0
  <2> QED BY <1>8, <2>1, <2>2
<1>11. CASE UNCHANGED Client!vars
  BY <1>11 DEF Client!vars, ClientRest, Tried
<1> QED BY <1>3, <1>4, <1>5, <1>6, <1>7, <1>9, <1>10, <1>11 DEF Client!Next

LEMMA ClientTyped == Spec => []Client!TypeOK
<1>0. MaxAttempts \in Nat \ {0} /\ Total \in Nat /\ LastTime \in Nat
  BY InstanceAssumption DEF Client!TimesAssumption
<1>1. Init => ClientRest
  <2> SUFFICES ASSUME Init PROVE ClientRest
    OBVIOUS
  <2>1. hNow = 0 /\ hLeft = Total /\ hRun = "start" /\ hWorker = [k \in Workers |-> Client!Idle]
    BY DEF Init, Client!Init
  <2>2. Tried(Client!Idle)
    BY <1>0 DEF Tried, Client!Idle
  <2> QED BY <1>0, <2>1, <2>2 DEF ClientRest
<1>2. [Next]_vars => [Client!Next]_(Client!vars)
  BY DEF Next, vars, hVars, ArchiveOnly, BootOnly, MinuteOnly, LogOnly, StreamOnly, KeysOnly, LimiterOnly,
         ApiOnly, DerivativesOnly, ClientOnly, Client!vars
<1>3. ClientInv /\ ClientRest => Client!TypeOK
  <2> SUFFICES ASSUME ClientInv, ClientRest PROVE Client!TypeOK
    OBVIOUS
  <2>1. hNow \in 0 .. LastTime
    BY <1>0 DEF ClientInv, ClientRest
  <2>2. \A k \in Workers : hWorker[k].pc \in {"idle", "slot", "sent", "again"} /\ hWorker[k].attempt \in 0 .. MaxAttempts
    BY DEF ClientInv, ClientRest, Thread, Tried
  <2> QED BY <2>1, <2>2 DEF ClientRest, Client!TypeOK
<1> QED BY <1>1, <1>2, <1>3, ClientRestStays, DownloadsPaced, PTL DEF Spec

\* A request that works on a snapshot works on a published one, and the search cache holds the
\* moments of published snapshots.
Moments == {Timeline[k] : k \in 1 .. Len(Timeline)}
InHand == {"similar", "slot", "search", "put", "research", "model", "views"}
Works(r) == r.pc \in InHand => r.seen \in Moments
CacheTyped == iSimilar \in Seq(Moments) /\ Len(iSimilar) <= CacheSize
WorksTyped == iSnapshot \in Moments \cup {None} /\ \A q \in Requests : Works(iReq[q])
ModelsTyped ==
    /\ iModels \cup iErrors \cup iBuilding \cup iBuilt \subseteq Api!Sessions
    /\ (iModels = {} \/ \E s : iModels = {s}) /\ iFaults \in 0 .. MaxFaults

\* A sequence without one of its elements.
LEMMA OneRemoved ==
    ASSUME NEW S, NEW s \in Seq(S), NEW k \in 1 .. Len(s)
    PROVE  Api!RemoveAt(s, k) \in Seq(S) /\ Len(Api!RemoveAt(s, k)) = Len(s) - 1
<1> DEFINE before == SubSeq(s, 1, k - 1)
           after == SubSeq(s, k + 1, Len(s))
<1>1. before \in Seq(S) /\ Len(before) = k - 1
  OBVIOUS
<1>2. after \in Seq(S) /\ Len(after) = Len(s) - k
  OBVIOUS
<1>3. Api!RemoveAt(s, k) = before \o after
  BY DEF Api!RemoveAt
<1> HIDE DEF before, after
<1> QED BY <1>1, <1>2, <1>3

\* What an entry of the cache leaves when it is moved to the end.
LEMMA WithoutTyped ==
    ASSUME CacheTyped, NEW at
    PROVE  /\ Api!Without(at) \in Seq(Moments) /\ Len(Api!Without(at)) <= Len(iSimilar)
           /\ Api!Entries(at) # {} => Len(Api!Without(at)) = Len(iSimilar) - 1
<1>1. CASE Api!Entries(at) = {}
  BY <1>1 DEF Api!Without, CacheTyped
<1>2. CASE Api!Entries(at) # {}
  <2> DEFINE k == CHOOSE k \in 1 .. Len(iSimilar) : Api!CacheKey(iSimilar[k]) = Api!CacheKey(at)
  <2>1. \E j \in 1 .. Len(iSimilar) : Api!CacheKey(iSimilar[j]) = Api!CacheKey(at)
    BY <1>2 DEF Api!Entries
  <2>2. k \in 1 .. Len(iSimilar)
    BY <2>1
  <2>3. Api!Without(at) = Api!RemoveAt(iSimilar, k)
    BY <1>2 DEF Api!Without
  <2> HIDE DEF k
  <2>4. Api!RemoveAt(iSimilar, k) \in Seq(Moments) /\ Len(Api!RemoveAt(iSimilar, k)) = Len(iSimilar) - 1
    BY <2>2, OneRemoved DEF CacheTyped
  <2>5. Len(iSimilar) \in Nat
    BY DEF CacheTyped
  <2> QED BY <2>3, <2>4, <2>5
<1> QED BY <1>1, <1>2

\* The cache never outgrows its size, whichever requests hit it and put in it.
LEMMA CacheStays == ASSUME CacheTyped, WorksTyped, [Api!Next]_(Api!vars) PROVE CacheTyped'
<1>0. CacheSize \in Nat
  BY InstanceAssumption DEF Api!ApiAssumption
<1>1. ASSUME NEW q \in Requests, Api!get(q) PROVE CacheTyped'
  <2>1. \/ iSimilar' = iSimilar
        \/ \E e \in Api!Entries(iReq[q].seen) : iSimilar' = Append(Api!Without(iReq[q].seen), e)
    BY <1>1 DEF Api!get, Api!Seen
  <2>2. ASSUME NEW e \in Api!Entries(iReq[q].seen), iSimilar' = Append(Api!Without(iReq[q].seen), e) PROVE CacheTyped'
    <3>1. e \in Moments
      BY <2>2 DEF Api!Entries, CacheTyped
    <3>2. PICK w : w = Api!Without(iReq[q].seen)
      OBVIOUS
    <3>3. w \in Seq(Moments) /\ Len(w) = Len(iSimilar) - 1
      BY <2>2, <3>2, WithoutTyped
    <3>4. iSimilar' = Append(w, e)
      BY <2>2, <3>2
    <3>5. iSimilar' \in Seq(Moments) /\ Len(iSimilar') = Len(iSimilar) /\ Len(iSimilar) \in Nat
      BY <3>1, <3>3, <3>4 DEF CacheTyped
    <3> QED BY <3>5 DEF CacheTyped
  <2> QED BY <2>1, <2>2 DEF CacheTyped
<1>2. ASSUME NEW q \in Requests, Api!put(q) PROVE CacheTyped'
  <2> DEFINE grown == Append(Api!Without(iReq[q].seen), iReq[q].seen)
  <2>1. iReq[q].pc = "put" /\ iSimilar' = IF Len(grown) > CacheSize THEN Tail(grown) ELSE grown
    BY <1>2 DEF Api!put, Api!Seen, Api!At
  <2>2. iReq[q].seen \in Moments
    BY <2>1 DEF WorksTyped, Works, InHand
  <2>3. grown \in Seq(Moments) /\ Len(grown) <= CacheSize + 1 /\ Len(grown) > 0 /\ Len(grown) \in Nat
    <3>1. PICK w : w = Api!Without(iReq[q].seen)
      OBVIOUS
    <3>2. w \in Seq(Moments) /\ Len(w) <= Len(iSimilar) /\ Len(iSimilar) <= CacheSize /\ Len(iSimilar) \in Nat
      BY <3>1, WithoutTyped DEF CacheTyped
    <3> QED BY <1>0, <2>2, <3>1, <3>2
  <2> HIDE DEF grown
  <2>4. Tail(grown) \in Seq(Moments) /\ Len(Tail(grown)) = Len(grown) - 1
    BY <2>3
  <2> QED BY <1>0, <2>1, <2>3, <2>4 DEF CacheTyped
<1>3. CASE iSimilar' = iSimilar
  BY <1>3 DEF CacheTyped
<1>4. ASSUME NEW q \in Requests,
             \/ Api!authenticate(q) \/ Api!current(q) \/ Api!acquire(q) \/ Api!Busy(q) \/ Api!Search(q)
             \/ Api!_minute(q) \/ Api!_model(q) \/ Api!Views(q) \/ Api!Sent(q)
      PROVE  iSimilar' = iSimilar
  BY <1>4 DEF Api!authenticate, Api!current, Api!acquire, Api!Busy, Api!Search, Api!_minute, Api!_model, Api!Views,
     Api!Sent, Api!service
<1>5. CASE Api!_publish \/ (\E s \in Api!Sessions : Api!_build(s)) \/ UNCHANGED Api!vars
  BY <1>3, <1>5 DEF Api!_publish, Api!_build, Api!vars, Api!service
<1> QED BY <1>1, <1>2, <1>3, <1>4, <1>5 DEF Api!Next, Api!Step

\* What a request works on is a moment it read from the runner.
LEMMA WorksStay == ASSUME AnswerInv, WorksTyped, [Api!Next]_(Api!vars) PROVE WorksTyped'
<1>0. iReq = [q \in Requests |-> Asked(iReq[q].pc, iReq[q].route, iReq[q].seen, iReq[q].reply)]
      /\ iReq = [q \in Requests |-> iReq[q]]
  BY Zenon DEF AnswerInv
\* A request that has a snapshot goes on, ends or begins again.
<1>1. ASSUME NEW q \in Requests, NEW pc, NEW route, NEW seen, NEW reply, Becomes(q, Asked(pc, route, seen, reply)),
             pc \in InHand => seen \in Moments, iSnapshot' = iSnapshot
      PROVE  WorksTyped'
  <2>1. iReq'[q] = Asked(pc, route, seen, reply) /\ \A p \in Requests \ {q} : iReq'[p] = iReq[p]
    BY <1>1 DEF Becomes
  <2>2. Works(iReq'[q])
    BY <1>1, <2>1 DEF Works, Asked
  <2>3. \A p \in Requests : Works(iReq'[p])
    BY <2>1, <2>2 DEF WorksTyped
  <2> QED BY <1>1, <2>3 DEF WorksTyped, Works
<1>2. ASSUME NEW q \in Requests, iSnapshot' = iSnapshot,
             \/ \E reply : Api!Answered(q, reply)
             \/ Api!Refused(q)
             \/ iReq[q].pc \in InHand /\ \E to : Api!Goes(q, to)
      PROVE  WorksTyped'
  <2>1. ASSUME NEW reply, Api!Answered(q, reply) PROVE WorksTyped'
    <3>1. Becomes(q, Asked("done", iReq[q].route, IF iReq[q].seen = None THEN reply.at ELSE iReq[q].seen, reply))
      BY <1>0, <2>1, RequestMoves
    <3> QED BY <1>1, <1>2, <3>1 DEF InHand
  <2>2. ASSUME Api!Refused(q) PROVE WorksTyped'
    <3>1. Becomes(q, Asked("idle", None, None, None))
      BY <1>0, <2>2, RequestMoves
    <3> QED BY <1>1, <1>2, <3>1 DEF InHand
  <2>3. ASSUME iReq[q].pc \in InHand, NEW to, Api!Goes(q, to) PROVE WorksTyped'
    <3>1. Becomes(q, Asked(to, iReq[q].route, iReq[q].seen, iReq[q].reply))
      BY <1>0, <2>3, RequestMoves
    <3>2. iReq[q].seen \in Moments
      BY <2>3 DEF WorksTyped, Works
    <3> QED BY <1>1, <1>2, <3>1, <3>2
  <2> QED BY <1>2, <2>1, <2>2, <2>3
<1>3. CASE Api!_publish
  <2>1. iReq' = iReq /\ \E k \in 1 .. Len(Timeline) : iSnapshot' = Timeline[k]
    BY <1>3 DEF Api!_publish
  <2> QED BY <2>1 DEF WorksTyped, Works, Moments
<1>4. ASSUME NEW q \in Requests, Api!authenticate(q) PROVE WorksTyped'
  <2>1. iSnapshot' = iSnapshot
    BY <1>4 DEF Api!authenticate
  <2>2. CASE Api!Refused(q)
    BY <1>2, <2>1, <2>2
  <2>3. ASSUME NEW r, iReq' = [iReq EXCEPT ![q].pc = "current", ![q].route = r] PROVE WorksTyped'
    <3>1. iReq[q] = Asked(iReq[q].pc, iReq[q].route, iReq[q].seen, iReq[q].reply)
      BY <1>0, Zenon
    <3>2. Becomes(q, Asked("current", r, iReq[q].seen, iReq[q].reply))
      BY <1>0, <2>3, <3>1, RequestUpdates
    <3> QED BY <1>1, <2>1, <3>2 DEF InHand
  <2> QED BY <1>4, <2>2, <2>3 DEF Api!authenticate
<1>5. ASSUME NEW q \in Requests, Api!current(q) PROVE WorksTyped'
  <2>1. iSnapshot' = iSnapshot
    BY <1>5 DEF Api!current
  <2>2. CASE Api!Refused(q) \/ \E reply : Api!Answered(q, reply)
    BY <1>2, <2>1, <2>2
  <2>3. CASE iSnapshot # None /\ iReq' = [iReq EXCEPT ![q].pc = iReq[q].route, ![q].seen = iSnapshot]
    <3>1. iReq[q] = Asked(iReq[q].pc, iReq[q].route, iReq[q].seen, iReq[q].reply)
      BY <1>0, Zenon
    <3>2. Becomes(q, Asked(iReq[q].route, iReq[q].route, iSnapshot, iReq[q].reply))
      BY <1>0, <2>3, <3>1, RequestUpdates
    <3>3. iSnapshot \in Moments
      BY <2>3 DEF WorksTyped
    <3> QED BY <1>1, <2>1, <3>2, <3>3
  <2> QED BY <1>5, <2>2, <2>3 DEF Api!current
<1>6. ASSUME NEW q \in Requests,
             \/ Api!get(q) \/ Api!acquire(q) \/ Api!Busy(q) \/ Api!Search(q) \/ Api!put(q)
             \/ Api!_minute(q) \/ Api!Views(q) \/ Api!Sent(q)
      PROVE  WorksTyped'
  <2>1. iSnapshot' = iSnapshot
    BY <1>6 DEF Api!get, Api!acquire, Api!Busy, Api!Search, Api!put, Api!_minute, Api!Views, Api!Sent
  <2>2. \/ \E reply : Api!Answered(q, reply)
        \/ Api!Refused(q)
        \/ iReq[q].pc \in InHand /\ \E to : Api!Goes(q, to)
    BY <1>6 DEF Api!get, Api!acquire, Api!Busy, Api!Search, Api!put, Api!_minute, Api!Views, Api!Sent, Api!At, InHand
  <2> QED BY <1>2, <2>1, <2>2
<1>7. ASSUME NEW q \in Requests, Api!_model(q) PROVE WorksTyped'
  <2> DEFINE reply == Api!Reply(None, iReq[q].seen, Api!ModelStatus(iReq[q].seen[1]))
  <2>1. iReq[q].pc = "model" /\ iSnapshot' = iSnapshot /\ iReq' = [iReq EXCEPT ![q].pc = "views", ![q].reply = reply]
    BY <1>7 DEF Api!_model, Api!At, Api!Seen
  <2> HIDE DEF reply
  <2>2. iReq[q] = Asked(iReq[q].pc, iReq[q].route, iReq[q].seen, iReq[q].reply)
    BY <1>0, Zenon
  <2>3. Becomes(q, Asked("views", iReq[q].route, iReq[q].seen, reply))
    BY <1>0, <2>1, <2>2, RequestUpdates
  <2>4. iReq[q].seen \in Moments
    BY <2>1 DEF WorksTyped, Works, InHand
  <2> QED BY <1>1, <2>1, <2>3, <2>4
<1>8. CASE (\E s \in Api!Sessions : Api!_build(s)) \/ UNCHANGED Api!vars
  <2>1. iReq' = iReq /\ iSnapshot' = iSnapshot
    BY <1>8 DEF Api!_build, Api!vars
  <2> QED BY <2>1 DEF WorksTyped, Works
<1> QED BY <1>3, <1>4, <1>5, <1>6, <1>7, <1>8 DEF Api!Next, Api!Step

\* A model is asked for by a request of its session, and at most the newest is kept.
LEMMA ModelsStay == ASSUME ModelsTyped, WorksTyped, [Api!Next]_(Api!vars) PROVE ModelsTyped'
<1>0. MaxFaults \in Nat /\ Api!Sessions' = Api!Sessions
  BY InstanceAssumption DEF Api!ApiAssumption, Api!Sessions
<1>1. CASE UNCHANGED <<iModels, iErrors, iBuilding, iBuilt, iFaults>>
  BY <1>0, <1>1 DEF ModelsTyped
<1>2. ASSUME NEW q \in Requests, Api!Search(q) PROVE ModelsTyped'
  <2>1. UNCHANGED <<iModels, iErrors, iBuilding, iBuilt>> /\ (iFaults' = iFaults \/ (iFaults < MaxFaults /\ iFaults' = iFaults + 1))
    BY <1>2 DEF Api!Search, Api!model
  <2>2. iFaults' \in 0 .. MaxFaults
    BY <1>0, <2>1 DEF ModelsTyped
  <2> QED BY <1>0, <2>1, <2>2 DEF ModelsTyped
<1>3. ASSUME NEW q \in Requests, Api!_model(q) PROVE ModelsTyped'
  <2>1. iReq[q].pc = "model" /\ iBuilding' \subseteq iBuilding \cup {iReq[q].seen[1]}
        /\ UNCHANGED <<iModels, iErrors, iBuilt, iFaults>>
    BY <1>3 DEF Api!_model, Api!At, Api!Seen
  <2>2. iReq[q].seen \in Moments
    BY <2>1 DEF WorksTyped, Works, InHand
  <2>3. iReq[q].seen[1] \in Api!Sessions
    BY <2>2 DEF Moments, Api!Sessions
  <2> QED BY <1>0, <2>1, <2>3 DEF ModelsTyped
<1>4. ASSUME NEW s \in Api!Sessions, Api!_build(s) PROVE ModelsTyped'
  <2>1. /\ iBuilding' \subseteq iBuilding
        /\ \/ iModels' = {s} /\ iBuilt' = iBuilt \cup {s} /\ UNCHANGED <<iErrors, iFaults>>
           \/ iFaults < MaxFaults /\ iFaults' = iFaults + 1 /\ iErrors' = iErrors \cup {s} /\ UNCHANGED <<iModels, iBuilt>>
    BY <1>4 DEF Api!_build, Api!Kept
  <2>2. iFaults' \in 0 .. MaxFaults
    BY <1>0, <2>1 DEF ModelsTyped
  <2>3. iModels' \cup iErrors' \cup iBuilding' \cup iBuilt' \subseteq Api!Sessions
    BY <2>1 DEF ModelsTyped
  <2>4. iModels' = {} \/ \E t : iModels' = {t}
    BY <2>1 DEF ModelsTyped
  <2> QED BY <1>0, <2>2, <2>3, <2>4 DEF ModelsTyped
<1>5. ASSUME NEW q \in Requests,
             \/ Api!authenticate(q) \/ Api!current(q) \/ Api!get(q) \/ Api!acquire(q) \/ Api!Busy(q) \/ Api!put(q)
             \/ Api!_minute(q) \/ Api!Views(q) \/ Api!Sent(q)
      PROVE  ModelsTyped'
  BY <1>1, <1>5 DEF Api!authenticate, Api!current, Api!get, Api!acquire, Api!Busy, Api!put, Api!_minute, Api!Views,
     Api!Sent, Api!service, Api!model
<1>6. CASE Api!_publish \/ UNCHANGED Api!vars
  BY <1>1, <1>6 DEF Api!_publish, Api!vars, Api!service, Api!model
<1> QED BY <1>2, <1>3, <1>4, <1>5, <1>6 DEF Api!Next, Api!Step

LEMMA ApiTyped == Spec => []Api!TypeOK
<1>1. Init => CacheTyped /\ WorksTyped /\ ModelsTyped
  <2> SUFFICES ASSUME Init PROVE CacheTyped /\ WorksTyped /\ ModelsTyped
    OBVIOUS
  <2>1. /\ iSnapshot = None /\ iSimilar = <<>> /\ iModels = {} /\ iErrors = {} /\ iBuilding = {} /\ iBuilt = {}
        /\ iFaults = 0 /\ iReq = [q \in Requests |-> Api!Idle]
    BY DEF Init, Api!Init
  <2>2. Api!Idle.pc = "idle"
    BY DEF Api!Idle
  <2>3. CacheSize \in Nat /\ 0 \in 0 .. MaxFaults
    BY InstanceAssumption DEF Api!ApiAssumption
  <2>4. CacheTyped
    BY <2>1, <2>3 DEF CacheTyped
  <2>5. WorksTyped
    BY <2>1, <2>2 DEF WorksTyped, Works, InHand
  <2>6. ModelsTyped
    BY <2>1, <2>3 DEF ModelsTyped
  <2> QED BY <2>4, <2>5, <2>6
<1>2. [Next]_vars => [Api!Next]_(Api!vars)
  BY DEF Next, vars, iVars, ArchiveOnly, BootOnly, MinuteOnly, LogOnly, StreamOnly, KeysOnly, LimiterOnly,
         ApiOnly, DerivativesOnly, ClientOnly, Api!vars, Api!model
<1>3. SearchInv /\ CacheTyped /\ ModelsTyped => Api!TypeOK
  <2> SUFFICES ASSUME SearchInv, CacheTyped, ModelsTyped PROVE Api!TypeOK
    OBVIOUS
  <2>1. iSlots \in 0 .. Slots
    <3>1. IsFiniteSet(Searching) /\ Cardinality(Searching) \in Nat
      <4>1. IsFiniteSet(Requests)
        BY InstanceAssumption DEF Api!ApiAssumption, Api!IsFiniteSet, IsFiniteSet
      <4> QED BY <4>1, FS_Subset, FS_CardinalityType DEF Searching
    <3>2. Slots \in Nat
      BY InstanceAssumption DEF Api!ApiAssumption
    <3> QED BY <3>1, <3>2 DEF SearchInv
  <2>2. Api!Cardinality(iModels) = Cardinality(iModels)
    BY DEF Api!Cardinality, Cardinality
  <2>3. Cardinality(iModels) <= 1
    BY FS_EmptySet, FS_Singleton DEF ModelsTyped
  <2> QED BY <2>1, <2>2, <2>3 DEF CacheTyped, ModelsTyped, Api!TypeOK
<1> QED BY <1>1, <1>2, <1>3, CacheStays, WorksStay, ModelsStay, SlotsAreConserved, AnswersAreOfOneSnapshot, PTL DEF Spec

\* The clients' handlers stay within the store and the published snapshots.
Positions == {"closed", "hello", "poll", "rows", "compare", "mark", "wait"}
HandlerTyped(c) ==
    /\ sPc[c] \in Positions /\ sHeld[c] <= MaxVersion /\ sRows[c] \subseteq 1 .. MaxEvents
    /\ sCursor[c] # None => sCursor[c] <= MaxEvents
StreamRest ==
    /\ Len(sLog) <= MaxEvents /\ sVersion <= MaxVersion /\ sSeen \in [Clients -> -1 .. MaxVersion]
    /\ \A c \in Clients : HandlerTyped(c)

\* One handler moves, and the others stay where they are.
LEMMA HandlerMoves ==
    ASSUME StreamRest, NEW c \in Clients, HandlerTyped(c)', UNCHANGED <<sLog, sVersion>>, sSeen' \in [Clients -> -1 .. MaxVersion],
           \A o \in Clients \ {c} : sPc'[o] = sPc[o] /\ sHeld'[o] = sHeld[o] /\ sRows'[o] = sRows[o] /\ sCursor'[o] = sCursor[o]
    PROVE  StreamRest'
<1>1. \A o \in Clients : HandlerTyped(o)'
  BY DEF StreamRest, HandlerTyped
<1> QED BY <1>1 DEF StreamRest

LEMMA StreamRestStays ==
    ASSUME DueInv, StreamRest, [Stream!Next]_(Stream!vars)
    PROVE  StreamRest'
<1>0. MaxEvents \in Nat /\ MaxVersion \in Nat /\ sLog \in Seq(BOOLEAN) /\ sVersion \in Nat /\ Len(sLog) \in Nat
      /\ sVersion \in -1 .. MaxVersion
  BY InstanceAssumption DEF Stream!StreamAssumption, DueInv, MessageTypes, StreamRest
<1>1. /\ sPc = [c \in Clients |-> sPc[c]] /\ sHeld \in [Clients -> Nat] /\ sRows \in [Clients -> SUBSET Nat]
      /\ sCursor \in [Clients -> Nat \cup {None}] /\ sSeen \in [Clients -> -1 .. MaxVersion]
  BY DEF DueInv, MessageTypes, StreamRest
<1>2. ASSUME NEW passes \in BOOLEAN, Stream!Store(passes) PROVE StreamRest'
  <2>1. Len(sLog) < MaxEvents /\ sLog' = Append(sLog, passes) /\ UNCHANGED <<sVersion, sPc, sCursor, sRows, sSeen, sHeld>>
    BY <1>2 DEF Stream!Store, Stream!handler
  <2>2. Len(sLog') <= MaxEvents
    BY <1>0, <2>1
  <2> QED BY <2>1, <2>2 DEF StreamRest, HandlerTyped
<1>3. CASE Stream!_publish
  <2>1. sVersion < MaxVersion /\ sVersion' = sVersion + 1 /\ UNCHANGED <<sLog, sPc, sCursor, sRows, sSeen, sHeld>>
    BY <1>3 DEF Stream!_publish, Stream!handler
  <2>2. sVersion' <= MaxVersion
    BY <1>0, <2>1
  <2> QED BY <2>1, <2>2 DEF StreamRest, HandlerTyped
<1>4. ASSUME NEW c \in Clients, Stream!Connect(c) PROVE StreamRest'
  <2>1. /\ sPc' = [sPc EXCEPT ![c] = "hello"] /\ sCursor' = [sCursor EXCEPT ![c] = sResume[c]]
        /\ sSeen' = [sSeen EXCEPT ![c] = -1] /\ UNCHANGED <<sLog, sVersion, sRows, sHeld>>
    BY <1>4 DEF Stream!Connect
  <2>2. sResume[c] # None => sResume[c] <= MaxEvents
    <3>1. sResume[c] # None => sResume[c] \in Nat /\ sResume[c] <= Len(sLog)
      BY DEF DueInv, HasAll
    <3> QED BY <1>0, <3>1 DEF StreamRest
  <2>3. sPc'[c] = "hello" /\ sCursor'[c] = sResume[c]
        /\ \A o \in Clients \ {c} : sPc'[o] = sPc[o] /\ sCursor'[o] = sCursor[o]
    BY <1>1, <2>1
  <2>4. sSeen' \in [Clients -> -1 .. MaxVersion]
    <3>1. -1 \in -1 .. MaxVersion
      BY <1>0
    <3> QED BY <1>1, <2>1, <3>1
  <2>5. HandlerTyped(c)'
    BY <2>1, <2>2, <2>3 DEF StreamRest, HandlerTyped, Positions
  <2> QED BY <2>1, <2>3, <2>4, <2>5, HandlerMoves
<1>5. ASSUME NEW c \in Clients, Stream!Hello(c) PROVE StreamRest'
  <2> DEFINE start == IF sCursor[c] = None THEN Len(sLog) ELSE sCursor[c]
  <2>1. /\ sPc' = [sPc EXCEPT ![c] = "poll"] /\ sCursor' = [sCursor EXCEPT ![c] = start]
        /\ UNCHANGED <<sLog, sVersion, sRows, sSeen, sHeld>>
    BY <1>5 DEF Stream!Hello
  <2>2. start <= MaxEvents
    BY DEF StreamRest, HandlerTyped
  <2> HIDE DEF start
  <2>3. sPc'[c] = "poll" /\ sCursor'[c] = start
        /\ \A o \in Clients \ {c} : sPc'[o] = sPc[o] /\ sCursor'[o] = sCursor[o]
    BY <1>1, <2>1
  <2>4. HandlerTyped(c)'
    BY <2>1, <2>2, <2>3 DEF StreamRest, HandlerTyped, Positions
  <2> QED BY <1>1, <2>1, <2>3, <2>4, HandlerMoves
<1>6. ASSUME NEW c \in Clients, Stream!Poll(c) PROVE StreamRest'
  <2> DEFINE found == Stream!Search(sCursor[c])
  <2>1. /\ sPc[c] = "poll" /\ sPc' = [sPc EXCEPT ![c] = "rows"] /\ sRows' = [sRows EXCEPT ![c] = found]
        /\ UNCHANGED <<sLog, sVersion, sCursor, sSeen, sHeld>>
    BY <1>6 DEF Stream!Poll
  <2>2. found \subseteq 1 .. MaxEvents
    <3>1. sCursor[c] \in Nat
      BY <2>1 DEF DueInv, MessageTypes
    <3>2. Len(sLog) <= MaxEvents
      BY DEF StreamRest
    <3> QED BY <1>0, <3>1, <3>2 DEF Stream!Search
  <2> HIDE DEF found
  <2>3. sPc'[c] = "rows" /\ sRows'[c] = found
        /\ \A o \in Clients \ {c} : sPc'[o] = sPc[o] /\ sRows'[o] = sRows[o]
    BY <1>1, <2>1
  <2>4. HandlerTyped(c)'
    BY <2>1, <2>2, <2>3 DEF StreamRest, HandlerTyped, Positions
  <2> QED BY <1>1, <2>1, <2>3, <2>4, HandlerMoves
<1>7. ASSUME NEW c \in Clients, Stream!Row(c) PROVE StreamRest'
  <2> DEFINE s == Stream!Min(sRows[c])
  <2>1. /\ sRows[c] # {} /\ sCursor' = [sCursor EXCEPT ![c] = s] /\ sRows' = [sRows EXCEPT ![c] = @ \ {s}]
        /\ UNCHANGED <<sLog, sVersion, sPc, sSeen, sHeld>>
    BY <1>7 DEF Stream!Row
  <2>2. s \in sRows[c]
    <3>1. sRows[c] \in SUBSET Nat
      BY <1>1
    <3>2. \E p \in sRows[c] : \A i \in sRows[c] : p <= i
      BY <2>1, <3>1, LeastNatural
    <3> QED BY <3>2 DEF Stream!Min
  <2>3. s <= MaxEvents
    <3>1. s \in 1 .. MaxEvents
      BY <2>2 DEF StreamRest, HandlerTyped
    <3> HIDE DEF s
    <3> QED BY <1>0, <3>1
  <2> HIDE DEF s
  <2>4. sCursor'[c] = s /\ sRows'[c] \subseteq sRows[c]
        /\ \A o \in Clients \ {c} : sCursor'[o] = sCursor[o] /\ sRows'[o] = sRows[o]
    BY <1>1, <2>1
  <2>5. HandlerTyped(c)'
    BY <2>1, <2>3, <2>4 DEF StreamRest, HandlerTyped
  <2> QED BY <1>1, <2>1, <2>4, <2>5, HandlerMoves
<1>8. ASSUME NEW c \in Clients, Stream!ReadSnapshot(c) PROVE StreamRest'
  <2>1. /\ sHeld' = [sHeld EXCEPT ![c] = sVersion] /\ sPc' = [sPc EXCEPT ![c] = "compare"]
        /\ UNCHANGED <<sLog, sVersion, sCursor, sRows, sSeen>>
    BY <1>8 DEF Stream!ReadSnapshot
  <2>2. sPc'[c] = "compare" /\ sHeld'[c] = sVersion /\ sVersion <= MaxVersion
        /\ \A o \in Clients \ {c} : sPc'[o] = sPc[o] /\ sHeld'[o] = sHeld[o]
    BY <1>1, <2>1 DEF StreamRest
  <2>3. HandlerTyped(c)'
    BY <2>1, <2>2 DEF StreamRest, HandlerTyped, Positions
  <2> QED BY <1>1, <2>1, <2>2, <2>3, HandlerMoves
<1>9. ASSUME NEW c \in Clients, NEW to \in Positions, sPc' = [sPc EXCEPT ![c] = to],
             sSeen' \in [Clients -> -1 .. MaxVersion], sRows' = sRows \/ sRows' = [sRows EXCEPT ![c] = {}],
             UNCHANGED <<sLog, sVersion, sCursor, sHeld>>
      PROVE  StreamRest'
  <2>1. sPc'[c] = to /\ sRows'[c] \subseteq sRows[c]
        /\ \A o \in Clients \ {c} : sPc'[o] = sPc[o] /\ sRows'[o] = sRows[o]
    BY <1>1, <1>9
  <2>2. HandlerTyped(c)'
    BY <1>9, <2>1 DEF StreamRest, HandlerTyped
  <2> QED BY <1>9, <2>1, <2>2, HandlerMoves
<1>10. ASSUME NEW c \in Clients, Stream!Compare(c) \/ Stream!Wait(c) \/ Stream!Mark(c) \/ Stream!Closed(c) PROVE StreamRest'
  <2>1. /\ UNCHANGED <<sLog, sVersion, sCursor, sHeld>> /\ (sRows' = sRows \/ sRows' = [sRows EXCEPT ![c] = {}])
        /\ \E to \in {"mark", "wait", "poll", "closed"} : sPc' = [sPc EXCEPT ![c] = to]
    BY <1>10 DEF Stream!Compare, Stream!Wait, Stream!Mark, Stream!Closed
  <2>2. sSeen' = sSeen \/ sSeen' = [sSeen EXCEPT ![c] = sVersion]
    BY <1>10 DEF Stream!Compare, Stream!Wait, Stream!Mark, Stream!Closed
  <2>3. sSeen' \in [Clients -> -1 .. MaxVersion]
    BY <1>0, <1>1, <2>2
  <2> QED BY <1>9, <2>1, <2>3 DEF Positions
<1>11. CASE (\E c \in Clients : Stream!Receive(c) \/ Stream!Leave(c)) \/ UNCHANGED Stream!vars
  <2>1. UNCHANGED <<sLog, sVersion, sPc, sCursor, sRows, sSeen, sHeld>>
    BY <1>11 DEF Stream!Receive, Stream!Leave, Stream!vars, Stream!handler
  <2> QED BY <2>1 DEF StreamRest, HandlerTyped
<1> QED BY <1>2, <1>3, <1>4, <1>5, <1>6, <1>7, <1>8, <1>10, <1>11 DEF Stream!Next, Stream!Handler

LEMMA StreamTyped == Spec => []Stream!TypeOK
<1>0. MaxEvents \in Nat /\ MaxVersion \in Nat
  BY InstanceAssumption DEF Stream!StreamAssumption
<1>1. Init => StreamRest
  <2> SUFFICES ASSUME Init PROVE StreamRest
    OBVIOUS
  <2>1. /\ sLog = <<>> /\ sVersion = 0 /\ sPc = [c \in Clients |-> "closed"] /\ sCursor = [c \in Clients |-> None]
        /\ sRows = [c \in Clients |-> {}] /\ sSeen = [c \in Clients |-> -1] /\ sHeld = [c \in Clients |-> 0]
    BY DEF Init, Stream!Init
  <2>2. -1 \in -1 .. MaxVersion /\ Len(sLog) <= MaxEvents
    BY <1>0, <2>1
  <2> QED BY <1>0, <2>1, <2>2 DEF StreamRest, HandlerTyped, Positions
<1>2. [Next]_vars => [Stream!Next]_(Stream!vars)
  BY DEF Next, vars, sVars, ArchiveOnly, BootOnly, MinuteOnly, LogOnly, StreamOnly, KeysOnly, LimiterOnly,
         ApiOnly, DerivativesOnly, ClientOnly, Stream!vars, Stream!handler, Stream!client
<1>3. StreamInv /\ DueInv /\ StreamRest => Stream!TypeOK
  <2> SUFFICES ASSUME StreamInv, DueInv, StreamRest PROVE Stream!TypeOK
    OBVIOUS
  <2>1. sLog \in Seq(BOOLEAN) /\ sVersion \in 0 .. MaxVersion
    BY <1>0 DEF DueInv, MessageTypes, StreamRest
  <2>2. sSlots \in [Stream!Keys -> Int]
    BY DEF StreamInv
  <2>3. ASSUME NEW c \in Clients
        PROVE  /\ sPc[c] \in Positions /\ sSeen[c] \in -1 .. MaxVersion /\ sHeld[c] \in 0 .. MaxVersion
               /\ sRows[c] \subseteq 1 .. MaxEvents /\ (sCursor[c] # None => sCursor[c] \in 0 .. MaxEvents)
    <3>1. sHeld[c] \in Nat /\ sCursor[c] \in Nat \cup {None} /\ HandlerTyped(c)
      BY DEF DueInv, MessageTypes, StreamRest
    <3>2. sSeen[c] \in -1 .. MaxVersion
      BY DEF StreamRest
    <3> QED BY <1>0, <3>1, <3>2 DEF HandlerTyped
  <2> QED BY <2>1, <2>2, <2>3 DEF Stream!TypeOK, Positions
<1> QED BY <1>1, <1>2, <1>3, StreamRestStays, StreamSlotsAreHeld, EventsReachClients, PTL DEF Spec

\* Every part's state has its type, for every size of the archive, the calendar, the session and
\* the services (TypeOK of the modules).
THEOREM IntelligenceTyped == Spec => []TypesOK
BY ArchiveTyped, BootstrapTyped, MinuteTyped, LogTyped, StreamTyped, KeysTyped, LimiterTyped, ApiTyped, DerivTyped,
   ClientTyped, PTL DEF TypesOK
=============================================================================
