----------------------------- MODULE MCAnalytics ------------------------------
(*****************************************************************************)
(* What the intelligence service computes and the levels and indicators of   *)
(* the application, in one instance: the 09:45 decision, its selection,      *)
(* outcome and training, the archived tables and sessions, the book          *)
(* features, the indicators and the levels.  A behaviour picks one           *)
(* component and leaves the others in their initial state.                   *)
(*****************************************************************************)
EXTENDS Integers, SequenceTheorems, FiniteSetTheorems, WellFoundedInduction, TLAPS

CONSTANTS
    LastTradingDay, MaxFaults, MaxKills, MaxReplays, Warm, None, Empty,        \* Decision945
    Stocks, CompareMin,                                                 \* Select945
    Horizons, EntryWithin,                                              \* Outcome945
    DayLen, Open, CloseMinute, Wanted, MaxSpan, MaxRows, NaN,                 \* CandleTables
    Prices, Volumes, MaxPackets,                                        \* BookFeatures
    MaxDays, TrainWindow, V2MinTrain, CalibrationMin, V1MinPicks, IcMin,        \* WalkForward
    LastSession, MinuteCount, Written, Fraction, WindowSessions, MinSessions,       \* SessionHistory
    PoolMinutes, Lookback, WindowMinutes, Step, MinMatches, DefaultK, Parts, MaxLoadKills, Torn,
    MaxBars, Fast, Slow, Signal, Ema, Window, Wilder, Smooth, D, Roc, Momentum, Super,  \* Indicators
    SyncStocks, LastSyncMinute, StaleAfter, MaxSyncFaults,              \* IndicatorSync
    Symbols, Week, Month, LevelPrices, LastMinute, BarMinutes, OpeningMinutes,  \* Levels
    SideBars, Keep, RangeSessions, MaxDailyFailures

\* rows of each tier that rise, fall or stand still, and one with a confirming volume
Rows ==
    {[tier |-> t, drive |-> d, agree |-> a, volume |-> 0] : t \in {0, 3}, d \in {-1, 0, 2}, a \in {-2, 0, 2}}
        \cup {[tier |-> 2, drive |-> 1, agree |-> 0, volume |-> 1]}
Predictions == {None, [s \in Stocks |-> IF s % 3 = 0 THEN None ELSE 3 - 2 * (s % 3)]}
Evidences == {[days |-> d, better |-> TRUE, ic |-> TRUE] : d \in {1, 2}}

Bar(o, h, l, c) == [open |-> o, high |-> h, low |-> l, close |-> c]
OutcomeCandles ==
    {Bar(2, 2, 2, 2), Bar(2, 3, 1, 3), Bar(3, 4, 2, 2), Bar(1, 2, 1, 2), Bar(2, 2, 0, 1)}

\* good rows, a filler, a zero low, a close above the high, a time within a minute, no
\* open, a time after the close, a second row of a minute
TableCandles ==
    {<<2, 1, 2, 1, 1, 1>>, <<2, 2, 2, 2, 2, 0>>, <<4, 1, 2, 0, 1, 1>>, <<4, 1, 1, 1, 2, 1>>,
     <<3, 1, 1, 1, 1, 1>>, <<4, NaN, 1, 1, 1, 1>>, <<6, 1, 1, 1, 1, 1>>, <<4, 1, 1, 1, 1, 2>>}

\* no book, a crossed one, and three that move
Depth(bp, ap, bq, aq) == [bp |-> bp, ap |-> ap, bq |-> bq, aq |-> aq]
Books ==
    {Depth(0, 0, 0, 0), Depth(2, 1, 1, 1), Depth(1, 2, 1, 1), Depth(1, 2, 3, 1), Depth(2, 3, 1, 2)}

\* three archived sessions, and what a later one might have been instead
Recorded == <<<<2, 3, 1>>, <<1, 2, 2>>, <<3, 3, 1>>>>
OtherDay == <<1, 1, 3>>

\* an untraded flat minute, two that trade, and one that moves without a range of its own
Candle(h, l, c, v) == [high |-> h, low |-> l, close |-> c, volume |-> v]
SeriesBars == {Candle(1, 1, 1, 0), Candle(2, 2, 2, 1), Candle(3, 1, 2, 1), Candle(2, 0, 1, 1)}

\* the last days of last month and week, and one of this month and week
DayBar(d, w, m, h, l, c) == [day |-> d, week |-> w, month |-> m, high |-> h, low |-> l, close |-> c]
DailyBars == <<DayBar(1, 1, 1, 4, 1, 2), DayBar(2, 1, 1, 3, 2, 3), DayBar(3, 2, 2, 3, 1, 2)>>

\* the one initial state of a component that does not move
StillMatrix == [s \in Stocks |-> [tier |-> 0, drive |-> 0, agree |-> 0, volume |-> 0]]
StillBars == [m \in 0..3 |-> None]

VARIABLES
    which,          \* the component at work
    dDay, dPhase, dArchive, dDecision, dOutcome, dTraining, dPc, dMade, d_failed, d_finalised,
    dReplayed, dAt, dReplays, dFaults, dKills,
    sMatrix, sPrediction, sEvidence, sResult,
    oBars, oSign, oOutcome,
    tAnswered, tStaged, tTodo, tTable,
    bB, bLast, bDay, bPackets,
    wDays,
    hRows, hToday, hOpen, hSummary, hFolder, hTmp, hLoad, hKills, hRaced,
    iBars,
    yNow, yRows, yForming, yFullLive, yPayload, yResults, yPrints, yErrors, y_last_error,
    yFaults,
    lNow, lCandle, lMajor, lTodo, lWorker, lFailures

dVars == <<dDay, dPhase, dArchive, dDecision, dOutcome, dTraining, dPc, dMade,
    d_failed, d_finalised, dReplayed, dAt, dReplays, dFaults, dKills>>
sVars == <<sMatrix, sPrediction, sEvidence, sResult>>
oVars == <<oBars, oSign, oOutcome>>
tVars == <<tAnswered, tStaged, tTodo, tTable>>
bVars == <<bB, bLast, bDay, bPackets>>
wVars == <<wDays>>
hVars == <<hRows, hToday, hOpen, hSummary, hFolder, hTmp, hLoad, hKills, hRaced>>
iVars == <<iBars>>
yVars == <<yNow, yRows, yForming, yFullLive, yPayload, yResults, yPrints,
    yErrors, y_last_error, yFaults>>
lVars == <<lNow, lCandle, lMajor, lTodo, lWorker, lFailures>>
vars == <<which, dVars, sVars, oVars, tVars, bVars, wVars, hVars, iVars, yVars, lVars>>

Day == INSTANCE Decision945 WITH
    day <- dDay, phase <- dPhase, archive <- dArchive, decision <- dDecision,
    outcome <- dOutcome, training <- dTraining, pc <- dPc, made <- dMade, _failed <- d_failed,
    _finalised <- d_finalised, replayed <- dReplayed, at <- dAt, replays <- dReplays,
    faults <- dFaults, kills <- dKills,
    LastDay <- LastTradingDay
Pick == INSTANCE Select945 WITH
    matrix <- sMatrix, prediction <- sPrediction, evidence <- sEvidence, result <- sResult
Result == INSTANCE Outcome945 WITH
    bars <- oBars, sign <- oSign, outcome <- oOutcome, Candles <- OutcomeCandles
Table == INSTANCE CandleTables WITH
    answered <- tAnswered, staged <- tStaged, todo <- tTodo, table <- tTable,
    Candles <- TableCandles,
    Close <- CloseMinute
Book == INSTANCE BookFeatures WITH
    b <- bB, last <- bLast, day <- bDay, packets <- bPackets
Walk == INSTANCE WalkForward WITH
    days <- wDays
History == INSTANCE SessionHistory WITH
    rows <- hRows, today <- hToday, open <- hOpen, summary <- hSummary, folder <- hFolder,
    tmp <- hTmp, load <- hLoad, kills <- hKills, raced <- hRaced, Content <- Recorded,
    Other <- OtherDay, LastDay <- LastSession, MaxKills <- MaxLoadKills,
    Minutes <- MinuteCount
Series == INSTANCE Indicators WITH
    bars <- iBars, Bars <- SeriesBars
Sync == INSTANCE IndicatorSync WITH
    now <- yNow, rows <- yRows, forming <- yForming, fullLive <- yFullLive, payload <- yPayload,
    results <- yResults, prints <- yPrints, errors <- yErrors, _last_error <- y_last_error,
    faults <- yFaults, Stocks <- SyncStocks, LastMinute <- LastSyncMinute,
    MaxFaults <- MaxSyncFaults
Level == INSTANCE Levels WITH
    now <- lNow, candle <- lCandle, major <- lMajor, todo <- lTodo, worker <- lWorker,
    failures <- lFailures, Daily <- DailyBars, Prices <- LevelPrices,
    MaxFailures <- MaxDailyFailures,
    Side <- SideBars

DaysOnly == which = "days" /\ UNCHANGED <<which, sVars, oVars, tVars, bVars, wVars, hVars, iVars, yVars, lVars>>
SelectOnly == which = "select" /\ UNCHANGED <<which, dVars, oVars, tVars, bVars, wVars, hVars, iVars, yVars, lVars>>
OutcomeOnly == which = "outcome" /\ UNCHANGED <<which, dVars, sVars, tVars, bVars, wVars, hVars, iVars, yVars, lVars>>
TablesOnly == which = "tables" /\ UNCHANGED <<which, dVars, sVars, oVars, bVars, wVars, hVars, iVars, yVars, lVars>>
BookOnly == which = "book" /\ UNCHANGED <<which, dVars, sVars, oVars, tVars, wVars, hVars, iVars, yVars, lVars>>
WalkOnly == which = "walk" /\ UNCHANGED <<which, dVars, sVars, oVars, tVars, bVars, hVars, iVars, yVars, lVars>>
HistoryOnly == which = "history" /\ UNCHANGED <<which, dVars, sVars, oVars, tVars, bVars, wVars, iVars, yVars, lVars>>
SeriesOnly == which = "series" /\ UNCHANGED <<which, dVars, sVars, oVars, tVars, bVars, wVars, hVars, yVars, lVars>>
SyncOnly == which = "sync" /\ UNCHANGED <<which, dVars, sVars, oVars, tVars, bVars, wVars, hVars, iVars, lVars>>
LevelsOnly == which = "levels" /\ UNCHANGED <<which, dVars, sVars, oVars, tVars, bVars, wVars, hVars, iVars, yVars>>

Init ==
    /\ which \in {"days", "select", "outcome", "tables", "book", "walk", "history", "series", "sync", "levels"}
    /\ Day!Init
    /\ Pick!Init /\ (which # "select" => sMatrix = StillMatrix /\ sPrediction = None /\ sEvidence.days = 1)
    /\ Result!Init /\ (which # "outcome" => oSign = 1 /\ oBars = StillBars)
    /\ Table!Init
    /\ Book!Init
    /\ Walk!Init
    /\ History!Init
    /\ Series!Init
    /\ Sync!Init
    /\ Level!Init
Next ==
    \/ DaysOnly /\ Day!Next
    \/ SelectOnly /\ Pick!Next
    \/ OutcomeOnly /\ Result!Next
    \/ TablesOnly /\ Table!Next
    \/ BookOnly /\ Book!Next
    \/ WalkOnly /\ Walk!Next
    \/ HistoryOnly /\ History!Next
    \/ SeriesOnly /\ Series!Next
    \/ SyncOnly /\ Sync!Next
    \/ LevelsOnly /\ Level!Next

Spec == Init /\ [][Next]_vars

-----------------------------------------------------------------------------
\* Every variable of every component has its type.
TypesOK ==
    /\ which = "days" => Day!TypeOK
    /\ which = "select" => Pick!TypeOK
    /\ which = "outcome" => Result!TypeOK
    /\ which = "tables" => Table!TypeOK
    /\ which = "book" => Book!TypeOK
    /\ which = "walk" => Walk!TypeOK
    /\ which = "history" => History!TypeOK
    /\ which = "series" => Series!TypeOK
    /\ which = "sync" => Sync!TypeOK
    /\ which = "levels" => Level!TypeOK

\* Nothing that is said of a moment depends on what came after it.  A 09:45 decision learns
\* from earlier days only (Decision945), and within its window the walk-forward direction
\* of a day does not change with that day's outcome or a later one, in a window that is
\* long enough for its uses (WalkForward); the matches and baselines of a minute are the
\* same whatever follows it (SessionHistory); the major levels are of the days before,
\* whenever in the session they were fetched (Levels).
OnlyThePast ==
    /\ which = "days" => Day!LearnsFromThePast
    /\ which = "walk" => Walk!NoLookAhead /\ Walk!WindowSuffices
    /\ which = "history" => History!OnlyThePast
    /\ which = "levels" => Level!MajorOfThePast

\* What was final stays: a stored decision is never rewritten, by a restart or by a replay
\* with other training records (Decision945), and a settled swing or opening range is never
\* taken back by later minutes (Levels).
FinalStays == Day!DecisionImmutable /\ Level!NoRepaint

\* What is stored is what was computed: a candle table holds every candle worth keeping once,
\* the same by either way to read it (CandleTables); a cached day is whole and of everything
\* that was archived of the day (SessionHistory); a decided day ends with its final outcome
\* and its training record (Decision945).
StoredIsComputed ==
    /\ which = "tables" => Table!TableRoundTrip /\ Table!FrameSame
    /\ which = "history" => History!CacheWhole /\ History!CachedIsFinal
    /\ which = "days" => Day!DayFinished

\* The numbers are the ones their definitions give: the mirror image of a market gets the
\* mirror decision (Select945), an outcome's return lies between its excursions (Outcome945),
\* every traded share is counted on one side and the bid quantity adds up (BookFeatures), an
\* indicator forgets a flat or untraded minute with its window (Indicators), and what is served
\* was fresh and over (IndicatorSync).
ValuesExact ==
    /\ which = "select" => Pick!MirrorImage
    /\ which = "outcome" => Result!ReturnBracketed
    /\ which = "book" => Book!SharesOnce /\ Book!BidQuantityAddsUp
    /\ which = "series" => Series!Forgets
    /\ which = "sync" => Sync!ServedValues

\* Series: ADX is part of the suite that is served (app.py).
AdxServed == which = "series" => Series!AdxServed

\* What a folder of states and a loading thread may be.
StoredFolders == [part : [1 .. Parts -> {None, Torn} \cup 0 .. MinuteCount], complete : BOOLEAN]
Loadings == [day : History!Days, of : 0 .. MinuteCount, next : 0 .. (Parts + 2), open : {None, "tmp", "folder"}]

\* The constants are ones the code can have.
ASSUME DaysAssumption ==
    LastTradingDay \in Nat \ {0} /\ None \notin Nat /\ None # Empty /\ \A M \in SUBSET Day!Days : Day!Loaded(M)
ASSUME HistoryAssumption ==
    LastSession \in Nat \ {0} /\ MinuteCount \in Nat \ {0} /\ Written \subseteq 0 .. MinuteCount
ASSUME CacheAssumption ==
    /\ Parts \in Nat /\ None # Torn /\ None \notin {"tmp", "folder"} /\ \A n \in 0 .. MinuteCount : Torn # n
    /\ \A f \in StoredFolders : f # None
    /\ \A l \in Loadings : l # None
ASSUME OutcomeAssumption ==
    /\ Horizons \subseteq Nat \ {0} /\ EntryWithin \in Nat \ {0}
    /\ \E l \in Horizons \cup {EntryWithin} : \A h \in Horizons \cup {EntryWithin} : l >= h
    /\ \A c \in OutcomeCandles :
           /\ c.open \in Int /\ c.high \in Int /\ c.low \in Int /\ c.close \in Int
           /\ c.low <= c.close /\ c.close <= c.high
ASSUME SelectAssumption ==
    IsFiniteSet(Stocks) /\ Stocks = 1 .. Cardinality(Stocks) /\ \A p \in Predictions : p # None => Pick!Against(p) # None
ASSUME TableAssumption ==
    /\ DayLen \in Nat \ {0} /\ Open \in Int /\ CloseMinute \in Int /\ MaxSpan \in Nat \ {0} /\ MaxRows \in Nat
    /\ Wanted \in SUBSET Int /\ Wanted # {} /\ \E a, b \in Wanted : Wanted \subseteq a .. b
    /\ \A c \in TableCandles :
           DOMAIN c = 1 .. 6 /\ c[1] \in 0 .. (DayLen - 1) /\ \A i \in 2 .. 6 : c[i] \in Int \cup {NaN}
ASSUME BookAssumption ==
    /\ \A k \in Books : k.bp \in Int /\ k.ap \in Int /\ k.bq \in Int /\ k.aq \in Int
    /\ Prices \subseteq Int /\ Volumes \subseteq Nat /\ None \notin Int /\ MaxPackets \in Nat
    /\ \A p \in Book!Packets : p # None
ASSUME WalkAssumption ==
    /\ MaxDays \in Nat
    /\ TrainWindow \in Nat /\ CalibrationMin \in Nat /\ V2MinTrain \in Nat /\ V1MinPicks \in Nat /\ CompareMin \in Nat
    /\ V2MinTrain <= TrainWindow /\ V1MinPicks <= TrainWindow + 2 * CalibrationMin
    /\ V2MinTrain + CompareMin <= TrainWindow + 2 * CalibrationMin
ASSUME SeriesAssumption ==
    /\ {Fast, Slow, Signal, Ema, Smooth, D, Roc, Momentum, Super} \subseteq Nat \ {0}
    /\ Wilder \in Nat \ {0, 1} /\ Window \in Nat /\ Wilder <= Window /\ Fast <= Slow /\ MaxBars \in Nat
ASSUME SyncAssumption == LastSyncMinute \in Nat \ {0} /\ MaxSyncFaults \in Nat
ASSUME LevelsAssumption ==
    /\ LastMinute \in Nat /\ BarMinutes \in Nat \ {0} /\ OpeningMinutes \in Nat /\ SideBars \in Nat
    /\ LevelPrices \subseteq Int /\ MaxDailyFailures \in Nat

-----------------------------------------------------------------------------
(* The decisions.                                                            *)

DayTypes ==
    /\ dDay \in Day!Days /\ dArchive \subseteq Day!Days /\ dTraining \subseteq Day!Days
    /\ dDecision = [d \in Day!Days |-> dDecision[d]] /\ dReplayed = [d \in Day!Days |-> dReplayed[d]]
\* What is about to be stored, and what is, was learnt from earlier days, and a file is filled
\* only while it is empty.
DecisionInv ==
    /\ DayTypes
    /\ dPc \in {"create", "write"} => dMade \subseteq 1 .. (dDay - 1)
    /\ dPc = "write" => dDecision[dDay] = Empty
    /\ Day!LearnsFromThePast

\* The training records of the days before d are of days before d.
LEMMA Earlier ==
    ASSUME DayTypes, NEW d \in Day!Days
    PROVE  Day!load_training(d) \subseteq 1 .. (d - 1)
BY DEF DayTypes, Day!load_training, Day!Days

LEMMA DecisionsSteady == DecisionInv /\ [Day!Next]_(Day!vars) => DecisionInv'
<1> SUFFICES ASSUME DecisionInv, [Day!Next]_(Day!vars) PROVE DecisionInv'
  OBVIOUS
<1> USE DEF Day!live, Day!tool
<1>0. DayTypes /\ Day!LearnsFromThePast
  BY DEF DecisionInv
\* A step that stores nothing.
<1>1. ASSUME UNCHANGED <<dDecision, dReplayed>>, dDay' \in Day!Days, dArchive' \subseteq Day!Days, dTraining' \subseteq Day!Days,
             dPc' \in {"create", "write"} =>
                 dMade' \subseteq 1 .. (dDay' - 1) /\ (dPc' = "write" => dDecision[dDay'] = Empty)
      PROVE  DecisionInv'
  <2>1. DayTypes'
    BY <1>0, <1>1 DEF DayTypes
  <2>2. Day!LearnsFromThePast'
    BY <1>0, <1>1 DEF Day!LearnsFromThePast, Day!Loaded
  <2> QED BY <1>1, <2>1, <2>2 DEF DecisionInv
<1>2. CASE Day!run_945
  <2>1. dMade' \subseteq 1 .. (dDay - 1)
    BY <1>0, <1>2, Earlier DEF Day!run_945, DayTypes
  <2>2. dPc' # "write" /\ UNCHANGED <<dDay, dArchive, dTraining, dDecision, dReplayed>>
    BY <1>2 DEF Day!run_945
  <2> QED BY <1>0, <1>1, <2>1, <2>2 DEF DayTypes
<1>3. CASE Day!Create
  <2>1. CASE Day!Exclusive(dDecision[dDay])
    <3>1. dPc = "create" /\ dPc' = "write" /\ dDecision' = [dDecision EXCEPT ![dDay] = Empty]
          /\ UNCHANGED <<dDay, dArchive, dTraining, dMade, dReplayed>>
      BY <1>3, <2>1 DEF Day!Create
    <3>2. dDecision'[dDay] = Empty /\ \A d \in Day!Days \ {dDay} : dDecision'[d] = dDecision[d]
      BY <1>0, <3>1 DEF DayTypes
    <3>3. DayTypes'
      BY <1>0, <3>1 DEF DayTypes
    <3>4. Day!LearnsFromThePast'
      BY <1>0, <3>1, <3>2 DEF Day!LearnsFromThePast, Day!Loaded
    <3> QED BY <3>1, <3>2, <3>3, <3>4 DEF DecisionInv
  <2>2. CASE ~Day!Exclusive(dDecision[dDay])
    <3>1. dPc' = "idle" /\ UNCHANGED <<dDay, dArchive, dTraining, dDecision, dReplayed>>
      BY <1>3, <2>2 DEF Day!Create
    <3> QED BY <1>0, <1>1, <3>1 DEF DayTypes
  <2> QED BY <2>1, <2>2
<1>4. CASE Day!Write
  <2>1. dPc = "write" /\ dPc' = "idle" /\ dDecision' = [dDecision EXCEPT ![dDay] = dMade]
        /\ UNCHANGED <<dDay, dArchive, dTraining, dMade, dReplayed>>
    BY <1>4 DEF Day!Write
  <2>2. dDecision'[dDay] = dMade /\ \A d \in Day!Days \ {dDay} : dDecision'[d] = dDecision[d]
    BY <1>0, <2>1 DEF DayTypes
  <2>3. dMade \subseteq 1 .. (dDay - 1)
    BY <2>1 DEF DecisionInv
  <2>4. DayTypes'
    BY <1>0, <2>1 DEF DayTypes
  <2>5. Day!LearnsFromThePast'
    BY <1>0, <2>1, <2>2, <2>3 DEF Day!LearnsFromThePast, Day!Loaded
  <2> QED BY <2>1, <2>4, <2>5 DEF DecisionInv
<1>5. CASE Day!ReplayDay
  <2>1. dAt \in dArchive /\ dReplayed' = (IF Day!Judged(dAt) THEN [dReplayed EXCEPT ![dAt] = Day!load_training(dAt)] ELSE dReplayed)
        /\ dTraining' = dTraining \cup {dAt} /\ UNCHANGED <<dDay, dArchive, dDecision, dPc, dMade>>
    BY <1>5 DEF Day!ReplayDay
  <2>2. dAt \in Day!Days
    BY <1>0, <2>1 DEF DayTypes
  <2>3. Day!load_training(dAt) \subseteq 1 .. (dAt - 1)
    BY <1>0, <2>2, Earlier
  <2>4. \A d \in Day!Days : dReplayed'[d] = dReplayed[d] \/ (d = dAt /\ dReplayed'[d] = Day!load_training(dAt))
    BY <1>0, <2>1, <2>2 DEF DayTypes
  <2>5. DayTypes'
    BY <1>0, <2>1, <2>2 DEF DayTypes
  <2>6. Day!LearnsFromThePast'
    BY <1>0, <2>1, <2>3, <2>4 DEF Day!LearnsFromThePast, Day!Loaded
  <2> QED BY <2>1, <2>5, <2>6 DEF DecisionInv
<1>6. CASE Day!Training
  BY <1>0, <1>1, <1>6 DEF Day!Training, DayTypes
<1>7. CASE Day!Provisional \/ Day!finalise_945 \/ Day!Outcome \/ Day!Mark \/ Day!Kill \/ Day!Restart
  <2>1. dPc' \notin {"create", "write"} /\ UNCHANGED <<dDay, dArchive, dTraining, dDecision, dReplayed>>
    BY <1>7 DEF Day!Provisional, Day!finalise_945, Day!Outcome, Day!Mark, Day!Kill, Day!Restart
  <2> QED BY <1>0, <1>1, <2>1 DEF DayTypes
<1>8. CASE Day!reconstruct \/ Day!ReplayEnds \/ Day!Archived \/ UNCHANGED Day!vars
  <2>1. dArchive' \subseteq Day!Days
    BY <1>0, <1>8 DEF Day!reconstruct, Day!ReplayEnds, Day!Archived, Day!vars, DayTypes
  <2>2. UNCHANGED <<dDay, dTraining, dDecision, dReplayed, dPc, dMade>>
    BY <1>8 DEF Day!reconstruct, Day!ReplayEnds, Day!Archived, Day!vars
  <2> QED BY <1>0, <1>1, <2>1, <2>2 DEF DayTypes, DecisionInv
<1>9. CASE Day!Advance
  <2>1. dPc \notin {"create", "write"} /\ dDay' \in {dDay, dDay + 1} /\ (dDay' # dDay => dDay < LastTradingDay)
        /\ UNCHANGED <<dArchive, dTraining, dDecision, dReplayed, dPc, dMade>>
    BY <1>9 DEF Day!Advance, Day!Settled
  <2>2. dDay' \in Day!Days
    BY <1>0, <2>1, DaysAssumption DEF DayTypes, Day!Days
  <2> QED BY <1>0, <1>1, <2>1, <2>2 DEF DayTypes
<1> QED BY <1>2, <1>3, <1>4, <1>5, <1>6, <1>7, <1>8, <1>9 DEF Day!Next, Day!Service

LEMMA DecisionsHeld == Spec => []DecisionInv
<1>1. Init => DecisionInv
  BY DaysAssumption DEF Init, Day!Init, DecisionInv, DayTypes, Day!LearnsFromThePast, Day!Loaded, Day!Days
<1>2. [Next]_vars => [Day!Next]_(Day!vars)
  BY DEF Next, vars, dVars, DaysOnly, SelectOnly, OutcomeOnly, TablesOnly, BookOnly, WalkOnly, HistoryOnly,
         SeriesOnly, SyncOnly, LevelsOnly, Day!vars, Day!live, Day!tool
<1> QED BY <1>1, <1>2, DecisionsSteady, PTL DEF Spec

\* A decision that was stored is never rewritten.
LEMMA DecisionsStay == Spec => Day!DecisionImmutable
<1>1. DecisionInv /\ [Next]_vars =>
          [\A d \in Day!Days : /\ Day!Loaded(dDecision[d]) => dDecision'[d] = dDecision[d]
                               /\ Day!Loaded(dReplayed[d]) => dReplayed'[d] = dReplayed[d]]_(Day!vars)
  <2> SUFFICES ASSUME DecisionInv, [Next]_vars, Day!Next
               PROVE  \A d \in Day!Days : /\ Day!Loaded(dDecision[d]) => dDecision'[d] = dDecision[d]
                                          /\ Day!Loaded(dReplayed[d]) => dReplayed'[d] = dReplayed[d]
    BY DEF Next, vars, dVars, DaysOnly, SelectOnly, OutcomeOnly, TablesOnly, BookOnly, WalkOnly, HistoryOnly,
         SeriesOnly, SyncOnly, LevelsOnly, Day!vars, Day!live, Day!tool
  <2> USE DEF Day!live, Day!tool
  <2>0. DayTypes
    BY DEF DecisionInv
  <2>1. CASE Day!Create
    BY <2>0, <2>1 DEF Day!Create, Day!Exclusive, Day!Loaded, DayTypes
  <2>2. CASE Day!Write
    <3>1. dDecision[dDay] = Empty /\ dDecision' = [dDecision EXCEPT ![dDay] = dMade] /\ dReplayed' = dReplayed
      BY <2>2 DEF Day!Write, DecisionInv
    <3> QED BY <2>0, <3>1 DEF Day!Loaded, DayTypes
  <2>3. CASE Day!ReplayDay
    <3>1. /\ ~(Day!Judged(dAt) /\ Day!Conflict(dAt)) /\ dDecision' = dDecision
          /\ dReplayed' = IF Day!Judged(dAt) THEN [dReplayed EXCEPT ![dAt] = Day!load_training(dAt)] ELSE dReplayed
      BY <2>3 DEF Day!ReplayDay
    <3> QED BY <2>0, <3>1 DEF Day!Conflict, Day!Loaded, DayTypes
  <2>4. CASE ~Day!Create /\ ~Day!Write /\ ~Day!ReplayDay
    <3>1. UNCHANGED <<dDecision, dReplayed>>
      BY <2>4 DEF Day!Next, Day!Service, Day!run_945, Day!Provisional, Day!finalise_945, Day!Outcome, Day!Training,
         Day!Mark, Day!Kill, Day!Restart, Day!reconstruct, Day!ReplayEnds, Day!Archived, Day!Advance
    <3> QED BY <3>1
  <2> QED BY <2>1, <2>2, <2>3, <2>4
<1> QED BY <1>1, DecisionsHeld, PTL DEF Spec, Day!DecisionImmutable

-----------------------------------------------------------------------------
(* What is remembered of earlier sessions.                                   *)

HistoryInv ==
    /\ hRows \in [History!Days -> 0 .. MinuteCount] /\ hToday \in History!Days

LEMMA HistorySteady == HistoryInv /\ [History!Next]_(History!vars) => HistoryInv'
<1> SUFFICES ASSUME HistoryInv, [History!Next]_(History!vars) PROVE HistoryInv'
  OBVIOUS
<1>1. CASE \E n \in Written : History!Archived(n)
  <2>1. PICK n \in Written : hRows' = [hRows EXCEPT ![hToday] = n] /\ hToday' = hToday
    BY <1>1 DEF History!Archived
  <2> QED BY <2>1, HistoryAssumption DEF HistoryInv
<1>2. CASE \E d \in History!Days : History!Bootstrapped(d)
  <2>1. PICK d \in History!Days : hRows' = [hRows EXCEPT ![d] = MinuteCount] /\ hToday' = hToday
    BY <1>2 DEF History!Bootstrapped
  <2> QED BY <2>1, HistoryAssumption DEF HistoryInv
<1>3. CASE History!NextDay
  <2>1. hToday < LastSession /\ hToday' = hToday + 1 /\ hRows' = hRows
    BY <1>3 DEF History!NextDay
  <2> QED BY <2>1, HistoryAssumption DEF HistoryInv, History!Days
<1>4. CASE \/ History!build_baselines \/ History!Close \/ History!Killed \/ History!warm_similarity \/ History!Search
           \/ (\E k \in History!Threads : \/ History!Mkdir(k) \/ History!OpenPart(k) \/ History!ClosePart(k)
                                          \/ History!Mark(k) \/ History!Rename(k))
           \/ UNCHANGED History!vars
  <2>1. UNCHANGED <<hRows, hToday>>
    BY <1>4 DEF History!build_baselines, History!Close, History!Killed, History!warm_similarity, History!Search,
       History!Begin, History!Mkdir, History!OpenPart, History!ClosePart, History!Mark, History!Rename, History!vars
  <2> QED BY <2>1 DEF HistoryInv
<1> QED BY <1>1, <1>2, <1>3, <1>4 DEF History!Next

LEMMA HistoryHeld == Spec => []HistoryInv
<1>1. Init => HistoryInv
  BY HistoryAssumption DEF Init, History!Init, HistoryInv, History!Days
<1>2. [Next]_vars => [History!Next]_(History!vars)
  BY DEF Next, vars, hVars, DaysOnly, SelectOnly, OutcomeOnly, TablesOnly, BookOnly, WalkOnly, HistoryOnly,
         SeriesOnly, SyncOnly, LevelsOnly, History!vars, History!cache
<1> QED BY <1>1, <1>2, HistorySteady, PTL DEF Spec

\* A day as it is up to a minute of today, and as another day from there on.
Changed(m) ==
    [d \in History!Days |->
        IF d < hToday THEN Recorded[d]
        ELSE [i \in 1 .. MinuteCount |-> IF d = hToday /\ i <= m THEN Recorded[d][i] ELSE OtherDay[i]]]

\* A minute is matched by what it was up to it and by the sessions before it.
LEMMA MatchesPast ==
    ASSUME HistoryInv, NEW m \in 1 .. hRows[hToday], NEW kept
    PROVE  History!Matches(Recorded, hToday, m, kept) = History!Matches(Changed(m), hToday, m, kept)
<1> DEFINE now == Changed(m)
           sessions == History!_earlier_sessions(hRows, hToday, Lookback)
           states(content) == [s \in sessions |-> History!state_series(content[s], History!StatesOf(s))]
           outcomes(content) == [s \in sessions |-> History!_forward_return(content[s], History!StatesOf(s))]
           query(content) == History!state_series(content[hToday], m)[m]
<1>1. \A s \in sessions : now[s] = Recorded[s]
  <2>1. \A s \in sessions : s \in History!Days /\ s < hToday
    BY DEF History!_earlier_sessions, History!Last, History!session_days, History!available_days
  <2> QED BY <2>1 DEF Changed
<1>2. states(now) = states(Recorded) /\ outcomes(now) = outcomes(Recorded)
  BY <1>1
<1>3. query(now) = query(Recorded)
  <2>1. m \in Nat /\ 1 <= m /\ m <= MinuteCount /\ hToday \in History!Days
    BY HistoryAssumption DEF HistoryInv
  <2>2. \A i \in 1 .. m : now[hToday][i] = Recorded[hToday][i]
    <3>1. \A i \in 1 .. m : i \in 1 .. MinuteCount /\ i <= m
      BY <2>1, HistoryAssumption
    <3>2. ~(hToday < hToday)
      BY <2>1, HistoryAssumption DEF History!Days
    <3> QED BY <2>1, <3>1, <3>2 DEF Changed
  <2>3. m \in 1 .. m /\ 1 \in 1 .. m /\ (m > 1 => m - 1 \in 1 .. m)
    BY <2>1
  <2> QED BY <2>2, <2>3 DEF History!state_series
<1> HIDE DEF now, sessions
<1> QED BY <1>2, <1>3 DEF History!Matches, sessions, now

\* So is its baseline.
LEMMA BaselinesPast ==
    ASSUME HistoryInv, NEW m
    PROVE  History!lookup(Recorded, hToday, m) = History!lookup(Changed(m), hToday, m)
<1> DEFINE now == Changed(m)
           sessions == History!BaselineSessions(hRows, hToday)
           field(content) == [s \in sessions |-> History!summarise_day(content[s], History!load_summary(s))]
<1>1. \A s \in sessions : now[s] = Recorded[s]
  <2>1. \A s \in sessions : s \in History!Days /\ s < hToday
    BY DEF History!BaselineSessions, History!_earlier_sessions, History!Last, History!session_days, History!available_days
  <2> QED BY <2>1 DEF Changed
<1>2. field(now) = field(Recorded)
  BY <1>1
<1> HIDE DEF now, sessions
<1> QED BY <1>2 DEF History!lookup, sessions, now

LEMMA MatchesOfThePast == Spec => []History!OnlyThePast
<1>1. HistoryInv => History!OnlyThePast
  <2> SUFFICES ASSUME HistoryInv, NEW m \in 1 .. hRows[hToday]
               PROVE  /\ History!market_matches(Recorded, hToday, m) = History!market_matches(Changed(m), hToday, m)
                      /\ History!instrument_matches(Recorded, hToday, m) = History!instrument_matches(Changed(m), hToday, m)
                      /\ History!lookup(Recorded, hToday, m) = History!lookup(Changed(m), hToday, m)
    BY DEF History!OnlyThePast, Changed
  <2> QED BY MatchesPast, BaselinesPast DEF History!market_matches, History!instrument_matches
<1> QED BY <1>1, HistoryHeld, PTL

-----------------------------------------------------------------------------
(* How a decision learns.                                                    *)

LEMMA WalkHeld == Spec => [](wDays \in Seq(Walk!TrainingDays))
<1>1. Init => wDays \in Seq(Walk!TrainingDays)
  BY DEF Init, Walk!Init
<1>2. [Next]_vars => [Walk!Next]_wDays
  BY DEF Next, vars, wVars, DaysOnly, SelectOnly, OutcomeOnly, TablesOnly, BookOnly, WalkOnly, HistoryOnly,
         SeriesOnly, SyncOnly, LevelsOnly
<1>3. wDays \in Seq(Walk!TrainingDays) /\ [Walk!Next]_wDays => (wDays \in Seq(Walk!TrainingDays))'
  BY DEF Walk!Next, Walk!save_training
<1> QED BY <1>1, <1>2, <1>3, PTL DEF Spec

\* The size that the module takes is the library's.
LEMMA WalkCardinality == \A S : Walk!Cardinality(S) = Cardinality(S)
BY DEF Walk!Cardinality, Cardinality

\* The days fitted for day j are the last ones before it.
LEMMA FittedAre ==
    ASSUME NEW j \in Nat \ {0}
    PROVE  /\ Walk!Fitted(j) = (IF j - TrainWindow > 1 THEN j - TrainWindow ELSE 1) .. (j - 1)
           /\ Walk!Fitted(j) \subseteq 1 .. (j - 1)
           /\ Cardinality(Walk!Fitted(j)) = IF j - 1 < TrainWindow THEN j - 1 ELSE TrainWindow
<1>0. TrainWindow \in Nat
  BY WalkAssumption
<1>1. PICK a : a = IF j - TrainWindow > 1 THEN j - TrainWindow ELSE 1
  OBVIOUS
<1>2. a \in Int /\ a >= 1 /\ a \in {1, j - TrainWindow} /\ \A y \in {1, j - TrainWindow} : a >= y
  BY <1>0, <1>1
<1>3. \A x \in {1, j - TrainWindow} : (\A y \in {1, j - TrainWindow} : x >= y) => x = a
  BY <1>0, <1>2
<1>4. Walk!Max({1, j - TrainWindow}) = a
  BY <1>2, <1>3 DEF Walk!Max
<1>5. Walk!Fitted(j) = a .. (j - 1)
  BY <1>4 DEF Walk!Fitted
<1>6. Cardinality(a .. (j - 1)) = IF a > j - 1 THEN 0 ELSE (j - 1) - a + 1
  BY <1>2, FS_Interval
<1> QED BY <1>0, <1>1, <1>2, <1>5, <1>6

\* A fit does not change with what its days do not hold.
LEMMA FitsAgree ==
    ASSUME NEW S, NEW p, NEW q, \A k \in S : p[k] = q[k]
    PROVE  Walk!fit_ridge(p, S) = Walk!fit_ridge(q, S)
<1> DEFINE Term(r, k) == IF r[k].usable THEN r[k].feature * r[k].outcome ELSE 0
           Fold(r, iter) == [s \in SUBSET S |->
               IF s = {} THEN 0 ELSE LET x == CHOOSE x \in s : TRUE IN Term(r, x) + iter[s \ {x}]]
<1>1. \A s \in SUBSET S : s # {} => (CHOOSE x \in s : TRUE) \in S
  OBVIOUS
<1>2. \A iter : Fold(p, iter) = Fold(q, iter)
  <2> TAKE iter
  <2>1. \A k \in S : Term(p, k) = Term(q, k)
    OBVIOUS
  <2> HIDE DEF Term
  <2> QED BY <1>1, <2>1
<1>3. (CHOOSE iter : iter = Fold(p, iter)) = (CHOOSE iter : iter = Fold(q, iter))
  <2> HIDE DEF Fold
  <2> QED BY <1>2, Zenon
<1> DEFINE Total(f) == IF Walk!Cardinality(S) < V2MinTrain THEN 0 ELSE f[S]
<1>4. Walk!fit_ridge(p, S) = Total(CHOOSE iter : iter = Fold(p, iter))
  BY DEF Walk!fit_ridge, Walk!Sum, Walk!MapThenSumSet, Walk!MapThenFoldSet
<1>5. Walk!fit_ridge(q, S) = Total(CHOOSE iter : iter = Fold(q, iter))
  BY DEF Walk!fit_ridge, Walk!Sum, Walk!MapThenSumSet, Walk!MapThenFoldSet
<1> HIDE DEF Fold, Total
<1> QED BY <1>3, <1>4, <1>5, Zenon

\* The days a decision keeps are training days; they are all of them or the last ones.
LEMMA Keeps ==
    ASSUME wDays \in Seq(Walk!TrainingDays)
    PROVE  /\ Walk!Trimmed(wDays) \in Seq(Walk!TrainingDays)
           /\ Len(wDays) >= TrainWindow + 2 * CalibrationMin =>
                  Len(Walk!Trimmed(wDays)) = TrainWindow + 2 * CalibrationMin
<1>1. PICK n : n = TrainWindow + 2 * CalibrationMin
  OBVIOUS
<1>2. n \in Nat /\ Len(wDays) \in Nat
  BY <1>1, WalkAssumption
<1>3. Walk!Trimmed(wDays) = IF Len(wDays) <= n THEN wDays ELSE SubSeq(wDays, Len(wDays) - n + 1, Len(wDays))
  BY <1>1 DEF Walk!Trimmed, Walk!Last
<1>4. CASE Len(wDays) <= n
  BY <1>1, <1>2, <1>3, <1>4
<1>5. CASE ~(Len(wDays) <= n)
  <2>1. PICK a, b : a = Len(wDays) - n + 1 /\ b = Len(wDays)
    OBVIOUS
  <2>2. a \in Int /\ b \in Int /\ a >= 1 /\ \A i \in a .. b : wDays[i] \in Walk!TrainingDays
    BY <1>2, <1>5, <2>1
  <2>3. SubSeq(wDays, a, b) \in Seq(Walk!TrainingDays) /\ Len(SubSeq(wDays, a, b)) = IF a <= b THEN b - a + 1 ELSE 0
    BY <2>2, SubSeqProperties
  <2>4. Len(SubSeq(wDays, a, b)) = n
    BY <1>2, <1>5, <2>1, <2>3
  <2> QED BY <1>1, <1>3, <1>5, <2>1, <2>3, <2>4
<1> QED BY <1>4, <1>5

\* The direction picked for a day does not change with its outcome or a later one.
LEMMA DirectionOfThePast ==
    ASSUME NEW p \in Seq(Walk!TrainingDays), NEW j \in Walk!V2Picks(p)
    PROVE  Walk!Direction(p, j) = Walk!Direction(Walk!Turned(p, j), j)
<1>1. PICK q : q = Walk!Turned(p, j)
  OBVIOUS
<1>2. j \in 1 .. Len(p) /\ j \in Nat \ {0} /\ Len(p) \in Nat /\ p[j] \in Walk!TrainingDays
  BY DEF Walk!V2Picks, Walk!V1Picks
<1>3. q[j] = [p[j] EXCEPT !.outcome = -@]
  BY <1>1, <1>2 DEF Walk!Turned
<1>4. q[j].feature = p[j].feature
  BY <1>2, <1>3 DEF Walk!TrainingDays
<1>5. \A k \in Walk!Fitted(j) : p[k] = q[k]
  <2>1. \A k \in 1 .. (j - 1) : k \in 1 .. Len(p) /\ k < j
    BY <1>2
  <2> QED BY <1>1, <1>2, <2>1, FittedAre DEF Walk!Turned
<1>6. Walk!fit_ridge(p, Walk!Fitted(j)) = Walk!fit_ridge(q, Walk!Fitted(j))
  BY <1>5, FitsAgree
<1>7. Walk!Prediction(p, j) = Walk!Prediction(q, j)
  BY <1>4, <1>6 DEF Walk!Prediction
<1> QED BY <1>1, <1>7 DEF Walk!Direction

\* The days a full window leaves to the models.
LEMMA WindowLeaves ==
    ASSUME NEW p \in Seq(Walk!TrainingDays), Len(p) = TrainWindow + 2 * CalibrationMin, Walk!V1Picks(p) = 1 .. Len(p)
    PROVE  /\ Walk!Cardinality(Walk!V1Picks(p)) >= V1MinPicks
           /\ Walk!Cardinality(Walk!V2Picks(p)) >= CalibrationMin
           /\ Walk!Cardinality(Walk!V2Picks(p)) >= CompareMin
<1>0. /\ TrainWindow \in Nat /\ CalibrationMin \in Nat /\ V2MinTrain \in Nat /\ V1MinPicks \in Nat /\ CompareMin \in Nat
      /\ V2MinTrain <= TrainWindow /\ V1MinPicks <= TrainWindow + 2 * CalibrationMin
      /\ V2MinTrain + CompareMin <= TrainWindow + 2 * CalibrationMin
  BY WalkAssumption
<1>1. PICK n : n = TrainWindow + 2 * CalibrationMin
  OBVIOUS
<1>2. n \in Nat /\ Len(p) = n
  BY <1>0, <1>1
<1>3. Cardinality(1 .. n) = n /\ IsFiniteSet(1 .. n)
  BY <1>2, FS_Interval
<1>4. Walk!Cardinality(Walk!V1Picks(p)) = n
  BY <1>2, <1>3, WalkCardinality
<1>a. PICK v : v = V2MinTrain + 1
  OBVIOUS
<1>b. v \in Int /\ v >= 1 /\ V2MinTrain = v - 1 /\ v <= n + 1
  BY <1>0, <1>1, <1>2, <1>a
<1>5. \A j \in v .. n : j \in Walk!V2Picks(p)
  <2> SUFFICES ASSUME NEW j \in v .. n
               PROVE  j \in Walk!V2Picks(p)
    OBVIOUS
  <2>1. j \in 1 .. n /\ j \in Nat \ {0} /\ j - 1 >= V2MinTrain
    BY <1>2, <1>b
  <2>2. Cardinality(Walk!Fitted(j)) >= V2MinTrain
    BY <1>0, <2>1, FittedAre
  <2>3. Walk!Cardinality(Walk!Fitted(j)) >= V2MinTrain
    BY <2>2, WalkCardinality
  <2> QED BY <1>2, <2>1, <2>3 DEF Walk!V2Picks
<1>6. Walk!V2Picks(p) \subseteq 1 .. n
  BY <1>2 DEF Walk!V2Picks
<1>7. Cardinality(v .. n) = n - V2MinTrain
  <2>1. Cardinality(v .. n) = IF v > n THEN 0 ELSE n - v + 1
    BY <1>2, <1>b, FS_Interval
  <2> QED BY <1>0, <1>2, <1>b, <2>1
<1>8. Cardinality(v .. n) <= Cardinality(Walk!V2Picks(p)) /\ Cardinality(Walk!V2Picks(p)) \in Nat
  <2>1. IsFiniteSet(Walk!V2Picks(p))
    BY <1>3, <1>6, FS_Subset
  <2> QED BY <1>5, <2>1, FS_Subset, FS_CardinalityType
<1>9. Walk!Cardinality(Walk!V2Picks(p)) = Cardinality(Walk!V2Picks(p))
  BY WalkCardinality
<1> QED BY <1>0, <1>1, <1>4, <1>7, <1>8, <1>9

LEMMA DirectionsOfThePast == Spec => [](Walk!NoLookAhead /\ Walk!WindowSuffices)
<1>1. wDays \in Seq(Walk!TrainingDays) => Walk!NoLookAhead
  BY Keeps, DirectionOfThePast DEF Walk!NoLookAhead
<1>2. wDays \in Seq(Walk!TrainingDays) => Walk!WindowSuffices
  <2> SUFFICES ASSUME wDays \in Seq(Walk!TrainingDays), NEW kept, kept = Walk!Trimmed(wDays),
                      Len(wDays) >= TrainWindow + 2 * CalibrationMin, Walk!V1Picks(kept) = 1 .. Len(kept)
               PROVE  /\ Walk!decide(wDays).enough
                      /\ Walk!Cardinality(Walk!V1Picks(kept)) >= V1MinPicks
                      /\ Walk!Cardinality(Walk!V2Picks(kept)) >= Walk!Max({CalibrationMin, CompareMin})
    BY DEF Walk!WindowSuffices, Walk!decide
  <2>1. kept \in Seq(Walk!TrainingDays) /\ Len(kept) = TrainWindow + 2 * CalibrationMin
    BY Keeps
  <2>2. /\ Walk!Cardinality(Walk!V1Picks(kept)) >= V1MinPicks
        /\ Walk!Cardinality(Walk!V2Picks(kept)) >= CalibrationMin
        /\ Walk!Cardinality(Walk!V2Picks(kept)) >= CompareMin
    BY <2>1, WindowLeaves
  <2>3. Walk!Max({CalibrationMin, CompareMin}) \in {CalibrationMin, CompareMin}
    <3>1. \E x \in {CalibrationMin, CompareMin} : \A y \in {CalibrationMin, CompareMin} : x >= y
      BY WalkAssumption
    <3> QED BY <3>1 DEF Walk!Max
  <2>4. Walk!decide(wDays).enough
    BY <2>2 DEF Walk!decide
  <2> QED BY <2>2, <2>3, <2>4
<1> QED BY <1>1, <1>2, WalkHeld, PTL
-----------------------------------------------------------------------------
(* Levels.                                                                   *)

\* A non-empty set of naturals has a least element.
LEMMA LeastNatural ==
    ASSUME NEW S \in SUBSET Nat, S # {}
    PROVE  \E p \in S : \A i \in S : p <= i
<1> DEFINE R == OpToRel(<, Nat)
<1>1. IsWellFoundedOn(R, Nat)
  BY NatLessThanWellFounded
<1>2. PICK p \in S : \A i \in S : <<i, p>> \notin R
  <2> HIDE DEF R
  <2> QED BY <1>1, WFMin
<1>3. ASSUME NEW i \in S PROVE p <= i
  <2>1. ~(i < p)
    BY <1>2 DEF OpToRel
  <2> QED BY <2>1
<1> QED BY <1>3

\* The daily bars, oldest first.
LEMMA DailyRows ==
    \E T : DailyBars \in Seq(T) /\ \A i \in 1 .. Len(DailyBars) : DailyBars[i].day = i
<1>1. PICK b1, b2, b3 : DailyBars = <<b1, b2, b3>> /\ b1.day = 1 /\ b2.day = 2 /\ b3.day = 3
  <2>1. \A d, w, m, h, l, c : DayBar(d, w, m, h, l, c).day = d
    BY DEF DayBar
  <2> QED BY <2>1 DEF DailyBars
<1>2. <<b1, b2, b3>> \in Seq({b1, b2, b3}) /\ Len(<<b1, b2, b3>>) = 3
  OBVIOUS
<1>3. \A i \in 1 .. 3 : <<b1, b2, b3>>[i].day = i
  BY <1>1
<1> QED BY <1>1, <1>2, <1>3

\* The daily bars before today, whether or not the answer has today's.
LEMMA RowsBefore ==
    ASSUME NEW T, DailyBars \in Seq(T), \A i \in 1 .. Len(DailyBars) : DailyBars[i].day = i,
           NEW rs, rs = DailyBars \/ \E x : x.day = Len(DailyBars) + 1 /\ rs = DailyBars \o <<x>>
    PROVE  Level!daily_rows_before(rs) = DailyBars
<1>1. PICK m, l, ds : m = Len(rs) /\ l = Len(DailyBars) /\ ds = DailyBars
  OBVIOUS
<1>2. /\ ds \in Seq(T) /\ l = Len(ds) /\ l \in Nat /\ m \in {l, l + 1}
      /\ \A i \in 1 .. l : rs[i] = ds[i] /\ rs[i].day = i
      /\ m = l + 1 => rs[l + 1].day = l + 1
  <2>1. CASE rs = DailyBars
    BY <1>1, <2>1
  <2>2. CASE \E x : x.day = Len(DailyBars) + 1 /\ rs = DailyBars \o <<x>>
    <3>1. PICK x : x.day = l + 1 /\ rs = ds \o <<x>>
      BY <1>1, <2>2
    <3>2. PICK xs : xs = <<x>>
      OBVIOUS
    <3>3. Len(xs) = 1 /\ xs[1] = x /\ xs \in Seq({x})
      BY <3>2
    <3>4. ds \in Seq(T \cup {x}) /\ xs \in Seq(T \cup {x})
      <4>1. {x} \subseteq T \cup {x}
        OBVIOUS
      <4> QED BY <1>1, <3>3, <4>1, SeqMonotonic
    <3>5. /\ Len(rs) = Len(ds) + Len(xs)
          /\ \A i \in 1 .. (Len(ds) + Len(xs)) : rs[i] = IF i <= Len(ds) THEN ds[i] ELSE xs[i - Len(ds)]
      BY <3>1, <3>2, <3>4, ConcatProperties
    <3> QED BY <1>1, <3>1, <3>3, <3>5
  <2> QED BY <2>1, <2>2
<1> DEFINE Row(g, n) == IF n = 0 THEN <<>> ELSE IF rs[n].day <= l THEN Append(g[n-1], rs[n]) ELSE g[n-1]
           Unfolds(g) == [n \in 0 .. m |-> Row(g, n)]
           out == CHOOSE g : g = Unfolds(g)
           w == [n \in 0 .. m |-> SubSeq(ds, 1, IF n <= l THEN n ELSE l)]
<1>3. ASSUME NEW n \in 0 .. m PROVE w[n] = Row(w, n)
  <2>1. CASE n = 0
    <3>1. w[n] = SubSeq(ds, 1, 0)
      BY <1>2, <2>1
    <3>2. SubSeq(ds, 1, 0) = <<>>
      BY SubSeqEmpty
    <3> HIDE DEF w
    <3> QED BY <2>1, <3>1, <3>2
  <2>2. CASE n \in 1 .. l
    <3>1. w[n] = SubSeq(ds, 1, n) /\ w[n-1] = SubSeq(ds, 1, n-1)
      BY <1>2, <2>2
    <3>2. SubSeq(ds, 1, n) = SubSeq(ds, 1, n-1) \o <<ds[n]>>
      BY <1>2, <2>2, SubSeqRecursiveSecond
    <3>3. SubSeq(ds, 1, n-1) \in Seq(T) /\ ds[n] \in T
      <4>1. \A i \in 1 .. n - 1 : ds[i] \in T
        BY <1>2, <2>2
      <4> QED BY <1>2, <2>2, <4>1, SubSeqProperties
    <3>4. Append(SubSeq(ds, 1, n-1), ds[n]) = SubSeq(ds, 1, n-1) \o <<ds[n]>>
      BY <3>3, AppendIsConcat
    <3>5. n # 0 /\ rs[n].day <= l /\ rs[n] = ds[n]
      BY <1>2, <2>2
    <3> HIDE DEF w
    <3> QED BY <3>1, <3>2, <3>4, <3>5
  <2>3. CASE n = l + 1
    <3>1. n # 0 /\ ~(rs[n].day <= l) /\ w[n] = SubSeq(ds, 1, l) /\ w[n-1] = SubSeq(ds, 1, l)
      BY <1>2, <2>3
    <3> HIDE DEF w
    <3> QED BY <3>1
  <2> HIDE DEF w, Row
  <2> QED BY <1>2, <2>1, <2>2, <2>3
<1>4. out = Unfolds(out)
  <2>1. w = Unfolds(w)
    <3>1. Unfolds(w) = [n \in 0 .. m |-> w[n]]
      <4> HIDE DEF w, Row
      <4> QED BY <1>3
    <3> HIDE DEF Unfolds
    <3> QED BY <3>1
  <2> HIDE DEF w, Unfolds
  <2> QED BY <2>1
<1>5. PICK f : f = out
  OBVIOUS
<1>6. \A n \in 0 .. m : f[n] = Row(f, n)
  <2>1. f = Unfolds(f)
    BY <1>4, <1>5
  <2> HIDE DEF Row, out
  <2> QED BY <2>1
<1>7. f[m] = w[m]
  <2> DEFINE Bad == {n \in 0 .. m : f[n] # w[n]}
  <2> SUFFICES ASSUME Bad # {} PROVE FALSE
    <3> HIDE DEF w
    <3> QED BY <1>2
  <2>1. Bad \in SUBSET Nat
    BY <1>2
  <2>2. PICK n \in Bad : \A i \in Bad : n <= i
    <3> HIDE DEF Bad
    <3> QED BY <2>1, LeastNatural
  <2>3. n \in 0 .. m /\ f[n] # w[n] /\ (n # 0 => f[n-1] = w[n-1])
    <3> HIDE DEF w
    <3> QED BY <1>2, <2>2
  <2>4. Row(f, n) = Row(w, n)
    <3> HIDE DEF w
    <3> QED BY <2>3
  <2> HIDE DEF w, Row
  <2> QED BY <1>3, <1>6, <2>3, <2>4
<1>8. w[m] = ds
  <2>1. m \in 0 .. m /\ (IF m <= l THEN m ELSE l) = l
    BY <1>2
  <2>2. w[m] = SubSeq(ds, 1, l)
    BY <2>1
  <2> HIDE DEF w
  <2> QED BY <1>2, <2>2, SubSeqFull
<1>9. Level!daily_rows_before(rs) = f[m]
  BY <1>1, <1>5 DEF Level!daily_rows_before
<1> HIDE DEF w
<1> QED BY <1>1, <1>7, <1>8, <1>9

\* What a request gets: the daily bars, before and after the day has one of its own.
LEMMA FetchedRows == Level!daily_rows_before(Level!rows) = DailyBars
<1>1. PICK T : DailyBars \in Seq(T) /\ \A i \in 1 .. Len(DailyBars) : DailyBars[i].day = i
  BY DailyRows
<1>2. Level!rows = DailyBars \/ \E x : x.day = Len(DailyBars) + 1 /\ Level!rows = DailyBars \o <<x>>
  <2> DEFINE today == [day |-> Len(DailyBars) + 1, week |-> Week, month |-> Month, high |-> Level!Max(Level!Today),
                       low |-> Level!Min(Level!Today), close |-> lCandle[Level!Max(Level!Held)]]
  <2>1. today.day = Len(DailyBars) + 1
    OBVIOUS
  <2>2. Level!rows = DailyBars \o <<>> \/ Level!rows = DailyBars \o <<today>>
    BY DEF Level!rows
  <2>3. DailyBars \o <<>> = DailyBars
    BY <1>1, ConcatEmptySeq
  <2> HIDE DEF today
  <2> QED BY <2>1, <2>2, <2>3
<1>3. PICK rs : rs = Level!rows
  OBVIOUS
<1> QED BY <1>1, <1>2, <1>3, RowsBefore

\* The levels that a stock has are those of the days before the session.
LEMMA LevelsOfThePast == Spec => []Level!MajorOfThePast
<1> DEFINE Inv == lMajor \in [Symbols -> {None, DailyBars}]
<1>1. Init => Inv
  BY DEF Init, Level!Init
<1>2. [Next]_vars => [Level!Next]_(Level!vars)
  BY DEF Next, vars, lVars, DaysOnly, SelectOnly, OutcomeOnly, TablesOnly, BookOnly, WalkOnly, HistoryOnly,
         SeriesOnly, SyncOnly, LevelsOnly, Level!vars
<1>3. Inv /\ [Level!Next]_(Level!vars) => Inv'
  <2> SUFFICES ASSUME Inv, [Level!Next]_(Level!vars) PROVE Inv'
    OBVIOUS
  <2>1. CASE \E s \in Symbols : Level!Fetch(s)
    <3>1. PICK s \in Symbols : lMajor' = lMajor \/ lMajor' = [lMajor EXCEPT ![s] = DailyBars]
      BY <2>1, FetchedRows DEF Level!Fetch
    <3> QED BY <3>1
  <2>2. CASE Level!NextMinute \/ Level!PassEnds \/ Level!Retry \/ UNCHANGED Level!vars
    <3>1. lMajor' = lMajor
      BY <2>2 DEF Level!NextMinute, Level!PassEnds, Level!Retry, Level!vars
    <3> QED BY <3>1
  <2> QED BY <2>1, <2>2 DEF Level!Next
<1>4. Inv => Level!MajorOfThePast
  BY DEF Level!MajorOfThePast, Level!PastLevels
<1> HIDE DEF Inv
<1> QED BY <1>1, <1>2, <1>3, <1>4, PTL DEF Spec

-----------------------------------------------------------------------------
(* The bars of the candles held.                                             *)

LastBucket == LastMinute \div BarMinutes
RowOfBars(c, f, k) ==
    IF k < 0 THEN <<>> ELSE IF k \in Level!Buckets(c) THEN Append(f[k-1], Level!Bar(c, k)) ELSE f[k-1]

LEMMA LastBucketType == LastBucket \in Nat
BY LevelsAssumption DEF LastBucket

\* The bars up to each bucket.
LEMMA BarsUpTo ==
    ASSUME NEW c
    PROVE  \E f : f[LastBucket] = Level!_bars(c) /\ \A k \in -1 .. LastBucket : f[k] = RowOfBars(c, f, k)
<1>0. PICK last : last = LastBucket
  OBVIOUS
<1>1. last \in Nat
  BY <1>0, LastBucketType
<1> DEFINE Upto(f, n) == \A k \in -1 .. n - 1 : f[k] = RowOfBars(c, f, k)
           Bad == {n \in 0 .. last + 1 : ~(\E f : Upto(f, n))}
<1>2. Bad = {}
  <2> SUFFICES ASSUME Bad # {} PROVE FALSE
    OBVIOUS
  <2>1. Bad \in SUBSET Nat
    BY <1>1
  <2>2. PICK n \in Bad : \A i \in Bad : n <= i
    <3> HIDE DEF Bad
    <3> QED BY <2>1, LeastNatural
  <2>3. n \in 0 .. last + 1 /\ ~(\E f : Upto(f, n)) /\ n \in Nat
    BY <1>1, <2>2
  <2>4. CASE n = 0
    <3>1. \A f : Upto(f, 0) <=> f[-1] = <<>>
      <4>1. -1 .. 0 - 1 = {-1}
        OBVIOUS
      <4> QED BY <4>1 DEF RowOfBars
    <3>2. [k \in {-1} |-> <<>>][-1] = <<>>
      OBVIOUS
    <3> HIDE DEF Upto
    <3> QED BY <2>3, <2>4, <3>1, <3>2
  <2>5. CASE n # 0
    <3>1. n - 1 \in 0 .. last + 1 /\ ~(n <= n - 1)
      BY <1>1, <2>3, <2>5
    <3>2. n - 1 \notin Bad
      <4> HIDE DEF Bad
      <4> QED BY <2>2, <3>1
    <3>3. PICK f : Upto(f, n - 1)
      <4> HIDE DEF Upto
      <4> QED BY <3>1, <3>2
    <3> DEFINE g == [k \in -1 .. last |-> IF k = n - 1 THEN RowOfBars(c, f, k) ELSE f[k]]
    <3>4. ASSUME NEW k \in -1 .. n - 1 PROVE g[k] = RowOfBars(c, g, k)
      <4>1. k \in -1 .. last /\ k \in Int
        BY <1>1, <2>3
      <4>2. k >= 0 => k - 1 \in -1 .. last /\ k - 1 # n - 1 /\ g[k - 1] = f[k - 1]
        BY <1>1, <4>1
      <4>3. RowOfBars(c, g, k) = RowOfBars(c, f, k)
        <5> HIDE DEF g
        <5> QED BY <4>1, <4>2 DEF RowOfBars
      <4>4. g[k] = RowOfBars(c, f, k)
        <5>1. CASE k = n - 1
          BY <4>1, <5>1
        <5>2. CASE k # n - 1
          <6>1. k \in -1 .. (n - 1) - 1
            BY <2>3, <5>2
          <6>2. f[k] = RowOfBars(c, f, k)
            BY <3>3, <6>1
          <6> QED BY <4>1, <5>2, <6>2
        <5> QED BY <5>1, <5>2
      <4> HIDE DEF g
      <4> QED BY <4>3, <4>4
    <3>5. Upto(g, n)
      <4> HIDE DEF g
      <4> QED BY <3>4
    <3> HIDE DEF g, Upto
    <3> QED BY <2>3, <3>5
  <2> QED BY <2>4, <2>5
<1>3. PICK f : Upto(f, last + 1)
  <2>1. last + 1 \in 0 .. last + 1
    BY <1>1
  <2> HIDE DEF Upto
  <2> QED BY <1>2, <2>1
<1> DEFINE Unfolds(h) == [k \in -1 .. last |-> RowOfBars(c, h, k)]
           g == [k \in -1 .. last |-> f[k]]
           upto == CHOOSE h : h = Unfolds(h)
<1>4. g = Unfolds(g)
  <2>1. ASSUME NEW k \in -1 .. last PROVE g[k] = RowOfBars(c, g, k)
    <3>1. k \in -1 .. (last + 1) - 1 /\ k \in Int
      BY <1>1
    <3>2. f[k] = RowOfBars(c, f, k)
      BY <1>3, <3>1
    <3>3. k >= 0 => g[k - 1] = f[k - 1]
      BY <1>1
    <3>4. RowOfBars(c, g, k) = RowOfBars(c, f, k)
      <4> HIDE DEF g
      <4> QED BY <3>1, <3>3 DEF RowOfBars
    <3> QED BY <3>2, <3>4
  <2>2. g = [k \in -1 .. last |-> g[k]]
    OBVIOUS
  <2> HIDE DEF g
  <2> QED BY <2>1, <2>2
<1>5. upto = Unfolds(upto)
  <2> HIDE DEF g, Unfolds
  <2> QED BY <1>4
<1>6. PICK u : u = upto
  OBVIOUS
<1>7. \A k \in -1 .. last : u[k] = RowOfBars(c, u, k)
  <2>1. u = Unfolds(u)
    BY <1>5, <1>6
  <2> HIDE DEF upto
  <2> QED BY <2>1
<1>8. Level!_bars(c) = u[last]
  BY <1>0, <1>6 DEF Level!_bars, RowOfBars, LastBucket
<1> HIDE DEF upto
<1> QED BY <1>0, <1>7, <1>8

\* The bars of two books of candles share a prefix, and each has at most one more, of the bucket of a minute.
SharedBars(c, d, t) ==
    \E S : \E P \in Seq(S), x \in S, y \in S :
        /\ x.key = t \div BarMinutes
        /\ Level!_bars(c) \in {P, Append(P, x)}
        /\ Level!_bars(d) \in {P, Append(P, y)}

\* A minute changes no bar but the last.
LEMMA BarsShare ==
    ASSUME NEW c, NEW d, NEW t \in 0 .. LastMinute - 1, DOMAIN c = 0 .. LastMinute - 1, DOMAIN d = 0 .. LastMinute - 1,
           \A m \in 0 .. LastMinute - 1 : m # t => d[m] = c[m],
           \A m \in 0 .. LastMinute - 1 : m >= t => c[m] = None
    PROVE  SharedBars(c, d, t)
<1>0. PICK last, b : last = LastBucket /\ b = t \div BarMinutes
  OBVIOUS
<1>1. last \in Nat /\ b \in 0 .. last /\ BarMinutes \in Nat \ {0} /\ LastMinute \in Nat
  BY <1>0, LevelsAssumption, LastBucketType DEF LastBucket
<1>2. ASSUME NEW m \in 0 .. LastMinute - 1, m < t PROVE m \div BarMinutes <= b
  BY <1>0, <1>1, <1>2
<1>3. ASSUME NEW k \in 0 .. last, k < b
      PROVE  (k \in Level!Buckets(c) <=> k \in Level!Buckets(d)) /\ Level!Bar(c, k) = Level!Bar(d, k)
  <2>1. \A m \in 0 .. LastMinute - 1 : m \div BarMinutes = k => m # t
    BY <1>0, <1>1, <1>3
  <2>2. \A m \in 0 .. LastMinute - 1 : m \div BarMinutes = k => (c[m] # None <=> d[m] # None) /\ c[m] = d[m]
    BY <2>1
  <2>3. k \in Level!Buckets(c) <=> k \in Level!Buckets(d)
    BY <2>2 DEF Level!Buckets
  <2>4. {c[m] : m \in {h \in DOMAIN c : c[h] # None /\ h \div BarMinutes = k}}
            = {d[m] : m \in {h \in DOMAIN d : d[h] # None /\ h \div BarMinutes = k}}
    BY <2>2
  <2> QED BY <2>3, <2>4 DEF Level!Bar
<1>4. ASSUME NEW k \in 0 .. last, k > b PROVE k \notin Level!Buckets(c) /\ k \notin Level!Buckets(d)
  <2>1. \A m \in 0 .. LastMinute - 1 : c[m] # None \/ d[m] # None => m <= t
    BY <1>1
  <2>2. \A m \in 0 .. LastMinute - 1 : m <= t => m \div BarMinutes # k
    BY <1>0, <1>1, <1>2, <1>4
  <2> QED BY <2>1, <2>2 DEF Level!Buckets
<1>5. PICK f : f[last] = Level!_bars(c) /\ \A k \in -1 .. last : f[k] = RowOfBars(c, f, k)
  BY <1>0, BarsUpTo
<1>6. PICK g : g[last] = Level!_bars(d) /\ \A k \in -1 .. last : g[k] = RowOfBars(d, g, k)
  BY <1>0, BarsUpTo
<1> DEFINE S == {Level!Bar(c, k) : k \in 0 .. last} \cup {Level!Bar(d, k) : k \in 0 .. last}
           Good(k) == IF k < b THEN f[k] \in Seq(S) /\ g[k] = f[k] ELSE f[k] = f[b] /\ g[k] = g[b]
           Bad == {n \in 0 .. last + 1 : ~Good(n - 1)}
<1>7. Bad = {}
  <2> SUFFICES ASSUME Bad # {} PROVE FALSE
    OBVIOUS
  <2>1. Bad \in SUBSET Nat
    BY <1>1
  <2>2. PICK n \in Bad : \A i \in Bad : n <= i
    <3> HIDE DEF Bad
    <3> QED BY <2>1, LeastNatural
  <2>3. n \in 0 .. last + 1 /\ ~Good(n - 1)
    <3> HIDE DEF Good
    <3> QED BY <2>2
  <2>4. n > 0 => Good(n - 2)
    <3>1. n > 0 => n - 1 \in 0 .. last + 1 /\ ~(n <= n - 1) /\ (n - 1) - 1 = n - 2
      BY <1>1, <2>3
    <3>2. n > 0 => n - 1 \notin Bad
      <4> HIDE DEF Bad
      <4> QED BY <2>2, <3>1
    <3> HIDE DEF Good
    <3> QED BY <3>1, <3>2
  <2>5. PICK k : k = n - 1
    OBVIOUS
  <2>6. k \in -1 .. last /\ k \in Int /\ ~Good(k) /\ (k >= 0 => Good(k - 1))
    <3>1. k - 1 = n - 2
      BY <2>3, <2>5
    <3> HIDE DEF Good
    <3> QED BY <1>1, <2>3, <2>4, <2>5, <3>1
  <2>7. f[k] = RowOfBars(c, f, k) /\ g[k] = RowOfBars(d, g, k)
    BY <1>5, <1>6, <2>6
  <2>8. CASE k = -1
    <3>1. f[k] = <<>> /\ g[k] = <<>>
      BY <2>7, <2>8 DEF RowOfBars
    <3>2. <<>> \in Seq(S)
      OBVIOUS
    <3>3. k < b
      BY <1>1, <2>8
    <3> HIDE DEF S
    <3> QED BY <2>6, <3>1, <3>2, <3>3
  <2>9. CASE k >= 0 /\ k < b
    <3>1. k - 1 < b /\ k \in 0 .. last
      BY <1>1, <2>6, <2>9
    <3>2. f[k-1] \in Seq(S) /\ g[k-1] = f[k-1]
      <4> HIDE DEF S
      <4> QED BY <2>6, <2>9, <3>1
    <3>3. Level!Bar(c, k) \in S /\ (k \in Level!Buckets(c) <=> k \in Level!Buckets(d)) /\ Level!Bar(c, k) = Level!Bar(d, k)
      BY <1>3, <2>9, <3>1
    <3>4. Append(f[k-1], Level!Bar(c, k)) \in Seq(S)
      <4> HIDE DEF S
      <4> QED BY <3>2, <3>3, AppendProperties
    <3>5. f[k] \in Seq(S) /\ g[k] = f[k]
      <4> HIDE DEF S
      <4> QED BY <2>6, <2>7, <2>9, <3>2, <3>3, <3>4 DEF RowOfBars
    <3> HIDE DEF S
    <3> QED BY <2>6, <2>9, <3>5
  <2>10. CASE k = b
    <3> HIDE DEF S
    <3> QED BY <1>1, <2>6, <2>10
  <2>11. CASE k > b
    <3>1. k \in 0 .. last /\ ~(k < 0) /\ ~(k - 1 < b) /\ ~(k < b)
      BY <1>1, <2>6, <2>11
    <3>2. f[k] = f[k-1] /\ g[k] = g[k-1]
      BY <1>4, <2>7, <2>11, <3>1 DEF RowOfBars
    <3>3. Good(k - 1)
      <4> HIDE DEF Good
      <4> QED BY <2>6, <3>1
    <3> HIDE DEF S
    <3> QED BY <2>6, <3>1, <3>2, <3>3
  <2> HIDE DEF Good
  <2> QED BY <1>1, <2>6, <2>8, <2>9, <2>10, <2>11
<1>8. \A k \in -1 .. last : Good(k)
  <2> SUFFICES ASSUME NEW k \in -1 .. last PROVE Good(k)
    OBVIOUS
  <2>1. k + 1 \in 0 .. last + 1 /\ (k + 1) - 1 = k
    BY <1>1
  <2>2. k + 1 \notin Bad
    <3> HIDE DEF Bad
    <3> QED BY <1>7
  <2>3. Good((k + 1) - 1)
    <3> HIDE DEF Good
    <3> QED BY <2>1, <2>2
  <2> HIDE DEF Good
  <2> QED BY <2>1, <2>3
<1>9. f[last] = f[b] /\ g[last] = g[b] /\ f[b-1] \in Seq(S) /\ g[b-1] = f[b-1]
  <2>1. last \in -1 .. last /\ b - 1 \in -1 .. last /\ ~(last < b) /\ b - 1 < b
    BY <1>1
  <2>2. Good(last) /\ Good(b - 1)
    <3> HIDE DEF Good
    <3> QED BY <1>8, <2>1
  <2> HIDE DEF S
  <2> QED BY <2>1, <2>2
<1>10. PICK P, x, y : P = f[b-1] /\ x = Level!Bar(c, b) /\ y = Level!Bar(d, b)
  OBVIOUS
<1>11. x \in S /\ y \in S /\ x.key = b
  BY <1>1, <1>10 DEF Level!Bar
<1>12. f[b] \in {P, Append(P, x)} /\ g[b] \in {P, Append(P, y)}
  <2>1. b \in -1 .. last /\ ~(b < 0)
    BY <1>1
  <2> HIDE DEF S
  <2> QED BY <1>5, <1>6, <1>9, <1>10, <2>1 DEF RowOfBars
<1> HIDE DEF S
<1>13. x.key = t \div BarMinutes /\ P \in Seq(S) /\ x \in S /\ y \in S
  BY ONLY <1>0, <1>9, <1>10, <1>11
<1>14. Level!_bars(c) \in {P, Append(P, x)} /\ Level!_bars(d) \in {P, Append(P, y)}
  BY ONLY <1>5, <1>6, <1>9, <1>12
<1> QED BY ONLY <1>13, <1>14, Zenon DEF SharedBars

\* The candles held are of the minutes that are over.
LevelInv ==
    /\ lNow \in 0 .. LastMinute
    /\ lCandle \in [0 .. LastMinute - 1 -> LevelPrices \cup {None}]
    /\ \A m \in 0 .. LastMinute - 1 : m >= lNow => lCandle[m] = None

LEMMA LevelHeld == Spec => []LevelInv
<1>1. Init => LevelInv
  BY LevelsAssumption DEF Init, Level!Init, LevelInv
<1>2. [Next]_vars => [Level!Next]_(Level!vars)
  BY DEF Next, vars, lVars, DaysOnly, SelectOnly, OutcomeOnly, TablesOnly, BookOnly, WalkOnly, HistoryOnly,
         SeriesOnly, SyncOnly, LevelsOnly, Level!vars
<1>3. LevelInv /\ [Level!Next]_(Level!vars) => LevelInv'
  <2> SUFFICES ASSUME LevelInv, [Level!Next]_(Level!vars) PROVE LevelInv'
    OBVIOUS
  <2>1. CASE Level!NextMinute
    <3>1. PICK p \in LevelPrices \cup {None} :
              lNow < LastMinute /\ lNow' = lNow + 1 /\ lCandle' = [lCandle EXCEPT ![lNow] = p]
      BY <2>1 DEF Level!NextMinute
    <3> QED BY <3>1, LevelsAssumption DEF LevelInv
  <2>2. CASE (\E s \in Symbols : Level!Fetch(s)) \/ Level!PassEnds \/ Level!Retry \/ UNCHANGED Level!vars
    <3>1. UNCHANGED <<lNow, lCandle>>
      BY <2>2 DEF Level!Fetch, Level!PassEnds, Level!Retry, Level!vars
    <3> QED BY <3>1 DEF LevelInv
  <2> QED BY <2>1, <2>2 DEF Level!Next
<1> QED BY <1>1, <1>2, <1>3, PTL DEF Spec

\* A step that changes the candles is the end of a minute.
LEMMA MinuteEnds ==
    ASSUME LevelInv, [Level!Next]_(Level!vars), lCandle' # lCandle
    PROVE  /\ lNow \in 0 .. LastMinute - 1 /\ lNow' = lNow + 1
           /\ DOMAIN lCandle = 0 .. LastMinute - 1 /\ DOMAIN lCandle' = 0 .. LastMinute - 1
           /\ \A m \in 0 .. LastMinute - 1 : m # lNow => lCandle'[m] = lCandle[m]
<1>1. PICK p \in LevelPrices \cup {None} :
          lNow < LastMinute /\ lNow' = lNow + 1 /\ lCandle' = [lCandle EXCEPT ![lNow] = p]
  BY DEF Level!Next, Level!NextMinute, Level!Fetch, Level!PassEnds, Level!Retry, Level!vars
<1> QED BY <1>1, LevelsAssumption DEF LevelInv

\* A swing whose bars on the right are over lies in what the minute leaves alone.
LEMMA SwingStays ==
    ASSUME LevelInv, [Level!Next]_(Level!vars), lCandle' # lCandle,
           NEW i \in Level!_swings(Level!_bars(lCandle), SideBars).tops, Level!Settled(Level!_bars(lCandle), i)
    PROVE  i \in Level!_swings(Level!_bars(lCandle'), SideBars).tops /\ Level!_bars(lCandle')[i] = Level!_bars(lCandle)[i]
<1>1. PICK c, d, t : c = lCandle /\ d = lCandle' /\ t = lNow
  OBVIOUS
<1>2. /\ t \in 0 .. LastMinute - 1 /\ DOMAIN c = 0 .. LastMinute - 1 /\ DOMAIN d = 0 .. LastMinute - 1
      /\ \A m \in 0 .. LastMinute - 1 : m # t => d[m] = c[m]
      /\ \A m \in 0 .. LastMinute - 1 : m >= t => c[m] = None
  BY <1>1, MinuteEnds DEF LevelInv
<1>3. PICK bc, bd : bc = Level!_bars(c) /\ bd = Level!_bars(d)
  OBVIOUS
<1>4. SharedBars(c, d, t)
  BY <1>2, BarsShare
<1>5. PICK S : \E P \in Seq(S), x \in S, y \in S :
           x.key = t \div BarMinutes /\ bc \in {P, Append(P, x)} /\ bd \in {P, Append(P, y)}
  BY <1>3, <1>4 DEF SharedBars
<1>6. PICK P \in Seq(S), x \in S, y \in S : x.key = t \div BarMinutes /\ bc \in {P, Append(P, x)} /\ bd \in {P, Append(P, y)}
  BY <1>5
<1>7. PICK n : n = Len(P)
  OBVIOUS
<1>8. /\ n \in Nat /\ Len(bc) \in {n, n + 1} /\ Len(bd) \in {n, n + 1}
      /\ \A j \in 1 .. n : bc[j] = P[j] /\ bd[j] = P[j]
      /\ Len(bc) = n + 1 => bc[n + 1] = x
  BY <1>6, <1>7, AppendProperties
<1>9. SideBars \in Nat /\ BarMinutes \in Nat \ {0}
  BY LevelsAssumption
<1>10. i \in SideBars + 1 .. Len(bc) - SideBars /\ \A j \in Level!Near(bc, i, SideBars) \ {i} : bc[j].high < bc[i].high
  BY <1>1, <1>3 DEF Level!_swings
<1>11. i + SideBars <= Len(bc) /\ (bc[i + SideBars].key + 1) * BarMinutes <= t
  BY <1>1, <1>3 DEF Level!Settled, Level!Whole
<1>12. i + SideBars <= n
  <2>1. SUFFICES ASSUME i + SideBars = n + 1 PROVE FALSE
    BY <1>8, <1>9, <1>10, <1>11
  <2>2. Len(bc) = n + 1 /\ bc[i + SideBars] = x
    BY <1>8, <1>11, <2>1
  <2>3. (t \div BarMinutes + 1) * BarMinutes <= t
    BY <1>6, <1>11, <2>2
  <2>4. t < (t \div BarMinutes + 1) * BarMinutes
    BY <1>2, <1>9, LevelsAssumption
  <2>5. (t \div BarMinutes + 1) * BarMinutes \in Int /\ t \in Int
    BY <1>2, <1>9, LevelsAssumption
  <2> QED BY <2>3, <2>4, <2>5
<1>13. i \in SideBars + 1 .. Len(bd) - SideBars
  BY <1>8, <1>9, <1>10, <1>12
<1>14. \A j \in i - SideBars .. i + SideBars : j \in 1 .. n
  BY <1>8, <1>9, <1>10, <1>12
<1>15. i \in i - SideBars .. i + SideBars
  BY <1>9, <1>10
<1>16. \A j \in Level!Near(bd, i, SideBars) \ {i} : bd[j].high < bd[i].high
  BY <1>8, <1>10, <1>14, <1>15 DEF Level!Near
<1>17. i \in Level!_swings(bd, SideBars).tops
  BY <1>13, <1>16 DEF Level!_swings
<1> QED BY <1>1, <1>3, <1>8, <1>14, <1>15, <1>17

\* The number of minutes, as the module counts them, is the library's.
LEMMA LevelCardinality == \A S : Level!Cardinality(S) = Cardinality(S)
BY DEF Level!Cardinality, Cardinality

\* A range with all its minutes is of minutes that are over.
LEMMA OpeningStays ==
    ASSUME LevelInv, [Level!Next]_(Level!vars), lCandle' # lCandle, Level!OpeningRange(lCandle) # None
    PROVE  Level!OpeningRange(lCandle).provisional \/ Level!OpeningRange(lCandle') = Level!OpeningRange(lCandle)
<1>1. PICK c, d, t : c = lCandle /\ d = lCandle' /\ t = lNow
  OBVIOUS
<1>2. /\ t \in 0 .. LastMinute - 1 /\ DOMAIN c = 0 .. LastMinute - 1 /\ DOMAIN d = 0 .. LastMinute - 1
      /\ \A m \in 0 .. LastMinute - 1 : m # t => d[m] = c[m]
      /\ \A m \in 0 .. LastMinute - 1 : m >= t => c[m] = None
  BY <1>1, MinuteEnds DEF LevelInv
<1>3. LastMinute \in Nat /\ OpeningMinutes \in Nat
  BY LevelsAssumption
<1>4. CASE t >= OpeningMinutes
  <2>1. \A m \in 0 .. LastMinute - 1 : m < OpeningMinutes => d[m] = c[m]
    BY <1>2, <1>3, <1>4
  <2>2. Level!Opening(c) = Level!Opening(d)
    BY <1>2, <2>1 DEF Level!Opening
  <2>3. \A m \in Level!Opening(c) : c[m] = d[m]
    BY <1>2, <2>1 DEF Level!Opening
  <2>4. {c[m] : m \in Level!Opening(c)} = {d[m] : m \in Level!Opening(d)}
    BY <2>2, <2>3
  <2>5. Level!OpeningRange(d) = Level!OpeningRange(c)
    BY <2>2, <2>4 DEF Level!OpeningRange
  <2> QED BY <1>1, <2>5
<1>5. CASE t < OpeningMinutes
  <2>1. Level!Opening(c) \subseteq 0 .. t - 1
    BY <1>2, <1>3 DEF Level!Opening
  <2>2. IsFiniteSet(0 .. t - 1) /\ Cardinality(0 .. t - 1) = t
    <3>1. 0 \in Int /\ t - 1 \in Int
      BY <1>2, <1>3
    <3>2. Cardinality(0 .. t - 1) = IF 0 > t - 1 THEN 0 ELSE (t - 1) - 0 + 1
      BY <3>1, FS_Interval
    <3>3. IsFiniteSet(0 .. t - 1)
      BY <3>1, FS_Interval
    <3> QED BY <1>2, <1>3, <3>2, <3>3
  <2>3. Cardinality(Level!Opening(c)) <= t /\ Cardinality(Level!Opening(c)) \in Nat
    BY <2>1, <2>2, FS_Subset, FS_CardinalityType
  <2>4. Level!Cardinality(Level!Opening(c)) < OpeningMinutes
    BY <1>2, <1>3, <1>5, <2>3, LevelCardinality
  <2>5. PICK h, l, r : r = [high |-> h, low |-> l, provisional |-> Level!Cardinality(Level!Opening(c)) < OpeningMinutes]
                       /\ Level!OpeningRange(c) = r
    BY <1>1 DEF Level!OpeningRange
  <2>6. r.provisional = (Level!Cardinality(Level!Opening(c)) < OpeningMinutes)
    BY <2>5
  <2>7. r.provisional
    BY <2>4, <2>6, Zenon
  <2> QED BY <1>1, <2>5, <2>7, Zenon
<1> QED BY <1>2, <1>3, <1>4, <1>5

\* What is settled is never taken back.
LEMMA SettledStays == Spec => Level!NoRepaint
<1>1. [Next]_vars => [Level!Next]_(Level!vars)
  BY DEF Next, vars, lVars, DaysOnly, SelectOnly, OutcomeOnly, TablesOnly, BookOnly, WalkOnly, HistoryOnly,
         SeriesOnly, SyncOnly, LevelsOnly, Level!vars
<1>2. LevelInv /\ [Next]_vars => [lCandle' # lCandle =>
         /\ \A i \in Level!_swings(Level!_bars(lCandle), SideBars).tops :
               Level!Settled(Level!_bars(lCandle), i) =>
                   i \in Level!_swings(Level!_bars(lCandle'), SideBars).tops /\ Level!_bars(lCandle')[i] = Level!_bars(lCandle)[i]
         /\ Level!OpeningRange(lCandle) # None =>
               Level!OpeningRange(lCandle).provisional
               \/ Level!OpeningRange(lCandle') = Level!OpeningRange(lCandle)]_(Level!vars)
  BY <1>1, SwingStays, OpeningStays
<1> QED BY <1>2, LevelHeld, PTL DEF Spec, Level!NoRepaint

-----------------------------------------------------------------------------
(* The end of a decided day.                                                 *)

\* The steps of a day that nothing disturbed: the decision before the close, then the outcome,
\* the training record and the mark.
Undisturbed ==
    /\ d_failed = None
    /\ dPc \in {"idle", "create", "write", "outcome", "training", "mark"}
    /\ dPhase \in Day!Phases
    /\ dPc \in {"create", "write"} => dPhase = "session"
    /\ dPc = "create" => dDecision[dDay] = None
    /\ dPc = "write" => dMade \subseteq Day!Days
    /\ dPc = "create" => dMade \subseteq Day!Days
    /\ dDecision[dDay] = Empty => dPc = "write"
    /\ dPhase = "closed" => Day!Loaded(dDecision[dDay])
    /\ dPc \in {"outcome", "training", "mark"} => dPhase = "closed" /\ d_finalised = dDay
    /\ dPhase # "closed" => d_finalised # dDay
    /\ d_finalised = None \/ d_finalised \in 1 .. dDay
    /\ dPc = "mark" => dDay \in dTraining
    /\ dPhase = "closed" /\ d_finalised = dDay /\ dDay \in dArchive /\ dPc = "idle" =>
           dOutcome[dDay] = "final" /\ dDay \in dTraining
    /\ \A d \in Day!Days : d < dDay /\ d \in dArchive => dOutcome[d] = "final" /\ d \in dTraining

\* Of days to come nothing is stored.
DayInv ==
    /\ DayTypes
    /\ dOutcome = [d \in Day!Days |-> dOutcome[d]]
    /\ dFaults \in Nat /\ dKills \in Nat
    /\ \A d \in Day!Days : d > dDay => dDecision[d] = None /\ d \notin dArchive
    /\ dFaults = 0 /\ dKills = 0 => Undisturbed

LEMMA DayTyped == DayInv /\ [Day!Next]_(Day!vars) => DayTypes' /\ (dOutcome = [d \in Day!Days |-> dOutcome[d]])' /\ dFaults' \in Nat /\ dKills' \in Nat
<1> SUFFICES ASSUME DayInv, [Day!Next]_(Day!vars)
             PROVE  DayTypes' /\ (dOutcome = [d \in Day!Days |-> dOutcome[d]])' /\ dFaults' \in Nat /\ dKills' \in Nat
  OBVIOUS
<1> USE DEF Day!live, Day!tool
<1>1. DayTypes /\ dOutcome = [d \in Day!Days |-> dOutcome[d]] /\ dFaults \in Nat /\ dKills \in Nat
  BY DEF DayInv
<1>2. dFaults' \in Nat /\ dKills' \in Nat
  BY <1>1 DEF Day!Next, Day!Service, Day!run_945, Day!Create, Day!Write, Day!Provisional, Day!finalise_945, Day!Outcome,
     Day!Training, Day!Mark, Day!Kill, Day!Restart, Day!reconstruct, Day!ReplayDay, Day!ReplayEnds, Day!Archived, Day!Advance,
     Day!vars
<1>3. dOutcome' = [d \in Day!Days |-> dOutcome'[d]]
  <2>1. dOutcome' = dOutcome \/ \E v : dOutcome' = [dOutcome EXCEPT ![dDay] = v]
    BY DEF Day!Next, Day!Service, Day!run_945, Day!Create, Day!Write, Day!Provisional, Day!finalise_945, Day!Outcome,
       Day!Training, Day!Mark, Day!Kill, Day!Restart, Day!reconstruct, Day!ReplayDay, Day!ReplayEnds, Day!Archived, Day!Advance,
       Day!vars
  <2> QED BY <1>1, <2>1
<1>4. DayTypes'
  <2>1. dDay' \in Day!Days
    BY <1>1, DaysAssumption DEF DayTypes, Day!Days, Day!Next, Day!Service, Day!run_945, Day!Create, Day!Write, Day!Provisional,
       Day!finalise_945, Day!Outcome, Day!Training, Day!Mark, Day!Kill, Day!Restart, Day!reconstruct, Day!ReplayDay,
       Day!ReplayEnds, Day!Archived, Day!Advance, Day!vars
  <2>2. dArchive' \subseteq Day!Days /\ dTraining' \subseteq Day!Days
    BY <1>1 DEF DayTypes, Day!Next, Day!Service, Day!run_945, Day!Create, Day!Write, Day!Provisional,
       Day!finalise_945, Day!Outcome, Day!Training, Day!Mark, Day!Kill, Day!Restart, Day!reconstruct, Day!ReplayDay,
       Day!ReplayEnds, Day!Archived, Day!Advance, Day!vars
  <2>3. dDecision' = dDecision \/ \E v : dDecision' = [dDecision EXCEPT ![dDay] = v]
    BY DEF Day!Next, Day!Service, Day!run_945, Day!Create, Day!Write, Day!Provisional, Day!finalise_945, Day!Outcome,
       Day!Training, Day!Mark, Day!Kill, Day!Restart, Day!reconstruct, Day!ReplayDay, Day!ReplayEnds, Day!Archived, Day!Advance,
       Day!vars
  <2>4. dReplayed' = dReplayed \/ \E v : dReplayed' = [dReplayed EXCEPT ![dAt] = v]
    BY DEF Day!Next, Day!Service, Day!run_945, Day!Create, Day!Write, Day!Provisional, Day!finalise_945, Day!Outcome,
       Day!Training, Day!Mark, Day!Kill, Day!Restart, Day!reconstruct, Day!ReplayDay, Day!ReplayEnds, Day!Archived, Day!Advance,
       Day!vars
  <2> QED BY <1>1, <2>1, <2>2, <2>3, <2>4 DEF DayTypes
<1> QED BY <1>2, <1>3, <1>4

LEMMA DaySteady == DayInv /\ [Day!Next]_(Day!vars) => DayInv'
<1> SUFFICES ASSUME DayInv, [Day!Next]_(Day!vars) PROVE DayInv'
  OBVIOUS
<1> USE DEF Day!live, Day!tool
<1>0. /\ DayTypes' /\ (dOutcome = [d \in Day!Days |-> dOutcome[d]])' /\ dFaults' \in Nat /\ dKills' \in Nat
      /\ DayTypes /\ dOutcome = [d \in Day!Days |-> dOutcome[d]] /\ dFaults \in Nat /\ dKills \in Nat
      /\ dDay \in Day!Days /\ dDay \in Nat /\ dDay # None
      /\ \A d \in Day!Days : d \in Nat /\ (d > dDay => dDecision[d] = None /\ d \notin dArchive)
  BY DayTyped, DaysAssumption DEF DayInv, DayTypes, Day!Days
<1>1. \A d \in Day!Days : d > dDay' => dDecision'[d] = None /\ d \notin dArchive'
  <2>1. dDay' \in {dDay, dDay + 1}
    BY DEF Day!Next, Day!Service, Day!run_945, Day!Create, Day!Write, Day!Provisional,
       Day!finalise_945, Day!Outcome, Day!Training, Day!Mark, Day!Kill, Day!Restart, Day!reconstruct, Day!ReplayDay,
       Day!ReplayEnds, Day!Archived, Day!Advance, Day!vars
  <2>2. dDecision' = dDecision \/ \E v : dDecision' = [dDecision EXCEPT ![dDay] = v]
    BY DEF Day!Next, Day!Service, Day!run_945, Day!Create, Day!Write, Day!Provisional, Day!finalise_945, Day!Outcome,
       Day!Training, Day!Mark, Day!Kill, Day!Restart, Day!reconstruct, Day!ReplayDay, Day!ReplayEnds, Day!Archived, Day!Advance,
       Day!vars
  <2>3. dArchive' = dArchive \/ dArchive' = dArchive \cup {dDay}
    BY DEF Day!Next, Day!Service, Day!run_945, Day!Create, Day!Write, Day!Provisional, Day!finalise_945, Day!Outcome,
       Day!Training, Day!Mark, Day!Kill, Day!Restart, Day!reconstruct, Day!ReplayDay, Day!ReplayEnds, Day!Archived, Day!Advance,
       Day!vars
  <2>4. \A d \in Day!Days : d # dDay => dDecision'[d] = dDecision[d]
    BY <1>0, <2>2 DEF DayTypes
  <2>5. \A d \in Day!Days : d > dDay' => d > dDay /\ d # dDay
    BY <1>0, <2>1
  <2> QED BY <1>0, <2>3, <2>4, <2>5
<1>2. ASSUME dFaults' = 0 /\ dKills' = 0 => Undisturbed' PROVE DayInv'
  BY <1>0, <1>1, <1>2 DEF DayInv
<1>3. SUFFICES ASSUME dFaults' = 0, dKills' = 0 PROVE Undisturbed'
  BY <1>2
<1>4. dFaults = 0 /\ dKills = 0
  BY <1>0, <1>3 DEF Day!Next, Day!Service, Day!run_945, Day!Create, Day!Write, Day!Provisional, Day!finalise_945, Day!Outcome,
     Day!Training, Day!Mark, Day!Kill, Day!Restart, Day!reconstruct, Day!ReplayDay, Day!ReplayEnds, Day!Archived, Day!Advance,
     Day!vars
<1>5. Undisturbed
  BY <1>4 DEF DayInv
<1>6. CASE Day!run_945
  <2>1. dPc = "idle" /\ dPc' = "create" /\ dPhase # "morning" /\ ~Day!Loaded(dDecision[dDay])
        /\ dMade' \subseteq dTraining
        /\ UNCHANGED <<d_failed, dDay, dPhase, dArchive, dDecision, dOutcome, dTraining, d_finalised>>
    BY <1>0, <1>3, <1>4, <1>6 DEF Day!run_945, Day!load_training
  <2>2. dMade' \subseteq Day!Days
    BY <1>0, <2>1 DEF DayTypes
  <2>3. dDecision[dDay] = None /\ dPhase = "session"
    BY <1>5, <2>1 DEF Undisturbed, Day!Loaded, Day!Phases
  <2> QED BY <1>5, <2>1, <2>2, <2>3 DEF Undisturbed
<1>7. CASE Day!Create
  <2>1. dDecision[dDay] = None /\ dPc = "create"
    BY <1>5, <1>7 DEF Day!Create, Undisturbed
  <2>2. dPc' = "write" /\ dDecision' = [dDecision EXCEPT ![dDay] = Empty]
        /\ UNCHANGED <<dMade, d_failed, dDay, dPhase, dArchive, dOutcome, dTraining, d_finalised>>
    BY <1>7, <2>1 DEF Day!Create, Day!Exclusive
  <2> QED BY <1>5, <2>1, <2>2 DEF Undisturbed
<1>8. CASE Day!Write
  <2>1. dPc = "write" /\ dPc' = "idle" /\ dDecision' = [dDecision EXCEPT ![dDay] = dMade]
        /\ UNCHANGED <<dMade, d_failed, dDay, dPhase, dArchive, dOutcome, dTraining, d_finalised>>
    BY <1>8 DEF Day!Write
  <2>2. dDecision'[dDay] = dMade /\ dPhase = "session"
    BY <1>0, <1>5, <2>1 DEF Undisturbed, DayTypes
  <2>3. dMade # Empty
    BY <1>5, <2>1, DaysAssumption DEF Undisturbed, Day!Loaded
  <2> QED BY <1>5, <2>1, <2>2, <2>3 DEF Undisturbed
<1>9. CASE Day!Provisional
  <2>1. dPc = "idle" /\ dPc' = dPc /\ dOutcome[dDay] # "final" /\ dOutcome' = [dOutcome EXCEPT ![dDay] = "provisional"]
        /\ UNCHANGED <<dDecision, dMade, d_failed, dDay, dPhase, dArchive, dTraining, d_finalised>>
    BY <1>9 DEF Day!Provisional
  <2>2. \A d \in Day!Days : d < dDay => dOutcome'[d] = dOutcome[d]
    BY <1>0, <2>1
  <2> QED BY <1>5, <2>1, <2>2 DEF Undisturbed
<1>10. CASE Day!finalise_945
  <2>1. dPc = "idle" /\ dPhase = "closed" /\ d_finalised' = dDay
        /\ (dPc' = "outcome" \/ (dPc' = "idle" /\ dDay \notin dArchive) \/ (dPc' = "idle" /\ ~Day!Loaded(dDecision[dDay])))
        /\ UNCHANGED <<dDecision, dOutcome, dMade, d_failed, dDay, dPhase, dArchive, dTraining>>
    BY <1>0, <1>3, <1>4, <1>10 DEF Day!finalise_945
  <2>2. dDay \in 1 .. dDay /\ Day!Loaded(dDecision[dDay])
    BY <1>0, <1>5, <2>1 DEF Undisturbed, Day!Days
  <2> QED BY <1>5, <2>1, <2>2 DEF Undisturbed, Day!Loaded
<1>11. CASE Day!Outcome
  <2>1. dPc = "outcome" /\ dPc' = "training" /\ dOutcome' = [dOutcome EXCEPT ![dDay] = "unmarked"]
        /\ UNCHANGED <<dDecision, dMade, d_failed, dDay, dPhase, dArchive, dTraining, d_finalised>>
    BY <1>11 DEF Day!Outcome
  <2>2. \A d \in Day!Days : d < dDay => dOutcome'[d] = dOutcome[d]
    BY <1>0, <2>1
  <2> QED BY <1>5, <2>1, <2>2 DEF Undisturbed
<1>12. CASE Day!Training
  <2>1. dPc = "training" /\ dPc' = "mark" /\ dTraining' = dTraining \cup {dDay}
        /\ UNCHANGED <<dDecision, dOutcome, dMade, d_failed, dDay, dPhase, dArchive, d_finalised>>
    BY <1>12 DEF Day!Training
  <2> QED BY <1>5, <2>1 DEF Undisturbed
<1>13. CASE Day!Mark
  <2>1. dPc = "mark" /\ dPc' = "idle" /\ dOutcome' = [dOutcome EXCEPT ![dDay] = "final"]
        /\ UNCHANGED <<dDecision, dMade, d_failed, dDay, dPhase, dArchive, dTraining, d_finalised>>
    BY <1>13 DEF Day!Mark
  <2>2. (\A d \in Day!Days : d < dDay => dOutcome'[d] = dOutcome[d]) /\ dOutcome'[dDay] = "final"
    BY <1>0, <2>1
  <2> QED BY <1>5, <2>1, <2>2 DEF Undisturbed
<1>14. CASE Day!Kill
  BY <1>0, <1>3, <1>4, <1>14 DEF Day!Kill
<1>15. CASE Day!Restart
  BY <1>5, <1>15 DEF Day!Restart, Undisturbed
<1>16. CASE Day!reconstruct \/ Day!ReplayDay \/ Day!ReplayEnds \/ UNCHANGED Day!vars
  <2>1. dTraining \subseteq dTraining'
        /\ UNCHANGED <<dPc, dDecision, dOutcome, dMade, d_failed, dDay, dPhase, dArchive, d_finalised>>
    BY <1>16 DEF Day!reconstruct, Day!ReplayDay, Day!ReplayEnds, Day!vars
  <2> QED BY <1>5, <2>1 DEF Undisturbed
<1>17. CASE Day!Archived
  <2>1. dPhase = "session" /\ dArchive' = dArchive \cup {dDay}
        /\ UNCHANGED <<dPc, dDecision, dOutcome, dMade, d_failed, dDay, dPhase, dTraining, d_finalised>>
    BY <1>17 DEF Day!Archived
  <2>2. \A d \in Day!Days : d < dDay => d # dDay
    BY <1>0
  <2> QED BY <1>5, <2>1, <2>2 DEF Undisturbed
<1>18. CASE Day!Advance
  <2>1. Day!Settled /\ dPc = "idle"
        /\ UNCHANGED <<dPc, dDecision, dOutcome, dMade, d_failed, dArchive, dTraining, d_finalised>>
    BY <1>5, <1>18 DEF Day!Advance, Day!Settled, Undisturbed
  <2>2. CASE dPhase = "morning" /\ dPhase' = "session" /\ UNCHANGED dDay
    BY <1>5, <2>1, <2>2 DEF Undisturbed, Day!Phases
  <2>3. CASE dPhase = "session" /\ dPhase' = "closed" /\ UNCHANGED dDay
    <3>1. Day!Loaded(dDecision[dDay])
      BY <1>0, <1>5, <2>1, <2>3 DEF Undisturbed, Day!Settled
    <3>2. Day!Loaded(dDecision'[dDay'])
      BY <3>1, <2>1, <2>3
    <3> QED BY <1>5, <2>1, <2>3, <3>2 DEF Undisturbed, Day!Phases, Day!Loaded
  <2>4. CASE dPhase = "closed" /\ dPhase' = "morning" /\ dDay' = dDay + 1
    <3>1. d_finalised = dDay
      BY <1>0, <1>5, <2>1, <2>4 DEF Undisturbed, Day!Settled
    <3>2. dDay \in dArchive => dOutcome[dDay] = "final" /\ dDay \in dTraining
      BY <1>5, <2>1, <2>4, <3>1 DEF Undisturbed
    <3>3. \A d \in Day!Days : d < dDay' => d < dDay \/ d = dDay
      BY <1>0, <2>4
    <3>4. \A d \in Day!Days : d < dDay' /\ d \in dArchive => dOutcome[d] = "final" /\ d \in dTraining
      BY <1>5, <3>2, <3>3 DEF Undisturbed
    <3>5. d_finalised \in 1 .. (dDay + 1) /\ d_finalised # dDay + 1
      BY <1>0, <3>1 DEF Day!Days
    <3>6. dDay' \in Day!Days /\ dDay' > dDay
      BY <1>0, <2>4 DEF DayTypes
    <3>7. dDecision[dDay'] = None /\ None # Empty
      BY <1>0, <3>6, DaysAssumption
    <3> QED BY <1>5, <2>1, <2>4, <3>4, <3>5, <3>7 DEF Undisturbed, Day!Phases
  <2> QED BY <1>18, <2>2, <2>3, <2>4 DEF Day!Advance
<1> QED BY <1>6, <1>7, <1>8, <1>9, <1>10, <1>11, <1>12, <1>13, <1>14, <1>15, <1>16, <1>17, <1>18 DEF Day!Next, Day!Service

LEMMA DaysFinished == Spec => [](which = "days" => Day!DayFinished)
<1>1. Init => DayInv
  <2> SUFFICES ASSUME Init PROVE DayInv
    OBVIOUS
  <2>1. DayTypes /\ dOutcome = [d \in Day!Days |-> dOutcome[d]] /\ dFaults \in Nat /\ dKills \in Nat
    BY DaysAssumption DEF Init, Day!Init, DayTypes, Day!Days
  <2>2. dDay = 1 /\ dPhase = "morning" /\ dArchive = {} /\ dPc = "idle" /\ d_failed = None /\ d_finalised = None
        /\ \A d \in Day!Days : dDecision[d] = None
    BY DEF Init, Day!Init
  <2>3. 1 \in Day!Days /\ None # 1 /\ Empty # None
    BY DaysAssumption DEF Day!Days
  <2>4. Undisturbed
    BY <2>2, <2>3 DEF Undisturbed, Day!Phases
  <2> QED BY <2>1, <2>2, <2>4 DEF DayInv
<1>2. [Next]_vars => [Day!Next]_(Day!vars)
  BY DEF Next, vars, dVars, DaysOnly, SelectOnly, OutcomeOnly, TablesOnly, BookOnly, WalkOnly, HistoryOnly,
         SeriesOnly, SyncOnly, LevelsOnly, Day!vars, Day!live, Day!tool
<1>3. DayInv => (which = "days" => Day!DayFinished)
  BY DEF DayInv, Undisturbed, Day!DayFinished
<1> QED BY <1>1, <1>2, <1>3, DaySteady, PTL DEF Spec

-----------------------------------------------------------------------------
(* What is cached of a day.                                                  *)

CacheTypes ==
    /\ hLoad \in [History!Threads -> Loadings \cup {None}]
    /\ hTmp \in [History!Days -> StoredFolders \cup {None}]
    /\ hFolder \in [History!Days -> StoredFolders \cup {None}]
    /\ \A k \in History!Threads : hLoad[k] # None /\ hLoad[k].open # None =>
           /\ hLoad[k].next \in 1 .. Parts
           /\ hLoad[k].open = "tmp" => hTmp[hLoad[k].day] # None
           /\ hLoad[k].open = "folder" => hFolder[hLoad[k].day] # None

\* A day whose archive will not change: of an earlier day, or of today after the close.
Fixed(d) == hRows[d] > 0 /\ (d < hToday \/ (d = hToday /\ ~hOpen))
OfTheDay(f, d) == f # None => \A p \in 1 .. Parts : f.part[p] \in {None, Torn} \/ (f.part[p] = hRows[d] /\ Fixed(d))
FinalInv ==
    /\ HistoryInv /\ CacheTypes /\ hOpen \in BOOLEAN
    /\ \A d \in History!Days : hSummary[d] # None => hSummary[d] = hRows[d] /\ Fixed(d)
    /\ \A k \in History!Threads : hLoad[k] # None => hLoad[k].of = hRows[hLoad[k].day] /\ Fixed(hLoad[k].day)
    /\ \A d \in History!Days : OfTheDay(hTmp[d], d) /\ OfTheDay(hFolder[d], d)

LEMMA NoPartsYet == History!NoParts \in StoredFolders /\ \A d : OfTheDay(History!NoParts, d)
BY DEF History!NoParts, StoredFolders, OfTheDay

\* A file is written when it is closed, unless the other thread has it open still.
OpenAt(k, d, p, where) == hLoad[k] # None /\ hLoad[k].day = d /\ hLoad[k].next = p /\ hLoad[k].open = where
LEMMA Closes ==
    ASSUME NEW k \in History!Threads, History!ClosePart(k)
    PROVE  /\ hLoad[k] # None /\ hLoad[k].open # None
           /\ hLoad' = [hLoad EXCEPT ![k].next = @ + 1, ![k].open = None]
           /\ \E w \in {Torn, hLoad[k].of} :
                /\ w = Torn => w = hLoad[k].of \/ \E j \in History!Threads \ {k} : OpenAt(j, hLoad[k].day, hLoad[k].next, hLoad[k].open)
                /\ hLoad[k].open = "tmp" => hTmp' = [hTmp EXCEPT ![hLoad[k].day].part[hLoad[k].next] = w] /\ hFolder' = hFolder
                /\ hLoad[k].open # "tmp" => hFolder' = [hFolder EXCEPT ![hLoad[k].day].part[hLoad[k].next] = w] /\ hTmp' = hTmp
BY DEF History!ClosePart, OpenAt
LEMMA ClosesThread ==
    ASSUME NEW k \in History!Threads, History!ClosePart(k)
    PROVE  hLoad[k].open # None /\ hLoad' = [hLoad EXCEPT ![k] = [hLoad[k] EXCEPT !.next = @ + 1, !.open = None]]
<1>1. hLoad[k].open # None /\ hLoad' = [hLoad EXCEPT ![k].next = @ + 1, ![k].open = None]
  BY Closes
<1> QED BY ONLY <1>1

\* The folder gets its name, unless one has it; the files open in it move with it.
Follows(j, d) == hLoad[j] # None /\ hLoad[j].day = d /\ hLoad[j].open = "tmp"
Moves(d) == hTmp[d] # None /\ hFolder[d] = None
LEMMA Renames ==
    ASSUME NEW k \in History!Threads, History!Rename(k), CacheTypes
    PROVE  /\ hLoad[k] # None /\ hLoad[k].open = None /\ hLoad[k].next = Parts + 2
           /\ hTmp' = [hTmp EXCEPT ![hLoad[k].day] = None]
           /\ Moves(hLoad[k].day) => hFolder' = [hFolder EXCEPT ![hLoad[k].day] = hTmp[hLoad[k].day]]
           /\ ~Moves(hLoad[k].day) => hFolder' = hFolder
           /\ hLoad' = [j \in History!Threads |-> hLoad'[j]] /\ hLoad'[k] = None
           /\ \A j \in History!Threads \ {k} :
                 /\ ~Follows(j, hLoad[k].day) => hLoad'[j] = hLoad[j]
                 /\ Follows(j, hLoad[k].day) =>
                        hLoad'[j] = IF Moves(hLoad[k].day) THEN [hLoad[j] EXCEPT !.open = "folder"] ELSE None
<1> DEFINE d == hLoad[k].day
<1>1. hLoad[k] # None /\ hLoad[k].open = None /\ hLoad[k].next = Parts + 2 /\ hTmp' = [hTmp EXCEPT ![d] = None]
      /\ hFolder' = (IF Moves(d) THEN [hFolder EXCEPT ![d] = hTmp[d]] ELSE hFolder)
      /\ hLoad' = [j \in History!Threads |->
            IF j = k THEN None
            ELSE IF Follows(j, d) THEN IF Moves(d) THEN [hLoad[j] EXCEPT !.open = "folder"] ELSE None
            ELSE hLoad[j]]
  BY DEF History!Rename, History!Writing, Follows, Moves
<1> HIDE DEF d
<1> QED BY <1>1, Zenon DEF d

\* A thread that has closed a file goes on to the next.
LEMMA Shuts ==
    ASSUME NEW l \in Loadings, l.next + 1 \in 0 .. (Parts + 2)
    PROVE  /\ [l EXCEPT !.next = @ + 1, !.open = None] \in Loadings
           /\ [l EXCEPT !.next = @ + 1, !.open = None].day = l.day /\ [l EXCEPT !.next = @ + 1, !.open = None].of = l.of
           /\ [l EXCEPT !.next = @ + 1, !.open = None].next = l.next + 1 /\ [l EXCEPT !.next = @ + 1, !.open = None].open = None
<1> DEFINE m == [l EXCEPT !.next = @ + 1]
<1>1. m \in Loadings /\ m.day = l.day /\ m.of = l.of /\ m.next = l.next + 1
  BY DEF Loadings
<1>2. [l EXCEPT !.next = @ + 1, !.open = None] = [m EXCEPT !.open = None]
  BY DEF Loadings
<1> HIDE DEF m
<1> QED BY <1>1, <1>2 DEF Loadings

\* What a step of a loading thread makes of the thread and of the folders.
LEMMA LoadTyped ==
    ASSUME HistoryInv, CacheTypes, NEW k \in History!Threads,
           History!Mkdir(k) \/ History!OpenPart(k) \/ History!ClosePart(k) \/ History!Mark(k) \/ History!Rename(k)
    PROVE  CacheTypes'
<1>0. /\ hLoad[k] # None /\ hLoad[k] \in Loadings /\ hLoad[k].day \in History!Days /\ hLoad[k].next \in 0 .. (Parts + 2)
      /\ hTmp[hLoad[k].day] # None => hTmp[hLoad[k].day] \in StoredFolders
      /\ hFolder[hLoad[k].day] # None => hFolder[hLoad[k].day] \in StoredFolders
      /\ Parts \in Nat
  BY CacheAssumption DEF CacheTypes, Loadings, History!Mkdir, History!OpenPart, History!ClosePart, History!Mark, History!Rename, History!Writing
<1> DEFINE Opens == \A j \in History!Threads : hLoad[j] # None /\ hLoad[j].open # None =>
           /\ hLoad[j].next \in 1 .. Parts
           /\ hLoad[j].open = "tmp" => hTmp[hLoad[j].day] # None
           /\ hLoad[j].open = "folder" => hFolder[hLoad[j].day] # None
<1>a. Opens
  BY DEF CacheTypes
\* A step of the thread alone, with a folder changed.
<1>b. ASSUME NEW l \in Loadings \cup {None}, NEW f \in StoredFolders,
             hLoad' = [hLoad EXCEPT ![k] = l], hFolder' = hFolder,
             hTmp' = hTmp \/ hTmp' = [hTmp EXCEPT ![hLoad[k].day] = f],
             l # None /\ l.open # None => l.next \in 1 .. Parts /\ l.open = "tmp" /\ hTmp'[l.day] # None
      PROVE  CacheTypes'
  <2>1. hLoad' \in [History!Threads -> Loadings \cup {None}] /\ hTmp' \in [History!Days -> StoredFolders \cup {None}]
        /\ hFolder' \in [History!Days -> StoredFolders \cup {None}]
    BY <1>b DEF CacheTypes
  <2>2. \A d \in History!Days : hTmp[d] # None => hTmp'[d] # None
    BY <1>b, CacheAssumption DEF CacheTypes
  <2>3. Opens'
    <3> SUFFICES ASSUME NEW j \in History!Threads, hLoad'[j] # None, hLoad'[j].open # None
                 PROVE  /\ hLoad'[j].next \in 1 .. Parts
                        /\ hLoad'[j].open = "tmp" => hTmp'[hLoad'[j].day] # None
                        /\ hLoad'[j].open = "folder" => hFolder'[hLoad'[j].day] # None
      OBVIOUS
    <3>1. CASE j = k
      <4>1. hLoad'[j] = l
        BY <1>b, <3>1 DEF CacheTypes
      <4> QED BY <1>b, <4>1
    <3>2. CASE j # k
      <4>1. hLoad'[j] = hLoad[j] /\ hLoad[j] \in Loadings
        BY <1>b, <3>2 DEF CacheTypes
      <4>2. hLoad[j].day \in History!Days
        BY <4>1 DEF Loadings
      <4> QED BY <1>a, <1>b, <2>2, <4>1, <4>2
    <3> QED BY <3>1, <3>2
  <2> QED BY <2>1, <2>3 DEF CacheTypes
<1>1. CASE History!Mkdir(k)
  <2> DEFINE f == IF hTmp[hLoad[k].day] = None THEN History!NoParts ELSE hTmp[hLoad[k].day]
             l == [hLoad[k] EXCEPT !.next = 1]
  <2>1. hLoad' = [hLoad EXCEPT ![k] = l] /\ hFolder' = hFolder /\ hTmp' = [hTmp EXCEPT ![hLoad[k].day] = f]
    BY <1>1 DEF History!Mkdir
  <2>2. l \in Loadings /\ l.open = None /\ f \in StoredFolders
    BY <1>0, <1>1, NoPartsYet DEF Loadings, History!Mkdir, History!Writing
  <2> HIDE DEF f, l
  <2> QED BY <1>b, <2>1, <2>2
<1>2. CASE History!OpenPart(k)
  <2>1. CASE hTmp[hLoad[k].day] = None
    <3>1. hLoad' = [hLoad EXCEPT ![k] = None] /\ hFolder' = hFolder /\ hTmp' = hTmp
      BY <1>2, <2>1 DEF History!OpenPart
    <3> QED BY <1>b, <3>1, NoPartsYet
  <2>2. CASE hTmp[hLoad[k].day] # None
    <3> DEFINE f == [hTmp[hLoad[k].day] EXCEPT !.part[hLoad[k].next] = Torn]
               l == [hLoad[k] EXCEPT !.open = "tmp"]
    <3>1. hTmp' = [hTmp EXCEPT ![hLoad[k].day] = f] /\ hLoad' = [hLoad EXCEPT ![k] = l]
          /\ hFolder' = hFolder /\ hLoad[k].next \in 1 .. Parts
      BY <1>0, <1>2, <2>2 DEF History!OpenPart, History!MarkAt
    <3>2. l \in Loadings /\ l.day = hLoad[k].day /\ l.next = hLoad[k].next /\ l.open = "tmp"
      BY <1>0 DEF Loadings
    <3>3. f \in StoredFolders
      BY <1>0, <2>2 DEF StoredFolders
    <3> HIDE DEF f, l
    <3>4. hTmp'[l.day] # None
      BY <1>0, <3>1, <3>2, <3>3, CacheAssumption DEF CacheTypes
    <3> QED BY <1>b, <3>1, <3>2, <3>3, <3>4
  <2> QED BY <2>1, <2>2
<1>3. CASE History!ClosePart(k)
  <2> DEFINE l == [hLoad[k] EXCEPT !.next = @ + 1, !.open = None]
  <2>1. hLoad[k].open # None /\ hLoad' = [hLoad EXCEPT ![k] = l]
    BY ONLY <1>3, ClosesThread, k \in History!Threads, Zenon
  <2>2. PICK w \in {Torn, hLoad[k].of} :
            /\ hLoad[k].open = "tmp" => hTmp' = [hTmp EXCEPT ![hLoad[k].day].part[hLoad[k].next] = w] /\ hFolder' = hFolder
            /\ hLoad[k].open # "tmp" => hFolder' = [hFolder EXCEPT ![hLoad[k].day].part[hLoad[k].next] = w] /\ hTmp' = hTmp
    BY <1>3, Closes
  <2>3. w \in {None, Torn} \cup 0 .. MinuteCount
    BY <1>0 DEF Loadings
  <2>4. hLoad[k].next \in 1 .. Parts /\ hLoad[k].open \in {"tmp", "folder"}
    BY <1>0, <1>a, <2>1 DEF Loadings
  <2>5. l \in Loadings /\ l.open = None
    <3>1. hLoad[k].next + 1 \in 0 .. (Parts + 2)
      BY <1>0, <2>4
    <3> QED BY <1>0, <3>1, Shuts
  <2> HIDE DEF l
  <2>6. CASE hLoad[k].open = "tmp"
    <3> DEFINE f == [hTmp[hLoad[k].day] EXCEPT !.part[hLoad[k].next] = w]
    <3>1. hTmp' = [hTmp EXCEPT ![hLoad[k].day] = f] /\ hFolder' = hFolder
      BY <2>2, <2>6
    <3>2. f \in StoredFolders
      BY <1>0, <1>a, <2>1, <2>3, <2>6 DEF StoredFolders
    <3> HIDE DEF f
    <3> QED BY <1>b, <2>1, <2>5, <3>1, <3>2
  <2>7. CASE hLoad[k].open = "folder"
    <3> DEFINE f == [hFolder[hLoad[k].day] EXCEPT !.part[hLoad[k].next] = w]
    <3>1. hFolder' = [hFolder EXCEPT ![hLoad[k].day] = f] /\ hTmp' = hTmp
      BY <2>2, <2>7
    <3>2. f \in StoredFolders
      BY <1>0, <1>a, <2>1, <2>3, <2>7 DEF StoredFolders
    <3> HIDE DEF f
    <3>3. f # None
      BY <3>2, CacheAssumption
    <3>4. hLoad' \in [History!Threads -> Loadings \cup {None}] /\ hTmp' \in [History!Days -> StoredFolders \cup {None}]
          /\ hFolder' \in [History!Days -> StoredFolders \cup {None}]
      BY <2>1, <2>5, <3>1, <3>2 DEF CacheTypes
    <3>5. \A d \in History!Days : hFolder[d] # None => hFolder'[d] # None
      BY <3>1, <3>3 DEF CacheTypes
    <3>6. \A j \in History!Threads : hLoad'[j] = IF j = k THEN l ELSE hLoad[j]
      BY <2>1 DEF CacheTypes
    <3>7. \A j \in History!Threads : hLoad[j] # None => hLoad[j].day \in History!Days
      BY DEF CacheTypes, Loadings
    <3>8. Opens'
      BY <1>a, <2>5, <3>1, <3>5, <3>6, <3>7
    <3> QED BY <3>4, <3>8 DEF CacheTypes
  <2> QED BY <2>4, <2>6, <2>7
<1>4. CASE History!Mark(k)
  <2>1. CASE hTmp[hLoad[k].day] = None
    <3>1. hLoad' = [hLoad EXCEPT ![k] = None] /\ hFolder' = hFolder /\ hTmp' = hTmp
      BY <1>4, <2>1 DEF History!Mark
    <3> QED BY <1>b, <3>1, NoPartsYet
  <2>2. CASE hTmp[hLoad[k].day] # None
    <3> DEFINE f == [hTmp[hLoad[k].day] EXCEPT !.complete = TRUE]
               l == [hLoad[k] EXCEPT !.next = Parts + 2]
    <3>1. hTmp' = [hTmp EXCEPT ![hLoad[k].day] = f] /\ hLoad' = [hLoad EXCEPT ![k] = l]
          /\ hFolder' = hFolder /\ hLoad[k].open = None
      BY <1>4, <2>2 DEF History!Mark, History!Writing
    <3>2. l \in Loadings /\ l.open = None
      BY <1>0, <3>1 DEF Loadings
    <3>3. f \in StoredFolders
      BY <1>0, <2>2 DEF StoredFolders
    <3> HIDE DEF f, l
    <3> QED BY <1>b, <3>1, <3>2, <3>3
  <2> QED BY <2>1, <2>2
<1>5. CASE History!Rename(k)
  <2> DEFINE d == hLoad[k].day
  <2>1. /\ hTmp' = [hTmp EXCEPT ![d] = None]
        /\ Moves(d) => hFolder' = [hFolder EXCEPT ![d] = hTmp[d]]
        /\ ~Moves(d) => hFolder' = hFolder
        /\ hLoad' = [j \in History!Threads |-> hLoad'[j]] /\ hLoad'[k] = None
        /\ \A j \in History!Threads \ {k} :
              /\ ~Follows(j, d) => hLoad'[j] = hLoad[j]
              /\ Follows(j, d) => hLoad'[j] = IF Moves(d) THEN [hLoad[j] EXCEPT !.open = "folder"] ELSE None
    BY <1>5, Renames
  <2> HIDE DEF d
  <2>2. d \in History!Days
    BY <1>0 DEF d
  <2>3. \A j \in History!Threads : hLoad'[j] \in Loadings \cup {None}
    <3> SUFFICES ASSUME NEW j \in History!Threads PROVE hLoad'[j] \in Loadings \cup {None}
      OBVIOUS
    <3>1. Follows(j, d) => hLoad[j] \in Loadings
      BY DEF Follows, CacheTypes
    <3>2. hLoad[j] \in Loadings => [hLoad[j] EXCEPT !.open = "folder"] \in Loadings
      BY DEF Loadings
    <3> QED BY <2>1, <3>1, <3>2 DEF CacheTypes
  <2>4. hTmp' \in [History!Days -> StoredFolders \cup {None}] /\ hFolder' \in [History!Days -> StoredFolders \cup {None}]
    BY <2>1, <2>2 DEF CacheTypes
  <2>5. hFolder'[d] # None \/ ~Moves(d)
    BY <2>1, <2>2 DEF CacheTypes, Moves
  <2>6. \A e \in History!Days : (hFolder[e] # None => hFolder'[e] # None) /\ (e # d => hTmp'[e] = hTmp[e])
    BY <2>1, <2>2, <2>5 DEF CacheTypes, Moves
  <2>7. Opens'
    <3> SUFFICES ASSUME NEW j \in History!Threads, hLoad'[j] # None, hLoad'[j].open # None
                 PROVE  /\ hLoad'[j].next \in 1 .. Parts
                        /\ hLoad'[j].open = "tmp" => hTmp'[hLoad'[j].day] # None
                        /\ hLoad'[j].open = "folder" => hFolder'[hLoad'[j].day] # None
      OBVIOUS
    <3>1. j # k
      BY <2>1
    <3>2. CASE Follows(j, d)
      <4>1. Moves(d) /\ hLoad'[j] = [hLoad[j] EXCEPT !.open = "folder"]
        BY <2>1, <3>1, <3>2
      <4>2. hLoad[j] \in Loadings
        BY <3>2 DEF CacheTypes, Follows
      <4>3. hLoad'[j].day = d /\ hLoad'[j].next = hLoad[j].next /\ hLoad'[j].open = "folder"
        BY <3>2, <4>1, <4>2 DEF Loadings, Follows
      <4>4. hLoad[j].next \in 1 .. Parts
        BY <1>a, <3>2, CacheAssumption DEF Follows
      <4> QED BY <2>5, <4>1, <4>3, <4>4
    <3>3. CASE ~Follows(j, d)
      <4>1. hLoad'[j] = hLoad[j]
        BY <2>1, <3>1, <3>3
      <4>2. hLoad[j].day \in History!Days
        BY <3>1, <4>1 DEF CacheTypes, Loadings
      <4>3. hLoad[j].open = "tmp" => hLoad[j].day # d
        BY <3>3, <4>1 DEF Follows
      <4> QED BY <1>a, <2>6, <4>1, <4>2, <4>3
    <3> QED BY <3>2, <3>3
  <2>8. hLoad' \in [History!Threads -> Loadings \cup {None}]
    BY <2>1, <2>3, Zenon
  <2> QED BY <2>4, <2>7, <2>8 DEF CacheTypes
<1> QED BY <1>1, <1>2, <1>3, <1>4, <1>5

LoadStep(k) == History!Mkdir(k) \/ History!OpenPart(k) \/ History!ClosePart(k) \/ History!Mark(k) \/ History!Rename(k)

LEMMA CacheTyped == HistoryInv /\ CacheTypes /\ [History!Next]_(History!vars) => CacheTypes'
<1> SUFFICES ASSUME HistoryInv, CacheTypes, [History!Next]_(History!vars) PROVE CacheTypes'
  OBVIOUS
<1>1. CASE \E k \in History!Threads : LoadStep(k)
  BY <1>1, LoadTyped DEF LoadStep
<1>2. CASE \E k \in History!Threads, d \in History!Days : History!Begin(k, d)
  <2>1. PICK k \in History!Threads, d \in History!Days : History!Begin(k, d)
    BY <1>2
  <2> DEFINE l == [day |-> d, of |-> hRows[d], next |-> 0, open |-> None]
  <2>2. hLoad' = [hLoad EXCEPT ![k] = l] /\ UNCHANGED <<hTmp, hFolder>>
    BY <2>1 DEF History!Begin
  <2>3. l \in Loadings /\ l.open = None
    BY CacheAssumption DEF HistoryInv, Loadings
  <2> HIDE DEF l
  <2> QED BY <2>2, <2>3 DEF CacheTypes
<1>3. CASE History!Killed
  <2>1. hLoad' = [k \in History!Threads |-> None] /\ hTmp' = [d \in History!Days |-> None] /\ hFolder' = hFolder
    BY <1>3 DEF History!Killed
  <2> QED BY <2>1 DEF CacheTypes
<1>4. CASE UNCHANGED History!cache
  BY <1>4 DEF History!cache, CacheTypes
<1> QED
  <2>1. History!warm_similarity \/ History!Search => \E k \in History!Threads, d \in History!Days : History!Begin(k, d)
    BY DEF History!warm_similarity, History!Search, History!Threads, History!Last, History!available_days,
       History!_earlier_sessions, History!session_days
  <2>2. \/ \E k \in History!Threads : LoadStep(k)
        \/ History!warm_similarity \/ History!Search \/ History!Killed
        \/ UNCHANGED History!cache
    BY DEF History!Next, LoadStep, History!build_baselines, History!Close, History!NextDay, History!Bootstrapped, History!Archived,
       History!vars, History!cache
  <2> QED BY <1>1, <1>2, <1>3, <1>4, <2>1, <2>2

\* The archive of a day is written no more when the day is over and has a file.
LEMMA FixedStays ==
    ASSUME HistoryInv, hOpen \in BOOLEAN, [History!Next]_(History!vars), NEW d \in History!Days, Fixed(d)
    PROVE  Fixed(d)' /\ hRows'[d] = hRows[d]
<1>0. hToday \in Int /\ d \in Int /\ hRows[d] \in Int /\ hRows[d] > 0 /\ (d < hToday \/ (d = hToday /\ ~hOpen))
  BY HistoryAssumption DEF HistoryInv, Fixed, History!Days
<1>1. CASE \E n \in Written : History!Archived(n)
  <2>1. PICK n \in Written : hRows' = [hRows EXCEPT ![hToday] = n] /\ hToday' = hToday /\ hOpen /\ hOpen' = hOpen
    BY <1>1 DEF History!Archived
  <2>2. hRows'[d] = hRows[d]
    BY <1>0, <2>1 DEF HistoryInv
  <2> QED BY <1>0, <2>1, <2>2 DEF Fixed
<1>2. CASE \E e \in History!Days : History!Bootstrapped(e)
  <2>1. PICK e \in History!Days : hRows' = [hRows EXCEPT ![e] = MinuteCount] /\ hRows[e] = 0 /\ hToday' = hToday /\ hOpen' = hOpen
    BY <1>2 DEF History!Bootstrapped
  <2>2. hRows'[d] = hRows[d]
    BY <1>0, <2>1 DEF HistoryInv
  <2> QED BY <1>0, <2>1, <2>2 DEF Fixed
<1>3. CASE History!Close
  <2>1. hOpen' = FALSE /\ UNCHANGED <<hRows, hToday>>
    BY <1>3 DEF History!Close
  <2> QED BY <1>0, <2>1 DEF Fixed
<1>4. CASE History!NextDay
  <2>1. hToday' = hToday + 1 /\ hRows' = hRows
    BY <1>4 DEF History!NextDay
  <2> QED BY <1>0, <2>1 DEF Fixed
<1>5. CASE UNCHANGED <<hRows, hToday, hOpen>>
  BY <1>0, <1>5 DEF Fixed
<1> QED
  <2>1. \/ \E n \in Written : History!Archived(n)
        \/ \E e \in History!Days : History!Bootstrapped(e)
        \/ History!Close \/ History!NextDay \/ UNCHANGED <<hRows, hToday, hOpen>>
    BY DEF History!Next, History!build_baselines, History!Killed, History!warm_similarity, History!Search,
         History!Begin, History!Mkdir, History!OpenPart, History!ClosePart, History!Mark, History!Rename, History!vars
  <2> QED BY <1>1, <1>2, <1>3, <1>4, <1>5, <2>1

\* What a thread leaves in the folders was there, or is torn, or of its day.
LEMMA LoadKeeps ==
    ASSUME HistoryInv, CacheTypes, NEW k \in History!Threads, LoadStep(k)
    PROVE  /\ UNCHANGED <<hRows, hToday, hOpen, hSummary, hRaced>> /\ hLoad[k] # None
           /\ \A j \in History!Threads : hLoad'[j] # None =>
                hLoad[j] # None /\ hLoad'[j].of = hLoad[j].of /\ hLoad'[j].day = hLoad[j].day
           /\ \A d \in History!Days : hTmp'[d] # None => \A p \in 1 .. Parts :
                \/ hTmp'[d].part[p] \in {None, Torn}
                \/ hTmp[d] # None /\ hTmp'[d].part[p] = hTmp[d].part[p]
                \/ d = hLoad[k].day /\ hTmp'[d].part[p] = hLoad[k].of
           /\ \A d \in History!Days : hFolder'[d] # None => \A p \in 1 .. Parts :
                \/ hFolder'[d].part[p] \in {None, Torn}
                \/ hFolder[d] # None /\ hFolder'[d].part[p] = hFolder[d].part[p]
                \/ hTmp[d] # None /\ hFolder'[d].part[p] = hTmp[d].part[p]
                \/ d = hLoad[k].day /\ hFolder'[d].part[p] = hLoad[k].of
<1>0. /\ hLoad[k] # None /\ hLoad[k] \in Loadings /\ hLoad[k].day \in History!Days
      /\ hLoad[k].open # None => hLoad[k].next \in 1 .. Parts
      /\ hTmp[hLoad[k].day] # None => hTmp[hLoad[k].day] \in StoredFolders
      /\ hFolder[hLoad[k].day] # None => hFolder[hLoad[k].day] \in StoredFolders
  BY CacheAssumption DEF CacheTypes, Loadings, LoadStep, History!Mkdir, History!OpenPart, History!ClosePart, History!Mark, History!Rename, History!Writing
<1>1. UNCHANGED <<hRows, hToday, hOpen, hSummary, hRaced>>
  BY DEF LoadStep, History!Mkdir, History!OpenPart, History!ClosePart, History!Mark, History!Rename
<1> DEFINE LoadsKept == \A j \in History!Threads : hLoad'[j] # None =>
                hLoad[j] # None /\ hLoad'[j].of = hLoad[j].of /\ hLoad'[j].day = hLoad[j].day
           TmpKept == \A d \in History!Days : hTmp'[d] # None => \A p \in 1 .. Parts :
                \/ hTmp'[d].part[p] \in {None, Torn}
                \/ hTmp[d] # None /\ hTmp'[d].part[p] = hTmp[d].part[p]
                \/ d = hLoad[k].day /\ hTmp'[d].part[p] = hLoad[k].of
           FolderKept == \A d \in History!Days : hFolder'[d] # None => \A p \in 1 .. Parts :
                \/ hFolder'[d].part[p] \in {None, Torn}
                \/ hFolder[d] # None /\ hFolder'[d].part[p] = hFolder[d].part[p]
                \/ hTmp[d] # None /\ hFolder'[d].part[p] = hTmp[d].part[p]
                \/ d = hLoad[k].day /\ hFolder'[d].part[p] = hLoad[k].of
<1>a. ASSUME NEW l, hLoad' = [hLoad EXCEPT ![k] = l], l # None => l.of = hLoad[k].of /\ l.day = hLoad[k].day PROVE LoadsKept
  BY <1>0, <1>a DEF CacheTypes
<1>b. ASSUME NEW f, hTmp' = hTmp \/ hTmp' = [hTmp EXCEPT ![hLoad[k].day] = f],
             f # None => \A p \in 1 .. Parts : \/ f.part[p] \in {None, Torn, hLoad[k].of}
                                               \/ hTmp[hLoad[k].day] # None /\ f.part[p] = hTmp[hLoad[k].day].part[p]
      PROVE  TmpKept
  BY <1>0, <1>b DEF CacheTypes
<1>c. ASSUME NEW f, hFolder' = hFolder \/ hFolder' = [hFolder EXCEPT ![hLoad[k].day] = f],
             f # None => \A p \in 1 .. Parts : \/ f.part[p] \in {None, Torn, hLoad[k].of}
                                               \/ hFolder[hLoad[k].day] # None /\ f.part[p] = hFolder[hLoad[k].day].part[p]
                                               \/ hTmp[hLoad[k].day] # None /\ f.part[p] = hTmp[hLoad[k].day].part[p]
      PROVE  FolderKept
  BY <1>0, <1>c DEF CacheTypes
<1>d. ASSUME LoadsKept, TmpKept, FolderKept
      PROVE  LoadsKept /\ TmpKept /\ FolderKept
  BY <1>d
<1> HIDE DEF LoadsKept, TmpKept, FolderKept
<1>e. \A S \in StoredFolders, p \in 1 .. Parts, q \in 1 .. Parts : \A w :
          [S EXCEPT !.part[p] = w].part[q] = IF q = p THEN w ELSE S.part[q]
  BY DEF StoredFolders
<1>2. CASE History!Mkdir(k)
  <2> DEFINE f == IF hTmp[hLoad[k].day] = None THEN History!NoParts ELSE hTmp[hLoad[k].day]
             l == [hLoad[k] EXCEPT !.next = 1]
  <2>1. hLoad' = [hLoad EXCEPT ![k] = l] /\ hFolder' = hFolder /\ hTmp' = [hTmp EXCEPT ![hLoad[k].day] = f]
    BY <1>2 DEF History!Mkdir
  <2>2. l.of = hLoad[k].of /\ l.day = hLoad[k].day
    BY <1>0 DEF Loadings
  <2>3. \A p \in 1 .. Parts : f.part[p] \in {None, Torn, hLoad[k].of} \/ (hTmp[hLoad[k].day] # None /\ f.part[p] = hTmp[hLoad[k].day].part[p])
    BY DEF History!NoParts
  <2> HIDE DEF f, l
  <2>4. LoadsKept /\ TmpKept /\ FolderKept
    BY <1>a, <1>b, <1>c, <2>1, <2>2, <2>3
  <2> QED BY <1>0, <1>1, <2>4 DEF LoadsKept, TmpKept, FolderKept
<1>3. CASE History!OpenPart(k)
  <2>1. hFolder' = hFolder
    BY <1>3 DEF History!OpenPart
  <2>2. LoadsKept /\ TmpKept
    <3>1. CASE hTmp[hLoad[k].day] = None
      <4>1. hLoad' = [hLoad EXCEPT ![k] = None] /\ hTmp' = hTmp
        BY <1>3, <3>1 DEF History!OpenPart
      <4> QED BY <1>a, <1>b, <4>1
    <3>2. CASE hTmp[hLoad[k].day] # None
      <4> DEFINE f == [hTmp[hLoad[k].day] EXCEPT !.part[hLoad[k].next] = Torn]
                 l == [hLoad[k] EXCEPT !.open = "tmp"]
      <4>1. hLoad' = [hLoad EXCEPT ![k] = l] /\ hTmp' = [hTmp EXCEPT ![hLoad[k].day] = f] /\ hLoad[k].next \in 1 .. Parts
        BY <1>3, <3>2, CacheAssumption DEF History!OpenPart, History!MarkAt
      <4>2. l.of = hLoad[k].of /\ l.day = hLoad[k].day
        BY <1>0 DEF Loadings
      <4>3. \A p \in 1 .. Parts : f.part[p] = Torn \/ f.part[p] = hTmp[hLoad[k].day].part[p]
        BY <1>0, <1>e, <3>2, <4>1
      <4> HIDE DEF f, l
      <4> QED BY <1>a, <1>b, <3>2, <4>1, <4>2, <4>3
    <3> QED BY <3>1, <3>2
  <2>3. FolderKept
    BY <1>c, <2>1
  <2> QED BY <1>0, <1>1, <2>2, <2>3 DEF LoadsKept, TmpKept, FolderKept
<1>4. CASE History!ClosePart(k)
  <2> DEFINE l == [hLoad[k] EXCEPT !.next = @ + 1, !.open = None]
  <2>1. hLoad[k].open # None /\ hLoad' = [hLoad EXCEPT ![k] = l]
    BY ONLY <1>4, ClosesThread, k \in History!Threads, Zenon
  <2>2. PICK w \in {Torn, hLoad[k].of} :
            /\ hLoad[k].open = "tmp" => hTmp' = [hTmp EXCEPT ![hLoad[k].day].part[hLoad[k].next] = w] /\ hFolder' = hFolder
            /\ hLoad[k].open # "tmp" => hFolder' = [hFolder EXCEPT ![hLoad[k].day].part[hLoad[k].next] = w] /\ hTmp' = hTmp
    BY <1>4, Closes
  <2>3. hLoad[k].next \in 1 .. Parts /\ hLoad[k].open \in {"tmp", "folder"}
    BY <1>0, <2>1 DEF Loadings
  <2>4. l.of = hLoad[k].of /\ l.day = hLoad[k].day
    <3>1. hLoad[k].next + 1 \in 0 .. (Parts + 2)
      BY <2>3, CacheAssumption
    <3> QED BY <1>0, <3>1, Shuts
  <2>5. LoadsKept
    <3> HIDE DEF l
    <3> QED BY <1>a, <2>1, <2>4
  <2>6. CASE hLoad[k].open = "tmp"
    <3> DEFINE f == [hTmp[hLoad[k].day] EXCEPT !.part[hLoad[k].next] = w]
    <3>1. hTmp' = [hTmp EXCEPT ![hLoad[k].day] = f] /\ hFolder' = hFolder /\ hTmp[hLoad[k].day] # None
      BY <1>0, <2>1, <2>2, <2>6 DEF CacheTypes
    <3>2. \A p \in 1 .. Parts : f.part[p] = w \/ f.part[p] = hTmp[hLoad[k].day].part[p]
      BY <1>0, <1>e, <2>3, <3>1
    <3> HIDE DEF f
    <3>3. TmpKept
      <4>1. \A p \in 1 .. Parts : f.part[p] \in {None, Torn, hLoad[k].of} \/ f.part[p] = hTmp[hLoad[k].day].part[p]
        BY ONLY <3>2, w \in {Torn, hLoad[k].of}
      <4> QED BY ONLY <1>b, <3>1, <4>1
    <3>4. FolderKept
      BY ONLY <1>c, <3>1, <3>2, w \in {Torn, hLoad[k].of}
    <3> QED BY <1>0, <1>1, <2>5, <3>3, <3>4 DEF LoadsKept, TmpKept, FolderKept
  <2>7. CASE hLoad[k].open = "folder"
    <3> DEFINE f == [hFolder[hLoad[k].day] EXCEPT !.part[hLoad[k].next] = w]
    <3>1. hFolder' = [hFolder EXCEPT ![hLoad[k].day] = f] /\ hTmp' = hTmp /\ hFolder[hLoad[k].day] # None
      BY <1>0, <2>1, <2>2, <2>7 DEF CacheTypes
    <3>2. \A p \in 1 .. Parts : f.part[p] = w \/ f.part[p] = hFolder[hLoad[k].day].part[p]
      BY <1>0, <1>e, <2>3, <3>1
    <3> HIDE DEF f
    <3>3. TmpKept
      BY ONLY <1>b, <3>1, <3>2, w \in {Torn, hLoad[k].of}
    <3>4. FolderKept
      <4>1. \A p \in 1 .. Parts : f.part[p] \in {None, Torn, hLoad[k].of} \/ f.part[p] = hFolder[hLoad[k].day].part[p]
        BY ONLY <3>2, w \in {Torn, hLoad[k].of}
      <4> QED BY ONLY <1>c, <3>1, <4>1
    <3> QED BY <1>0, <1>1, <2>5, <3>3, <3>4 DEF LoadsKept, TmpKept, FolderKept
  <2> QED BY <2>3, <2>6, <2>7
<1>5. CASE History!Mark(k)
  <2>1. hFolder' = hFolder
    BY <1>5 DEF History!Mark
  <2>2. LoadsKept /\ TmpKept
    <3>1. CASE hTmp[hLoad[k].day] = None
      <4>1. hLoad' = [hLoad EXCEPT ![k] = None] /\ hTmp' = hTmp
        BY <1>5, <3>1 DEF History!Mark
      <4> QED BY <1>a, <1>b, <4>1
    <3>2. CASE hTmp[hLoad[k].day] # None
      <4> DEFINE f == [hTmp[hLoad[k].day] EXCEPT !.complete = TRUE]
                 l == [hLoad[k] EXCEPT !.next = Parts + 2]
      <4>1. hLoad' = [hLoad EXCEPT ![k] = l] /\ hTmp' = [hTmp EXCEPT ![hLoad[k].day] = f]
        BY <1>5, <3>2 DEF History!Mark
      <4>2. l.of = hLoad[k].of /\ l.day = hLoad[k].day
        BY <1>0 DEF Loadings
      <4>3. \A p \in 1 .. Parts : f.part[p] = hTmp[hLoad[k].day].part[p]
        BY <1>0, <3>2 DEF StoredFolders
      <4> HIDE DEF f, l
      <4> QED BY <1>a, <1>b, <3>2, <4>1, <4>2, <4>3
    <3> QED BY <3>1, <3>2
  <2>3. FolderKept
    BY <1>c, <2>1
  <2> QED BY <1>0, <1>1, <2>2, <2>3 DEF LoadsKept, TmpKept, FolderKept
<1>6. CASE History!Rename(k)
  <2> DEFINE d == hLoad[k].day
  <2>1. /\ hTmp' = [hTmp EXCEPT ![d] = None]
        /\ Moves(d) => hFolder' = [hFolder EXCEPT ![d] = hTmp[d]]
        /\ ~Moves(d) => hFolder' = hFolder
        /\ hLoad'[k] = None
        /\ \A j \in History!Threads \ {k} :
              /\ ~Follows(j, d) => hLoad'[j] = hLoad[j]
              /\ Follows(j, d) => hLoad'[j] = IF Moves(d) THEN [hLoad[j] EXCEPT !.open = "folder"] ELSE None
    BY <1>6, Renames
  <2>2. TmpKept
    BY <1>b, <2>1
  <2>3. FolderKept
    <3> DEFINE f == hTmp[d]
    <3>1. Moves(d) => f # None
      BY DEF Moves
    <3>2. CASE Moves(d)
      <4>1. hFolder' = [hFolder EXCEPT ![hLoad[k].day] = f]
        BY <2>1, <3>2
      <4> QED BY <1>c, <3>1, <3>2, <4>1
    <3>3. CASE ~Moves(d)
      BY <1>c, <2>1, <3>3
    <3> QED BY <3>2, <3>3
  <2> HIDE DEF d
  <2>4. LoadsKept
    <3> SUFFICES ASSUME NEW j \in History!Threads, hLoad'[j] # None
                 PROVE  hLoad[j] # None /\ hLoad'[j].of = hLoad[j].of /\ hLoad'[j].day = hLoad[j].day
      BY DEF LoadsKept
    <3>1. j # k
      BY <2>1
    <3>2. Follows(j, d) => hLoad[j] # None /\ hLoad[j] \in Loadings
      BY DEF Follows, CacheTypes
    <3>3. hLoad[j] \in Loadings => [hLoad[j] EXCEPT !.open = "folder"].of = hLoad[j].of /\ [hLoad[j] EXCEPT !.open = "folder"].day = hLoad[j].day
      BY DEF Loadings
    <3> QED BY <2>1, <3>1, <3>2, <3>3
  <2> QED BY <1>0, <1>1, <2>2, <2>3, <2>4 DEF LoadsKept, TmpKept, FolderKept
<1> QED BY <1>2, <1>3, <1>4, <1>5, <1>6 DEF LoadStep

LEMMA FinalSteady == FinalInv /\ [History!Next]_(History!vars) => FinalInv'
<1> SUFFICES ASSUME FinalInv, [History!Next]_(History!vars) PROVE FinalInv'
  OBVIOUS
<1>0. /\ HistoryInv /\ CacheTypes /\ hOpen \in BOOLEAN
      /\ \A d \in History!Days : hSummary[d] # None => hSummary[d] = hRows[d] /\ Fixed(d)
      /\ \A k \in History!Threads : hLoad[k] # None => hLoad[k].of = hRows[hLoad[k].day] /\ Fixed(hLoad[k].day)
      /\ \A d \in History!Days : OfTheDay(hTmp[d], d) /\ OfTheDay(hFolder[d], d)
      /\ \A k \in History!Threads : hLoad[k] # None => hLoad[k].day \in History!Days
  BY DEF FinalInv, CacheTypes, Loadings
<1>1. HistoryInv' /\ CacheTypes' /\ hOpen' \in BOOLEAN
  <2>1. hOpen' \in BOOLEAN
    BY <1>0 DEF History!Next, History!build_baselines, History!Close, History!NextDay, History!Bootstrapped, History!Archived,
       History!Killed, History!warm_similarity, History!Search, History!Begin, History!Mkdir, History!OpenPart, History!ClosePart,
       History!Mark, History!Rename, History!vars
  <2> QED BY <1>0, <2>1, CacheTyped, HistorySteady
<1>2. \A d \in History!Days : Fixed(d) => Fixed(d)' /\ hRows'[d] = hRows[d]
  BY <1>0, FixedStays
<1>3. \A d \in History!Days : hSummary'[d] # None => hSummary'[d] = hRows'[d] /\ Fixed(d)'
  <2>1. CASE History!build_baselines
    <3>1. hSummary' = [d \in History!Days |-> IF d \in History!BaselineSessions(hRows, hToday) THEN History!load_summary(d) ELSE hSummary[d]]
      BY <2>1 DEF History!build_baselines
    <3>2. \A d \in History!BaselineSessions(hRows, hToday) : Fixed(d)
      BY DEF History!BaselineSessions, History!_earlier_sessions, History!Last, History!session_days, History!available_days, Fixed
    <3>3. \A d \in History!Days : History!load_summary(d) # None => History!load_summary(d) = hRows[d]
      BY <1>0 DEF History!load_summary
    <3> QED BY <1>0, <1>2, <3>1, <3>2, <3>3
  <2>2. CASE hSummary' = hSummary
    BY <1>0, <1>2, <2>2
  <2> QED BY <2>1, <2>2 DEF History!Next, History!Close, History!NextDay, History!Bootstrapped, History!Archived,
       History!Killed, History!warm_similarity, History!Search, History!Begin, History!Mkdir, History!OpenPart, History!ClosePart,
       History!Mark, History!Rename, History!vars
<1> DEFINE LoadsOf == \A k \in History!Threads : hLoad[k] # None => hLoad[k].of = hRows[hLoad[k].day] /\ Fixed(hLoad[k].day)
           FoldersOf == \A d \in History!Days : OfTheDay(hTmp[d], d) /\ OfTheDay(hFolder[d], d)
<1>4. CASE \E k \in History!Threads : LoadStep(k)
  <2>1. PICK k \in History!Threads : LoadStep(k)
    BY <1>4
  <2> DEFINE day == hLoad[k].day
             of == hLoad[k].of
  <2>2. /\ UNCHANGED <<hRows, hToday, hOpen>> /\ hLoad[k] # None
        /\ \A j \in History!Threads : hLoad'[j] # None =>
              hLoad[j] # None /\ hLoad'[j].of = hLoad[j].of /\ hLoad'[j].day = hLoad[j].day
        /\ \A d \in History!Days : hTmp'[d] # None => \A p \in 1 .. Parts :
              \/ hTmp'[d].part[p] \in {None, Torn}
              \/ hTmp[d] # None /\ hTmp'[d].part[p] = hTmp[d].part[p]
              \/ d = day /\ hTmp'[d].part[p] = of
        /\ \A d \in History!Days : hFolder'[d] # None => \A p \in 1 .. Parts :
              \/ hFolder'[d].part[p] \in {None, Torn}
              \/ hFolder[d] # None /\ hFolder'[d].part[p] = hFolder[d].part[p]
              \/ hTmp[d] # None /\ hFolder'[d].part[p] = hTmp[d].part[p]
              \/ d = day /\ hFolder'[d].part[p] = of
    BY <1>0, <2>1, LoadKeeps
  <2>3. of = hRows[day] /\ Fixed(day)
    BY <1>0, <2>2
  <2> HIDE DEF day, of
  <2>4. \A d : Fixed(d)' <=> Fixed(d)
    BY <2>2 DEF Fixed
  <2>5. LoadsOf'
    BY <1>0, <2>2, <2>4
  <2>6. FoldersOf'
    BY <1>0, <2>2, <2>3, <2>4 DEF OfTheDay
  <2> QED BY <1>1, <1>3, <2>5, <2>6 DEF FinalInv
<1>5. ASSUME \A d \in History!Days : hTmp'[d] \in {None, hTmp[d]} /\ hFolder'[d] = hFolder[d] PROVE FoldersOf'
  BY <1>0, <1>2, <1>5 DEF OfTheDay
<1>6. CASE \E k \in History!Threads, d \in History!Days : History!Begin(k, d) /\ (d < hToday \/ (d = hToday /\ ~hOpen))
  <2>1. PICK k \in History!Threads, d \in History!Days : History!Begin(k, d) /\ (d < hToday \/ (d = hToday /\ ~hOpen))
    BY <1>6
  <2> DEFINE l == [day |-> d, of |-> hRows[d], next |-> 0, open |-> None]
  <2>2. hLoad' = [hLoad EXCEPT ![k] = l] /\ UNCHANGED <<hTmp, hFolder, hRows>> /\ hRows[d] > 0
    BY <2>1 DEF History!Begin
  <2>3. Fixed(d)
    BY <2>1, <2>2 DEF Fixed
  <2>4. hRows'[d] = hRows[d] /\ Fixed(d)'
    BY <1>2, <2>3
  <2>5. LoadsOf'
    <3> SUFFICES ASSUME NEW j \in History!Threads, hLoad'[j] # None,
                        NEW e \in History!Days, e = hLoad'[j].day
                 PROVE  hLoad'[j].of = hRows'[e] /\ Fixed(e)'
      BY <1>1 DEF CacheTypes, Loadings, Fixed
    <3>1. CASE j = k
      <4>1. hLoad'[j] = l
        BY <2>2, <3>1 DEF CacheTypes, FinalInv
      <4>2. e = d /\ hLoad'[j].of = hRows[d]
        BY <4>1
      <4> QED BY <2>4, <4>2
    <3>2. CASE j # k
      <4>1. hLoad'[j] = hLoad[j]
        BY <1>0, <2>2, <3>2 DEF CacheTypes
      <4> QED BY <1>0, <1>2, <4>1
    <3> QED BY <3>1, <3>2
  <2> QED BY <1>1, <1>3, <1>5, <2>2, <2>5 DEF FinalInv
<1>7. CASE History!Killed
  <2>1. hLoad' = [k \in History!Threads |-> None] /\ hTmp' = [d \in History!Days |-> None] /\ hFolder' = hFolder
    BY <1>7 DEF History!Killed
  <2> QED BY <1>1, <1>3, <1>5, <2>1 DEF FinalInv
<1>8. CASE UNCHANGED History!cache
  <2>1. UNCHANGED <<hLoad, hTmp, hFolder>>
    BY <1>8 DEF History!cache
  <2>2. LoadsOf'
    BY <1>0, <1>2, <2>1
  <2> QED BY <1>1, <1>3, <1>5, <2>1, <2>2 DEF FinalInv
<1> QED
  <2>1. History!warm_similarity \/ History!Search =>
          \E k \in History!Threads, d \in History!Days : History!Begin(k, d) /\ (d < hToday \/ (d = hToday /\ ~hOpen))
    <3>1. \A d \in History!Days : d \in Int
      BY DEF History!Days
    <3>2. hToday \in Int
      BY <1>0, <3>1 DEF HistoryInv
    <3>3. CASE History!warm_similarity
      <4>1. ~hOpen /\ "house" \in History!Threads
        BY <3>3 DEF History!warm_similarity, History!WarmHours, History!Threads
      <4>2. PICK d \in History!Last({e \in History!available_days(hRows) : e <= hToday}, Lookback) : History!Begin("house", d)
        BY <3>3 DEF History!warm_similarity
      <4>3. d \in History!Days /\ d <= hToday
        BY <4>2 DEF History!Last, History!available_days
      <4>4. d < hToday \/ d = hToday
        BY <3>1, <3>2, <4>3
      <4> QED BY <4>1, <4>2, <4>3, <4>4
    <3>4. CASE History!Search
      <4>1. "request" \in History!Threads
        BY DEF History!Threads
      <4>2. PICK d \in History!_earlier_sessions(hRows, hToday, Lookback) : History!Begin("request", d)
        BY <3>4 DEF History!Search
      <4>3. d \in History!Days /\ d < hToday
        BY <4>2 DEF History!_earlier_sessions, History!Last, History!session_days, History!available_days
      <4> QED BY <4>1, <4>2, <4>3
    <3> QED BY <3>3, <3>4
  <2>2. \/ \E k \in History!Threads : LoadStep(k)
        \/ History!warm_similarity \/ History!Search \/ History!Killed
        \/ UNCHANGED History!cache
    BY DEF History!Next, LoadStep, History!build_baselines, History!Close, History!NextDay, History!Bootstrapped, History!Archived,
       History!vars, History!cache
  <2> QED BY <1>4, <1>6, <1>7, <1>8, <2>1, <2>2

\* Nothing remembered of a day is older than its archive.
LEMMA RememberedIsFinal == Spec => [](FinalInv /\ History!CachedIsFinal)
<1>1. Init => FinalInv
  <2> SUFFICES ASSUME Init PROVE FinalInv
    OBVIOUS
  <2>1. HistoryInv
    BY HistoryAssumption DEF Init, History!Init, HistoryInv, History!Days
  <2>2. /\ hOpen = TRUE /\ hSummary = [d \in History!Days |-> None] /\ hFolder = [d \in History!Days |-> None]
        /\ hTmp = [d \in History!Days |-> None] /\ hLoad = [k \in History!Threads |-> None]
    BY DEF Init, History!Init
  <2>3. CacheTypes
    BY <2>2 DEF CacheTypes
  <2> QED BY <2>1, <2>2, <2>3 DEF FinalInv, OfTheDay
<1>2. [Next]_vars => [History!Next]_(History!vars)
  BY DEF Next, vars, hVars, DaysOnly, SelectOnly, OutcomeOnly, TablesOnly, BookOnly, WalkOnly, HistoryOnly,
         SeriesOnly, SyncOnly, LevelsOnly, History!vars, History!cache
<1>3. FinalInv => History!CachedIsFinal
  BY DEF FinalInv, OfTheDay, History!CachedIsFinal, History!Cached
<1> QED BY <1>1, <1>2, <1>3, FinalSteady, PTL DEF Spec

\* A file of a folder is written, or a thread has it open.
InHand(f, d, p, where) == f.part[p] \notin {None, Torn} \/ \E j \in History!Threads : OpenAt(j, d, p, where)
\* A folder with the name is complete; in the one that is filled, what a thread has passed is in hand.
Passed(k) ==
    LET d == hLoad[k].day IN
    hLoad[k].next >= 1 =>
        /\ hTmp[d] # None
        /\ \A p \in 1 .. Parts : p < hLoad[k].next => InHand(hTmp[d], d, p, "tmp")
        /\ hLoad[k].next = Parts + 2 => hTmp[d].complete
WholeInv ==
    /\ HistoryInv /\ CacheTypes
    /\ \A d \in History!Days : hFolder[d] # None => hFolder[d].complete
    /\ \A d \in History!Days : hFolder[d] # None /\ ~hRaced => \A p \in 1 .. Parts : InHand(hFolder[d], d, p, "folder")
    /\ \A k \in History!Threads : hLoad[k] # None /\ hFolder[hLoad[k].day] = None => Passed(k)

LEMMA WholeStep ==
    ASSUME WholeInv, CacheTypes', HistoryInv', NEW k \in History!Threads, LoadStep(k)
    PROVE  WholeInv'
<1>1. /\ hLoad[k] # None /\ hLoad[k] \in Loadings /\ hRaced' = hRaced
      /\ hLoad[k].of \notin {None, Torn}
      /\ hLoad[k].day \in History!Days /\ hLoad[k].next \in 0 .. (Parts + 2)
  <2>1. hLoad[k] # None /\ hRaced' = hRaced
    BY DEF LoadStep, History!Mkdir, History!OpenPart, History!ClosePart, History!Mark, History!Rename, History!Writing
  <2>2. hLoad[k] \in Loadings
    BY <2>1 DEF WholeInv, CacheTypes
  <2>3. hLoad[k].of \notin {None, Torn}
    BY <2>2, CacheAssumption, DaysAssumption DEF Loadings
  <2> QED BY <2>1, <2>2, <2>3 DEF Loadings
<1> SUFFICES ASSUME NEW d \in History!Days, d = hLoad[k].day, NEW n \in 0 .. (Parts + 2), n = hLoad[k].next
             PROVE  WholeInv'
  BY <1>1
<1>0. /\ Parts \in Nat
      /\ \A e \in History!Days : /\ hTmp[e] # None => hTmp[e] \in StoredFolders
                                 /\ hFolder[e] # None => hFolder[e] \in StoredFolders
      /\ \A j \in History!Threads : hLoad[j] # None => hLoad[j].day \in History!Days /\ hLoad[j] \in Loadings
      /\ \A e \in History!Days : hFolder[e] # None => hFolder[e].complete
      /\ \A e \in History!Days : hFolder[e] # None /\ ~hRaced => \A p \in 1 .. Parts : InHand(hFolder[e], e, p, "folder")
      /\ \A j \in History!Threads : hLoad[j] # None /\ hFolder[hLoad[j].day] = None => Passed(j)
      /\ \A j \in History!Threads : hLoad[j] # None /\ hLoad[j].open # None => hLoad[j].next \in 1 .. Parts
  BY CacheAssumption DEF WholeInv, CacheTypes, Loadings
<1>e. \A S \in StoredFolders, p \in 1 .. Parts : \A w : [S EXCEPT !.part[p] = w].complete = S.complete
  BY DEF StoredFolders
\* A thread that shuts no file leaves the named folders as they are.
<1>b. ASSUME hLoad[k].open # "folder", \A j \in History!Threads \ {k} : hLoad'[j] = hLoad[j], hFolder' = hFolder,
             \A j \in History!Threads \ {k} : hLoad[j] # None /\ hFolder[hLoad[j].day] = None => Passed(j)',
             hLoad'[k] # None /\ hFolder[hLoad'[k].day] = None => Passed(k)'
      PROVE  WholeInv'
  <2>1. \A j \in History!Threads : \A e, p : OpenAt(j, e, p, "folder") => OpenAt(j, e, p, "folder")'
    BY <1>b DEF OpenAt
  <2>2. \A e \in History!Days : hFolder'[e] # None => hFolder'[e].complete
    BY <1>0, <1>b
  <2>3. \A e \in History!Days : hFolder'[e] # None /\ ~hRaced' => \A p \in 1 .. Parts : InHand(hFolder[e], e, p, "folder")'
    BY <1>0, <1>1, <1>b, <2>1 DEF InHand
  <2>4. \A j \in History!Threads : hLoad'[j] # None /\ hFolder'[hLoad'[j].day] = None => Passed(j)'
    BY <1>b
  <2> QED BY <1>b, <2>2, <2>3, <2>4 DEF WholeInv, InHand
\* What is filled stays filled for the other thread, and the more so for the thread itself.
<1>c. ASSUME \A e \in History!Days \ {d} : hTmp'[e] = hTmp[e], \A j \in History!Threads \ {k} : hLoad'[j] = hLoad[j],
             hTmp[d] # None => /\ hTmp'[d] # None /\ (hTmp[d].complete => hTmp'[d].complete)
                               /\ \A p \in 1 .. Parts : InHand(hTmp[d], d, p, "tmp") => InHand(hTmp[d], d, p, "tmp")'
      PROVE  \A j \in History!Threads \ {k} : hLoad[j] # None /\ hFolder[hLoad[j].day] = None => Passed(j)'
  <2> SUFFICES ASSUME NEW j \in History!Threads \ {k}, hLoad[j] # None, hFolder[hLoad[j].day] = None,
                      NEW e \in History!Days, e = hLoad[j].day, hLoad[j].next >= 1
               PROVE  /\ hTmp'[e] # None
                      /\ \A p \in 1 .. Parts : p < hLoad[j].next =>
                            hTmp'[e].part[p] \notin {None, Torn} \/ \E i \in History!Threads : OpenAt(i, e, p, "tmp")'
                      /\ hLoad[j].next = Parts + 2 => hTmp'[e].complete
    BY <1>0, <1>c DEF Passed, InHand
  <2>1. /\ hTmp[e] # None
        /\ \A p \in 1 .. Parts : p < hLoad[j].next => InHand(hTmp[e], e, p, "tmp")
        /\ hLoad[j].next = Parts + 2 => hTmp[e].complete
    BY <1>0 DEF Passed
  <2>2. CASE e = d
    BY <1>c, <2>1, <2>2 DEF InHand
  <2>3. CASE e # d
    <3>1. hTmp'[e] = hTmp[e]
      BY <1>c, <2>3
    <3>2. \A i \in History!Threads : \A p : OpenAt(i, e, p, "tmp") => OpenAt(i, e, p, "tmp")'
      BY <1>c, <2>3 DEF OpenAt
    <3> QED BY <2>1, <3>1, <3>2 DEF InHand
  <2> QED BY <2>2, <2>3
\* A thread that gives up.
<1>d. ASSUME hLoad' = [hLoad EXCEPT ![k] = None], UNCHANGED <<hTmp, hFolder>>, hLoad[k].open = None PROVE WholeInv'
  <2>1. hLoad'[k] = None /\ \A j \in History!Threads \ {k} : hLoad'[j] = hLoad[j]
    BY <1>d DEF WholeInv, CacheTypes
  <2>2. \A i \in History!Threads : \A e, p : OpenAt(i, e, p, "tmp") => OpenAt(i, e, p, "tmp")'
    BY <1>d, <2>1, CacheAssumption DEF OpenAt
  <2>3. \A j \in History!Threads \ {k} : hLoad[j] # None /\ hFolder[hLoad[j].day] = None => Passed(j)'
    <3>1. \A p \in 1 .. Parts : InHand(hTmp[d], d, p, "tmp") => InHand(hTmp[d], d, p, "tmp")'
      BY <1>d, <2>2 DEF InHand
    <3> QED BY <1>c, <1>d, <2>1, <3>1
  <2> QED BY <1>b, <1>d, <2>1, <2>3, CacheAssumption
<1>2. CASE History!Mkdir(k)
  <2>1. PICK f, l : f = (IF hTmp[d] = None THEN History!NoParts ELSE hTmp[d]) /\ l = [hLoad[k] EXCEPT !.next = 1]
    OBVIOUS
  <2>2. hLoad' = [hLoad EXCEPT ![k] = l] /\ hFolder' = hFolder /\ hTmp' = [hTmp EXCEPT ![d] = f] /\ hLoad[k].open = None
    BY <1>2, <2>1 DEF History!Mkdir, History!Writing
  <2>3. l.day = d /\ l.next = 1 /\ f # None
    BY <1>1, <2>1, NoPartsYet, CacheAssumption DEF Loadings
  <2>4. \A j \in History!Threads : hLoad'[j] = IF j = k THEN l ELSE hLoad[j]
    BY <2>2 DEF WholeInv, CacheTypes
  <2>5. hTmp'[d] = f /\ \A e \in History!Days \ {d} : hTmp'[e] = hTmp[e]
    BY <2>2 DEF WholeInv, CacheTypes
  <2>6. \A i \in History!Threads : \A p : OpenAt(i, d, p, "tmp") => OpenAt(i, d, p, "tmp")'
    BY <2>2, <2>4, CacheAssumption DEF OpenAt
  <2>7. \A j \in History!Threads \ {k} : hLoad[j] # None /\ hFolder[hLoad[j].day] = None => Passed(j)'
    <3>1. hTmp[d] # None => hTmp'[d] = hTmp[d]
      BY <2>1, <2>5
    <3>2. hTmp[d] # None => \A p \in 1 .. Parts : InHand(hTmp[d], d, p, "tmp") => InHand(hTmp[d], d, p, "tmp")'
      BY <2>6, <3>1 DEF InHand
    <3> QED BY <1>c, <2>4, <2>5, <3>1, <3>2
  <2>8. Passed(k)'
    <3>1. hLoad'[k].day = d /\ hLoad'[k].next = 1 /\ hTmp'[d] # None
      BY <2>3, <2>4, <2>5
    <3>2. \A p \in 1 .. Parts : ~(p < 1)
      OBVIOUS
    <3> QED BY <1>0, <3>1, <3>2 DEF Passed
  <2> QED BY <1>b, <2>2, <2>4, <2>7, <2>8, CacheAssumption
<1>3. CASE History!OpenPart(k)
  <2>0. hLoad[k].open = None
    BY <1>3 DEF History!OpenPart, History!Writing
  <2>1. CASE hTmp[d] = None
    <3>1. hLoad' = [hLoad EXCEPT ![k] = None] /\ hFolder' = hFolder /\ hTmp' = hTmp
      BY <1>3, <2>1 DEF History!OpenPart
    <3> QED BY <1>d, <2>0, <3>1
  <2>2. CASE hTmp[d] # None
    <3>1. PICK f, l : f = [hTmp[d] EXCEPT !.part[n] = Torn] /\ l = [hLoad[k] EXCEPT !.open = "tmp"]
      OBVIOUS
    <3>2. hTmp' = [hTmp EXCEPT ![d] = f] /\ hLoad' = [hLoad EXCEPT ![k] = l] /\ hFolder' = hFolder /\ n \in 1 .. Parts
      BY <1>0, <1>3, <2>2, <3>1 DEF History!OpenPart, History!MarkAt
    <3>3. l.day = d /\ l.next = n /\ l.open = "tmp" /\ l # None
      BY <1>1, <3>1, CacheAssumption DEF Loadings
    <3>4. \A j \in History!Threads : hLoad'[j] = IF j = k THEN l ELSE hLoad[j]
      BY <3>2 DEF WholeInv, CacheTypes
    <3>5. f.complete = hTmp[d].complete /\ \A p \in 1 .. Parts : f.part[p] = IF p = n THEN Torn ELSE hTmp[d].part[p]
      <4>1. hTmp[d] \in StoredFolders /\ n \in 1 .. Parts
        BY <1>0, <2>2, <3>2
      <4>2. [hTmp[d] EXCEPT !.part[n] = Torn].complete = hTmp[d].complete
        BY <1>e, <4>1
      <4>3. \A p \in 1 .. Parts : [hTmp[d] EXCEPT !.part[n] = Torn].part[p] = IF p = n THEN Torn ELSE hTmp[d].part[p]
        BY <4>1 DEF StoredFolders
      <4> QED BY <3>1, <4>2, <4>3
    <3>6. hTmp'[d] = f /\ f # None /\ \A e \in History!Days \ {d} : hTmp'[e] = hTmp[e]
      <4>1. hTmp'[d] = f /\ \A e \in History!Days \ {d} : hTmp'[e] = hTmp[e]
        BY <3>2 DEF WholeInv, CacheTypes
      <4>2. f \in StoredFolders
        BY <1>0, <2>2, <3>1, <3>2 DEF StoredFolders
      <4> QED BY <4>1, <4>2, CacheAssumption
    <3>7. OpenAt(k, d, n, "tmp")' /\ \A i \in History!Threads : \A p : OpenAt(i, d, p, "tmp") => OpenAt(i, d, p, "tmp")'
      BY <2>0, <3>3, <3>4, CacheAssumption DEF OpenAt
    <3>8. \A p \in 1 .. Parts : InHand(hTmp[d], d, p, "tmp") => InHand(hTmp[d], d, p, "tmp")'
      BY <3>5, <3>6, <3>7 DEF InHand
    <3>9. \A j \in History!Threads \ {k} : hLoad[j] # None /\ hFolder[hLoad[j].day] = None => Passed(j)'
      BY <1>c, <3>4, <3>5, <3>6, <3>8
    <3>10. hFolder[d] = None => Passed(k)'
      <4>1. hFolder[d] = None => \A p \in 1 .. Parts : p < n => InHand(hTmp[d], d, p, "tmp")
        BY <1>0, <1>1, <3>2 DEF Passed
      <4> QED BY <1>0, <3>2, <3>3, <3>4, <3>6, <3>8, <4>1 DEF Passed, InHand
    <3> QED BY <1>b, <2>0, <3>2, <3>3, <3>4, <3>9, <3>10, CacheAssumption
  <2> QED BY <2>1, <2>2
<1>4. CASE History!ClosePart(k)
  <2>1. PICK l : l = [hLoad[k] EXCEPT !.next = @ + 1, !.open = None]
    OBVIOUS
  <2>2. hLoad[k].open # None /\ hLoad' = [hLoad EXCEPT ![k] = l]
    BY ONLY <1>4, <2>1, ClosesThread, k \in History!Threads, Zenon
  <2>3. PICK w \in {Torn, hLoad[k].of} :
            /\ w = Torn => w = hLoad[k].of \/ \E j \in History!Threads \ {k} : OpenAt(j, d, n, hLoad[k].open)
            /\ hLoad[k].open = "tmp" => hTmp' = [hTmp EXCEPT ![d].part[n] = w] /\ hFolder' = hFolder
            /\ hLoad[k].open # "tmp" => hFolder' = [hFolder EXCEPT ![d].part[n] = w] /\ hTmp' = hTmp
    BY <1>4, Closes
  <2>4. n \in 1 .. Parts /\ hLoad[k].open \in {"tmp", "folder"}
    BY <1>0, <1>1, <2>2 DEF Loadings
  <2>5. l.day = d /\ l.next = n + 1 /\ l.open = None
    <3>1. hLoad[k].next + 1 \in 0 .. (Parts + 2)
      BY <1>0, <2>4
    <3> QED BY <1>1, <2>1, <3>1, Shuts
  <2>6. \A j \in History!Threads : hLoad'[j] = IF j = k THEN l ELSE hLoad[j]
    BY <2>2 DEF WholeInv, CacheTypes
  <2>7. PICK where \in {"tmp", "folder"} : where = hLoad[k].open
    BY <2>4
  <2>8. \A i \in History!Threads : \A e, p, at : OpenAt(i, e, p, at) =>
            OpenAt(i, e, p, at)' \/ (i = k /\ e = d /\ p = n /\ at = where)
    BY <2>6, <2>7 DEF OpenAt
  <2>9. w \notin {None, Torn} \/ \E j \in History!Threads : OpenAt(j, d, n, where)'
    <3>1. CASE w = Torn
      <4>1. PICK j \in History!Threads \ {k} : OpenAt(j, d, n, where)
        BY <1>1, <2>3, <2>7, <3>1
      <4> QED BY <2>8, <4>1
    <3>2. CASE w # Torn
      BY <1>1, <2>3, <3>2
    <3> QED BY <3>1, <3>2
  <2>10. CASE hLoad[k].open = "tmp"
    <3>1. PICK f : f = [hTmp[d] EXCEPT !.part[n] = w]
      OBVIOUS
    <3>2. hTmp' = [hTmp EXCEPT ![d] = f] /\ hFolder' = hFolder /\ hTmp[d] # None /\ where = "tmp"
      BY <1>1, <2>2, <2>3, <2>7, <2>10, <3>1 DEF WholeInv, CacheTypes
    <3>3. hTmp'[d] = f /\ \A e \in History!Days \ {d} : hTmp'[e] = hTmp[e]
      BY <3>2 DEF WholeInv, CacheTypes
    <3>4. f.complete = hTmp[d].complete /\ \A p \in 1 .. Parts : f.part[p] = IF p = n THEN w ELSE hTmp[d].part[p]
      <4>1. hTmp[d] \in StoredFolders
        BY <1>0, <3>2
      <4>2. [hTmp[d] EXCEPT !.part[n] = w].complete = hTmp[d].complete
        BY <1>e, <2>4, <4>1
      <4>3. \A p \in 1 .. Parts : [hTmp[d] EXCEPT !.part[n] = w].part[p] = IF p = n THEN w ELSE hTmp[d].part[p]
        BY <2>4, <4>1 DEF StoredFolders
      <4> QED BY <3>1, <4>2, <4>3
    <3>5. f # None
      <4>1. f \in StoredFolders
        <5>1. hTmp[d] \in StoredFolders /\ w \in {None, Torn} \cup 0 .. MinuteCount
          BY <1>0, <1>1, <2>3, <3>2 DEF Loadings
        <5> QED BY <2>4, <3>1, <5>1 DEF StoredFolders
      <4> QED BY <4>1, CacheAssumption
    <3>6. \A p \in 1 .. Parts : InHand(hTmp[d], d, p, "tmp") \/ p = n => InHand(hTmp[d], d, p, "tmp")'
      <4> SUFFICES ASSUME NEW p \in 1 .. Parts, InHand(hTmp[d], d, p, "tmp") \/ p = n
                   PROVE  hTmp'[d].part[p] \notin {None, Torn} \/ \E j \in History!Threads : OpenAt(j, d, p, "tmp")'
        BY DEF InHand
      <4>1. CASE p = n
        BY <2>9, <3>2, <3>3, <3>4, <4>1
      <4>2. CASE p # n
        BY <2>8, <3>3, <3>4, <4>2 DEF InHand
      <4> QED BY <4>1, <4>2
    <3>7. \A j \in History!Threads \ {k} : hLoad[j] # None /\ hFolder[hLoad[j].day] = None => Passed(j)'
      BY <1>c, <2>6, <3>3, <3>4, <3>5, <3>6
    <3>8. hFolder[d] = None => Passed(k)'
      <4>1. hFolder[d] = None => \A p \in 1 .. Parts : p < n => InHand(hTmp[d], d, p, "tmp")
        BY <1>0, <1>1, <2>4 DEF Passed
      <4>2. \A p \in 1 .. Parts : p < n + 1 => p < n \/ p = n
        BY <1>0
      <4>3. n + 1 # Parts + 2
        BY <1>0, <2>4
      <4> QED BY <2>5, <2>6, <3>3, <3>5, <3>6, <4>1, <4>2, <4>3 DEF Passed, InHand
    <3> QED BY <1>b, <2>5, <2>6, <2>10, <3>2, <3>7, <3>8
  <2>11. CASE hLoad[k].open = "folder"
    <3>1. PICK f : f = [hFolder[d] EXCEPT !.part[n] = w]
      OBVIOUS
    <3>2. hFolder' = [hFolder EXCEPT ![d] = f] /\ hTmp' = hTmp /\ hFolder[d] # None /\ where = "folder"
      BY <1>1, <2>2, <2>3, <2>7, <2>11, <3>1 DEF WholeInv, CacheTypes
    <3>3. hFolder'[d] = f /\ \A e \in History!Days \ {d} : hFolder'[e] = hFolder[e]
      BY <3>2 DEF WholeInv, CacheTypes
    <3>4. f.complete = hFolder[d].complete /\ \A p \in 1 .. Parts : f.part[p] = IF p = n THEN w ELSE hFolder[d].part[p]
      <4>1. hFolder[d] \in StoredFolders
        BY <1>0, <3>2
      <4>2. [hFolder[d] EXCEPT !.part[n] = w].complete = hFolder[d].complete
        BY <1>e, <2>4, <4>1
      <4>3. \A p \in 1 .. Parts : [hFolder[d] EXCEPT !.part[n] = w].part[p] = IF p = n THEN w ELSE hFolder[d].part[p]
        BY <2>4, <4>1 DEF StoredFolders
      <4> QED BY <3>1, <4>2, <4>3
    <3>5. f # None
      <4>1. f \in StoredFolders
        <5>1. hFolder[d] \in StoredFolders /\ w \in {None, Torn} \cup 0 .. MinuteCount
          BY <1>0, <1>1, <2>3, <3>2 DEF Loadings
        <5> QED BY <2>4, <3>1, <5>1 DEF StoredFolders
      <4> QED BY <4>1, CacheAssumption
    <3>6. \A e \in History!Days : hFolder'[e] # None => hFolder'[e].complete
      BY <1>0, <3>2, <3>3, <3>4
    <3>7. \A e \in History!Days : hFolder'[e] # None /\ ~hRaced' => \A p \in 1 .. Parts : InHand(hFolder[e], e, p, "folder")'
      <4> SUFFICES ASSUME NEW e \in History!Days, hFolder'[e] # None, ~hRaced, NEW p \in 1 .. Parts
                   PROVE  hFolder'[e].part[p] \notin {None, Torn} \/ \E j \in History!Threads : OpenAt(j, e, p, "folder")'
        BY <1>1 DEF InHand
      <4>1. CASE e = d /\ p = n
        BY <2>9, <3>2, <3>3, <3>4, <4>1
      <4>2. CASE ~(e = d /\ p = n)
        <5>1. hFolder[e] # None /\ hFolder'[e].part[p] = hFolder[e].part[p]
          BY <3>2, <3>3, <3>4, <4>2
        <5> QED BY <1>0, <2>8, <4>2, <5>1 DEF InHand
      <4> QED BY <4>1, <4>2
    <3>8. \A i \in History!Threads : \A e, p : OpenAt(i, e, p, "tmp") => OpenAt(i, e, p, "tmp")'
      BY <2>8, <3>2
    <3>9. \A j \in History!Threads : hLoad'[j] # None /\ hFolder'[hLoad'[j].day] = None => Passed(j)'
      <4> SUFFICES ASSUME NEW j \in History!Threads, hLoad'[j] # None, hFolder'[hLoad'[j].day] = None,
                          NEW e \in History!Days, e = hLoad[j].day
                   PROVE  Passed(j)'
        BY <1>0, <1>1, <2>2, <2>6
      <4>1. e # d /\ j # k /\ hLoad'[j] = hLoad[j] /\ hFolder[e] = None
        BY <1>1, <2>5, <2>6, <3>3, <3>5
      <4>2. Passed(j)
        BY <1>0, <4>1
      <4> QED BY <3>2, <3>8, <4>1, <4>2 DEF Passed, InHand
    <3> QED BY <3>6, <3>7, <3>9 DEF WholeInv
  <2> QED BY <2>4, <2>10, <2>11
<1>5. CASE History!Mark(k)
  <2>0. hLoad[k].open = None
    BY <1>5 DEF History!Mark, History!Writing
  <2>1. CASE hTmp[d] = None
    <3>1. hLoad' = [hLoad EXCEPT ![k] = None] /\ hFolder' = hFolder /\ hTmp' = hTmp
      BY <1>5, <2>1 DEF History!Mark
    <3> QED BY <1>d, <2>0, <3>1
  <2>2. CASE hTmp[d] # None
    <3>1. PICK f, l : f = [hTmp[d] EXCEPT !.complete = TRUE] /\ l = [hLoad[k] EXCEPT !.next = Parts + 2]
      OBVIOUS
    <3>2. hTmp' = [hTmp EXCEPT ![d] = f] /\ hLoad' = [hLoad EXCEPT ![k] = l] /\ hFolder' = hFolder /\ n = Parts + 1
      BY <1>0, <1>5, <2>2, <3>1 DEF History!Mark, History!MarkAt
    <3>3. l.day = d /\ l.next = Parts + 2 /\ l.open = None
      BY <1>1, <2>0, <3>1 DEF Loadings
    <3>4. \A j \in History!Threads : hLoad'[j] = IF j = k THEN l ELSE hLoad[j]
      BY <3>2 DEF WholeInv, CacheTypes
    <3>5. f.complete = TRUE /\ (\A p \in 1 .. Parts : f.part[p] = hTmp[d].part[p]) /\ f \in StoredFolders
      BY <1>0, <2>2, <3>1 DEF StoredFolders
    <3>6. hTmp'[d] = f /\ f # None /\ \A e \in History!Days \ {d} : hTmp'[e] = hTmp[e]
      BY <3>2, <3>5, CacheAssumption DEF WholeInv, CacheTypes
    <3>7. \A i \in History!Threads : \A p : OpenAt(i, d, p, "tmp") => OpenAt(i, d, p, "tmp")'
      BY <2>0, <3>4, CacheAssumption DEF OpenAt
    <3>8. \A p \in 1 .. Parts : InHand(hTmp[d], d, p, "tmp") => InHand(hTmp[d], d, p, "tmp")'
      BY <3>5, <3>6, <3>7 DEF InHand
    <3>9. \A j \in History!Threads \ {k} : hLoad[j] # None /\ hFolder[hLoad[j].day] = None => Passed(j)'
      BY <1>c, <3>4, <3>5, <3>6, <3>8
    <3>10. hFolder[d] = None => Passed(k)'
      <4>1. hFolder[d] = None => \A p \in 1 .. Parts : InHand(hTmp[d], d, p, "tmp")
        <5>1. n >= 1 /\ \A p \in 1 .. Parts : p < n
          BY <1>0, <3>2
        <5> QED BY <1>0, <1>1, <5>1 DEF Passed
      <4> QED BY <3>3, <3>4, <3>5, <3>6, <3>8, <4>1 DEF Passed, InHand
    <3> QED BY <1>b, <2>0, <3>2, <3>3, <3>4, <3>9, <3>10, CacheAssumption
  <2> QED BY <2>1, <2>2
<1>6. CASE History!Rename(k)
  <2>1. /\ hLoad[k].open = None /\ hLoad[k].next = Parts + 2
        /\ hTmp' = [hTmp EXCEPT ![d] = None]
        /\ Moves(d) => hFolder' = [hFolder EXCEPT ![d] = hTmp[d]]
        /\ ~Moves(d) => hFolder' = hFolder
        /\ hLoad'[k] = None
        /\ \A j \in History!Threads \ {k} :
              /\ ~Follows(j, d) => hLoad'[j] = hLoad[j]
              /\ Follows(j, d) => hLoad'[j] = IF Moves(d) THEN [hLoad[j] EXCEPT !.open = "folder"] ELSE None
    BY <1>6, Renames DEF WholeInv
  <2>2. hFolder[d] = None => Moves(d) /\ hTmp[d].complete /\ \A p \in 1 .. Parts : InHand(hTmp[d], d, p, "tmp")
    <3>1. hLoad[k].next >= 1 /\ \A p \in 1 .. Parts : p < hLoad[k].next
      BY <1>0, <2>1
    <3> QED BY <1>0, <1>1, <2>1, <3>1 DEF Passed, Moves
  <2>3. hFolder'[d] # None /\ \A e \in History!Days \ {d} : hTmp'[e] = hTmp[e] /\ hFolder'[e] = hFolder[e]
    <3>1. \A e \in History!Days \ {d} : hTmp'[e] = hTmp[e] /\ hFolder'[e] = hFolder[e]
      BY <2>1 DEF WholeInv, CacheTypes
    <3>2. CASE Moves(d)
      <4>1. hFolder'[d] = hTmp[d]
        BY <2>1, <3>2 DEF WholeInv, CacheTypes
      <4> QED BY <3>1, <3>2, <4>1 DEF Moves
    <3>3. CASE ~Moves(d)
      BY <2>1, <2>2, <3>1, <3>3
    <3> QED BY <3>2, <3>3
  <2>4. \A j \in History!Threads, e \in History!Days : \A p, at : OpenAt(j, e, p, at) /\ at # None /\ (at = "tmp" => e # d) => OpenAt(j, e, p, at)'
    BY <2>1 DEF OpenAt, Follows
  <2>5. Moves(d) => \A j \in History!Threads : \A p : OpenAt(j, d, p, "tmp") => OpenAt(j, d, p, "folder")'
    <3> SUFFICES ASSUME Moves(d), NEW j \in History!Threads, NEW p, OpenAt(j, d, p, "tmp") PROVE OpenAt(j, d, p, "folder")'
      OBVIOUS
    <3>1. j # k /\ Follows(j, d) /\ hLoad[j] \in Loadings
      BY <1>0, <2>1, CacheAssumption DEF OpenAt, Follows
    <3>2. hLoad'[j] = [hLoad[j] EXCEPT !.open = "folder"]
      BY <2>1, <3>1
    <3>3. hLoad'[j] # None
      <4>1. hLoad'[j] \in Loadings
        BY <3>1, <3>2 DEF Loadings
      <4> QED BY <4>1, CacheAssumption
    <3> QED BY <3>1, <3>2, <3>3 DEF OpenAt, Loadings
  <2>6. \A e \in History!Days : hFolder'[e] # None => hFolder'[e].complete
    <3>1. CASE Moves(d)
      <4>1. hFolder'[d] = hTmp[d]
        BY <2>1, <3>1 DEF WholeInv, CacheTypes
      <4> QED BY <1>0, <2>2, <2>3, <3>1, <4>1 DEF Moves
    <3>2. CASE ~Moves(d)
      BY <1>0, <2>1, <3>2
    <3> QED BY <3>1, <3>2
  <2>7. \A e \in History!Days : hFolder'[e] # None /\ ~hRaced' => \A p \in 1 .. Parts : InHand(hFolder[e], e, p, "folder")'
    <3> SUFFICES ASSUME NEW e \in History!Days, hFolder'[e] # None, ~hRaced, NEW p \in 1 .. Parts
                 PROVE  hFolder'[e].part[p] \notin {None, Torn} \/ \E j \in History!Threads : OpenAt(j, e, p, "folder")'
      BY <1>1 DEF InHand
    <3>1. CASE e = d /\ Moves(d)
      <4>1. hFolder'[d] = hTmp[d] /\ InHand(hTmp[d], d, p, "tmp")
        BY <2>1, <2>2, <3>1 DEF WholeInv, CacheTypes, Moves
      <4> QED BY <2>5, <3>1, <4>1 DEF InHand
    <3>2. CASE ~(e = d /\ Moves(d))
      <4>1. hFolder'[e] = hFolder[e] /\ InHand(hFolder[e], e, p, "folder")
        BY <1>0, <2>1, <2>3, <3>2
      <4> QED BY <2>4, <4>1, CacheAssumption DEF InHand
    <3> QED BY <3>1, <3>2
  <2>8. \A j \in History!Threads : hLoad'[j] # None /\ hFolder'[hLoad'[j].day] = None => Passed(j)'
    <3> SUFFICES ASSUME NEW j \in History!Threads, hLoad'[j] # None, hFolder'[hLoad'[j].day] = None
                 PROVE  Passed(j)'
      OBVIOUS
    <3>1. j # k
      BY <2>1
    <3>2. ~Follows(j, d)
      <4> SUFFICES ASSUME Follows(j, d) PROVE FALSE
        OBVIOUS
      <4>1. hLoad[j] \in Loadings /\ hLoad[j].day = d
        BY <1>0 DEF Follows
      <4>2. hLoad'[j] = [hLoad[j] EXCEPT !.open = "folder"]
        BY <2>1, <3>1
      <4>3. hLoad'[j].day = d
        BY <4>1, <4>2 DEF Loadings
      <4> QED BY <2>3, <4>3
    <3>3. hLoad'[j] = hLoad[j]
      BY <2>1, <3>1, <3>2
    <3>4. PICK e \in History!Days \ {d} : e = hLoad[j].day
      BY <1>0, <2>3, <3>3
    <3>5. hTmp'[e] = hTmp[e] /\ hFolder[e] = None /\ Passed(j)
      BY <1>0, <2>3, <3>3, <3>4
    <3>6. \A p \in 1 .. Parts : InHand(hTmp[e], e, p, "tmp") => InHand(hTmp[e], e, p, "tmp")'
      BY <2>4, <3>4, <3>5, CacheAssumption DEF InHand
    <3> QED BY <3>3, <3>4, <3>5, <3>6 DEF Passed
  <2> QED BY <2>6, <2>7, <2>8 DEF WholeInv
<1> QED BY <1>2, <1>3, <1>4, <1>5, <1>6 DEF LoadStep

LEMMA WholeSteady == WholeInv /\ [History!Next]_(History!vars) => WholeInv'
<1> SUFFICES ASSUME WholeInv, [History!Next]_(History!vars) PROVE WholeInv'
  OBVIOUS
<1>0. HistoryInv' /\ CacheTypes' /\ CacheTypes
  BY CacheTyped, HistorySteady DEF WholeInv
<1>a. /\ \A d \in History!Days : hFolder[d] # None => hFolder[d].complete
      /\ \A d \in History!Days : hFolder[d] # None /\ ~hRaced => \A p \in 1 .. Parts : InHand(hFolder[d], d, p, "folder")
      /\ \A k \in History!Threads : hLoad[k] # None /\ hFolder[hLoad[k].day] = None => Passed(k)
      /\ \A k \in History!Threads : hLoad[k] # None => hLoad[k].day \in History!Days
  BY DEF WholeInv, CacheTypes, Loadings
<1>1. CASE \E k \in History!Threads : LoadStep(k)
  BY <1>0, <1>1, WholeStep
<1>2. CASE \E k \in History!Threads, d \in History!Days : History!Begin(k, d)
  <2>1. PICK k \in History!Threads, d \in History!Days : History!Begin(k, d)
    BY <1>2
  <2>2. PICK l : l = [day |-> d, of |-> hRows[d], next |-> 0, open |-> None]
    OBVIOUS
  <2>3. hLoad[k] = None /\ hLoad' = [hLoad EXCEPT ![k] = l] /\ UNCHANGED <<hTmp, hFolder, hRaced>>
    BY <2>1, <2>2 DEF History!Begin
  <2>4. \A j \in History!Threads : hLoad'[j] = IF j = k THEN l ELSE hLoad[j]
    BY <1>0, <2>3 DEF CacheTypes
  <2>5. \A i \in History!Threads : \A e, p, at : OpenAt(i, e, p, at) => OpenAt(i, e, p, at)'
    BY <2>3, <2>4 DEF OpenAt
  <2>6. \A d1 \in History!Days : hFolder'[d1] # None /\ ~hRaced' => \A p \in 1 .. Parts : InHand(hFolder[d1], d1, p, "folder")'
    BY <1>a, <2>3, <2>5 DEF InHand
  <2>7. \A j \in History!Threads : hLoad'[j] # None /\ hFolder'[hLoad'[j].day] = None => Passed(j)'
    <3> SUFFICES ASSUME NEW j \in History!Threads, hLoad'[j] # None, hFolder'[hLoad'[j].day] = None
                 PROVE  Passed(j)'
      OBVIOUS
    <3>1. CASE j = k
      <4>1. hLoad'[j].next = 0
        BY <2>2, <2>4, <3>1
      <4> QED BY <4>1 DEF Passed
    <3>2. CASE j # k
      <4>1. hLoad'[j] = hLoad[j]
        BY <2>4, <3>2
      <4>2. PICK e : e = hLoad[j].day
        OBVIOUS
      <4>3. Passed(j)
        BY <1>a, <2>3, <4>1
      <4> QED BY <2>3, <2>5, <4>1, <4>2, <4>3 DEF Passed, InHand
    <3> QED BY <3>1, <3>2
  <2> QED BY <1>0, <1>a, <2>3, <2>6, <2>7 DEF WholeInv
<1>3. CASE History!Killed
  <2>1. hLoad' = [k \in History!Threads |-> None] /\ hTmp' = [d \in History!Days |-> None] /\ hFolder' = hFolder
        /\ hRaced' = (hRaced \/ \E k \in History!Threads : hLoad[k] # None /\ hLoad[k].open = "folder")
    BY <1>3 DEF History!Killed
  <2>2. \A d \in History!Days : hFolder'[d] # None /\ ~hRaced' => \A p \in 1 .. Parts : InHand(hFolder[d], d, p, "folder")'
    <3>1. ~hRaced' => ~hRaced /\ \A j \in History!Threads : \A d, p : ~OpenAt(j, d, p, "folder")
      BY <2>1 DEF OpenAt
    <3> QED BY <1>a, <2>1, <3>1 DEF InHand
  <2>3. \A k \in History!Threads : hLoad'[k] = None
    BY <2>1
  <2> QED BY <1>0, <1>a, <2>1, <2>2, <2>3 DEF WholeInv
<1>4. CASE UNCHANGED <<History!cache, hRaced>>
  <2>1. UNCHANGED <<hLoad, hTmp, hFolder, hRaced>>
    BY <1>4 DEF History!cache
  <2>2. \A i \in History!Threads : \A e, p, at : OpenAt(i, e, p, at) <=> OpenAt(i, e, p, at)'
    BY <2>1 DEF OpenAt
  <2>3. \A j \in History!Threads : Passed(j) => Passed(j)'
    BY <2>1, <2>2 DEF Passed, InHand
  <2>4. \A d \in History!Days : \A p : InHand(hFolder[d], d, p, "folder") => InHand(hFolder[d], d, p, "folder")'
    BY <2>1, <2>2 DEF InHand
  <2> QED BY <1>0, <1>a, <2>1, <2>3, <2>4 DEF WholeInv
<1> QED
  <2>1. History!warm_similarity \/ History!Search => \E k \in History!Threads, d \in History!Days : History!Begin(k, d)
    BY DEF History!warm_similarity, History!Search, History!Threads, History!Last, History!available_days,
       History!_earlier_sessions, History!session_days
  <2>2. \/ \E k \in History!Threads : LoadStep(k)
        \/ History!warm_similarity \/ History!Search \/ History!Killed
        \/ UNCHANGED <<History!cache, hRaced>>
    BY DEF History!Next, LoadStep, History!build_baselines, History!Close, History!NextDay, History!Bootstrapped, History!Archived,
       History!vars, History!cache
  <2> QED BY <1>1, <1>2, <1>3, <1>4, <2>1, <2>2

\* A folder that says it is complete is.
LEMMA CachesWhole == Spec => []History!CacheWhole
<1>1. Init => WholeInv
  <2> SUFFICES ASSUME Init PROVE WholeInv
    OBVIOUS
  <2>1. HistoryInv
    BY HistoryAssumption DEF Init, History!Init, HistoryInv, History!Days
  <2>2. /\ hFolder = [d \in History!Days |-> None]
        /\ hTmp = [d \in History!Days |-> None] /\ hLoad = [k \in History!Threads |-> None]
    BY DEF Init, History!Init
  <2>3. CacheTypes
    BY <2>2 DEF CacheTypes
  <2> QED BY <2>1, <2>2, <2>3 DEF WholeInv
<1>2. [Next]_vars => [History!Next]_(History!vars)
  BY DEF Next, vars, hVars, DaysOnly, SelectOnly, OutcomeOnly, TablesOnly, BookOnly, WalkOnly, HistoryOnly,
         SeriesOnly, SyncOnly, LevelsOnly, History!vars, History!cache
<1>3. WholeInv => History!CacheWhole
  BY DEF WholeInv, InHand, OpenAt, History!CacheWhole, History!Cached
<1> QED BY <1>1, <1>2, <1>3, WholeSteady, PTL DEF Spec

-----------------------------------------------------------------------------
(* The candle tables.                                                        *)

LEMMA TableCardinality == \A S : Table!Cardinality(S) = Cardinality(S)
BY DEF Table!Cardinality, Cardinality

\* The elements of a set in the order of their keys: each of them, once.
LEMMA SortedAll ==
    ASSUME NEW S, IsFiniteSet(S), NEW key \in [S -> Int], \A x, y \in S : key[x] = key[y] => x = y
    PROVE  /\ Table!Sorted(S, key) \in [1 .. Cardinality(S) -> S] /\ Cardinality(S) \in Nat
           /\ \A x \in S : \E n \in 1 .. Cardinality(S) : Table!Sorted(S, key)[n] = x
           /\ \A m, n \in 1 .. Cardinality(S) : Table!Sorted(S, key)[m] = Table!Sorted(S, key)[n] => m = n
<1> DEFINE N == Table!Cardinality(S)
           Less(x) == {y \in S : key[y] < key[x]}
           c(x) == Table!Cardinality(Less(x))
           rank == [x \in S |-> c(x)]
           s == Table!Sorted(S, key)
<1>a. N = Cardinality(S) /\ \A x : c(x) = Cardinality(Less(x))
  <2> HIDE DEF Less
  <2> QED BY TableCardinality
<1>b. \A x \in S : key[x] \in Int
  OBVIOUS
<1> HIDE DEF N, c
<1>0. N \in Nat
  BY <1>a, FS_CardinalityType
<1>1. ASSUME NEW x \in S PROVE c(x) \in 0 .. (N - 1) /\ IsFiniteSet(Less(x))
  <2>1. IsFiniteSet(S \ {x}) /\ Cardinality(S \ {x}) = N - 1
    BY <1>a, FS_RemoveElement
  <2>2. Less(x) \in SUBSET (S \ {x})
    OBVIOUS
  <2> HIDE DEF Less
  <2>3. IsFiniteSet(Less(x)) /\ c(x) <= N - 1
    BY <1>a, <2>1, <2>2, FS_Subset
  <2>4. c(x) \in Nat
    BY <1>a, <2>3, FS_CardinalityType
  <2> QED BY <1>0, <2>3, <2>4
<1>c. \A x \in S : c(x) \in 0 .. (N - 1)
  <2> HIDE DEF Less
  <2> QED BY <1>1
<1>2. ASSUME NEW x \in S, NEW y \in S, key[x] < key[y] PROVE c(x) < c(y)
  <2>1. Less(x) \in SUBSET (Less(y) \ {x}) /\ x \in Less(y)
    <3>1. \A z \in S : key[z] < key[x] => key[z] < key[y] /\ z # x
      BY <1>b, <1>2
    <3> QED BY <1>2, <3>1
  <2> HIDE DEF Less
  <2>2. IsFiniteSet(Less(y) \ {x}) /\ Cardinality(Less(y) \ {x}) = c(y) - 1
    BY <1>a, <1>1, <2>1, FS_RemoveElement
  <2>3. c(x) <= c(y) - 1
    BY <1>a, <2>1, <2>2, FS_Subset
  <2>4. c(x) \in Int /\ c(y) \in Int
    BY <1>1
  <2> QED BY <2>3, <2>4
<1>3. \A x, y \in S : c(x) = c(y) => x = y
  <2> SUFFICES ASSUME NEW x \in S, NEW y \in S, c(x) = c(y), x # y PROVE FALSE
    OBVIOUS
  <2>1. key[x] < key[y] \/ key[y] < key[x]
    OBVIOUS
  <2>2. c(x) \in Int /\ c(y) \in Int
    BY <1>c, <1>0
  <2> HIDE DEF Less
  <2> QED BY <1>2, <2>1, <2>2
<1>4. rank \in Injection(S, 0 .. (N - 1))
  BY <1>c, <1>3 DEF Injection, IsInjective
<1>5. IsFiniteSet(0 .. (N - 1)) /\ Cardinality(0 .. (N - 1)) = N
  <2>1. Cardinality(0 .. (N - 1)) = IF 0 > N - 1 THEN 0 ELSE (N - 1) - 0 + 1
    BY <1>0, FS_Interval
  <2> QED BY <1>0, <2>1, FS_Interval
<1>6. rank \in Surjection(S, 0 .. (N - 1))
  <2> HIDE DEF rank
  <2> QED BY <1>a, <1>4, <1>5, FS_Injection
<1>7. \A n \in 1 .. N : \E x \in S : c(x) = n - 1
  <2> SUFFICES ASSUME NEW n \in 1 .. N PROVE \E x \in S : c(x) = n - 1
    OBVIOUS
  <2>1. n - 1 \in 0 .. (N - 1)
    BY <1>0
  <2>2. PICK x \in S : rank[x] = n - 1
    BY <1>6, <2>1 DEF Surjection
  <2> QED BY <2>2
<1>8. s = [n \in 1 .. N |-> CHOOSE x \in S : c(x) = n - 1]
  BY DEF Table!Sorted, N, c
<1> HIDE DEF s, rank
<1>9. \A n \in 1 .. N : s[n] \in S /\ c(s[n]) = n - 1
  BY <1>7, <1>8
<1>10. \A x \in S : \E n \in 1 .. N : s[n] = x
  <2> SUFFICES ASSUME NEW x \in S PROVE \E n \in 1 .. N : s[n] = x
    OBVIOUS
  <2>1. c(x) + 1 \in 1 .. N /\ (c(x) + 1) - 1 = c(x)
    BY <1>0, <1>c
  <2> QED BY <1>3, <1>9, <2>1
<1>11. \A m, n \in 1 .. N : s[m] = s[n] => m = n
  BY <1>0, <1>9
<1>12. s \in [1 .. N -> S]
  BY <1>8, <1>9
<1> QED BY <1>a, <1>0, <1>10, <1>11, <1>12 DEF s

\* A time of a day is of that day.
LEMMA DayOfTime ==
    ASSUME NEW d \in Int, NEW x \in 0 .. (DayLen - 1)
    PROVE  Table!DayOf(d * DayLen + x) = d
<1> DEFINE t == d * DayLen + x
           q == t \div DayLen
<1>1. DayLen \in Nat \ {0} /\ t \in Int
  BY TableAssumption
<1>2. q \in Int /\ q * DayLen <= t /\ t < q * DayLen + DayLen
  <2> HIDE DEF t
  <2>1. q \in Int /\ t = DayLen * q + (t % DayLen) /\ t % DayLen \in 0 .. (DayLen - 1)
    BY <1>1
  <2> QED BY <1>1, <2>1
<1>3. d * DayLen <= t /\ t < d * DayLen + DayLen
  BY <1>1
<1>4. \A a, b \in Int : a < b => a * DayLen + DayLen <= b * DayLen
  <2> SUFFICES ASSUME NEW a \in Int, NEW b \in Int, a < b PROVE a * DayLen + DayLen <= b * DayLen
    OBVIOUS
  <2>1. PICK e \in Nat : b = a + 1 + e
    <3>1. b - a - 1 \in Nat /\ b = a + 1 + (b - a - 1)
      OBVIOUS
    <3> QED BY <3>1
  <2>2. b * DayLen = a * DayLen + DayLen + e * DayLen
    BY <1>1, <2>1
  <2>3. e * DayLen >= 0
    BY <1>1
  <2> QED BY <1>1, <2>2, <2>3
<1>5. \A a \in Int : a * DayLen \in Int
  BY <1>1
<1> HIDE DEF t, q
<1>6. q = d
  BY <1>1, <1>2, <1>3, <1>4, <1>5
<1> QED BY <1>6 DEF Table!DayOf, q, t

LEMMA LeastOfTwo ==
    ASSUME NEW a \in Int, NEW b \in Int
    PROVE  /\ Table!Min({a, b}) \in {a, b} /\ Table!Min({a, b}) <= a /\ Table!Min({a, b}) <= b
           /\ Table!Max({a, b}) \in {a, b} /\ Table!Max({a, b}) >= a /\ Table!Max({a, b}) >= b
<1>1. \E x \in {a, b} : \A y \in {a, b} : x <= y
  OBVIOUS
<1>2. \E x \in {a, b} : \A y \in {a, b} : x >= y
  OBVIOUS
<1> QED BY <1>1, <1>2 DEF Table!Min, Table!Max

LEMMA WantedEnds == Table!LastDay \in Int
<1>1. PICK b \in Wanted : b \in Int /\ \A d \in Wanted : d <= b
  BY TableAssumption
<1>2. Table!LastDay \in Wanted
  BY <1>1 DEF Table!LastDay, Table!Max
<1> QED BY <1>2, TableAssumption

TableRows == {r \in [1 .. 6 -> Int \cup {NaN}] : r[1] \in Int}
GoodRows == {r \in TableRows : Table!Usable(r)}
\* The rows that may be answered for a span of days.
LEMMA AnswerRows ==
    ASSUME NEW span \in SUBSET Int, NEW r \in Table!Answerable(span)
    PROVE  r \in TableRows /\ Table!DayOf(r[1]) \in span
<1>1. PICK d \in span, c \in TableCandles : r = [c EXCEPT ![1] = d * DayLen + c[1]]
  BY DEF Table!Answerable
<1>2. DOMAIN c = 1 .. 6 /\ c[1] \in 0 .. (DayLen - 1) /\ \A i \in 2 .. 6 : c[i] \in Int \cup {NaN}
  BY TableAssumption
<1>3. PICK t : t = d * DayLen + c[1]
  OBVIOUS
<1>4. t \in Int /\ Table!DayOf(t) = d
  <2>1. d \in Int /\ c[1] \in 0 .. (DayLen - 1) /\ DayLen \in Nat
    BY <1>2, TableAssumption
  <2>2. Table!DayOf(d * DayLen + c[1]) = d
    BY <2>1, DayOfTime
  <2>3. d * DayLen + c[1] \in Int
    BY <2>1
  <2> QED BY <1>3, <2>2, <2>3
<1>5. r = [i \in 1 .. 6 |-> IF i = 1 THEN t ELSE c[i]]
  BY <1>1, <1>2, <1>3
<1>6. r[1] = t /\ r \in [1 .. 6 -> Int \cup {NaN}]
  BY <1>2, <1>4, <1>5
<1> QED BY <1>4, <1>6 DEF TableRows

\* The rows of an answer that are kept: usable, of a wanted day, one for each minute that has one.
Kept(rows) == {r \in Table!parse_candles(rows) : Table!DayOf(r[1]) \in Wanted}
AllKept(kept, rows, n, span) ==
    /\ IsFiniteSet(kept)
    /\ \A r \in kept : /\ r \in GoodRows /\ r \in {rows[i] : i \in DOMAIN rows}
                        /\ Table!DayOf(r[1]) \in span /\ Table!DayOf(r[1]) \in Wanted
    /\ \A x, y \in kept : x[1] = y[1] => x = y
    /\ \A i \in 1 .. n : Table!Usable(rows[i]) /\ Table!DayOf(rows[i][1]) \in Wanted => \E r \in kept : r[1] = rows[i][1]
LEMMA KeptRows ==
    ASSUME NEW span \in SUBSET Int, NEW n \in Nat, NEW rows \in [1 .. n -> Table!Answerable(span)]
    PROVE  AllKept(Kept(rows), rows, n, span)
<1> DEFINE First == {k \in 1 .. n : Table!Usable(rows[k]) /\ \A j \in 1 .. (k - 1) : Table!Usable(rows[j]) => rows[j][1] # rows[k][1]}
           T == {rows[i] : i \in First}
<1>1. Table!parse_candles(rows) = T
  BY DEF Table!parse_candles
<1>2. \A i \in 1 .. n : rows[i] \in TableRows /\ Table!DayOf(rows[i][1]) \in span
  BY AnswerRows
<1>3. IsFiniteSet(T)
  <2>1. First \in SUBSET (1 .. n) /\ IsFiniteSet(1 .. n)
    BY FS_Interval
  <2> HIDE DEF First
  <2>2. IsFiniteSet(First)
    BY <2>1, FS_Subset
  <2>3. [i \in First |-> rows[i]] \in Surjection(First, T)
    BY DEF Surjection
  <2> QED BY <2>2, <2>3, FS_Surjection
<1>4. IsFiniteSet(Kept(rows))
  <2>1. Kept(rows) \in SUBSET T
    BY <1>1 DEF Kept
  <2> HIDE DEF T
  <2> QED BY <1>3, <2>1, FS_Subset
<1>5. \A x, y \in T : x[1] = y[1] => x = y
  <2> SUFFICES ASSUME NEW i \in First, NEW j \in First, rows[i][1] = rows[j][1] PROVE i = j
    OBVIOUS
  <2>1. i \in Int /\ j \in Int /\ ~(i \in 1 .. (j - 1)) /\ ~(j \in 1 .. (i - 1))
    OBVIOUS
  <2> QED BY <2>1
<1>6. ASSUME NEW i \in 1 .. n, Table!Usable(rows[i]) PROVE \E r \in T : r[1] = rows[i][1]
  <2> DEFINE Same == {k \in 1 .. n : Table!Usable(rows[k]) /\ rows[k][1] = rows[i][1]}
  <2>1. Same \in SUBSET Nat /\ i \in Same
    BY <1>6
  <2>2. PICK k \in Same : \A j \in Same : k <= j
    <3> HIDE DEF Same
    <3> QED BY <2>1, LeastNatural
  <2>3. \A j \in 1 .. (k - 1) : j \notin Same /\ j \in 1 .. n
    BY <2>2
  <2>4. k \in First
    BY <2>3
  <2> QED BY <2>4
<1>7. \A r \in T : Table!Usable(r) /\ \E i \in 1 .. n : r = rows[i]
  OBVIOUS
<1> HIDE DEF T
<1>8. \A r \in Kept(rows) : /\ r \in GoodRows /\ r \in {rows[i] : i \in DOMAIN rows}
                            /\ Table!DayOf(r[1]) \in span /\ Table!DayOf(r[1]) \in Wanted
  BY <1>1, <1>2, <1>7 DEF Kept, GoodRows
<1>9. \A x, y \in Kept(rows) : x[1] = y[1] => x = y
  BY <1>1, <1>5 DEF Kept
<1>10. ASSUME NEW i \in 1 .. n, Table!Usable(rows[i]), Table!DayOf(rows[i][1]) \in Wanted
       PROVE  \E r \in Kept(rows) : r[1] = rows[i][1]
  <2>1. PICK r \in T : r[1] = rows[i][1]
    BY <1>6, <1>10
  <2>2. r \in Kept(rows)
    BY <1>1, <1>10, <2>1 DEF Kept
  <2> QED BY <2>1, <2>2
<1> QED BY <1>4, <1>8, <1>9, <1>10 DEF AllKept

\* Every minute of a wanted day that was answered with a usable row is staged once, from a row
\* that was answered; the days still to be asked for lie ahead; the files are filled at the end.
TableInv ==
    /\ tTodo \in Int
    /\ tStaged \in Seq(GoodRows)
    /\ tAnswered \subseteq TableRows
    /\ \A q \in tAnswered : Table!DayOf(q[1]) \in Int /\ Table!DayOf(q[1]) < tTodo
    /\ \A q \in tAnswered : Table!Usable(q) /\ Table!DayOf(q[1]) \in Wanted =>
           \E i \in 1 .. Len(tStaged) : tStaged[i][1] = q[1]
    /\ \A i \in 1 .. Len(tStaged) : tStaged[i] \in tAnswered
    /\ \A i, j \in 1 .. Len(tStaged) : tStaged[i][1] = tStaged[j][1] => i = j
    /\ tTable = <<>> \/ (tTodo > Table!LastDay /\ tTable = <<[d \in Wanted |-> Table!writer(d)]>>)

\* A span begins with the day it is asked from and ends before the next one.
LEMMA SpanAhead ==
    ASSUME NEW start \in Int, start <= Table!LastDay
    PROVE  /\ Table!NextStart(start) \in Int /\ Table!NextStart(start) > start /\ Table!NextStart(start) <= Table!LastDay + 1
           /\ Table!_span(start) \in SUBSET Int
           /\ \A d \in Table!_span(start) : start <= d /\ d < Table!NextStart(start)
<1>1. PICK last, next, m : last = Table!LastDay /\ next = start + MaxSpan - 1 /\ m = Table!Min({Table!LastDay, start + MaxSpan - 1})
  OBVIOUS
<1>2. last \in Int /\ next \in Int /\ next >= start
  BY <1>1, WantedEnds, TableAssumption
<1>3. m \in {last, next} /\ m <= last /\ m <= next
  <2>1. m = Table!Min({last, next})
    BY <1>1
  <2> QED BY <1>2, <2>1, LeastOfTwo
<1>4. Table!NextStart(start) = m + 1 /\ Table!_span(start) = start .. m
  <2>1. Table!NextStart(start) = m + 1
    BY ONLY <1>1, Zenon DEF Table!NextStart
  <2>2. Table!_span(start) = start .. m
    BY ONLY <1>1, Zenon DEF Table!_span
  <2> QED BY <2>1, <2>2
<1>5. m \in Int /\ m >= start
  BY <1>1, <1>2, <1>3
<1>6. PICK ahead, span : ahead = Table!NextStart(start) /\ span = Table!_span(start)
  OBVIOUS
<1>7. /\ ahead \in Int /\ ahead > start /\ ahead <= last + 1
      /\ span \in SUBSET Int /\ \A d \in span : start <= d /\ d < ahead
  <2>1. ahead = m + 1 /\ span = start .. m
    BY <1>4, <1>6
  <2> QED BY ONLY start \in Int, <1>2, <1>3, <1>5, <2>1
<1> QED BY <1>1, <1>6, <1>7

LEMMA Downloaded ==
    ASSUME TableInv, NEW n \in Nat, NEW rows \in [1 .. n -> Table!Answerable(Table!_span(tTodo))], Table!Download(rows)
    PROVE  TableInv'
<1>1. PICK kept, more, was, now :
         /\ kept = Kept(rows) /\ more = Table!Sorted(Kept(rows), [r \in Kept(rows) |-> r[1]])
         /\ was = tStaged /\ now = tStaged'
  OBVIOUS
<1>2. /\ tTodo <= Table!LastDay /\ tTodo' = Table!NextStart(tTodo) /\ now = was \o more
      /\ tAnswered' = tAnswered \cup {rows[i] : i \in DOMAIN rows} /\ tTable' = tTable
  BY <1>1 DEF Table!Download, Kept
<1>3. tTodo \in Int /\ was \in Seq(GoodRows) /\ tAnswered \subseteq TableRows
  BY <1>1 DEF TableInv
<1>4. PICK span : span = Table!_span(tTodo)
  OBVIOUS
<1>5. /\ tTodo' \in Int /\ tTodo' > tTodo /\ span \in SUBSET Int
      /\ \A d \in span : tTodo <= d /\ d < tTodo'
  BY <1>2, <1>3, <1>4, SpanAhead
<1>6. rows \in [1 .. n -> Table!Answerable(span)]
  BY <1>4
<1>7. /\ IsFiniteSet(kept)
      /\ \A r \in kept : r \in GoodRows /\ r \in {rows[i] : i \in DOMAIN rows} /\ Table!DayOf(r[1]) \in span
      /\ \A x, y \in kept : x[1] = y[1] => x = y
      /\ \A i \in 1 .. n : Table!Usable(rows[i]) /\ Table!DayOf(rows[i][1]) \in Wanted => \E r \in kept : r[1] = rows[i][1]
  <2>1. span \in SUBSET Int
    BY <1>5
  <2>2. AllKept(Kept(rows), rows, n, span)
    BY ONLY <1>6, <2>1, n \in Nat, KeptRows
  <2>3. AllKept(kept, rows, n, span)
    BY ONLY <1>1, <2>2, Zenon
  <2> QED BY ONLY <2>3, Zenon DEF AllKept
<1>8. \A i \in 1 .. n : rows[i] \in TableRows /\ Table!DayOf(rows[i][1]) \in span
  BY <1>5, <1>6, AnswerRows
<1>9. PICK N \in Nat : /\ more \in [1 .. N -> kept]
                       /\ \A x \in kept : \E i \in 1 .. N : more[i] = x
                       /\ \A i, j \in 1 .. N : more[i] = more[j] => i = j
  <2> DEFINE key == [r \in kept |-> r[1]]
  <2>1. key \in [kept -> Int] /\ \A x, y \in kept : key[x] = key[y] => x = y
    BY <1>7 DEF GoodRows, TableRows
  <2>2. more = Table!Sorted(kept, key)
    BY <1>1
  <2> HIDE DEF key
  <2>3. /\ Cardinality(kept) \in Nat /\ more \in [1 .. Cardinality(kept) -> kept]
        /\ \A x \in kept : \E i \in 1 .. Cardinality(kept) : more[i] = x
        /\ \A i, j \in 1 .. Cardinality(kept) : more[i] = more[j] => i = j
    BY <1>7, <2>1, <2>2, SortedAll
  <2> QED BY <2>3
<1>10. PICK L \in Nat : L = Len(was)
  BY <1>3
<1>11. /\ now \in Seq(GoodRows) /\ Len(now) = L + N
       /\ \A i \in 1 .. L : now[i] = was[i]
       /\ \A i \in 1 .. N : now[L + i] = more[i]
  <2>1. more \in [1 .. N -> GoodRows] /\ more \in Seq(GoodRows) /\ Len(more) = N
    BY <1>7, <1>9
  <2>2. /\ now \in Seq(GoodRows) /\ Len(now) = L + N
        /\ \A i \in 1 .. (L + N) : now[i] = IF i <= L THEN was[i] ELSE more[i - L]
    BY <1>2, <1>3, <1>10, <2>1, ConcatProperties
  <2>3. \A i \in 1 .. N : L + i \in 1 .. (L + N) /\ ~(L + i <= L) /\ (L + i) - L = i
    BY <1>10
  <2>4. \A i \in 1 .. L : i \in 1 .. (L + N)
    BY <1>10
  <2> QED BY <2>2, <2>3, <2>4
<1>12. \A i \in 1 .. (L + N) : i \in 1 .. L \/ \E j \in 1 .. N : i = L + j
  <2>1. \A i \in 1 .. (L + N) : i > L => i - L \in 1 .. N /\ i = L + (i - L)
    BY <1>10
  <2> QED BY <1>10, <2>1
<1>13. \A i \in 1 .. L : was[i] \in tAnswered
  BY <1>1, <1>10 DEF TableInv
<1>14. \A i \in 1 .. N : more[i] \in kept /\ more[i] \in tAnswered' /\ Table!DayOf(more[i][1]) \in span
  BY <1>2, <1>7, <1>9
<1>15. \A i \in 1 .. (L + N) : now[i] \in tAnswered'
  BY <1>2, <1>11, <1>12, <1>13, <1>14
<1>16. \A q \in tAnswered : Table!DayOf(q[1]) \in Int /\ Table!DayOf(q[1]) < tTodo
  BY DEF TableInv
<1>17. \A q \in tAnswered' : q \in TableRows /\ Table!DayOf(q[1]) \in Int /\ Table!DayOf(q[1]) < tTodo'
  <2> SUFFICES ASSUME NEW q \in tAnswered' PROVE q \in TableRows /\ Table!DayOf(q[1]) \in Int /\ Table!DayOf(q[1]) < tTodo'
    OBVIOUS
  <2>1. CASE q \in tAnswered
    BY <1>3, <1>5, <1>16, <2>1
  <2>2. CASE \E i \in 1 .. n : q = rows[i]
    BY <1>5, <1>8, <2>2
  <2> QED BY <1>2, <1>6, <2>1, <2>2
<1>18. ASSUME NEW q \in tAnswered', Table!Usable(q), Table!DayOf(q[1]) \in Wanted
       PROVE  \E i \in 1 .. (L + N) : now[i][1] = q[1]
  <2>1. CASE q \in tAnswered
    <3>1. PICK i \in 1 .. L : was[i][1] = q[1]
      BY <1>1, <1>10, <1>18, <2>1 DEF TableInv
    <3>2. i \in 1 .. (L + N)
      BY <1>10
    <3> QED BY <1>11, <3>1, <3>2
  <2>2. CASE \E i \in 1 .. n : q = rows[i]
    <3>1. PICK r \in kept : r[1] = q[1]
      BY <1>7, <1>18, <2>2
    <3>2. PICK j \in 1 .. N : more[j] = r
      BY <1>9
    <3>3. L + j \in 1 .. (L + N)
      BY <1>10
    <3> QED BY <1>11, <3>1, <3>2, <3>3
  <2> QED BY <1>2, <1>6, <2>1, <2>2
<1>19. ASSUME NEW i \in 1 .. (L + N), NEW j \in 1 .. (L + N), now[i][1] = now[j][1] PROVE i = j
  <2>1. CASE i \in 1 .. L /\ j \in 1 .. L
    BY <1>1, <1>10, <1>11, <1>19, <2>1 DEF TableInv
  <2>2. \A k \in 1 .. L, m \in 1 .. N : now[k][1] # now[L + m][1]
    <3> SUFFICES ASSUME NEW k \in 1 .. L, NEW m \in 1 .. N PROVE now[k][1] # now[L + m][1]
      OBVIOUS
    <3>1. Table!DayOf(was[k][1]) < tTodo /\ Table!DayOf(was[k][1]) \in Int
      BY ONLY <1>13, <1>16, k \in 1 .. L
    <3>2. Table!DayOf(more[m][1]) >= tTodo /\ Table!DayOf(more[m][1]) \in Int
      BY ONLY <1>5, <1>14, m \in 1 .. N
    <3>3. Table!DayOf(was[k][1]) # Table!DayOf(more[m][1])
      BY ONLY <1>3, <3>1, <3>2
    <3>4. now[k] = was[k] /\ now[L + m] = more[m]
      BY ONLY <1>11, k \in 1 .. L, m \in 1 .. N
    <3> QED BY ONLY <3>3, <3>4, Zenon
  <2>3. ASSUME NEW k \in 1 .. N, NEW m \in 1 .. N, now[L + k][1] = now[L + m][1] PROVE k = m
    <3>1. more[k][1] = more[m][1]
      BY <1>11, <2>3
    <3>2. more[k] = more[m]
      BY <1>7, <1>14, <3>1
    <3> QED BY <1>9, <3>2
  <2>4. CASE i \in 1 .. L /\ \E m \in 1 .. N : j = L + m
    BY ONLY <1>19, <2>2, <2>4, Zenon
  <2>5. CASE j \in 1 .. L /\ \E m \in 1 .. N : i = L + m
    BY ONLY <1>19, <2>2, <2>5, Zenon
  <2>6. CASE (\E m \in 1 .. N : i = L + m) /\ (\E m \in 1 .. N : j = L + m)
    BY ONLY <1>19, <2>3, <2>6, Zenon
  <2> QED BY ONLY <1>12, i \in 1 .. (L + N), j \in 1 .. (L + N), <2>1, <2>4, <2>5, <2>6, Zenon
<1>20. tTable' = <<>>
  BY <1>2, <1>3, WantedEnds DEF TableInv
<1> QED BY <1>1, <1>5, <1>10, <1>11, <1>15, <1>17, <1>18, <1>19, <1>20 DEF TableInv

LEMMA TableSteady == TableInv /\ [Table!Next]_(Table!vars) => TableInv'
<1> SUFFICES ASSUME TableInv, [Table!Next]_(Table!vars) PROVE TableInv'
  OBVIOUS
<1>1. CASE \E n \in 0 .. MaxRows : \E rows \in [1 .. n -> Table!Answerable(Table!_span(tTodo))] : Table!Download(rows)
  <2>1. PICK n \in 0 .. MaxRows : \E rows \in [1 .. n -> Table!Answerable(Table!_span(tTodo))] : Table!Download(rows)
    BY <1>1
  <2>2. n \in Nat
    BY TableAssumption
  <2> QED BY <2>1, <2>2, Downloaded
<1>2. CASE Table!assemble
  <2>1. /\ tTodo > Table!LastDay /\ tTable' = <<[d \in Wanted |-> Table!writer(d)]>>
        /\ tAnswered' = tAnswered /\ tStaged' = tStaged /\ tTodo' = tTodo
    BY <1>2 DEF Table!assemble
  <2>2. \A d \in Wanted : Table!writer(d)' = Table!writer(d)
    BY <2>1 DEF Table!writer
  <2>3. (tTodo > Table!LastDay /\ tTable = <<[d \in Wanted |-> Table!writer(d)]>>)'
    BY <2>1, <2>2
  <2> QED BY <2>1, <2>3 DEF TableInv
<1>3. CASE UNCHANGED Table!vars
  <2>1. tTable' = tTable /\ tAnswered' = tAnswered /\ tStaged' = tStaged /\ tTodo' = tTodo
    BY <1>3 DEF Table!vars
  <2>2. \A d \in Wanted : Table!writer(d)' = Table!writer(d)
    BY <2>1 DEF Table!writer
  <2> QED BY <2>1, <2>2 DEF TableInv
<1> QED BY <1>1, <1>2, <1>3 DEF Table!Next

LEMMA GoodRow ==
    ASSUME NEW r \in GoodRows
    PROVE  /\ r[1] \in Int /\ Table!Numbers(r) /\ Table!Whole(r[1]) /\ Table!InSession(r[1]) /\ Table!Geometry(r)
           /\ r[3] >= r[4] /\ r[4] > 0
<1>1. /\ r[1] \in Int /\ Table!Numbers(r) /\ Table!Whole(r[1]) /\ Table!InSession(r[1]) /\ Table!Geometry(r) /\ r[4] > 0
      /\ \A i \in 1 .. 6 : r[i] \in Int \cup {NaN}
  BY DEF GoodRows, TableRows, Table!Usable
<1>2. \A i \in 2 .. 6 : r[i] \in Int
  BY <1>1 DEF Table!Numbers
<1>3. PICK open, high, low, close, top, bottom :
        /\ open = r[2] /\ high = r[3] /\ low = r[4] /\ close = r[5]
        /\ top = Table!Max({r[2], r[5]}) /\ bottom = Table!Min({r[2], r[5]})
  OBVIOUS
<1>4. open \in Int /\ high \in Int /\ low \in Int /\ close \in Int
  BY <1>2, <1>3
<1>5. top = Table!Max({open, close}) /\ bottom = Table!Min({open, close})
  BY <1>3
<1>6. top \in {open, close} /\ top >= open /\ bottom \in {open, close} /\ bottom <= open
  BY <1>4, <1>5, LeastOfTwo
<1>7. high >= top /\ low <= bottom
  BY <1>1, <1>3 DEF Table!Geometry
<1>8. high >= low
  BY <1>4, <1>6, <1>7
<1> QED BY <1>1, <1>3, <1>8

\* The file of a day: its staged rows, each once, and nothing else.
FileOf(rs, N, d) ==
    /\ N \in Nat /\ DOMAIN rs = 1 .. N
    /\ \A n \in 1 .. N : rs[n] \in GoodRows /\ rs[n] \in tAnswered /\ Table!Of(rs[n], d)
    /\ \A m, n \in 1 .. N : rs[m][1] = rs[n][1] => m = n
    /\ \A i \in 1 .. Len(tStaged) : Table!Of(tStaged[i], d) => \E n \in 1 .. N : rs[n] = tStaged[i]
LEMMA DayFile ==
    ASSUME TableInv, NEW d \in Wanted
    PROVE  \E N : FileOf(Table!writer(d), N, d)
<1>1. PICK staged, places, order :
        /\ staged = tStaged /\ places = {i \in DOMAIN tStaged : Table!Of(tStaged[i], d)}
        /\ order = Table!Sorted({i \in DOMAIN tStaged : Table!Of(tStaged[i], d)},
                                [i \in {j \in DOMAIN tStaged : Table!Of(tStaged[j], d)} |-> i])
  OBVIOUS
<1>2. PICK L \in Nat : L = Len(tStaged) /\ DOMAIN staged = 1 .. L /\ DOMAIN tStaged = 1 .. L /\ staged \in Seq(GoodRows)
  BY <1>1 DEF TableInv
<1>3. places \in SUBSET (1 .. L) /\ \A i \in 1 .. L : i \in places <=> Table!Of(staged[i], d)
  BY <1>1, <1>2
<1>4. IsFiniteSet(places)
  <2>1. IsFiniteSet(1 .. L)
    BY FS_Interval
  <2> QED BY <1>3, <2>1, FS_Subset
<1>5. PICK N \in Nat : /\ order \in [1 .. N -> places]
                       /\ \A x \in places : \E n \in 1 .. N : order[n] = x
                       /\ \A m, n \in 1 .. N : order[m] = order[n] => m = n
  <2> DEFINE key == [i \in places |-> i]
  <2>1. key \in [places -> Int] /\ \A x, y \in places : key[x] = key[y] => x = y
    BY <1>3
  <2>2. order = Table!Sorted(places, key)
    BY <1>1
  <2> HIDE DEF key
  <2>3. /\ Cardinality(places) \in Nat /\ order \in [1 .. Cardinality(places) -> places]
        /\ \A x \in places : \E n \in 1 .. Cardinality(places) : order[n] = x
        /\ \A m, n \in 1 .. Cardinality(places) : order[m] = order[n] => m = n
    BY <1>4, <2>1, <2>2, SortedAll
  <2> QED BY <2>3
<1>6. PICK rs : rs = Table!writer(d)
  OBVIOUS
<1>7. rs = [n \in DOMAIN order |-> staged[order[n]]]
  BY ONLY <1>1, <1>6, Zenon DEF Table!writer
<1>8. DOMAIN rs = 1 .. N /\ \A n \in 1 .. N : rs[n] = staged[order[n]] /\ order[n] \in places
  BY <1>5, <1>7
<1>9. \A i \in 1 .. L : staged[i] \in GoodRows /\ staged[i] \in tAnswered
  BY <1>1, <1>2 DEF TableInv
<1>10. \A i, j \in 1 .. L : staged[i][1] = staged[j][1] => i = j
  BY <1>1, <1>2 DEF TableInv
<1>11. \A n \in 1 .. N : rs[n] \in GoodRows /\ rs[n] \in tAnswered /\ Table!Of(rs[n], d)
  BY <1>3, <1>8, <1>9
<1>12. \A m, n \in 1 .. N : rs[m][1] = rs[n][1] => m = n
  <2> SUFFICES ASSUME NEW m \in 1 .. N, NEW n \in 1 .. N, rs[m][1] = rs[n][1] PROVE m = n
    OBVIOUS
  <2>1. rs[m] = staged[order[m]] /\ rs[n] = staged[order[n]] /\ order[m] \in 1 .. L /\ order[n] \in 1 .. L
    BY <1>3, <1>8
  <2>2. staged[order[m]][1] = staged[order[n]][1]
    BY <2>1
  <2>3. order[m] = order[n]
    BY <1>10, <2>1, <2>2
  <2> QED BY <1>5, <2>3
<1>13. \A i \in 1 .. L : Table!Of(staged[i], d) => \E n \in 1 .. N : rs[n] = staged[i]
  BY <1>3, <1>5, <1>8
<1> QED BY <1>1, <1>2, <1>6, <1>8, <1>11, <1>12, <1>13 DEF FileOf

\* What the readers make of such a file.
LEMMA FileReads ==
    ASSUME TableInv, NEW d \in Wanted, NEW rs, NEW N, FileOf(rs, N, d)
    PROVE  /\ Table!_check_table(rs, d) = {}
           /\ Table!_to_bars(rs) = {r \in Table!ToSet(rs) : ~Table!_is_filler(r)}
           /\ {r[1] : r \in {q \in tAnswered : Table!Usable(q) /\ Table!Of(q, d)}} = {r[1] : r \in Table!ToSet(rs)}
<1>1. /\ N \in Nat /\ DOMAIN rs = 1 .. N
      /\ \A n \in 1 .. N : rs[n] \in GoodRows /\ rs[n] \in tAnswered /\ Table!Of(rs[n], d)
      /\ \A m, n \in 1 .. N : rs[m][1] = rs[n][1] => m = n
      /\ \A i \in 1 .. Len(tStaged) : Table!Of(tStaged[i], d) => \E n \in 1 .. N : rs[n] = tStaged[i]
  BY DEF FileOf
<1>2. \A n \in 1 .. N : /\ rs[n][1] \in Int /\ Table!Numbers(rs[n]) /\ Table!Whole(rs[n][1])
                        /\ Table!InSession(rs[n][1]) /\ Table!Geometry(rs[n]) /\ rs[n][3] >= rs[n][4] /\ rs[n][4] > 0
                        /\ ~(rs[n][3] < rs[n][4]) /\ ~(rs[n][4] <= 0)
  <2> SUFFICES ASSUME NEW n \in 1 .. N
               PROVE  /\ rs[n][1] \in Int /\ Table!Numbers(rs[n]) /\ Table!Whole(rs[n][1])
                      /\ Table!InSession(rs[n][1]) /\ Table!Geometry(rs[n]) /\ rs[n][3] >= rs[n][4] /\ rs[n][4] > 0
                      /\ ~(rs[n][3] < rs[n][4]) /\ ~(rs[n][4] <= 0)
    OBVIOUS
  <2>1. PICK r : r = rs[n]
    OBVIOUS
  <2>2. r \in GoodRows
    BY <1>1, <2>1
  <2>3. r[3] \in Int /\ r[4] \in Int
    <3>1. r[3] \in Int \cup {NaN} /\ r[4] \in Int \cup {NaN} /\ Table!Numbers(r)
      BY <2>2, GoodRow DEF GoodRows, TableRows
    <3> QED BY <3>1 DEF Table!Numbers
  <2>4. r[3] >= r[4] /\ r[4] > 0
    BY <2>2, GoodRow
  <2>5. ~(r[3] < r[4]) /\ ~(r[4] <= 0)
    BY <2>3, <2>4
  <2> QED BY <2>1, <2>2, <2>4, <2>5, GoodRow
<1>3. \A i \in 1 .. N : \A j \in 1 .. (i - 1) : j \in 1 .. N /\ rs[j][1] # rs[i][1]
  <2> SUFFICES ASSUME NEW i \in 1 .. N, NEW j \in 1 .. (i - 1) PROVE j \in 1 .. N /\ rs[j][1] # rs[i][1]
    OBVIOUS
  <2>1. j \in 1 .. N /\ j # i
    BY <1>1
  <2> QED BY <1>1, <2>1
<1>4. Table!_check_table(rs, d) = {}
  BY ONLY <1>1, <1>2, <1>3, Zenon DEF Table!_check_table
<1>5. Table!_to_bars(rs) = {r \in Table!ToSet(rs) : ~Table!_is_filler(r)}
  <2>1. Table!ToSet(rs) = {rs[i] : i \in 1 .. N}
    BY ONLY <1>1, Zenon DEF Table!ToSet
  <2>2. PICK F : F = {k \in DOMAIN rs :
                 /\ Table!Numbers(rs[k]) /\ Table!Geometry(rs[k]) /\ rs[k][3] >= rs[k][4] /\ ~Table!_is_filler(rs[k])
                 /\ \A j \in 1 .. (k - 1) : rs[j][1] = rs[k][1] => Table!_is_filler(rs[j])}
    OBVIOUS
  <2>3. Table!_to_bars(rs) = {rs[i] : i \in F}
    BY ONLY <2>2, Zenon DEF Table!_to_bars
  <2>4. \A k : k \in F <=> k \in 1 .. N /\ ~Table!_is_filler(rs[k])
    BY ONLY <1>1, <1>2, <1>3, <2>2, Zenon
  <2>5. {rs[i] : i \in F} = {r \in {rs[i] : i \in 1 .. N} : ~Table!_is_filler(r)}
    BY ONLY <2>4, Zenon
  <2> QED BY ONLY <2>1, <2>3, <2>5, Zenon
<1>6. {r[1] : r \in {q \in tAnswered : Table!Usable(q) /\ Table!Of(q, d)}} = {r[1] : r \in Table!ToSet(rs)}
  <2>1. Table!ToSet(rs) = {rs[i] : i \in 1 .. N}
    BY ONLY <1>1, Zenon DEF Table!ToSet
  <2>2. ASSUME NEW q \in tAnswered, Table!Usable(q), Table!Of(q, d) PROVE \E n \in 1 .. N : rs[n][1] = q[1]
    <3>1. Table!DayOf(q[1]) = d
      BY <2>2 DEF Table!Of
    <3>2. PICK i \in 1 .. Len(tStaged) : tStaged[i][1] = q[1]
      BY <2>2, <3>1 DEF TableInv
    <3>3. Table!Of(tStaged[i], d)
      BY <3>1, <3>2 DEF Table!Of
    <3> QED BY <1>1, <3>2, <3>3
  <2>3. \A n \in 1 .. N : rs[n] \in tAnswered /\ Table!Usable(rs[n]) /\ Table!Of(rs[n], d)
    BY <1>1 DEF GoodRows
  <2>4. PICK T : T = {q \in tAnswered : Table!Usable(q) /\ Table!Of(q, d)}
    OBVIOUS
  <2>5. \A q \in T : \E n \in 1 .. N : rs[n][1] = q[1]
    BY ONLY <2>2, <2>4, Zenon
  <2>6. \A n \in 1 .. N : rs[n] \in T
    BY ONLY <2>3, <2>4, Zenon
  <2>7. {r[1] : r \in T} = {r[1] : r \in {rs[i] : i \in 1 .. N}}
    BY ONLY <2>5, <2>6
  <2> QED BY ONLY <2>1, <2>4, <2>7, Zenon
<1> QED BY <1>4, <1>5, <1>6

\* A bar of the frame of a moment had ended by then.
LEMMA FramesSame ==
    ASSUME NEW d \in Int, NEW t \in Int, NEW bars
    PROVE  Table!frame_at(bars, d, t) = Table!frame_at({b \in bars : b[1] + 2 <= t}, d, t)
<1>1. PICK e, m : e = d * DayLen + CloseMinute /\ m = Table!Min({t, d * DayLen + CloseMinute})
  OBVIOUS
<1>2. e \in Int
  BY <1>1, TableAssumption
<1>3. m \in {t, e} /\ m <= t
  <2>1. m = Table!Min({t, e})
    BY <1>1
  <2> QED BY <1>2, <2>1, LeastOfTwo
<1>4. \A x : x \in Table!session_grid(d, t) => x + 2 <= t
  <2> SUFFICES ASSUME NEW x \in Table!session_grid(d, t) PROVE x + 2 <= t
    OBVIOUS
  <2>1. x \in (d * DayLen + Open) .. (m - 2)
    BY <1>1 DEF Table!session_grid
  <2>2. d * DayLen + Open \in Int
    BY TableAssumption
  <2> QED BY <1>2, <1>3, <2>1, <2>2
<1> QED BY ONLY <1>4, Zenon DEF Table!frame_at

\* What the bootstrap stores is what it was answered, and what a moment of the day is shown of it
\* is what could have been seen then.
LEMMA TablesHeld == Spec => [](TableInv /\ Table!TableRoundTrip /\ Table!FrameSame)
<1>1. Init => TableInv
  <2> SUFFICES ASSUME Init PROVE TableInv
    OBVIOUS
  <2>1. tAnswered = {} /\ tStaged = <<>> /\ tTodo = Table!FirstDay /\ tTable = <<>>
    BY DEF Init, Table!Init
  <2>2. Table!FirstDay \in Int
    <3>1. PICK a \in Wanted : a \in Int /\ \A d \in Wanted : a <= d
      BY TableAssumption
    <3>2. Table!FirstDay \in Wanted
      BY <3>1 DEF Table!FirstDay, Table!Min
    <3> QED BY <3>2, TableAssumption
  <2> QED BY <2>1, <2>2 DEF TableInv
<1>2. [Next]_vars => [Table!Next]_(Table!vars)
  BY DEF Next, vars, tVars, DaysOnly, SelectOnly, OutcomeOnly, TablesOnly, BookOnly, WalkOnly, HistoryOnly,
         SeriesOnly, SyncOnly, LevelsOnly, Table!vars
<1>3. TableInv => Table!TableRoundTrip
  <2> SUFFICES ASSUME TableInv, tTable # <<>>, NEW d \in Wanted
               PROVE  /\ Table!_check_table(Table!Rows(d), d) = {}
                      /\ Table!_to_bars(Table!Rows(d)) = {r \in Table!ToSet(Table!Rows(d)) : ~Table!_is_filler(r)}
                      /\ {r[1] : r \in {q \in tAnswered : Table!Usable(q) /\ Table!Of(q, d)}} = {r[1] : r \in Table!ToSet(Table!Rows(d))}
    BY DEF Table!TableRoundTrip
  <2>1. PICK files : files = [e \in Wanted |-> Table!writer(e)]
    OBVIOUS
  <2>2. tTable = <<files>>
    BY <2>1 DEF TableInv
  <2>3. tTable[1] = files /\ files[d] = Table!writer(d)
    BY <2>1, <2>2
  <2>4. PICK rs : rs = Table!Rows(d)
    OBVIOUS
  <2>5. rs = Table!writer(d)
    BY <2>3, <2>4 DEF Table!Rows
  <2>6. PICK N : FileOf(rs, N, d)
    BY <2>5, DayFile
  <2> QED BY <2>4, <2>6, FileReads
<1>4. Table!FrameSame
  <2> SUFFICES ASSUME NEW d \in Wanted, NEW t \in (d * DayLen) .. ((d + 1) * DayLen)
               PROVE  Table!frame_at(Table!_to_bars(Table!Rows(d)), d, t)
                      = Table!frame_at({b \in Table!_to_bars(Table!Rows(d)) : b[1] + 2 <= t}, d, t)
    BY DEF Table!FrameSame
  <2>1. d \in Int /\ d * DayLen \in Int /\ (d + 1) * DayLen \in Int
    BY TableAssumption
  <2>2. t \in Int
    BY <2>1
  <2> QED BY <2>1, <2>2, FramesSame
<1> QED BY <1>1, <1>2, <1>3, <1>4, TableSteady, PTL DEF Spec

-----------------------------------------------------------------------------
(* The served indicators.                                                    *)

\* No row is of a minute to come, also in the payload that is worked on.
SyncInv ==
    /\ yNow \in Int
    /\ yRows = [s \in SyncStocks |-> [m \in 1 .. LastSyncMinute |-> yRows[s][m]]]
    /\ yForming = [s \in SyncStocks |-> yForming[s]]
    /\ \A s \in SyncStocks : \A m \in 1 .. LastSyncMinute : yRows[s][m] # None => m <= yNow /\ yRows[s][m] # "part"
    /\ \A s \in SyncStocks : yForming[s] # None => yForming[s] \in Int /\ yForming[s] <= yNow
    /\ yPayload # None => \A s \in SyncStocks : \A c \in yPayload.stocks[s] : c.minute <= yPayload.at /\ c.value # "part"
    /\ Sync!ServedValues

LEMMA SyncSteady == SyncInv /\ [Sync!Next]_(Sync!vars) => SyncInv'
<1> SUFFICES ASSUME SyncInv, [Sync!Next]_(Sync!vars) PROVE SyncInv'
  OBVIOUS
<1>0. /\ yNow \in Int
      /\ yRows = [s \in SyncStocks |-> [m \in 1 .. LastSyncMinute |-> yRows[s][m]]]
      /\ yForming = [s \in SyncStocks |-> yForming[s]]
      /\ \A s \in SyncStocks : \A m \in 1 .. LastSyncMinute : yRows[s][m] # None => m <= yNow /\ yRows[s][m] # "part"
      /\ \A s \in SyncStocks : yForming[s] # None => yForming[s] \in Int /\ yForming[s] <= yNow
      /\ yPayload # None => \A s \in SyncStocks : \A c \in yPayload.stocks[s] : c.minute <= yPayload.at /\ c.value # "part"
      /\ Sync!ServedValues
  BY DEF SyncInv
\* A step that leaves the payload and the results alone and fills rows of minutes that came.
<1>1. ASSUME UNCHANGED <<yPayload, yResults>> PROVE Sync!ServedValues' /\ (yPayload # None => \A s \in SyncStocks : \A c \in yPayload.stocks[s] : c.minute <= yPayload.at /\ c.value # "part")'
  BY <1>0, <1>1 DEF Sync!ServedValues
<1>2. ASSUME UNCHANGED <<yNow, yPayload, yResults>>, NEW s \in SyncStocks, NEW m, NEW v, NEW w,
             yRows' = yRows \/ (yRows' = [yRows EXCEPT ![s][m] = v] /\ m <= yNow /\ v # "part"),
             yForming' = yForming \/ (yForming' = [yForming EXCEPT ![s] = w] /\ (w # None => w \in Int /\ w <= yNow))
      PROVE  SyncInv'
  <2>1. yRows' = [t \in SyncStocks |-> [k \in 1 .. LastSyncMinute |-> yRows'[t][k]]]
    <3>1. CASE yRows' = yRows
      BY ONLY <1>0, <3>1
    <3>2. CASE yRows' = [yRows EXCEPT ![s][m] = v]
      <4>1. /\ yRows' = [t \in SyncStocks |-> yRows'[t]]
            /\ \A t \in SyncStocks : yRows'[t] = IF t = s THEN [yRows[s] EXCEPT ![m] = v] ELSE yRows[t]
        BY ONLY <1>0, <3>2, s \in SyncStocks
      <4>2. \A t \in SyncStocks : yRows'[t] = [k \in 1 .. LastSyncMinute |-> yRows'[t][k]]
        BY ONLY <1>0, <4>1
      <4> QED BY ONLY <4>1, <4>2
    <3> QED BY ONLY <1>2, <3>1, <3>2
  <2>2. ASSUME NEW t \in SyncStocks, NEW k \in 1 .. LastSyncMinute, yRows'[t][k] # None
        PROVE  k <= yNow' /\ yRows'[t][k] # "part"
    <3>1. yRows'[t][k] = yRows[t][k] \/ (k = m /\ yRows'[t][k] = v /\ m <= yNow /\ v # "part")
      <4>1. CASE yRows' = yRows
        BY <4>1
      <4>2. CASE yRows' = [yRows EXCEPT ![s][m] = v] /\ m <= yNow /\ v # "part"
        <5>1. DOMAIN yRows = SyncStocks /\ DOMAIN yRows[t] = 1 .. LastSyncMinute
          BY <1>0
        <5>2. yRows'[t] = IF t = s THEN [yRows[t] EXCEPT ![m] = v] ELSE yRows[t]
          BY <4>2, <5>1
        <5> QED BY <4>2, <5>1, <5>2
      <4> QED BY <1>2, <4>1, <4>2
    <3> QED BY <1>0, <1>2, <2>2, <3>1
  <2>3. /\ yForming' = [t \in SyncStocks |-> yForming'[t]]
        /\ \A t \in SyncStocks : yForming'[t] # None => yForming'[t] \in Int /\ yForming'[t] <= yNow'
    BY <1>0, <1>2
  <2> QED BY <1>0, <1>1, <1>2, <2>1, <2>2, <2>3 DEF SyncInv
<1>3. CASE Sync!NextMinute
  <2>1. yNow' = yNow + 1 /\ UNCHANGED <<yRows, yForming, yPayload, yResults>>
    BY <1>3 DEF Sync!NextMinute
  <2>2. \A s \in SyncStocks : \A m \in 1 .. LastSyncMinute : yRows'[s][m] # None => m <= yNow' /\ yRows'[s][m] # "part"
    BY <1>0, <2>1
  <2> QED BY <1>0, <1>1, <2>1, <2>2 DEF SyncInv
<1>4. ASSUME NEW s \in SyncStocks, Sync!Trade(s) PROVE SyncInv'
  <2>1. /\ UNCHANGED <<yNow, yPayload, yResults>> /\ yForming' = [yForming EXCEPT ![s] = yNow]
        /\ \E v \in {"ws", "bad"} : yRows' = IF yForming[s] = None THEN yRows ELSE [yRows EXCEPT ![s][yForming[s]] = v]
    BY <1>4 DEF Sync!Trade
  <2>2. PICK v : v # "part" /\ yRows' = IF yForming[s] = None THEN yRows ELSE [yRows EXCEPT ![s][yForming[s]] = v]
    BY <2>1
  <2>3. CASE yForming[s] = None
    BY <1>0, <1>2, <2>1, <2>2, <2>3
  <2>4. CASE yForming[s] # None
    <3>1. yForming[s] <= yNow /\ yRows' = [yRows EXCEPT ![s][yForming[s]] = v]
      BY <1>0, <2>2, <2>4
    <3>2. yNow # None => yNow \in Int /\ yNow <= yNow
      BY <1>0
    <3> QED BY <1>2, <2>1, <2>2, <3>1, <3>2
  <2> QED BY <2>3, <2>4
<1>5. ASSUME NEW s \in SyncStocks, Sync!Backfill(s) PROVE SyncInv'
  <2>1. PICK m \in 1 .. yNow - 1 : /\ yRows' = [yRows EXCEPT ![s][m] = "hist"]
                                   /\ yForming' = IF yForming[s] = m THEN [yForming EXCEPT ![s] = None] ELSE yForming
                                   /\ UNCHANGED <<yNow, yPayload, yResults>>
    BY <1>5 DEF Sync!Backfill
  <2>2. m <= yNow
    BY <1>0
  <2> QED BY <1>2, <2>1, <2>2
<1>6. CASE Sync!Health \/ Sync!FetchFails \/ UNCHANGED Sync!vars
  <2>1. UNCHANGED <<yNow, yRows, yForming, yPayload, yResults>>
    BY <1>6 DEF Sync!Health, Sync!FetchFails, Sync!vars
  <2> QED BY <1>0, <1>1, <2>1 DEF SyncInv
<1>7. CASE Sync!Fetch
  <2>1. yPayload' = [stocks |-> Sync!market_live_json, at |-> yNow] /\ UNCHANGED <<yNow, yRows, yForming, yResults>>
    BY <1>7 DEF Sync!Fetch
  <2>2. \A s \in SyncStocks : \A c \in Sync!_stock_payload(s) : c.minute <= yNow /\ c.value # "part"
    BY <1>0 DEF Sync!_stock_payload
  <2>3. \A s \in SyncStocks : \A c \in yPayload'.stocks[s] : c.minute <= yPayload'.at /\ c.value # "part"
    <3>1. \A s \in SyncStocks : yPayload'.stocks[s] = Sync!_stock_payload(s)
      BY <2>1 DEF Sync!market_live_json
    <3> QED BY <2>1, <2>2, <3>1
  <2>4. Sync!ServedValues'
    BY <1>0, <2>1 DEF Sync!ServedValues
  <2> QED BY <1>0, <2>1, <2>3, <2>4 DEF SyncInv
<1>8. CASE Sync!_sync_once
  <2>1. yPayload # None /\ yPayload' = None /\ UNCHANGED <<yNow, yRows, yForming>>
    BY <1>8 DEF Sync!_sync_once
  <2>2. ASSUME NEW s \in SyncStocks, yResults'[s] # None, yResults'[s].values
        PROVE  yResults'[s].freshness = "FRESH" /\ \A c \in yResults'[s].from : c.value # "part" /\ c.minute <= yResults'[s].at
    <3>1. CASE yResults'[s] = yResults[s]
      BY <1>0, <2>2, <3>1 DEF Sync!ServedValues
    <3>2. CASE yResults'[s] = Sync!compute_stock(yPayload.at, yPayload.stocks[s])
      <4>1. PICK cs, t : cs = yPayload.stocks[s] /\ t = yPayload.at
        OBVIOUS
      <4>2. \A c \in cs : c.value # "part" /\ c.minute <= t
        BY <1>0, <2>1, <4>1
      <4>3. yResults'[s] = Sync!compute_stock(t, cs)
        BY <3>2, <4>1
      <4>4. cs # {}
        BY <2>2, <4>3 DEF Sync!compute_stock
      <4>5. PICK e, f, g : e = Sync!Emitted(t, cs) /\ f = Sync!_freshness(t, Sync!LastOf(cs).minute) /\ g = Sync!LastOf(cs).minute
        OBVIOUS
      <4>6. yResults'[s] = [asOf |-> g, at |-> t, freshness |-> f, from |-> cs, values |-> e]
        BY <4>3, <4>4, <4>5 DEF Sync!compute_stock
      <4>7. yResults'[s].freshness = f /\ yResults'[s].from = cs /\ yResults'[s].at = t /\ yResults'[s].values = e
        BY <4>6
      <4>8. Sync!Emitted(t, cs)
        BY <2>2, <4>5, <4>7, Zenon
      <4>9. f = "FRESH"
        BY <4>5, <4>8 DEF Sync!Emitted
      <4> QED BY <4>2, <4>7, <4>9
    <3>3. yResults'[s] = yResults[s] \/ yResults'[s] = Sync!compute_stock(yPayload.at, yPayload.stocks[s])
      <4>1. CASE \E r \in SyncStocks : Sync!Breaks(r)
        BY <1>8, <4>1 DEF Sync!_sync_once
      <4>2. CASE ~ \E r \in SyncStocks : Sync!Breaks(r)
        <5>1. Sync!Unchanged(s) => Sync!Rejudged(s) = yResults[s]
          BY <4>2 DEF Sync!Breaks, Sync!Rejudged
        <5> QED BY <1>8, <4>2, <5>1 DEF Sync!_sync_once
      <4> QED BY <4>1, <4>2
    <3> QED BY <3>1, <3>2, <3>3
  <2>3. Sync!ServedValues'
    BY <2>2 DEF Sync!ServedValues
  <2> QED BY <1>0, <2>1, <2>3 DEF SyncInv
<1> QED BY <1>3, <1>4, <1>5, <1>6, <1>7, <1>8 DEF Sync!Next

\* Values that are served were fresh, and of minutes that had come.
LEMMA ServedHeld == Spec => [](SyncInv /\ Sync!ServedValues)
<1>1. Init => SyncInv
  BY DEF Init, Sync!Init, SyncInv, Sync!ServedValues
<1>2. [Next]_vars => [Sync!Next]_(Sync!vars)
  BY DEF Next, vars, yVars, DaysOnly, SelectOnly, OutcomeOnly, TablesOnly, BookOnly, WalkOnly, HistoryOnly,
         SeriesOnly, SyncOnly, LevelsOnly, Sync!vars
<1>3. SyncInv => Sync!ServedValues
  BY DEF SyncInv
<1> QED BY <1>1, <1>2, <1>3, SyncSteady, PTL DEF Spec

-----------------------------------------------------------------------------
(* The features of the order book.                                           *)

BookFields == {"volume", "buy", "sell", "unclassified", "invalid", "valid", "ofi", "bid_dep", "bid_rep",
               "ask_dep", "ask_rep", "bid_up", "bid_down", "ask_up", "ask_down", "spread_max"}
\* The minute's sums, the last packet and the day go together: a day that has a volume has the last
\* one as its highest, and one that has a book has a last one.
BookInv ==
    /\ bB \in [BookFields -> Int]
    /\ bDay = [first |-> bDay.first, high |-> bDay.high, book |-> bDay.book, traded |-> bDay.traded, net |-> bDay.net, moved |-> bDay.moved]
    /\ bDay.traded \in Int /\ bDay.net \in Int
    /\ bB.bid_up >= 0 /\ bB.bid_down >= 0
    /\ bDay.first = None => bLast.volume = None /\ bDay.high = 0 /\ bDay.traded = 0 /\ bB.volume = 0
    /\ bDay.first # None => bDay.first \in Int /\ bDay.high \in Int /\ bLast.volume = bDay.high /\ bDay.high >= 0
    /\ bDay.book = None => bLast.book = None /\ bDay.net = 0 /\ bB.bid_rep = 0 /\ bB.bid_dep = 0
    /\ bDay.book # None => bDay.book \in Book!Packets /\ bLast.book \in Book!Packets
    /\ Book!SharesOnce /\ Book!BidQuantityAddsUp

LEMMA Packet == \A p \in Book!Packets : p.bp \in Int /\ p.ap \in Int /\ p.bq \in Int /\ p.aq \in Int /\ p.ltp \in Int /\ p.volume \in Nat /\ p # None
BY BookAssumption DEF Book!Packets

\* A trade is on one side.
LEMMA OneSide == \A p : Book!Side(p) \in {"buy", "sell", "unclassified"}
BY DEF Book!Side

LEMMA IfType == \A c : \A x \in Int : Book!If(c, x) = (IF c THEN x ELSE 0) /\ Book!If(c, x) \in Int
BY DEF Book!If

\* What a packet adds to the minute.
AddedTo(p) ==
    LET t == Book!Traded(p)  q == bLast.book IN
    /\ bB' \in [BookFields -> Int] /\ t \in Int
    /\ bB'.valid = bB.valid + Book!If(Book!ValidBook(p), 1) /\ bB'.invalid = bB.invalid + Book!If(~Book!ValidBook(p), 1)
    /\ bB'.volume = bB.volume + t
    /\ bB'.buy = bB.buy + Book!If(Book!Side(p) = "buy", t)
    /\ bB'.sell = bB.sell + Book!If(Book!Side(p) = "sell", t)
    /\ bB'.unclassified = bB.unclassified + Book!If(Book!Side(p) = "unclassified", t)
    /\ ~(Book!ValidBook(p) /\ q # None) =>
           bB'.bid_rep = bB.bid_rep /\ bB'.bid_dep = bB.bid_dep /\ bB'.bid_up = bB.bid_up /\ bB'.bid_down = bB.bid_down
    /\ Book!ValidBook(p) /\ q # None =>
           /\ bB'.bid_rep = bB.bid_rep + Book!If(p.bp = q.bp /\ p.bq >= q.bq, p.bq - q.bq)
           /\ bB'.bid_dep = bB.bid_dep + Book!If(p.bp = q.bp /\ p.bq < q.bq, q.bq - p.bq)
           /\ bB'.bid_up = bB.bid_up + Book!If(p.bp > q.bp, 1)
           /\ bB'.bid_down = bB.bid_down + Book!If(p.bp < q.bp, 1)
LEMMA Adds ==
    ASSUME BookInv, NEW p \in Book!Packets, Book!Observe(p)
    PROVE  AddedTo(p)
<1> DEFINE x == [bB EXCEPT !.valid = @ + Book!If(Book!ValidBook(p), 1), !.invalid = @ + Book!If(~Book!ValidBook(p), 1),
                           !.spread_max = IF Book!ValidBook(p) /\ p.ap - p.bp > @ THEN p.ap - p.bp ELSE @]
           y == IF Book!ValidBook(p) /\ bLast.book # None THEN Book!Book(x, p, bLast.book) ELSE x
           t == Book!Traded(p)
           side == Book!Side(p)
           z == [y EXCEPT !.volume = @ + t, !.buy = @ + Book!If(side = "buy", t), !.sell = @ + Book!If(side = "sell", t),
                          !.unclassified = @ + Book!If(side = "unclassified", t)]
           Old(r) == /\ r \in [BookFields -> Int] /\ r.volume = bB.volume /\ r.buy = bB.buy /\ r.sell = bB.sell /\ r.unclassified = bB.unclassified
           Counted(r) == /\ r.valid = bB.valid + Book!If(Book!ValidBook(p), 1)
                         /\ r.invalid = bB.invalid + Book!If(~Book!ValidBook(p), 1)
           Bids(r) == r.bid_rep = bB.bid_rep /\ r.bid_dep = bB.bid_dep /\ r.bid_up = bB.bid_up /\ r.bid_down = bB.bid_down
<1>1. bB' = z
  BY DEF Book!Observe
<1>2. bB \in [BookFields -> Int] /\ p.bp \in Int /\ p.ap \in Int /\ p.bq \in Int /\ p.aq \in Int /\ p.volume \in Nat
  BY Packet DEF BookInv
<1>3. Old(x) /\ Bids(x) /\ Counted(x)
  <2>1. PICK c, d, e : c = bB.valid + Book!If(Book!ValidBook(p), 1) /\ d = bB.invalid + Book!If(~Book!ValidBook(p), 1)
                    /\ e = IF Book!ValidBook(p) /\ p.ap - p.bp > bB.spread_max THEN p.ap - p.bp ELSE bB.spread_max
    OBVIOUS
  <2>2. c \in Int /\ d \in Int /\ e \in Int
    BY <1>2, <2>1, IfType DEF BookFields
  <2>3. x = [[[bB EXCEPT !.valid = c] EXCEPT !.invalid = d] EXCEPT !.spread_max = e]
    BY <1>2, <2>1 DEF BookFields
  <2> HIDE DEF x
  <2> QED BY <1>2, <2>1, <2>2, <2>3 DEF BookFields
<1> HIDE DEF x
<1>4. t \in Int
  <2>1. bLast.volume # None => bLast.volume \in Int
    BY BookAssumption DEF BookInv
  <2>2. bLast.volume # None /\ p.volume > bLast.volume => p.volume - bLast.volume \in Int
    BY <1>2, <2>1
  <2> QED BY <2>2 DEF Book!Traded, Book!If
<1>5. /\ Old(y) /\ Counted(y)
      /\ ~(Book!ValidBook(p) /\ bLast.book # None) => Bids(y)
      /\ Book!ValidBook(p) /\ bLast.book # None =>
             /\ y.bid_rep = bB.bid_rep + Book!If(p.bp = bLast.book.bp /\ p.bq >= bLast.book.bq, p.bq - bLast.book.bq)
             /\ y.bid_dep = bB.bid_dep + Book!If(p.bp = bLast.book.bp /\ p.bq < bLast.book.bq, bLast.book.bq - p.bq)
             /\ y.bid_up = bB.bid_up + Book!If(p.bp > bLast.book.bp, 1)
             /\ y.bid_down = bB.bid_down + Book!If(p.bp < bLast.book.bp, 1)
  <2>1. CASE ~(Book!ValidBook(p) /\ bLast.book # None)
    BY <1>3, <2>1
  <2>2. CASE Book!ValidBook(p) /\ bLast.book # None
    <3>1. PICK q : q = bLast.book
      OBVIOUS
    <3>2. q.bp \in Int /\ q.ap \in Int /\ q.bq \in Int /\ q.aq \in Int
      BY <2>2, <3>1, Packet DEF BookInv
    <3>3. PICK a1, a2, a3, a4, a5, a6, a7, a8, a9 :
             /\ a1 = x.ofi + Book!Ofi(p, q)
             /\ a2 = x.bid_dep + Book!If(p.bp = q.bp /\ p.bq < q.bq, q.bq - p.bq)
             /\ a3 = x.bid_rep + Book!If(p.bp = q.bp /\ p.bq >= q.bq, p.bq - q.bq)
             /\ a4 = x.bid_up + Book!If(p.bp > q.bp, 1) /\ a5 = x.bid_down + Book!If(p.bp < q.bp, 1)
             /\ a6 = x.ask_dep + Book!If(p.ap = q.ap /\ p.aq < q.aq, q.aq - p.aq)
             /\ a7 = x.ask_rep + Book!If(p.ap = q.ap /\ p.aq >= q.aq, p.aq - q.aq)
             /\ a8 = x.ask_down + Book!If(p.ap < q.ap, 1) /\ a9 = x.ask_up + Book!If(p.ap > q.ap, 1)
      OBVIOUS
    <3>4. Book!Ofi(p, q) \in Int
      BY <1>2, <3>2, IfType DEF Book!Ofi
    <3>5. \A f \in BookFields : x[f] \in Int
      BY <1>3
    <3>6. /\ a1 \in Int /\ a2 \in Int /\ a3 \in Int /\ a4 \in Int /\ a5 \in Int
          /\ a6 \in Int /\ a7 \in Int /\ a8 \in Int /\ a9 \in Int
      <4>1. \A i, j \in Int : i - j \in Int
        OBVIOUS
      <4> QED BY <1>2, <3>2, <3>3, <3>4, <3>5, <4>1, IfType DEF BookFields
    <3>7. y = [x EXCEPT !.ofi = a1, !.bid_dep = a2, !.bid_rep = a3, !.bid_up = a4, !.bid_down = a5,
                        !.ask_dep = a6, !.ask_rep = a7, !.ask_down = a8, !.ask_up = a9]
      BY <1>3, <2>2, <3>1, <3>3 DEF Book!Book, BookFields
    <3> HIDE DEF y
    <3>8. y \in [BookFields -> Int]
      BY <1>3, <3>6, <3>7
    <3>9. /\ y.volume = x.volume /\ y.buy = x.buy /\ y.sell = x.sell /\ y.unclassified = x.unclassified
          /\ y.valid = x.valid /\ y.invalid = x.invalid
          /\ y.bid_dep = a2 /\ y.bid_rep = a3 /\ y.bid_up = a4 /\ y.bid_down = a5
      BY <1>3, <3>7 DEF BookFields
    <3> QED BY <1>3, <2>2, <3>1, <3>3, <3>8, <3>9
  <2> QED BY <2>1, <2>2
<1> HIDE DEF y
<1>6. PICK v1, v2, v3, v4 : /\ v1 = y.volume + t /\ v2 = y.buy + Book!If(side = "buy", t)
                            /\ v3 = y.sell + Book!If(side = "sell", t) /\ v4 = y.unclassified + Book!If(side = "unclassified", t)
  OBVIOUS
<1> HIDE DEF t, side
<1>7. v1 \in Int /\ v2 \in Int /\ v3 \in Int /\ v4 \in Int
  <2>1. y.volume \in Int /\ y.buy \in Int /\ y.sell \in Int /\ y.unclassified \in Int
    BY <1>5 DEF BookFields
  <2> QED BY <1>4, <1>6, <2>1, IfType
<1>8. z = [y EXCEPT !.volume = v1, !.buy = v2, !.sell = v3, !.unclassified = v4]
  BY <1>5, <1>6 DEF BookFields
<1> HIDE DEF z
<1>9. /\ z \in [BookFields -> Int] /\ z.volume = v1 /\ z.buy = v2 /\ z.sell = v3 /\ z.unclassified = v4
      /\ z.bid_rep = y.bid_rep /\ z.bid_dep = y.bid_dep /\ z.bid_up = y.bid_up /\ z.bid_down = y.bid_down
      /\ z.valid = y.valid /\ z.invalid = y.invalid
  BY <1>5, <1>7, <1>8 DEF BookFields
<1> QED BY <1>1, <1>4, <1>5, <1>6, <1>9 DEF AddedTo, t, side

LEMMA BookSteady == BookInv /\ [Book!Next]_(Book!vars) => BookInv'
<1> SUFFICES ASSUME BookInv, [Book!Next]_(Book!vars) PROVE BookInv'
  OBVIOUS
<1>0. bB \in [BookFields -> Int] /\ \A f \in BookFields : bB[f] \in Int
  BY DEF BookInv
<1>1. ASSUME NEW p \in Book!Packets, Book!Observe(p) PROVE BookInv'
  <2>1. AddedTo(p)
    BY <1>1, Adds
  <2>2. PICK t, q, v : t = Book!Traded(p) /\ q = bLast.book /\ v = bLast.volume
    OBVIOUS
  <2>3. /\ bLast'.book = (IF Book!ValidBook(p) THEN p ELSE q) /\ bLast'.volume = Book!LastVolume(p)
        /\ bDay' = [bDay EXCEPT !.first = IF @ = None THEN p.volume ELSE @,
                                !.high = IF p.volume > @ THEN p.volume ELSE @,
                                !.book = IF @ = None /\ Book!ValidBook(p) THEN p ELSE @]
    BY <1>1, <2>2 DEF Book!Observe
  <2>4. /\ bDay' = [first |-> bDay'.first, high |-> bDay'.high, book |-> bDay'.book, traded |-> bDay'.traded,
                    net |-> bDay'.net, moved |-> bDay'.moved]
        /\ bDay'.first = (IF bDay.first = None THEN p.volume ELSE bDay.first)
        /\ bDay'.high = (IF p.volume > bDay.high THEN p.volume ELSE bDay.high)
        /\ bDay'.book = (IF bDay.book = None /\ Book!ValidBook(p) THEN p ELSE bDay.book)
        /\ bDay'.traded = bDay.traded /\ bDay'.net = bDay.net /\ bDay'.moved = bDay.moved
    BY <2>3, Zenon DEF BookInv
  <2>5. p.volume \in Nat /\ p.bp \in Int /\ p.bq \in Int /\ p # None
    BY Packet
  <2>6. bDay.traded \in Int /\ bDay.net \in Int
    BY DEF BookInv
  <2>7. t = (IF v # None /\ p.volume > v THEN p.volume - v ELSE 0) /\ bLast'.volume = (IF v = None \/ p.volume >= v THEN p.volume ELSE v)
    BY <2>2, <2>3 DEF Book!Traded, Book!If, Book!LastVolume
  <2>8. /\ bDay'.first \in Int /\ bDay'.high \in Int /\ bDay'.high >= 0 /\ bLast'.volume = bDay'.high /\ bDay'.first # None
        /\ bDay'.traded + bB'.volume = bDay'.high - bDay'.first
    <3>1. bB'.volume = bB.volume + t /\ bB.volume \in Int
      BY <1>0, <2>1, <2>2 DEF AddedTo, BookFields
    <3>2. CASE bDay.first = None
      <4>1. v = None /\ bDay.high = 0 /\ bDay.traded = 0 /\ bB.volume = 0
        BY <2>2, <3>2 DEF BookInv
      <4>2. t = 0 /\ bLast'.volume = p.volume
        BY <2>7, <4>1
      <4>3. bDay'.first = p.volume /\ bDay'.high = p.volume /\ bDay'.traded = 0
        BY <2>4, <2>5, <3>2, <4>1
      <4> QED BY <2>5, <3>1, <4>1, <4>2, <4>3, BookAssumption
    <3>3. CASE bDay.first # None
      <4>1. /\ bDay.first \in Int /\ bDay.high \in Int /\ v = bDay.high /\ bDay.high >= 0
            /\ bDay.traded + bB.volume = bDay.high - bDay.first
        BY <2>2, <3>3 DEF BookInv, Book!SharesOnce
      <4>2. v # None
        BY <4>1, BookAssumption
      <4>3. bDay'.first = bDay.first /\ bDay'.traded = bDay.traded
        BY <2>4, <3>3
      <4>4. CASE p.volume > v
        <5>1. t = p.volume - v /\ bLast'.volume = p.volume /\ bDay'.high = p.volume
          BY <2>4, <2>5, <2>7, <4>1, <4>2, <4>4
        <5> QED BY <2>5, <2>6, <3>1, <3>3, <4>1, <4>3, <4>4, <5>1
      <4>5. CASE ~(p.volume > v)
        <5>1. t = 0 /\ bLast'.volume = v /\ bDay'.high = bDay.high
          BY <2>4, <2>5, <2>7, <4>1, <4>2, <4>5
        <5> QED BY <2>5, <2>6, <3>1, <3>3, <4>1, <4>3, <4>5, <5>1
      <4> QED BY <4>4, <4>5
    <3> QED BY <3>2, <3>3
  <2>9. bB'.volume = bB'.buy + bB'.sell + bB'.unclassified
    <3>1. t \in Int /\ Book!Side(p) \in {"buy", "sell", "unclassified"}
      BY <2>1, <2>2, OneSide DEF AddedTo
    <3>2. /\ bB'.volume = bB.volume + t
          /\ bB'.buy = bB.buy + (IF Book!Side(p) = "buy" THEN t ELSE 0)
          /\ bB'.sell = bB.sell + (IF Book!Side(p) = "sell" THEN t ELSE 0)
          /\ bB'.unclassified = bB.unclassified + (IF Book!Side(p) = "unclassified" THEN t ELSE 0)
      BY <2>1, <2>2, <3>1, IfType DEF AddedTo
    <3>3. bB.volume = bB.buy + bB.sell + bB.unclassified /\ bB.buy \in Int /\ bB.sell \in Int /\ bB.unclassified \in Int
      BY <1>0 DEF BookInv, Book!SharesOnce, BookFields
    <3> QED BY <3>1, <3>2, <3>3
  <2>10. Book!SharesOnce'
    BY <2>8, <2>9 DEF Book!SharesOnce
  <2>11. bB.bid_rep \in Int /\ bB.bid_dep \in Int /\ bB.bid_up \in Int /\ bB.bid_down \in Int /\ bB.bid_up >= 0 /\ bB.bid_down >= 0
    BY <1>0 DEF BookInv, BookFields
  <2>12. CASE ~Book!ValidBook(p)
    <3>1. UNCHANGED <<bB.bid_rep, bB.bid_dep, bB.bid_up, bB.bid_down, bDay.book, bDay.net, bDay.moved, bLast.book>>
      BY <2>1, <2>2, <2>3, <2>4, <2>12 DEF AddedTo
    <3>2. Book!BidQuantityAddsUp'
      BY <3>1 DEF BookInv, Book!BidQuantityAddsUp
    <3>3. /\ bDay'.book = None => bLast'.book = None /\ bDay'.net = 0 /\ bB'.bid_rep = 0 /\ bB'.bid_dep = 0
          /\ bDay'.book # None => bDay'.book \in Book!Packets /\ bLast'.book \in Book!Packets
      BY <3>1 DEF BookInv
    <3>4. bB'.bid_up >= 0 /\ bB'.bid_down >= 0
      BY <2>11, <3>1
    <3>5. bB' \in [BookFields -> Int]
      BY <2>1 DEF AddedTo
    <3>6. bDay'.traded \in Int /\ bDay'.net \in Int
      BY <2>4, <2>6
    <3> QED BY <2>4, <2>8, <2>10, <3>2, <3>3, <3>4, <3>5, <3>6 DEF BookInv, Book!Packets
  <2>13. CASE Book!ValidBook(p)
    <3>1. bLast'.book = p /\ bDay'.book = IF bDay.book = None THEN p ELSE bDay.book
      BY <2>3, <2>4, <2>13
    <3>2. bDay'.book # None /\ bDay'.book \in Book!Packets
      BY <2>5, <3>1 DEF BookInv
    <3>3. bB'.bid_up >= 0 /\ bB'.bid_down >= 0 /\ Book!BidQuantityAddsUp'
      <4>1. CASE q = None
        <5>1. bB'.bid_rep = bB.bid_rep /\ bB'.bid_dep = bB.bid_dep /\ bB'.bid_up = bB.bid_up /\ bB'.bid_down = bB.bid_down
          BY <2>1, <2>2, <4>1 DEF AddedTo
        <5>2. bDay.book = None
          BY <2>2, <4>1, Packet DEF BookInv
        <5>3. bDay.net = 0 /\ bB.bid_rep = 0 /\ bB.bid_dep = 0
          BY <5>2 DEF BookInv
        <5>4. bDay'.net + bB'.bid_rep - bB'.bid_dep = p.bq - p.bq
          BY <2>4, <2>5, <5>1, <5>3
        <5> QED BY <2>11, <3>1, <5>1, <5>2, <5>4 DEF Book!BidQuantityAddsUp
      <4>2. CASE q # None
        <5>1. bDay.book # None /\ q \in Book!Packets
          BY <2>2, <4>2 DEF BookInv
        <5>2. q.bp \in Int /\ q.bq \in Int
          BY <5>1, Packet
        <5>3. /\ bB'.bid_rep = bB.bid_rep + (IF p.bp = q.bp /\ p.bq >= q.bq THEN p.bq - q.bq ELSE 0)
              /\ bB'.bid_dep = bB.bid_dep + (IF p.bp = q.bp /\ p.bq < q.bq THEN q.bq - p.bq ELSE 0)
              /\ bB'.bid_up = bB.bid_up + (IF p.bp > q.bp THEN 1 ELSE 0)
              /\ bB'.bid_down = bB.bid_down + (IF p.bp < q.bp THEN 1 ELSE 0)
          <6>1. /\ bB'.bid_rep = bB.bid_rep + Book!If(p.bp = q.bp /\ p.bq >= q.bq, p.bq - q.bq)
                /\ bB'.bid_dep = bB.bid_dep + Book!If(p.bp = q.bp /\ p.bq < q.bq, q.bq - p.bq)
                /\ bB'.bid_up = bB.bid_up + Book!If(p.bp > q.bp, 1)
                /\ bB'.bid_down = bB.bid_down + Book!If(p.bp < q.bp, 1)
            BY <2>1, <2>2, <2>13, <4>2 DEF AddedTo
          <6> QED BY ONLY <6>1, Zenon DEF Book!If
        <5>4. bB'.bid_up \in Int /\ bB'.bid_down \in Int /\ bB'.bid_up >= bB.bid_up /\ bB'.bid_down >= bB.bid_down
          BY <2>11, <5>3
        <5>5. bDay'.book = bDay.book /\ bDay.book.bq \in Int
          BY <3>1, <5>1, Packet DEF BookInv
        <5>6. ASSUME ~(bDay'.moved \/ bB'.bid_up + bB'.bid_down > 0)
              PROVE  bDay'.net + bB'.bid_rep - bB'.bid_dep = p.bq - bDay.book.bq
          <6>1. ~bDay.moved
            BY <2>4, <5>6
          <6>2. bB'.bid_up = 0 /\ bB'.bid_down = 0 /\ bB.bid_up = 0 /\ bB.bid_down = 0
            BY <2>11, <5>4, <5>6
          <6>3. p.bp = q.bp
            BY <2>5, <5>2, <5>3, <6>2
          <6>4. bDay.net + bB.bid_rep - bB.bid_dep = q.bq - bDay.book.bq
            BY <2>2, <5>1, <6>1, <6>2 DEF BookInv, Book!BidQuantityAddsUp
          <6>5. bDay'.net = bDay.net
            BY <2>4
          <6> QED BY <2>5, <2>6, <2>11, <5>2, <5>3, <5>5, <6>3, <6>4, <6>5
        <5> QED BY <2>11, <3>1, <5>4, <5>5, <5>6 DEF Book!BidQuantityAddsUp
      <4> QED BY <4>1, <4>2
    <3>5. bB' \in [BookFields -> Int]
      BY <2>1 DEF AddedTo
    <3>6. bDay'.traded \in Int /\ bDay'.net \in Int
      BY <2>4, <2>6
    <3> QED BY <2>4, <2>8, <2>10, <3>1, <3>2, <3>3, <3>5, <3>6 DEF BookInv, Book!Packets
  <2> QED BY <2>12, <2>13
<1>2. CASE Book!NextMinute
  <2>1. /\ bB' = Book!Zero /\ bLast' = bLast
        /\ bDay' = [bDay EXCEPT !.traded = @ + bB.volume, !.net = @ + bB.bid_rep - bB.bid_dep,
                                !.moved = @ \/ bB.bid_up + bB.bid_down > 0]
    BY <1>2 DEF Book!NextMinute
  <2>2. /\ bB' \in [BookFields -> Int] /\ bB'.volume = 0 /\ bB'.buy = 0 /\ bB'.sell = 0 /\ bB'.unclassified = 0
        /\ bB'.bid_rep = 0 /\ bB'.bid_dep = 0 /\ bB'.bid_up = 0 /\ bB'.bid_down = 0
    BY <2>1 DEF Book!Zero, BookFields
  <2>3. PICK moved : moved = (bDay.moved \/ bB.bid_up + bB.bid_down > 0)
    OBVIOUS
  <2>4. /\ bDay' = [first |-> bDay'.first, high |-> bDay'.high, book |-> bDay'.book, traded |-> bDay'.traded,
                    net |-> bDay'.net, moved |-> bDay'.moved]
        /\ bDay'.first = bDay.first /\ bDay'.high = bDay.high /\ bDay'.book = bDay.book
        /\ bDay'.traded = bDay.traded + bB.volume /\ bDay'.net = bDay.net + bB.bid_rep - bB.bid_dep /\ bDay'.moved = moved
    BY <2>1, <2>3, Zenon DEF BookInv
  <2>5. /\ bB.volume \in Int /\ bB.bid_rep \in Int /\ bB.bid_dep \in Int /\ bDay.traded \in Int /\ bDay.net \in Int
        /\ bDay.traded + bB.volume \in Int /\ bDay.net + bB.bid_rep - bB.bid_dep \in Int
    BY <1>0 DEF BookInv, BookFields
  <2>6. Book!SharesOnce'
    BY <2>2, <2>4, <2>5 DEF BookInv, Book!SharesOnce
  <2>7. Book!BidQuantityAddsUp'
    <3> SUFFICES ASSUME ~bDay'.moved, bDay'.book # None PROVE bDay'.net + bB'.bid_rep - bB'.bid_dep = bLast'.book.bq - bDay'.book.bq
      BY DEF Book!BidQuantityAddsUp
    <3>1. ~(bDay.moved \/ bB.bid_up + bB.bid_down > 0)
      BY <2>3, <2>4
    <3>2. bDay.net + bB.bid_rep - bB.bid_dep = bLast.book.bq - bDay.book.bq
      BY <2>4, <3>1 DEF BookInv, Book!BidQuantityAddsUp
    <3> QED BY <2>1, <2>2, <2>4, <2>5, <3>2
  <2>8. /\ bDay'.first = None => bLast'.volume = None /\ bDay'.high = 0 /\ bDay'.traded = 0 /\ bB'.volume = 0
        /\ bDay'.first # None => bDay'.first \in Int /\ bDay'.high \in Int /\ bLast'.volume = bDay'.high /\ bDay'.high >= 0
        /\ bDay'.book = None => bLast'.book = None /\ bDay'.net = 0 /\ bB'.bid_rep = 0 /\ bB'.bid_dep = 0
        /\ bDay'.book # None => bDay'.book \in Book!Packets /\ bLast'.book \in Book!Packets
    BY <2>1, <2>2, <2>4 DEF BookInv
  <2>9. bDay'.traded \in Int /\ bDay'.net \in Int /\ bB'.bid_up >= 0 /\ bB'.bid_down >= 0
    BY <2>2, <2>4, <2>5
  <2> QED BY <2>2, <2>4, <2>6, <2>7, <2>8, <2>9 DEF BookInv, Book!Packets
<1>3. CASE UNCHANGED Book!vars
  BY <1>3 DEF Book!vars, BookInv, Book!SharesOnce, Book!BidQuantityAddsUp, Book!Packets
<1> QED BY <1>1, <1>2, <1>3 DEF Book!Next

\* Every traded share is of one minute and one side, and the best bid's quantity adds up.
LEMMA BookHeld == Spec => [](BookInv /\ Book!SharesOnce /\ Book!BidQuantityAddsUp)
<1>1. Init => BookInv
  <2> SUFFICES ASSUME Init PROVE BookInv
    OBVIOUS
  <2>1. /\ bB = Book!Zero /\ bLast = [book |-> None, mid2 |-> None, ltp |-> None, volume |-> None]
        /\ bDay = [first |-> None, high |-> 0, book |-> None, traded |-> 0, net |-> 0, moved |-> FALSE]
    BY DEF Init, Book!Init
  <2>2. /\ bB \in [BookFields -> Int] /\ bB.volume = 0 /\ bB.buy = 0 /\ bB.sell = 0 /\ bB.unclassified = 0
        /\ bB.bid_rep = 0 /\ bB.bid_dep = 0 /\ bB.bid_up = 0 /\ bB.bid_down = 0
    BY <2>1 DEF Book!Zero, BookFields
  <2> QED BY <2>1, <2>2 DEF BookInv, Book!SharesOnce, Book!BidQuantityAddsUp
<1>2. [Next]_vars => [Book!Next]_(Book!vars)
  BY DEF Next, vars, bVars, DaysOnly, SelectOnly, OutcomeOnly, TablesOnly, BookOnly, WalkOnly, HistoryOnly,
         SeriesOnly, SyncOnly, LevelsOnly, Book!vars
<1>3. BookInv => Book!SharesOnce /\ Book!BidQuantityAddsUp
  BY DEF BookInv
<1> QED BY <1>1, <1>2, <1>3, BookSteady, PTL DEF Spec

-----------------------------------------------------------------------------
(* The outcome of a decision.                                                *)

\* Over some of the first minutes a number has a greatest and a least value.
LEMMA Extremes ==
    ASSUME NEW n \in Nat, NEW C \in SUBSET (0 .. n - 1), C # {}, NEW f, \A m \in C : f[m] \in Int
    PROVE  /\ \E m \in C : \A k \in C : f[m] >= f[k]
           /\ \E m \in C : \A k \in C : f[m] <= f[k]
<1> DEFINE Low(j) == {m \in C : m < j}
           Has(j) == Low(j) = {} \/ (/\ \E m \in Low(j) : \A k \in Low(j) : f[m] >= f[k]
                                     /\ \E m \in Low(j) : \A k \in Low(j) : f[m] <= f[k])
           Bad == {j \in 0 .. n : ~Has(j)}
<1>1. Bad = {}
  <2> SUFFICES ASSUME Bad # {} PROVE FALSE
    OBVIOUS
  <2>1. PICK j \in Bad : \A i \in Bad : j <= i
    <3>1. Bad \in SUBSET Nat
      OBVIOUS
    <3> HIDE DEF Bad
    <3> QED BY <3>1, LeastNatural
  <2>2. j \in 0 .. n /\ ~Has(j)
    <3> HIDE DEF Has
    <3> QED BY <2>1
  <2>a. /\ \A m \in C : m \in Int /\ m >= 0 /\ m <= n - 1
        /\ \A i \in Int : \A m : m \in Low(i) <=> m \in C /\ m < i
    OBVIOUS
  <2>3. j # 0
    <3>1. SUFFICES ASSUME j = 0 PROVE Low(j) = {}
      BY <2>2
    <3> HIDE DEF Low
    <3>2. j \in Int
      BY <3>1
    <3>3. \A m : m \in Low(j) => m \in C /\ m < j
      BY ONLY <2>a, <3>2, Zenon
    <3>4. \A m \in C : ~(m < j)
      BY <2>a, <3>1
    <3> QED BY ONLY <3>3, <3>4, Zenon
  <2>4. j - 1 \in 0 .. n /\ Has(j - 1)
    <3> HIDE DEF Has
    <3> QED BY <2>1, <2>2, <2>3
  <2>5. \A m : m \in Low(j) <=> m \in Low(j - 1) \/ (m = j - 1 /\ m \in C)
    <3>1. j \in Int /\ j - 1 \in Int
      BY <2>2
    <3> HIDE DEF Low, Has
    <3>2. ASSUME NEW m PROVE m \in Low(j) <=> m \in Low(j - 1) \/ (m = j - 1 /\ m \in C)
      <4>1. (m \in Low(j) <=> m \in C /\ m < j) /\ (m \in Low(j - 1) <=> m \in C /\ m < j - 1)
        BY ONLY <2>a, <3>1, Zenon
      <4>2. m \in C => m \in Int
        BY <2>a
      <4> QED BY ONLY <3>1, <4>1, <4>2
    <3> QED BY <3>2
  <2>6. \A m \in Low(j) : f[m] \in Int
    OBVIOUS
  <2> HIDE DEF Low
  <2>7. CASE j - 1 \notin C
    BY <2>2, <2>4, <2>5, <2>7
  <2>8. CASE j - 1 \in C
    <3>1. f[j-1] \in Int /\ j - 1 \in Low(j) /\ \A m \in Low(j - 1) : m \in Low(j) /\ f[m] \in Int
      BY <2>5, <2>6, <2>8
    <3>2. \A m \in Low(j) : m \in Low(j - 1) \/ m = j - 1
      BY <2>5
    <3>3. CASE Low(j - 1) = {}
      BY <2>2, <3>1, <3>2, <3>3
    <3>4. CASE Low(j - 1) # {}
      <4>1. PICK a \in Low(j - 1) : \A k \in Low(j - 1) : f[a] >= f[k]
        BY <2>4, <3>4
      <4>2. PICK b \in Low(j - 1) : \A k \in Low(j - 1) : f[b] <= f[k]
        BY <2>4, <3>4
      <4>3. \E m \in Low(j) : \A k \in Low(j) : f[m] >= f[k]
        <5>1. CASE f[a] >= f[j-1]
          BY <3>1, <3>2, <4>1, <5>1
        <5>2. CASE f[j-1] > f[a]
          BY <3>1, <3>2, <4>1, <5>2
        <5> QED BY <3>1, <4>1, <5>1, <5>2
      <4>4. \E m \in Low(j) : \A k \in Low(j) : f[m] <= f[k]
        <5>1. CASE f[b] <= f[j-1]
          BY <3>1, <3>2, <4>2, <5>1
        <5>2. CASE f[j-1] < f[b]
          BY <3>1, <3>2, <4>2, <5>2
        <5> QED BY <3>1, <4>2, <5>1, <5>2
      <4> QED BY <2>2, <4>3, <4>4
    <3> QED BY <3>3, <3>4
  <2> QED BY <2>7, <2>8
<1>2. Has(n)
  <2> HIDE DEF Has
  <2> QED BY <1>1
<1>3. Low(n) = C
  <2>1. \A m \in C : m < n
    OBVIOUS
  <2> QED BY ONLY <2>1, Zenon
<1> QED BY <1>2, <1>3

LEMMA GreatestOf == \A S : (\E x \in S : \A y \in S : x >= y) => Result!Max(S) \in S /\ \A y \in S : Result!Max(S) >= y
BY DEF Result!Max
LEMMA LeastOf == \A S : (\E x \in S : \A y \in S : x <= y) => Result!Min(S) \in S /\ \A y \in S : Result!Min(S) <= y
BY DEF Result!Min
LEMMA WithZero ==
    ASSUME NEW a \in Int
    PROVE  /\ Result!Max({a, 0}) = (IF a >= 0 THEN a ELSE 0) /\ Result!Min({a, 0}) = (IF a <= 0 THEN a ELSE 0)
<1>1. /\ Result!Max({a, 0}) \in {a, 0} /\ \A y \in {a, 0} : Result!Max({a, 0}) >= y
      /\ Result!Min({a, 0}) \in {a, 0} /\ \A y \in {a, 0} : Result!Min({a, 0}) <= y
  <2>1. (\E x \in {a, 0} : \A y \in {a, 0} : x >= y) /\ (\E x \in {a, 0} : \A y \in {a, 0} : x <= y)
    OBVIOUS
  <2> QED BY <2>1, GreatestOf, LeastOf
<1> QED BY <1>1

OutTypes == oBars \in [Result!Minutes -> OutcomeCandles \cup {None}] /\ oSign \in {1, -1}

\* The bars of the horizons are among the bars.
LEMMA HorizonMinutes ==
    \A h \in Horizons \cup {EntryWithin} : h \in Nat /\ 0 .. h - 1 \subseteq Result!Minutes
<1>1. PICK l : l = Result!Max(Horizons \cup {EntryWithin})
  OBVIOUS
<1>2. l \in Horizons \cup {EntryWithin} /\ \A h \in Horizons \cup {EntryWithin} : l >= h
  BY <1>1, GreatestOf, OutcomeAssumption
<1>3. \A h \in Horizons \cup {EntryWithin} : h \in Nat
  BY OutcomeAssumption
<1>4. Result!Minutes = 0 .. l - 1
  BY ONLY <1>1, Zenon DEF Result!Minutes
<1>5. ASSUME NEW h \in Horizons \cup {EntryWithin} PROVE h \in Nat /\ 0 .. h - 1 \subseteq 0 .. l - 1
  <2>1. h \in Nat /\ l \in Nat /\ h <= l
    BY <1>2, <1>3
  <2> QED BY ONLY <2>1
<1> QED BY <1>4, <1>5

\* The bars of a horizon: of its minutes, and all of them candles.
LEMMA HorizonBars ==
    ASSUME OutTypes, NEW h \in Horizons
    PROVE  /\ h \in Nat /\ Result!Columns(h) \in SUBSET (0 .. h - 1)
           /\ \A m \in Result!Columns(h) : oBars[m] \in OutcomeCandles
<1>1. h \in Nat /\ 0 .. h - 1 \subseteq Result!Minutes
  BY HorizonMinutes
<1>2. Result!Columns(h) \in SUBSET (0 .. h - 1) /\ \A m \in Result!Columns(h) : oBars[m] # None
  BY DEF Result!Columns, Result!Traded
<1> QED BY <1>1, <1>2 DEF OutTypes

LEMMA EntryPrice ==
    ASSUME OutTypes, Result!Entries # {}
    PROVE  Result!entry \in Int
<1>1. EntryWithin \in Nat /\ 0 .. EntryWithin - 1 \subseteq Result!Minutes
  BY HorizonMinutes
<1>2. Result!Entries \in SUBSET (0 .. EntryWithin - 1) /\ \A m \in Result!Entries : oBars[m] # None
  BY DEF Result!Entries, Result!Traded
<1>3. PICK p \in Result!Entries : \A i \in Result!Entries : p <= i
  <2>1. Result!Entries \in SUBSET Nat
    BY <1>1, <1>2
  <2> QED BY <2>1, LeastNatural
<1>4. Result!entry_col \in Result!Entries
  BY <1>3, LeastOf DEF Result!entry_col
<1>5. oBars[Result!entry_col] \in OutcomeCandles
  BY <1>1, <1>2, <1>4 DEF OutTypes
<1> QED BY <1>5, OutcomeAssumption DEF Result!entry

\* The excursions of a horizon are reached, and the return lies between them.
Reached(h) ==
    /\ Result!up(h) \in Int /\ Result!down(h) \in Int /\ Result!forward(h) \in Int
    /\ Result!down(h) <= Result!forward(h) /\ Result!forward(h) <= Result!up(h)
    /\ \A m \in Result!Columns(h) : oBars[m].high - Result!entry <= Result!up(h) /\ oBars[m].low - Result!entry >= Result!down(h)
    /\ \E m \in Result!Columns(h) : oBars[m].high - Result!entry = Result!up(h)
    /\ \E m \in Result!Columns(h) : oBars[m].low - Result!entry = Result!down(h)
    /\ Result!t_mfe(h) \in 1 .. h /\ Result!t_mae(h) \in 1 .. h
LEMMA Reaches ==
    ASSUME OutTypes, Result!Entries # {}, NEW h \in Horizons, Result!Columns(h) # {}
    PROVE  Reached(h)
<1>1. PICK C, e, up, down, forward :
         /\ C = Result!Columns(h) /\ e = Result!entry /\ up = Result!up(h) /\ down = Result!down(h) /\ forward = Result!forward(h)
  OBVIOUS
<1>2. /\ h \in Nat /\ C \in SUBSET (0 .. h - 1) /\ C # {} /\ e \in Int
      /\ \A m \in C : oBars[m] \in OutcomeCandles
  BY <1>1, HorizonBars, EntryPrice
<1>3. \A m \in C : /\ oBars[m].high \in Int /\ oBars[m].low \in Int /\ oBars[m].close \in Int
                   /\ oBars[m].low <= oBars[m].close /\ oBars[m].close <= oBars[m].high
  BY <1>2, OutcomeAssumption
<1>4. up \in Int /\ (\A m \in C : oBars[m].high - e <= up) /\ \E m \in C : oBars[m].high - e = up
  <2> DEFINE f == [m \in C |-> oBars[m].high - e]
             S == {oBars[m].high - e : m \in C}
  <2>1. \A m \in C : f[m] \in Int
    BY <1>2, <1>3
  <2>2. \E m \in C : \A k \in C : f[m] >= f[k]
    <3> HIDE DEF f
    <3> QED BY <1>2, <2>1, Extremes
  <2>3. \E x \in S : \A y \in S : x >= y
    BY <2>2
  <2>4. up = Result!Max(S)
    BY ONLY <1>1, Zenon DEF Result!up
  <2>5. up \in S /\ \A y \in S : up >= y
    <3> HIDE DEF S
    <3> QED BY <2>3, <2>4, GreatestOf
  <2> QED BY <1>2, <1>3, <2>5
<1>5. down \in Int /\ (\A m \in C : oBars[m].low - e >= down) /\ \E m \in C : oBars[m].low - e = down
  <2> DEFINE f == [m \in C |-> oBars[m].low - e]
             S == {oBars[m].low - e : m \in C}
  <2>1. \A m \in C : f[m] \in Int
    BY <1>2, <1>3
  <2>2. \E m \in C : \A k \in C : f[m] <= f[k]
    <3> HIDE DEF f
    <3> QED BY <1>2, <2>1, Extremes
  <2>3. \E x \in S : \A y \in S : x <= y
    BY <2>2
  <2>4. down = Result!Min(S)
    BY ONLY <1>1, Zenon DEF Result!down
  <2>5. down \in S /\ \A y \in S : down <= y
    <3> HIDE DEF S
    <3> QED BY <2>3, <2>4, LeastOf
  <2> QED BY <1>2, <1>3, <2>5
<1>6. forward \in Int /\ down <= forward /\ forward <= up
  <2>1. \E m \in C : \A k \in C : m >= k
    <3> DEFINE f == [m \in C |-> m]
    <3>1. \A m \in C : f[m] = m /\ f[m] \in Int
      BY <1>2
    <3> HIDE DEF f
    <3>2. \E m \in C : \A k \in C : f[m] >= f[k]
      BY <1>2, <3>1, Extremes
    <3> QED BY <3>1, <3>2
  <2>2. PICK m : m = Result!Max(C)
    OBVIOUS
  <2>3. m \in C
    BY <2>1, <2>2, GreatestOf
  <2>4. forward = oBars[m].close - e
    BY <1>1, <2>2 DEF Result!forward
  <2>5. oBars[m].high \in Int /\ oBars[m].low \in Int /\ oBars[m].close \in Int /\ oBars[m].low <= oBars[m].close /\ oBars[m].close <= oBars[m].high
    BY <1>3, <2>3
  <2>6. oBars[m].high - e <= up /\ oBars[m].low - e >= down
    BY <1>4, <1>5, <2>3
  <2> QED BY <1>2, <1>4, <1>5, <2>4, <2>5, <2>6
<1>7. Result!t_mfe(h) \in 1 .. h
  <2> DEFINE S == {m \in C : oBars[m].high - e = up}
  <2>1. S # {} /\ S \subseteq C
    BY <1>4
  <2>2. Result!t_mfe(h) = Result!Min(S) + 1
    BY <1>1 DEF Result!t_mfe
  <2> HIDE DEF S
  <2>3. Result!Min(S) \in S
    <3>1. S \in SUBSET Nat
      BY <1>2, <2>1
    <3>2. \E p \in S : \A i \in S : p <= i
      BY <2>1, <3>1, LeastNatural
    <3> QED BY <3>2, LeastOf
  <2>4. Result!Min(S) \in 0 .. h - 1
    BY <1>2, <2>1, <2>3
  <2> QED BY <1>2, <2>2, <2>4
<1>8. Result!t_mae(h) \in 1 .. h
  <2> DEFINE S == {m \in C : oBars[m].low - e = down}
  <2>1. S # {} /\ S \subseteq C
    BY <1>5
  <2>2. Result!t_mae(h) = Result!Min(S) + 1
    BY <1>1 DEF Result!t_mae
  <2> HIDE DEF S
  <2>3. Result!Min(S) \in S
    <3>1. S \in SUBSET Nat
      BY <1>2, <2>1
    <3>2. \E p \in S : \A i \in S : p <= i
      BY <2>1, <3>1, LeastNatural
    <3> QED BY <3>2, LeastOf
  <2>4. Result!Min(S) \in 0 .. h - 1
    BY <1>2, <2>1, <2>3
  <2> QED BY <1>2, <2>2, <2>4
<1> QED BY <1>1, <1>4, <1>5, <1>6, <1>7, <1>8 DEF Reached

\* A longer horizon has every bar of a shorter one.
LEMMA Widens ==
    ASSUME OutTypes, Result!Entries # {}, NEW h \in Horizons, NEW g \in Horizons, g > h, Result!Columns(h) # {}
    PROVE  /\ Result!Columns(g) # {} /\ Reached(h) /\ Reached(g)
           /\ Result!up(g) >= Result!up(h) /\ Result!down(g) <= Result!down(h)
<1>1. h \in Nat /\ g \in Nat
  BY HorizonMinutes
<1>2. Result!Columns(h) \subseteq Result!Columns(g)
  BY <1>1 DEF Result!Columns, Result!Traded
<1>3. Reached(h) /\ Reached(g)
  BY <1>2, Reaches
<1>4. PICK m \in Result!Columns(h) : oBars[m].high - Result!entry = Result!up(h)
  BY <1>3 DEF Reached
<1>5. PICK k \in Result!Columns(h) : oBars[k].low - Result!entry = Result!down(h)
  BY <1>3 DEF Reached
<1>6. oBars[m].high - Result!entry <= Result!up(g) /\ oBars[k].low - Result!entry >= Result!down(g)
  BY <1>2, <1>3 DEF Reached
<1> QED BY <1>2, <1>3, <1>4, <1>5, <1>6 DEF Reached

\* What a horizon with bars gives: the return between its excursions.
Bracketed(h) ==
    LET r == oSign * Result!forward(h)
        x == Result!Excursions(h)
    IN  /\ x.mae \in Int /\ x.mfe \in Int /\ x.mae <= r /\ r <= x.mfe
        /\ x.t_mfe \in 1 .. h /\ x.t_mae \in 1 .. h
LEMMA Brackets ==
    ASSUME OutTypes, NEW h \in Horizons, Reached(h)
    PROVE  /\ Bracketed(h)
           /\ oSign = 1 => /\ Result!Excursions(h).mfe = IF Result!up(h) >= 0 THEN Result!up(h) ELSE 0
                           /\ Result!Excursions(h).mae = IF Result!down(h) <= 0 THEN Result!down(h) ELSE 0
           /\ oSign # 1 => /\ Result!Excursions(h).mfe = -(IF Result!down(h) <= 0 THEN Result!down(h) ELSE 0)
                           /\ Result!Excursions(h).mae = -(IF Result!up(h) >= 0 THEN Result!up(h) ELSE 0)
<1>1. PICK up, down, forward, a, b, tu, td :
         /\ up = Result!up(h) /\ down = Result!down(h) /\ forward = Result!forward(h)
         /\ a = Result!mfe(h) /\ b = Result!mae(h) /\ tu = Result!t_mfe(h) /\ td = Result!t_mae(h)
  OBVIOUS
<1>2. /\ up \in Int /\ down \in Int /\ forward \in Int /\ down <= forward /\ forward <= up
      /\ tu \in 1 .. h /\ td \in 1 .. h
  BY <1>1 DEF Reached
<1>3. a = (IF up >= 0 THEN up ELSE 0) /\ b = (IF down <= 0 THEN down ELSE 0)
  BY <1>1, <1>2, WithZero DEF Result!mfe, Result!mae
<1>4. CASE oSign = 1
  <2>1. Result!Excursions(h) = [mfe |-> a, mae |-> b, t_mfe |-> tu, t_mae |-> td]
    BY ONLY <1>1, <1>4, Zenon DEF Result!Excursions
  <2>2. oSign * Result!forward(h) = forward
    BY <1>1, <1>2, <1>4
  <2> QED BY <1>1, <1>2, <1>3, <1>4, <2>1, <2>2 DEF Bracketed
<1>5. CASE oSign = -1
  <2>1. Result!Excursions(h) = [mfe |-> -b, mae |-> -a, t_mfe |-> td, t_mae |-> tu]
    <3>1. oSign # 1
      BY <1>5
    <3> QED BY ONLY <1>1, <3>1, Zenon DEF Result!Excursions
  <2>2. oSign * Result!forward(h) = -forward
    BY <1>1, <1>2, <1>5
  <2> QED BY <1>1, <1>2, <1>3, <1>5, <2>1, <2>2 DEF Bracketed
<1> QED BY <1>4, <1>5 DEF OutTypes

OutInv == OutTypes /\ Result!ReturnBracketed
LEMMA OutcomeSteady == OutInv /\ [Result!Next]_(Result!vars) => OutInv'
<1> SUFFICES ASSUME OutInv, [Result!Next]_(Result!vars) PROVE OutInv'
  OBVIOUS
<1>1. CASE Result!decision_outcome
  <2>1. OutTypes /\ OutTypes'
    BY <1>1 DEF OutInv, OutTypes, Result!decision_outcome, Result!Minutes
  <2>2. PICK O : O = oOutcome'
    OBVIOUS
  <2>3. ASSUME NEW h \in Horizons
        PROVE  O[h] = IF Result!Entries = {} THEN None
                      ELSE IF Result!Columns(h) = {} THEN None
                      ELSE [return |-> oSign * Result!forward(h), of |-> Result!Excursions(h)]
    BY <1>1, <2>2 DEF Result!decision_outcome
  <2>4. ASSUME NEW h \in Horizons, O[h] # None
        PROVE  /\ O[h].of.mae <= O[h].return /\ O[h].return <= O[h].of.mfe
               /\ O[h].of.t_mfe \in 1 .. h /\ O[h].of.t_mae \in 1 .. h
               /\ \A g \in Horizons : g > h => O[g].of.mfe >= O[h].of.mfe /\ O[g].of.mae <= O[h].of.mae
    <3>1. Result!Entries # {} /\ Result!Columns(h) # {}
      BY <2>3, <2>4
    <3>2. O[h] = [return |-> oSign * Result!forward(h), of |-> Result!Excursions(h)]
      BY <2>3, <3>1
    <3>3. O[h].return = oSign * Result!forward(h) /\ O[h].of = Result!Excursions(h)
      BY <3>2
    <3>4. Reached(h)
      BY <2>1, <3>1, Reaches
    <3>5. Bracketed(h)
      BY <2>1, <3>4, Brackets
    <3>6. ASSUME NEW g \in Horizons, g > h PROVE O[g].of.mfe >= O[h].of.mfe /\ O[g].of.mae <= O[h].of.mae
      <4>1. Result!Columns(g) # {} /\ Reached(g) /\ Result!up(g) >= Result!up(h) /\ Result!down(g) <= Result!down(h)
        BY <2>1, <3>1, <3>6, Widens
      <4>2. O[g] = [return |-> oSign * Result!forward(g), of |-> Result!Excursions(g)]
        BY <2>3, <3>1, <4>1
      <4>3. O[g].of = Result!Excursions(g)
        BY <4>2
      <4>4. PICK ug, uh, dg, dh : ug = Result!up(g) /\ uh = Result!up(h) /\ dg = Result!down(g) /\ dh = Result!down(h)
        OBVIOUS
      <4>5. ug \in Int /\ uh \in Int /\ dg \in Int /\ dh \in Int /\ ug >= uh /\ dg <= dh
        BY <3>4, <4>1, <4>4 DEF Reached
      <4>6. PICK xg, xh : xg = Result!Excursions(g) /\ xh = Result!Excursions(h)
        OBVIOUS
      <4>7. CASE oSign = 1
        <5>1. xg.mfe = (IF ug >= 0 THEN ug ELSE 0) /\ xg.mae = IF dg <= 0 THEN dg ELSE 0
          BY <2>1, <4>1, <4>4, <4>6, <4>7, Brackets
        <5>2. xh.mfe = (IF uh >= 0 THEN uh ELSE 0) /\ xh.mae = IF dh <= 0 THEN dh ELSE 0
          BY <2>1, <3>4, <4>4, <4>6, <4>7, Brackets
        <5> QED BY <3>3, <4>3, <4>5, <4>6, <5>1, <5>2
      <4>8. CASE oSign # 1
        <5>1. xg.mfe = -(IF dg <= 0 THEN dg ELSE 0) /\ xg.mae = -(IF ug >= 0 THEN ug ELSE 0)
          BY <2>1, <4>1, <4>4, <4>6, <4>8, Brackets
        <5>2. xh.mfe = -(IF dh <= 0 THEN dh ELSE 0) /\ xh.mae = -(IF uh >= 0 THEN uh ELSE 0)
          BY <2>1, <3>4, <4>4, <4>6, <4>8, Brackets
        <5> QED BY <3>3, <4>3, <4>5, <4>6, <5>1, <5>2
      <4> QED BY <4>7, <4>8
    <3> QED BY <3>3, <3>5, <3>6 DEF Bracketed
  <2>5. Result!ReturnBracketed'
    BY <2>2, <2>4 DEF Result!ReturnBracketed
  <2> QED BY <2>1, <2>5 DEF OutInv
<1>2. CASE UNCHANGED Result!vars
  BY <1>2 DEF Result!vars, OutInv, OutTypes, Result!ReturnBracketed, Result!Minutes
<1> QED BY <1>1, <1>2 DEF Result!Next

\* In either direction a return lies between its excursions, and a longer horizon widens them.
LEMMA OutcomeHeld == Spec => [](OutInv /\ Result!ReturnBracketed)
<1>1. Init => OutInv
  BY DEF Init, Result!Init, OutInv, OutTypes, Result!ReturnBracketed
<1>2. [Next]_vars => [Result!Next]_(Result!vars)
  BY DEF Next, vars, oVars, DaysOnly, SelectOnly, OutcomeOnly, TablesOnly, BookOnly, WalkOnly, HistoryOnly,
         SeriesOnly, SyncOnly, LevelsOnly, Result!vars
<1>3. OutInv => Result!ReturnBracketed
  BY DEF OutInv
<1> QED BY <1>1, <1>2, <1>3, OutcomeSteady, PTL DEF Spec

-----------------------------------------------------------------------------
(* The mirror image of a market.                                             *)

LEMMA SameCount == \A S : Pick!Cardinality(S) = Cardinality(S)
BY ONLY Zenon DEF Pick!Cardinality, Cardinality

LEMMA StocksNumbered == \E k \in Nat : k = Cardinality(Stocks) /\ Stocks = 1 .. k
BY SelectAssumption, FS_CardinalityType

\* Some of the stocks: a finite set, where a number has a greatest and a least value.
LEMMA SomeStocks ==
    ASSUME NEW S, S \subseteq Stocks
    PROVE  /\ IsFiniteSet(S) /\ Cardinality(S) \in Nat /\ (Cardinality(S) = 0 <=> S = {})
           /\ \A f : S # {} /\ (\A s \in S : f[s] \in Int) =>
                  (\E s \in S : \A t \in S : f[s] >= f[t]) /\ (\E s \in S : \A t \in S : f[s] <= f[t])
<1>1. PICK k \in Nat : Stocks = 1 .. k
  BY StocksNumbered
<1>2. IsFiniteSet(1 .. k)
  BY FS_Interval
<1>3. IsFiniteSet(S)
  BY <1>1, <1>2, FS_Subset
<1>4. S \in SUBSET (0 .. (k + 1) - 1) /\ k + 1 \in Nat
  BY <1>1
<1>5. ASSUME NEW f, S # {}, \A s \in S : f[s] \in Int
      PROVE  (\E s \in S : \A t \in S : f[s] >= f[t]) /\ (\E s \in S : \A t \in S : f[s] <= f[t])
  BY <1>4, <1>5, Extremes
<1> QED BY <1>3, <1>5, FS_CardinalityType, FS_EmptySet

\* The k-th smallest value.
RankAt(f, k, v) ==
    Cardinality({s \in DOMAIN f : f[s] < v}) < k /\ k <= Cardinality({s \in DOMAIN f : f[s] <= v})
LEMMA KthExists ==
    ASSUME NEW S, S \subseteq Stocks, NEW f \in [S -> Int], NEW k \in 1 .. Cardinality(S)
    PROVE  \E v \in {f[s] : s \in S} : RankAt(f, k, v)
<1> DEFINE Below(v) == {s \in DOMAIN f : f[s] < v}
           UpTo(v) == {s \in DOMAIN f : f[s] <= v}
           High == {s \in S : k <= Cardinality(UpTo(f[s]))}
<1>1. /\ Cardinality(S) \in Nat /\ k \in Nat /\ k >= 1 /\ k <= Cardinality(S) /\ S # {} /\ DOMAIN f = S
      /\ \A s \in S : f[s] \in Int
  BY SomeStocks
<1>2. High # {}
  <2>1. PICK s \in S : \A t \in S : f[s] >= f[t]
    BY <1>1, SomeStocks
  <2>2. UpTo(f[s]) = S
    BY <1>1, <2>1
  <2> QED BY <1>1, <2>2
<1>3. High \subseteq S
  OBVIOUS
<1>4. PICK s \in High : \A t \in High : f[s] <= f[t]
  <2> HIDE DEF High
  <2> QED BY <1>1, <1>2, <1>3, SomeStocks
<1>5. s \in S /\ k <= Cardinality(UpTo(f[s]))
  <2> HIDE DEF UpTo
  <2> QED BY <1>4
<1>6. Cardinality(Below(f[s])) < k
  <2> SUFFICES ASSUME ~(Cardinality(Below(f[s])) < k) PROVE FALSE
    OBVIOUS
  <2>1. Below(f[s]) \subseteq S
    BY <1>1
  <2>2. Below(f[s]) # {} /\ Cardinality(Below(f[s])) \in Nat /\ k <= Cardinality(Below(f[s]))
    <3> HIDE DEF Below
    <3> QED BY <1>1, <2>1, SomeStocks
  <2>3. PICK t \in Below(f[s]) : \A u \in Below(f[s]) : f[t] >= f[u]
    <3>1. \A u \in Below(f[s]) : f[u] \in Int
      BY <1>1
    <3> HIDE DEF Below
    <3> QED BY <2>1, <2>2, <3>1, SomeStocks
  <2>4. t \in S /\ f[t] < f[s] /\ f[t] \in Int /\ f[s] \in Int
    BY <1>1, <1>5, <2>3
  <2>5. UpTo(f[t]) = Below(f[s])
    BY <1>1, <2>3, <2>4
  <2>6. t \in High
    <3> HIDE DEF UpTo, Below
    <3> QED BY <2>2, <2>4, <2>5
  <2>7. f[s] <= f[t]
    <3> HIDE DEF High
    <3> QED BY <1>4, <2>6
  <2> QED BY <2>4, <2>7
<1> QED BY <1>5, <1>6 DEF RankAt

LEMMA KthUnique ==
    ASSUME NEW S, S \subseteq Stocks, NEW f \in [S -> Int], NEW k \in 1 .. Cardinality(S),
           NEW v \in Int, NEW w \in Int, RankAt(f, k, v), RankAt(f, k, w)
    PROVE  v = w
<1>1. ASSUME NEW a \in Int, NEW c \in Int, RankAt(f, k, a), RankAt(f, k, c) PROVE ~(a < c)
  <2> DEFINE A == {s \in DOMAIN f : f[s] <= a}
             C == {s \in DOMAIN f : f[s] < c}
  <2>1. C \subseteq S
    OBVIOUS
  <2>2. k <= Cardinality(A) /\ Cardinality(C) < k
    BY <1>1 DEF RankAt
  <2>3. a < c => A \subseteq C
    <3>1. DOMAIN f = S /\ \A s \in S : f[s] \in Int
      OBVIOUS
    <3> QED BY <3>1
  <2> HIDE DEF A, C
  <2>4. IsFiniteSet(C) /\ Cardinality(C) \in Nat /\ Cardinality(S) \in Nat
    BY <2>1, SomeStocks
  <2>5. A \subseteq C => Cardinality(A) <= Cardinality(C) /\ Cardinality(A) \in Nat
    BY <2>1, <2>4, FS_Subset, SomeStocks
  <2>6. k \in Int
    BY <2>4
  <2> QED BY <2>2, <2>3, <2>4, <2>5, <2>6
<1> QED BY <1>1

LEMMA KthOf ==
    ASSUME NEW S, S \subseteq Stocks, NEW f \in [S -> Int], NEW k \in 1 .. Cardinality(S)
    PROVE  /\ Pick!Kth(f, k) \in Int /\ Pick!Kth(f, k) \in {f[s] : s \in S} /\ RankAt(f, k, Pick!Kth(f, k))
           /\ \A v \in Int : RankAt(f, k, v) => v = Pick!Kth(f, k)
<1>1. PICK v \in {f[s] : s \in S} : RankAt(f, k, v)
  BY KthExists
<1>2. DOMAIN f = S
  OBVIOUS
<1>3. Pick!Kth(f, k) = CHOOSE w \in {f[s] : s \in DOMAIN f} : RankAt(f, k, w)
  BY ONLY SameCount, Zenon DEF Pick!Kth, RankAt
<1>4. Pick!Kth(f, k) \in {f[s] : s \in S} /\ RankAt(f, k, Pick!Kth(f, k))
  <2> DEFINE V == {f[s] : s \in S}
  <2>1. Pick!Kth(f, k) = CHOOSE w \in V : RankAt(f, k, w)
    BY ONLY <1>2, <1>3, Zenon
  <2> HIDE DEF V
  <2> QED BY ONLY <1>1, <2>1, Zenon DEF V
<1>5. Pick!Kth(f, k) \in Int
  BY <1>4
<1> QED BY <1>4, <1>5, KthUnique

\* The values turned round: the k-th smallest is the k-th greatest.
LEMMA KthMirrored ==
    ASSUME NEW S, S \subseteq Stocks, NEW f \in [S -> Int], NEW g \in [S -> Int], \A s \in S : g[s] = -f[s],
           NEW k \in 1 .. Cardinality(S), NEW n, n = Cardinality(S)
    PROVE  Pick!Kth(g, n + 1 - k) = -Pick!Kth(f, k)
<1>0. n \in Nat /\ k \in Nat /\ k >= 1 /\ k <= n /\ IsFiniteSet(S) /\ n + 1 - k \in 1 .. Cardinality(S) /\ n + 1 - k \in Nat
  BY SomeStocks
<1>1. PICK v : v = Pick!Kth(f, k)
  OBVIOUS
<1>2. v \in Int /\ RankAt(f, k, v)
  BY <1>1, KthOf
<1> DEFINE Below == {s \in DOMAIN f : f[s] < v}
           UpTo == {s \in DOMAIN f : f[s] <= v}
           GBelow == {s \in DOMAIN g : g[s] < -v}
           GUpTo == {s \in DOMAIN g : g[s] <= -v}
<1>3. /\ Below \subseteq S /\ UpTo \subseteq S /\ GBelow = S \ UpTo /\ GUpTo = S \ Below
  <2>1. DOMAIN f = S /\ DOMAIN g = S /\ \A s \in S : f[s] \in Int /\ g[s] = -f[s]
    OBVIOUS
  <2> QED BY <1>2, <2>1
<1>4. Cardinality(Below) < k /\ k <= Cardinality(UpTo)
  BY <1>2 DEF RankAt
<1>5. RankAt(g, n + 1 - k, -v) <=> Cardinality(GBelow) < n + 1 - k /\ n + 1 - k <= Cardinality(GUpTo)
  BY DEF RankAt
<1> HIDE DEF Below, UpTo, GBelow, GUpTo
<1>6. Cardinality(Below) \in Nat /\ Cardinality(UpTo) \in Nat
  BY <1>3, SomeStocks
<1>7. Cardinality(GBelow) = n - Cardinality(UpTo) /\ Cardinality(GUpTo) = n - Cardinality(Below)
  <2>1. S \cap UpTo = UpTo /\ S \cap Below = Below
    BY <1>3
  <2>2. \A T : Cardinality(S \ T) = Cardinality(S) - Cardinality(S \cap T)
    BY <1>0, FS_Difference
  <2> QED BY ONLY <1>3, <2>1, <2>2, n = Cardinality(S), Zenon
<1>8. RankAt(g, n + 1 - k, -v) /\ -v \in Int
  BY <1>0, <1>2, <1>4, <1>5, <1>6, <1>7
<1> QED BY <1>0, <1>1, <1>8, KthOf

LEMMA MedianMirrored ==
    ASSUME NEW S, S \subseteq Stocks, S # {}, NEW f \in [S -> Int], NEW g \in [S -> Int], \A s \in S : g[s] = -f[s]
    PROVE  Pick!Median2(f) \in Int /\ Pick!Median2(g) = -Pick!Median2(f)
<1>1. PICK n : n = Cardinality(S)
  OBVIOUS
<1>2. n \in Nat /\ n >= 1
  BY <1>1, SomeStocks
<1>3. PICK i, j : i = (n + 1) \div 2 /\ j = n \div 2 + 1
  OBVIOUS
<1>4. i \in 1 .. n /\ j \in 1 .. n /\ i \in Int /\ j \in Int /\ i = n + 1 - j /\ j = n + 1 - i
  BY <1>2, <1>3
<1>5. /\ Pick!Median2(f) = Pick!Kth(f, i) + Pick!Kth(f, j)
      /\ Pick!Median2(g) = Pick!Kth(g, i) + Pick!Kth(g, j)
  <2>1. DOMAIN f = S /\ DOMAIN g = S
    OBVIOUS
  <2> QED BY ONLY <1>1, <1>3, <2>1, SameCount, Zenon DEF Pick!Median2
<1>6. Pick!Kth(f, i) \in Int /\ Pick!Kth(f, j) \in Int
  BY <1>1, <1>4, KthOf
<1>7. Pick!Kth(g, n + 1 - j) = -Pick!Kth(f, j) /\ Pick!Kth(g, n + 1 - i) = -Pick!Kth(f, i)
  BY <1>1, <1>4, KthMirrored
<1>8. Pick!Kth(g, i) = -Pick!Kth(f, j) /\ Pick!Kth(g, j) = -Pick!Kth(f, i)
  BY <1>4, <1>7
<1> QED BY <1>5, <1>6, <1>8

\* The sums so far.
RowTotal(f, u, i) == IF i = 0 THEN 0 ELSE u[i-1] + IF i \in DOMAIN f THEN f[i] ELSE 0
LEMMA TotalUnfolds ==
    ASSUME NEW f, NEW n \in Nat, n = Cardinality(Stocks)
    PROVE  \E u : Pick!Total(f) = u[n] /\ \A i \in 0 .. n : u[i] = RowTotal(f, u, i)
<1> DEFINE Upto(h, j) == \A i \in 0 .. j : h[i] = RowTotal(f, h, i)
           Bad == {j \in 0 .. n : ~(\E h : Upto(h, j))}
<1>1. Bad = {}
  <2> SUFFICES ASSUME Bad # {} PROVE FALSE
    OBVIOUS
  <2>1. Bad \in SUBSET Nat
    OBVIOUS
  <2>2. PICK j \in Bad : \A i \in Bad : j <= i
    <3> HIDE DEF Bad
    <3> QED BY <2>1, LeastNatural
  <2>3. j \in 0 .. n /\ ~(\E h : Upto(h, j)) /\ j \in Nat
    BY <2>2
  <2>4. CASE j = 0
    <3>1. \A h : Upto(h, 0) <=> h[0] = 0
      <4>1. 0 .. 0 = {0}
        OBVIOUS
      <4> QED BY <4>1 DEF RowTotal
    <3>2. [i \in {0} |-> 0][0] = 0
      OBVIOUS
    <3> HIDE DEF Upto
    <3> QED BY <2>3, <2>4, <3>1, <3>2
  <2>5. CASE j # 0
    <3>1. j - 1 \in 0 .. n /\ ~(j <= j - 1)
      BY <2>3, <2>5
    <3>2. j - 1 \notin Bad
      <4> HIDE DEF Bad
      <4> QED BY <2>2, <3>1
    <3>3. PICK h : Upto(h, j - 1)
      <4> HIDE DEF Upto
      <4> QED BY <3>1, <3>2
    <3> DEFINE g == [i \in 0 .. n |-> IF i = j THEN RowTotal(f, h, i) ELSE h[i]]
    <3>4. ASSUME NEW i \in 0 .. j PROVE g[i] = RowTotal(f, g, i)
      <4>1. i \in 0 .. n /\ i \in Int
        BY <2>3
      <4>2. i # 0 => i - 1 \in 0 .. n /\ i - 1 # j /\ g[i - 1] = h[i - 1]
        BY <2>3, <4>1
      <4>3. RowTotal(f, g, i) = RowTotal(f, h, i)
        <5> HIDE DEF g
        <5> QED BY <4>1, <4>2 DEF RowTotal
      <4>4. g[i] = RowTotal(f, h, i)
        <5>1. CASE i = j
          BY <4>1, <5>1
        <5>2. CASE i # j
          <6>1. i \in 0 .. j - 1
            BY <2>3, <5>2
          <6>2. h[i] = RowTotal(f, h, i)
            BY <3>3, <6>1
          <6> QED BY <4>1, <5>2, <6>2
        <5> QED BY <5>1, <5>2
      <4> HIDE DEF g
      <4> QED BY <4>3, <4>4
    <3>5. Upto(g, j)
      <4> HIDE DEF g
      <4> QED BY <3>4
    <3> HIDE DEF g, Upto
    <3> QED BY <2>3, <3>5
  <2> QED BY <2>4, <2>5
<1>2. PICK h : Upto(h, n)
  <2>1. n \in 0 .. n
    OBVIOUS
  <2> HIDE DEF Upto
  <2> QED BY <1>1, <2>1
<1> DEFINE Unfolds(u) == [i \in 0 .. n |-> RowTotal(f, u, i)]
           g == [i \in 0 .. n |-> h[i]]
           upto == CHOOSE u : u = Unfolds(u)
<1>3. g = Unfolds(g)
  <2>1. ASSUME NEW i \in 0 .. n PROVE g[i] = RowTotal(f, g, i)
    <3>1. i \in Int /\ h[i] = RowTotal(f, h, i)
      BY <1>2
    <3>2. i # 0 => g[i - 1] = h[i - 1]
      OBVIOUS
    <3>3. RowTotal(f, g, i) = RowTotal(f, h, i)
      <4> HIDE DEF g
      <4> QED BY <3>1, <3>2 DEF RowTotal
    <3> QED BY <3>1, <3>3
  <2>2. g = [i \in 0 .. n |-> g[i]]
    OBVIOUS
  <2> HIDE DEF g
  <2> QED BY <2>1, <2>2
<1>4. upto = Unfolds(upto)
  <2> HIDE DEF g, Unfolds
  <2> QED BY <1>3
<1>5. PICK u : u = upto
  OBVIOUS
<1>6. \A i \in 0 .. n : u[i] = RowTotal(f, u, i)
  <2>1. u = Unfolds(u)
    BY <1>4, <1>5
  <2> HIDE DEF upto
  <2> QED BY <2>1
<1>7. Pick!Total(f) = u[n]
  <2>1. n = Pick!Cardinality(Stocks)
    BY SameCount
  <2> QED BY ONLY <2>1, <1>5, Zenon DEF Pick!Total, RowTotal
<1> HIDE DEF upto
<1> QED BY <1>6, <1>7

LEMMA TotalMirrored ==
    ASSUME NEW S, NEW f \in [S -> Int], NEW g \in [S -> Int], \A s \in S : g[s] = -f[s]
    PROVE  Pick!Total(f) \in Int /\ Pick!Total(g) = -Pick!Total(f)
<1>1. PICK n \in Nat : n = Cardinality(Stocks)
  BY StocksNumbered
<1>2. PICK u : Pick!Total(f) = u[n] /\ \A i \in 0 .. n : u[i] = RowTotal(f, u, i)
  BY <1>1, TotalUnfolds
<1>3. PICK w : Pick!Total(g) = w[n] /\ \A i \in 0 .. n : w[i] = RowTotal(g, w, i)
  BY <1>1, TotalUnfolds
<1> DEFINE Fine(j) == u[j] \in Int /\ w[j] = -u[j]
           Bad == {j \in 0 .. n : ~Fine(j)}
<1>4. Bad = {}
  <2> SUFFICES ASSUME Bad # {} PROVE FALSE
    OBVIOUS
  <2>1. Bad \in SUBSET Nat
    OBVIOUS
  <2>2. PICK j \in Bad : \A i \in Bad : j <= i
    <3> HIDE DEF Bad
    <3> QED BY <2>1, LeastNatural
  <2>3. j \in 0 .. n /\ ~Fine(j) /\ j \in Nat
    BY <2>2
  <2>4. u[j] = RowTotal(f, u, j) /\ w[j] = RowTotal(g, w, j)
    BY <1>2, <1>3, <2>3
  <2>5. j # 0
    BY <2>3, <2>4 DEF RowTotal
  <2>6. j - 1 \in 0 .. n /\ ~(j <= j - 1)
    BY <2>3, <2>5
  <2>7. Fine(j - 1)
    <3> HIDE DEF Fine
    <3> QED BY <2>2, <2>6
  <2>8. PICK a, c : a = (IF j \in DOMAIN f THEN f[j] ELSE 0) /\ c = IF j \in DOMAIN g THEN g[j] ELSE 0
    OBVIOUS
  <2>9. a \in Int /\ c = -a
    BY <2>8
  <2>10. u[j] = u[j-1] + a /\ w[j] = w[j-1] + c
    BY <2>4, <2>5, <2>8 DEF RowTotal
  <2> QED BY <2>3, <2>7, <2>9, <2>10
<1>5. Fine(n)
  <2> HIDE DEF Fine
  <2> QED BY <1>4
<1> QED BY <1>2, <1>3, <1>5

\* A row and its mirror image.
Turned(r, q) == /\ r.drive \in Int /\ r.agree \in Int /\ r.volume \in Int /\ q.tier = r.tier /\ q.volume = r.volume
                /\ q.drive = -r.drive /\ q.agree = -r.agree
LEMMA RowTurned == \A r \in Rows : Turned(r, [r EXCEPT !.drive = -@, !.agree = -@])
<1> SUFFICES ASSUME NEW r \in Rows PROVE Turned(r, [r EXCEPT !.drive = -@, !.agree = -@])
  OBVIOUS
<1>1. PICK t, d, a, v : r = [tier |-> t, drive |-> d, agree |-> a, volume |-> v] /\ d \in Int /\ a \in Int /\ v \in Int
  BY DEF Rows
<1>2. PICK q : q = [r EXCEPT !.drive = -@, !.agree = -@]
  OBVIOUS
<1>3. q = [tier |-> t, drive |-> -d, agree |-> -a, volume |-> v]
  BY <1>1, <1>2
<1> QED BY <1>1, <1>2, <1>3 DEF Turned

\* Two matrices that are each other's mirror image.
Opposite(m, w) == DOMAIN m = Stocks /\ DOMAIN w = Stocks /\ \A s \in Stocks : Turned(m[s], w[s])
LEMMA MirrorOpposite == \A m \in [Stocks -> Rows] : Opposite(m, Pick!Mirror(m))
BY RowTurned DEF Opposite, Pick!Mirror

LEMMA MaskMirrored ==
    ASSUME NEW m, NEW w, Opposite(m, w)
    PROVE  Pick!Mask(w) = Pick!Mask(m) /\ Pick!Mask(m) \subseteq Stocks
<1>1. \A s \in Stocks : w[s].tier = m[s].tier
  BY DEF Opposite, Turned
<1>2. {w[s].tier : s \in Stocks} = {m[s].tier : s \in Stocks}
  BY <1>1
<1>3. Pick!Tier(w) = Pick!Tier(m)
  BY ONLY <1>2, Zenon DEF Pick!Tier
<1>4. \A s : s \in Pick!Mask(w) <=> s \in Pick!Mask(m)
  BY ONLY <1>1, <1>3, Zenon DEF Pick!Mask
<1>5. Pick!Mask(m) \subseteq Stocks
  BY DEF Pick!Mask
<1> QED BY <1>4, <1>5

LEMMA AbsOf == \A x \in Int : Pick!Abs(x) \in Int /\ Pick!Abs(x) >= 0 /\ Pick!Abs(-x) = Pick!Abs(x) /\ (Pick!Abs(x) = 0 <=> x = 0)
BY DEF Pick!Abs
LEMMA SignOf == \A x \in Int : Pick!Sign(x) \in {-1, 0, 1} /\ Pick!Sign(-x) = -Pick!Sign(x)
BY DEF Pick!Sign
LEMMA LesserOf == \A x, y \in Int : Pick!Min({x, y}) \in Int /\ Pick!Max({x, y}) \in Int
<1> SUFFICES ASSUME NEW x \in Int, NEW y \in Int PROVE Pick!Min({x, y}) \in {x, y} /\ Pick!Max({x, y}) \in {x, y}
  OBVIOUS
<1>1. (\E a \in {x, y} : \A c \in {x, y} : a <= c) /\ (\E a \in {x, y} : \A c \in {x, y} : a >= c)
  OBVIOUS
<1>2. Pick!Min({x, y}) \in {x, y}
  <2> DEFINE S == {x, y}
  <2>1. \E a \in S : \A c \in S : a <= c
    BY <1>1
  <2>2. Pick!Min(S) \in S
    <3> HIDE DEF S
    <3> QED BY <2>1 DEF Pick!Min
  <2> QED BY <2>2
<1>3. Pick!Max({x, y}) \in {x, y}
  <2> DEFINE S == {x, y}
  <2>1. \E a \in S : \A c \in S : a >= c
    BY <1>1
  <2>2. Pick!Max(S) \in S
    <3> HIDE DEF S
    <3> QED BY <2>1 DEF Pick!Max
  <2> QED BY <2>2
<1> QED BY <1>2, <1>3

\* The moves of a market and of its mirror image.
LEMMA DrivesMirrored ==
    ASSUME NEW m, NEW w, Opposite(m, w), NEW S, S \subseteq Stocks
    PROVE  /\ Pick!Drives(m, S) \in [S -> Int] /\ Pick!Drives(w, S) \in [S -> Int]
           /\ \A s \in S : /\ Pick!Drives(m, S)[s] = m[s].drive /\ Pick!Drives(w, S)[s] = w[s].drive
                           /\ Pick!Drives(w, S)[s] = -Pick!Drives(m, S)[s]
BY DEF Opposite, Turned, Pick!Drives

LEMMA DeviationMirrored ==
    ASSUME NEW m, NEW w, Opposite(m, w), NEW S, S \subseteq Stocks, NEW s \in S
    PROVE  Pick!Deviation(m, S)[s] \in Int /\ Pick!Deviation(w, S)[s] = -Pick!Deviation(m, S)[s]
<1>1. PICK a, c : a = Pick!Median2(Pick!Drives(m, S)) /\ c = Pick!Median2(Pick!Drives(w, S))
  OBVIOUS
<1>2. a \in Int /\ c = -a
  BY <1>1, DrivesMirrored, MedianMirrored
<1>3. m[s].drive \in Int /\ w[s].drive = -m[s].drive
  BY DEF Opposite, Turned
<1>4. Pick!Deviation(m, S)[s] = 2 * m[s].drive - a /\ Pick!Deviation(w, S)[s] = 2 * w[s].drive - c
  BY <1>1 DEF Pick!Deviation
<1> QED BY <1>2, <1>3, <1>4

\* The root of a variance: a number of numbers.
Root(v) == Cardinality({r \in 1 .. v : r * r <= v})
LEMMA RootNatural == \A v \in Int : Root(v) \in Nat
<1> SUFFICES ASSUME NEW v \in Int PROVE Root(v) \in Nat
  OBVIOUS
<1>1. IsFiniteSet(1 .. v)
  BY FS_Interval
<1>2. {r \in 1 .. v : r * r <= v} \in SUBSET (1 .. v)
  OBVIOUS
<1>3. IsFiniteSet({r \in 1 .. v : r * r <= v})
  BY <1>1, <1>2, FS_Subset
<1> QED BY <1>3, FS_CardinalityType DEF Root

Squares(m, S) == [s \in S |-> m[s].drive * m[s].drive]
LEMMA DeviatesMirrored ==
    ASSUME NEW m, NEW w, Opposite(m, w), NEW S, S \subseteq Stocks, S # {}
    PROVE  Pick!Deviates(m, S) \in Int /\ Pick!Deviates(w, S) = Pick!Deviates(m, S)
<1>1. PICK n, a, c, q, k :
         /\ n = Cardinality(S) /\ a = Pick!Total(Pick!Drives(m, S)) /\ c = Pick!Total(Pick!Drives(w, S))
         /\ q = Pick!Total(Squares(m, S)) /\ k = Pick!Total(Squares(w, S))
  OBVIOUS
<1>2. n \in Nat /\ n >= 1
  BY <1>1, SomeStocks
<1>3. a \in Int /\ c = -a
  BY <1>1, DrivesMirrored, TotalMirrored
<1>4. q \in Int /\ k = q
  <2>1. \A s \in S : m[s].drive \in Int /\ w[s].drive = -m[s].drive
    BY DEF Opposite, Turned
  <2>2. \A x \in Int : x * x \in Int /\ (-x) * (-x) = x * x
    OBVIOUS
  <2>3. \A s \in S : w[s].drive * w[s].drive = m[s].drive * m[s].drive /\ m[s].drive * m[s].drive \in Int
    BY <2>1, <2>2
  <2>4. Squares(w, S) = Squares(m, S) /\ Squares(m, S) \in [S -> Int]
    BY <2>3 DEF Squares
  <2>5. PICK g : g = [s \in S |-> -Squares(m, S)[s]]
    OBVIOUS
  <2>6. g \in [S -> Int] /\ \A s \in S : g[s] = -Squares(m, S)[s]
    BY <2>4, <2>5
  <2> QED BY <1>1, <2>4, <2>6, TotalMirrored
<1>5. PICK v : v = n * q - a * a
  OBVIOUS
<1>6. v \in Int /\ v = n * k - c * c
  <2>1. (-a) * (-a) = a * a /\ a * a \in Int /\ n * q \in Int
    BY <1>2, <1>3, <1>4
  <2> QED BY <1>3, <1>4, <1>5, <2>1
<1>7. /\ Pick!Deviates(m, S) = IF v = 0 THEN 3 ELSE Pick!Max({1, (8 * Root(v)) \div (3 * n)})
      /\ Pick!Deviates(w, S) = IF v = 0 THEN 3 ELSE Pick!Max({1, (8 * Root(v)) \div (3 * n)})
  BY ONLY <1>1, <1>5, <1>6, SameCount, Zenon DEF Pick!Deviates, Root, Squares
<1>8. (8 * Root(v)) \div (3 * n) \in Int
  <2>1. 8 * Root(v) \in Int /\ 3 * n \in Int /\ 3 * n > 0
    BY <1>2, <1>6, RootNatural
  <2> QED BY <2>1
<1>9. Pick!Max({1, (8 * Root(v)) \div (3 * n)}) \in Int
  <2>1. PICK x : x = (8 * Root(v)) \div (3 * n)
    OBVIOUS
  <2>2. x \in Int /\ 1 \in Int
    BY <1>8, <2>1
  <2>3. Pick!Max({1, x}) \in Int
    BY ONLY <2>2, LesserOf
  <2> QED BY <2>1, <2>3
<1> QED BY <1>7, <1>9

LEMMA SpreadMirrored ==
    ASSUME NEW m, NEW w, Opposite(m, w), NEW S, S \subseteq Stocks, S # {}
    PROVE  Pick!Spread(m, S) \in Int /\ Pick!Spread(w, S) = Pick!Spread(m, S)
<1>1. PICK d, e, f, g :
         /\ d = Pick!Deviation(m, S) /\ e = Pick!Deviation(w, S)
         /\ f = [s \in S |-> Pick!Abs(d[s])] /\ g = [s \in S |-> Pick!Abs(e[s])]
  OBVIOUS
<1>2. \A s \in S : d[s] \in Int /\ e[s] = -d[s]
  BY <1>1, DeviationMirrored
<1>3. f \in [S -> Int] /\ g = f
  <2>1. \A s \in S : Pick!Abs(d[s]) \in Int /\ Pick!Abs(e[s]) = Pick!Abs(d[s])
    BY <1>2, AbsOf
  <2> QED BY <1>1, <2>1
<1>4. Pick!Median2(f) \in Int
  <2>1. PICK h : h = [s \in S |-> -f[s]]
    OBVIOUS
  <2>2. h \in [S -> Int] /\ \A s \in S : h[s] = -f[s]
    BY <1>3, <2>1
  <2> QED BY <1>3, <2>2, MedianMirrored
<1>5. /\ Pick!Spread(m, S) = IF Pick!Median2(f) = 0 THEN Pick!Deviates(m, S) ELSE Pick!Median2(f)
      /\ Pick!Spread(w, S) = IF Pick!Median2(g) = 0 THEN Pick!Deviates(w, S) ELSE Pick!Median2(g)
  BY ONLY <1>1, Zenon DEF Pick!Spread
<1> QED BY <1>3, <1>4, <1>5, DeviatesMirrored

LEMMA StrengthMirrored ==
    ASSUME NEW m, NEW w, Opposite(m, w), NEW S, S \subseteq Stocks, NEW s \in S
    PROVE  Pick!strength(m, S, s) \in Int /\ Pick!strength(w, S, s) = Pick!strength(m, S, s)
<1>1. PICK d, e, k, l, v, a, c :
         /\ d = Pick!Deviation(m, S)[s] /\ e = Pick!Deviation(w, S)[s]
         /\ k = Pick!Spread(m, S) /\ l = Pick!Spread(w, S)
         /\ v = m[s].volume /\ a = m[s].agree /\ c = w[s].agree
  OBVIOUS
<1>2. d \in Int /\ e = -d /\ k \in Int /\ l = k
  BY <1>1, DeviationMirrored, SpreadMirrored
<1>3. v \in Int /\ w[s].volume = v /\ a \in Int /\ c = -a
  BY <1>1 DEF Opposite, Turned
<1>4. PICK i, x, y : i = Pick!Abs(d) /\ x = Pick!Sign(d) /\ y = Pick!Sign(e)
  OBVIOUS
<1>5. i \in Int /\ Pick!Abs(e) = i /\ x \in {-1, 0, 1} /\ y = -x
  BY <1>2, <1>4, AbsOf, SignOf
<1>6. PICK z : z = Pick!Min({16 * i, 96 * k})
  OBVIOUS
<1>7. z \in Int
  <2>1. 16 * i \in Int /\ 96 * k \in Int
    BY <1>2, <1>5
  <2> QED BY <1>6, <2>1, LesserOf
<1>8. Pick!strength(m, S, s) = z + 6 * k * v + 3 * k * a * x
  BY ONLY <1>1, <1>4, <1>6, Zenon DEF Pick!strength
<1>9. Pick!strength(w, S, s) = z + 6 * k * v + 3 * k * c * y
  BY ONLY <1>1, <1>2, <1>3, <1>4, <1>5, <1>6, Zenon DEF Pick!strength
<1>10. 3 * k * c * y = 3 * k * a * x /\ 3 * k * a * x \in Int /\ 6 * k * v \in Int
  <2>1. 3 * k \in Int /\ 6 * k \in Int
    BY <1>2
  <2>2. PICK t : t = 3 * k
    OBVIOUS
  <2>3. t * a \in Int /\ t * (-a) = -(t * a) /\ (6 * k) * v \in Int
    BY <1>3, <2>1, <2>2
  <2>4. PICK u : u = t * a
    OBVIOUS
  <2>5. u \in Int /\ (-u) * (-x) = u * x /\ u * x \in Int
    BY <1>5, <2>3, <2>4
  <2> QED BY ONLY <1>3, <1>5, <2>2, <2>3, <2>4, <2>5
<1> QED BY <1>7, <1>8, <1>9, <1>10

\* Scores of some stocks, some without a number, and the scores with every sign turned.
Scores(f, S) == DOMAIN f = S /\ \A s \in S : f[s] = None \/ f[s] \in Int
Negated(f, g, S) ==
    /\ Scores(f, S) /\ Scores(g, S)
    /\ \A s \in S : (g[s] = None <=> f[s] = None) /\ (f[s] # None => g[s] = -f[s])
LEMMA ScoresMirrored ==
    ASSUME NEW m, NEW w, Opposite(m, w), NEW S, S \subseteq Stocks
    PROVE  Negated(Pick!score_v1(m, S), Pick!score_v1(w, S), S)
<1>1. PICK f, g : f = Pick!score_v1(m, S) /\ g = Pick!score_v1(w, S)
  OBVIOUS
<1>2. DOMAIN f = S /\ DOMAIN g = S
  BY <1>1 DEF Pick!score_v1
<1>3. ASSUME NEW s \in S
      PROVE  \/ f[s] = None /\ g[s] = None
             \/ f[s] \in Int /\ g[s] \in Int /\ g[s] = -f[s]
  <2>1. PICK t, x, y, d : /\ t = Pick!strength(m, S, s) /\ x = Pick!Sign(Pick!Deviation(m, S)[s])
                          /\ y = Pick!Sign(Pick!Deviation(w, S)[s]) /\ d = Pick!Deviation(m, S)[s]
    OBVIOUS
  <2>2. t \in Int /\ Pick!strength(w, S, s) = t /\ x \in {-1, 0, 1} /\ y = -x
    BY <2>1, StrengthMirrored, DeviationMirrored, SignOf
  <2>3. f[s] = (IF Pick!Scored(S) THEN t * x ELSE None) /\ g[s] = (IF Pick!Scored(S) THEN t * y ELSE None)
    BY <1>1, <2>1, <2>2 DEF Pick!score_v1
  <2>4. t * x \in Int /\ t * y = -(t * x)
    BY <2>2
  <2> QED BY <2>3, <2>4
<1>4. None \notin Int
  BY BookAssumption
<1> QED BY <1>1, <1>2, <1>3, <1>4 DEF Negated, Scores

LEMMA PredictionsMirrored ==
    ASSUME NEW p \in Predictions, NEW S, S \subseteq Stocks
    PROVE  Negated(Pick!predict_v2(p, S), Pick!predict_v2(Pick!Against(p), S), S)
<1>1. PICK f, g, q : f = Pick!predict_v2(p, S) /\ q = Pick!Against(p) /\ g = Pick!predict_v2(q, S)
  OBVIOUS
<1>2. DOMAIN f = S /\ DOMAIN g = S
  BY <1>1 DEF Pick!predict_v2
<1>3. None \notin Int
  BY BookAssumption
<1>4. ASSUME NEW s \in S
      PROVE  \/ f[s] = None /\ g[s] = None
             \/ f[s] \in Int /\ g[s] \in Int /\ g[s] = -f[s]
  <2>1. s \in Stocks /\ s \in Int
    BY StocksNumbered
  <2>2. f[s] = (IF p = None THEN None ELSE p[s]) /\ g[s] = (IF q = None THEN None ELSE q[s])
    BY <1>1 DEF Pick!predict_v2
  <2>3. CASE p = None
    <3>1. q = None
      BY <1>1, <2>3 DEF Pick!Against
    <3> QED BY <2>2, <2>3, <3>1
  <2>4. CASE p # None
    <3>1. p = [t \in Stocks |-> IF t % 3 = 0 THEN None ELSE 3 - 2 * (t % 3)]
      BY <2>4 DEF Predictions
    <3>2. p[s] = None \/ p[s] \in Int
      BY <2>1, <3>1
    <3>3. q[s] = IF p[s] = None THEN None ELSE -p[s]
      BY <1>1, <2>1, <2>4 DEF Pick!Against
    <3>4. q # None
      BY <1>1, <2>4, SelectAssumption
    <3> QED BY <1>3, <2>2, <2>4, <3>2, <3>3, <3>4
  <2> QED BY <2>3, <2>4
<1> QED BY <1>1, <1>2, <1>3, <1>4 DEF Negated, Scores

LEMMA SignedMirrored ==
    ASSUME NEW m, NEW w, Opposite(m, w), NEW p \in Predictions, NEW e
    PROVE  Negated(Pick!Signed(m, p, e), Pick!Signed(w, Pick!Against(p), e), Pick!Mask(m))
<1>1. PICK S, q, f, g, c :
         /\ S = Pick!Mask(m) /\ q = Pick!Against(p)
         /\ f = Pick!predict_v2(p, S) /\ g = Pick!predict_v2(q, S) /\ c = Pick!choose_model(e)
  OBVIOUS
<1>2. Pick!Mask(w) = S /\ S \subseteq Stocks
  BY <1>1, MaskMirrored
<1>3. Negated(f, g, S) /\ Negated(Pick!score_v1(m, S), Pick!score_v1(w, S), S)
  BY <1>1, <1>2, PredictionsMirrored, ScoresMirrored
<1>4. (\E s \in S : f[s] # None) <=> (\E s \in S : g[s] # None)
  BY <1>3 DEF Negated
<1>5. Pick!Signed(m, p, e) = IF c = "v2" /\ (\E s \in S : f[s] # None) THEN f ELSE Pick!score_v1(m, S)
  BY ONLY <1>1, Zenon DEF Pick!Signed
<1>6. Pick!Signed(w, q, e) = IF c = "v2" /\ (\E s \in S : g[s] # None) THEN g ELSE Pick!score_v1(w, S)
  BY ONLY <1>1, <1>2, Zenon DEF Pick!Signed
<1>7. CASE c = "v2" /\ (\E s \in S : f[s] # None)
  <2>1. Pick!Signed(m, p, e) = f /\ Pick!Signed(w, q, e) = g
    BY ONLY <1>4, <1>5, <1>6, <1>7, Zenon
  <2> QED BY <1>1, <1>3, <2>1
<1>8. CASE ~(c = "v2" /\ (\E s \in S : f[s] # None))
  <2>1. Pick!Signed(m, p, e) = Pick!score_v1(m, S) /\ Pick!Signed(w, q, e) = Pick!score_v1(w, S)
    BY ONLY <1>4, <1>5, <1>6, <1>8, Zenon
  <2> QED BY <1>1, <1>3, <2>1
<1> QED BY <1>7, <1>8

\* The largest score is of the same stock, whatever its sign.
LEMMA PickMirrored ==
    ASSUME NEW S, S \subseteq Stocks, NEW f, NEW g, Negated(f, g, S), \E s \in S : f[s] # None
    PROVE  Pick!_pick(g) = Pick!_pick(f) /\ Pick!_pick(f) \in S /\ f[Pick!_pick(f)] \in Int
<1> DEFINE F == {s \in DOMAIN f : f[s] # None}
           G == {s \in DOMAIN g : g[s] # None}
<1>1. DOMAIN f = S /\ DOMAIN g = S /\ \A s \in S : f[s] # None => f[s] \in Int
  BY DEF Negated, Scores
<1>2. G = F /\ F \subseteq S /\ F # {}
  BY <1>1 DEF Negated
<1>3. \A s \in F : f[s] \in Int /\ g[s] = -f[s] /\ Pick!Abs(f[s]) \in Int /\ Pick!Abs(g[s]) = Pick!Abs(f[s])
  BY <1>1, AbsOf DEF Negated
<1>4. Pick!_pick(f) = Pick!Min({s \in F : Pick!Abs(f[s]) = Pick!Max({Pick!Abs(f[t]) : t \in F})})
  BY ONLY Zenon DEF Pick!_pick
<1>5. Pick!_pick(g) = Pick!Min({s \in G : Pick!Abs(g[s]) = Pick!Max({Pick!Abs(g[t]) : t \in G})})
  BY ONLY Zenon DEF Pick!_pick
<1> HIDE DEF F, G
<1>6. PICK b : b = Pick!Max({Pick!Abs(f[t]) : t \in F})
  OBVIOUS
<1>7. {Pick!Abs(g[t]) : t \in G} = {Pick!Abs(f[t]) : t \in F}
  BY ONLY <1>2, <1>3
<1> DEFINE T == {s \in F : Pick!Abs(f[s]) = b}
           U == {s \in G : Pick!Abs(g[s]) = b}
<1>8. U = T
  BY ONLY <1>2, <1>3
<1>9. Pick!_pick(f) = Pick!Min(T) /\ Pick!_pick(g) = Pick!Min(U)
  BY ONLY <1>4, <1>5, <1>6, <1>7, Zenon
<1>10. T # {} /\ T \subseteq F
  <2>1. PICK h : h = [s \in F |-> Pick!Abs(f[s])]
    OBVIOUS
  <2>2. \A s \in F : h[s] = Pick!Abs(f[s]) /\ h[s] \in Int
    BY <1>3, <2>1
  <2>3. PICK s \in F : \A t \in F : h[s] >= h[t]
    <3>1. F \subseteq Stocks
      BY <1>2
    <3> QED BY <1>2, <2>2, <3>1, SomeStocks
  <2> DEFINE V == {Pick!Abs(f[t]) : t \in F}
  <2>4. \E x \in V : \A y \in V : x >= y
    BY <2>2, <2>3
  <2>5. b \in V
    <3>1. b = Pick!Max(V)
      BY <1>6
    <3> HIDE DEF V
    <3> QED BY <2>4, <3>1 DEF Pick!Max
  <2> QED BY <2>5
<1>11. Pick!Min(T) \in T
  <2> HIDE DEF T
  <2>1. T \in SUBSET Nat
    <3>1. Stocks \in SUBSET Nat
      BY StocksNumbered
    <3> QED BY <1>2, <1>10, <3>1
  <2>2. \E x \in T : \A y \in T : x <= y
    BY <1>10, <2>1, LeastNatural
  <2> QED BY <2>2 DEF Pick!Min
<1>12. Pick!Min(T) \in F
  <2> HIDE DEF T
  <2> QED BY <1>10, <1>11
<1> HIDE DEF T, U
<1> QED BY <1>2, <1>3, <1>8, <1>9, <1>12

LEMMA DecisionMirrored ==
    ASSUME NEW m \in [Stocks -> Rows], NEW p \in Predictions, NEW e,
           Pick!decide(m, p, e) # None, Pick!decide(m, p, e).score # 0
    PROVE  /\ Pick!decide(Pick!Mirror(m), Pick!Against(p), e).stock = Pick!decide(m, p, e).stock
           /\ Pick!decide(Pick!Mirror(m), Pick!Against(p), e).direction = -Pick!decide(m, p, e).direction
<1>1. PICK w, q, S, f, g :
         /\ w = Pick!Mirror(m) /\ q = Pick!Against(p) /\ S = Pick!Mask(m)
         /\ f = Pick!Signed(m, p, e) /\ g = Pick!Signed(w, q, e)
  OBVIOUS
<1>2. Opposite(m, w) /\ S \subseteq Stocks
  BY <1>1, MirrorOpposite, MaskMirrored
<1>3. Negated(f, g, S)
  BY <1>1, <1>2, SignedMirrored
<1>4. PICK s, t : s = Pick!_pick(f) /\ t = Pick!_pick(g)
  OBVIOUS
<1>5. /\ Pick!decide(m, p, e) = IF \A x \in DOMAIN f : f[x] = None THEN None
                                ELSE [stock |-> s, direction |-> IF f[s] < 0 THEN -1 ELSE 1, score |-> f[s]]
      /\ Pick!decide(w, q, e) = IF \A x \in DOMAIN g : g[x] = None THEN None
                                ELSE [stock |-> t, direction |-> IF g[t] < 0 THEN -1 ELSE 1, score |-> g[t]]
  BY ONLY <1>1, <1>4, Zenon DEF Pick!decide
<1>6. \E x \in S : f[x] # None
  BY <1>3, <1>5 DEF Negated, Scores
<1>7. t = s /\ s \in S /\ f[s] \in Int
  BY <1>2, <1>3, <1>4, <1>6, PickMirrored
<1>8. f[s] # None /\ g[s] = -f[s]
  <2>1. None \notin Int
    BY BookAssumption
  <2> QED BY <1>3, <1>7, <2>1 DEF Negated
<1>9. ~(\A x \in DOMAIN f : f[x] = None) /\ ~(\A x \in DOMAIN g : g[x] = None)
  BY <1>3, <1>7, <1>8 DEF Negated, Scores
<1>10. PICK a, c : a = (IF f[s] < 0 THEN -1 ELSE 1) /\ c = IF g[s] < 0 THEN -1 ELSE 1
  OBVIOUS
<1>11. /\ Pick!decide(m, p, e) = [stock |-> s, direction |-> a, score |-> f[s]]
       /\ Pick!decide(w, q, e) = [stock |-> s, direction |-> c, score |-> g[s]]
  BY ONLY <1>5, <1>7, <1>9, <1>10, Zenon
<1>12. /\ Pick!decide(m, p, e).stock = s /\ Pick!decide(m, p, e).direction = a /\ Pick!decide(m, p, e).score = f[s]
       /\ Pick!decide(w, q, e).stock = s /\ Pick!decide(w, q, e).direction = c
  BY <1>11
<1>13. f[s] # 0
  BY <1>12
<1>14. c = -a
  BY <1>7, <1>8, <1>10, <1>13
<1> QED BY <1>1, <1>12, <1>14

SelectInv ==
    /\ sMatrix \in [Stocks -> Rows] /\ sPrediction \in Predictions /\ sEvidence \in Evidences
    /\ sResult = <<>> \/ sResult = <<Pick!decide(sMatrix, sPrediction, sEvidence)>>
LEMMA SelectSteady == SelectInv /\ [Pick!Next]_(Pick!vars) => SelectInv'
<1> SUFFICES ASSUME SelectInv, [Pick!Next]_(Pick!vars) PROVE SelectInv'
  OBVIOUS
<1>1. UNCHANGED <<sMatrix, sPrediction, sEvidence>>
  BY DEF Pick!Next, Pick!Decide, Pick!vars
<1>2. sResult' = sResult \/ sResult' = <<Pick!decide(sMatrix, sPrediction, sEvidence)>>
  BY DEF Pick!Next, Pick!Decide, Pick!vars
<1>3. Pick!decide(sMatrix, sPrediction, sEvidence)' = Pick!decide(sMatrix, sPrediction, sEvidence)
  BY <1>1
<1> QED BY <1>1, <1>2, <1>3 DEF SelectInv

\* A market turned upside down gives the same stock and the other direction.
LEMMA MirrorHeld == Spec => [](SelectInv /\ Pick!MirrorImage)
<1>1. Init => SelectInv
  BY DEF Init, Pick!Init, SelectInv
<1>2. [Next]_vars => [Pick!Next]_(Pick!vars)
  BY DEF Next, vars, sVars, DaysOnly, SelectOnly, OutcomeOnly, TablesOnly, BookOnly, WalkOnly, HistoryOnly,
         SeriesOnly, SyncOnly, LevelsOnly, Pick!vars
<1>3. SelectInv => Pick!MirrorImage
  <2> SUFFICES ASSUME SelectInv, Pick!Decided, sResult[1].score # 0
               PROVE  /\ Pick!decide(Pick!Mirror(sMatrix), Pick!Against(sPrediction), sEvidence).stock = sResult[1].stock
                      /\ Pick!decide(Pick!Mirror(sMatrix), Pick!Against(sPrediction), sEvidence).direction = -sResult[1].direction
    BY DEF Pick!MirrorImage
  <2>1. PICK d : d = Pick!decide(sMatrix, sPrediction, sEvidence)
    OBVIOUS
  <2>2. sResult = <<d>> /\ d # None /\ sResult[1] = d
    BY <2>1 DEF SelectInv, Pick!Decided
  <2> QED BY <2>1, <2>2, DecisionMirrored DEF SelectInv
<1> QED BY <1>1, <1>2, <1>3, SelectSteady, PTL DEF Spec

-----------------------------------------------------------------------------
(* The indicators of a series.                                               *)

SeriesInv == iBars \in Seq(SeriesBars)

\* An average of values without a gap has one from its seed on.
RowEma(mask, p, len, u, i) ==
    IF i < p THEN FALSE ELSE IF i = p THEN len >= p /\ \A j \in 1 .. p : mask[j] ELSE mask[i] /\ u[i-1]
LEMMA EmaUnfolds ==
    ASSUME NEW mask, NEW p \in Nat \ {0}, NEW len \in Nat
    PROVE  \E u : /\ Series!ema_sma_seed(mask, p, len) = [i \in 1 .. len |-> u[i]]
                  /\ \A i \in 0 .. len : u[i] = RowEma(mask, p, len, u, i)
<1> DEFINE Upto(h, j) == \A i \in 0 .. j : h[i] = RowEma(mask, p, len, h, i)
           Bad == {j \in 0 .. len : ~(\E h : Upto(h, j))}
<1>1. Bad = {}
  <2> SUFFICES ASSUME Bad # {} PROVE FALSE
    OBVIOUS
  <2>1. Bad \in SUBSET Nat
    OBVIOUS
  <2>2. PICK j \in Bad : \A i \in Bad : j <= i
    <3> HIDE DEF Bad
    <3> QED BY <2>1, LeastNatural
  <2>3. j \in 0 .. len /\ ~(\E h : Upto(h, j)) /\ j \in Nat
    BY <2>2
  <2>4. CASE j = 0
    <3>1. \A h : Upto(h, 0) <=> h[0] = FALSE
      <4>1. 0 .. 0 = {0} /\ 0 < p
        OBVIOUS
      <4> QED BY <4>1 DEF RowEma
    <3>2. [i \in {0} |-> FALSE][0] = FALSE
      OBVIOUS
    <3> HIDE DEF Upto
    <3> QED BY <2>3, <2>4, <3>1, <3>2
  <2>5. CASE j # 0
    <3>1. j - 1 \in 0 .. len /\ ~(j <= j - 1)
      BY <2>3, <2>5
    <3>2. j - 1 \notin Bad
      <4> HIDE DEF Bad
      <4> QED BY <2>2, <3>1
    <3>3. PICK h : Upto(h, j - 1)
      <4> HIDE DEF Upto
      <4> QED BY <3>1, <3>2
    <3> DEFINE g == [i \in 0 .. len |-> IF i = j THEN RowEma(mask, p, len, h, i) ELSE h[i]]
    <3>4. ASSUME NEW i \in 0 .. j PROVE g[i] = RowEma(mask, p, len, g, i)
      <4>1. i \in 0 .. len /\ i \in Int
        BY <2>3
      <4>2. i # 0 => i - 1 \in 0 .. len /\ i - 1 # j /\ g[i - 1] = h[i - 1]
        <5>1. i # 0 => i - 1 \in 0 .. len /\ i - 1 # j
          BY <2>3, <4>1
        <5> QED BY ONLY <5>1, Zenon
      <4>3. RowEma(mask, p, len, g, i) = RowEma(mask, p, len, h, i)
        <5>1. CASE i = 0
          <6>1. i < p
            BY <5>1
          <6> QED BY ONLY <6>1, Zenon DEF RowEma
        <5>2. CASE i # 0
          <6> HIDE DEF g
          <6> QED BY ONLY <4>2, <5>2, Zenon DEF RowEma
        <5> QED BY ONLY <5>1, <5>2
      <4>4. g[i] = RowEma(mask, p, len, h, i)
        <5>1. CASE i = j
          BY ONLY <4>1, <5>1, Zenon
        <5>2. CASE i # j
          <6>1. i \in 0 .. j - 1
            BY <2>3, <5>2
          <6>2. h[i] = RowEma(mask, p, len, h, i)
            <7> HIDE DEF g
            <7> QED BY ONLY <3>3, <6>1, Zenon
          <6> QED BY ONLY <4>1, <5>2, <6>2, Zenon
        <5> QED BY ONLY <5>1, <5>2
      <4> HIDE DEF g
      <4> QED BY ONLY <4>3, <4>4, Zenon
    <3>5. Upto(g, j)
      <4> HIDE DEF g
      <4> QED BY ONLY <3>4, Zenon
    <3> HIDE DEF g, Upto
    <3> QED BY <2>3, <3>5
  <2> QED BY <2>4, <2>5
<1>2. PICK h : Upto(h, len)
  <2>1. len \in 0 .. len
    OBVIOUS
  <2> HIDE DEF Upto
  <2> QED BY <1>1, <2>1
<1> DEFINE Unfolds(u) == [i \in 0 .. len |-> RowEma(mask, p, len, u, i)]
           g == [i \in 0 .. len |-> h[i]]
           out == CHOOSE u : u = Unfolds(u)
<1>3. g = Unfolds(g)
  <2>1. ASSUME NEW i \in 0 .. len PROVE g[i] = RowEma(mask, p, len, g, i)
    <3>1. i \in Int /\ h[i] = RowEma(mask, p, len, h, i)
      <4>1. i \in Int
        OBVIOUS
      <4> QED BY ONLY <1>2, <4>1, i \in 0 .. len, Zenon
    <3>2. i # 0 => i - 1 \in 0 .. len
      OBVIOUS
    <3>3. i # 0 => g[i - 1] = h[i - 1]
      BY ONLY <3>2, Zenon
    <3>4. RowEma(mask, p, len, g, i) = RowEma(mask, p, len, h, i)
      <4>1. CASE i = 0
        <5>1. i < p
          BY <4>1
        <5> QED BY ONLY <5>1, Zenon DEF RowEma
      <4>2. CASE i # 0
        <5> HIDE DEF g
        <5> QED BY ONLY <3>3, <4>2, Zenon DEF RowEma
      <4> QED BY ONLY <4>1, <4>2
    <3> QED BY ONLY <3>1, <3>4, i \in 0 .. len, Zenon
  <2>2. g = [i \in 0 .. len |-> g[i]]
    BY ONLY Zenon
  <2> HIDE DEF g
  <2> QED BY ONLY <2>1, <2>2, Zenon
<1>4. out = Unfolds(out)
  <2> HIDE DEF g, Unfolds
  <2> QED BY <1>3
<1>5. PICK u : u = out
  OBVIOUS
<1>6. \A i \in 0 .. len : u[i] = RowEma(mask, p, len, u, i)
  <2>1. u = Unfolds(u)
    <3> HIDE DEF out, Unfolds
    <3> QED BY <1>4, <1>5
  <2> HIDE DEF out
  <2> QED BY ONLY <2>1, Zenon
<1>7. Series!ema_sma_seed(mask, p, len) = [i \in 1 .. len |-> u[i]]
  <2>1. PICK w : w = CHOOSE out1 : out1 = [i \in 0 .. len |-> IF i < p THEN FALSE
              ELSE IF i = p THEN len >= p /\ \A j \in 1 .. p : mask[j] ELSE mask[i] /\ out1[i-1]]
    OBVIOUS
  <2>2. u = w
    BY ONLY <1>5, <2>1, Zenon DEF RowEma
  <2>3. Series!ema_sma_seed(mask, p, len) = [i \in 1 .. len |-> w[i]]
    BY ONLY <2>1 DEF Series!ema_sma_seed
  <2> QED BY ONLY <2>2, <2>3, Zenon
<1> HIDE DEF out
<1> QED BY ONLY <1>6, <1>7, Zenon

LEMMA SeriesLength == SeriesInv => Series!n \in Nat
BY DEF SeriesInv, Series!n
LEMMA AllOf == \A i \in 1 .. Series!n : Series!All[i]
BY ONLY Zenon DEF Series!All
LEMMA EmaWhole ==
    ASSUME SeriesInv, NEW p \in Nat \ {0}, NEW len \in Nat, len <= Series!n
    PROVE  \A i \in 1 .. len : i >= p => Series!ema_sma_seed(Series!All, p, len)[i]
<1>0. PICK n, all : n = Series!n /\ all = Series!All
  OBVIOUS
<1>1. n \in Nat /\ \A i \in 1 .. n : all[i]
  <2>1. n \in Nat
    BY <1>0, SeriesLength
  <2>2. \A i \in 1 .. n : all[i]
    BY ONLY <1>0, AllOf, Zenon
  <2> QED BY ONLY <2>1, <2>2, Zenon
<1>2. PICK u : /\ Series!ema_sma_seed(all, p, len) = [i \in 1 .. len |-> u[i]]
               /\ \A i \in 0 .. len : u[i] = RowEma(all, p, len, u, i)
  BY EmaUnfolds
<1> DEFINE Bad == {i \in p .. len : ~u[i]}
<1>3. Bad = {}
  <2> SUFFICES ASSUME Bad # {} PROVE FALSE
    OBVIOUS
  <2>1. Bad \in SUBSET Nat
    OBVIOUS
  <2>2. PICK j \in Bad : \A i \in Bad : j <= i
    <3> HIDE DEF Bad
    <3> QED BY <2>1, LeastNatural
  <2>3. j \in p .. len /\ ~u[j]
    BY ONLY <2>2, Zenon
  <2>4. j \in Nat /\ ~(j < p) /\ j \in 0 .. len /\ j \in 1 .. n /\ len >= p /\ ~(j <= j - 1) /\ 1 .. p \subseteq 1 .. n
        /\ (j # p => j - 1 \in p .. len)
    BY ONLY <1>0, <1>1, <2>3, p \in Nat \ {0}, len \in Nat, len <= Series!n
  <2>5. u[j] = RowEma(all, p, len, u, j)
    BY ONLY <1>2, <2>4, Zenon
  <2>6. CASE j = p
    <3>1. \A i \in 1 .. p : all[i]
      BY ONLY <1>1, <2>4, Zenon
    <3>2. RowEma(all, p, len, u, j)
      BY ONLY <2>4, <2>6, <3>1, Zenon DEF RowEma
    <3> QED BY ONLY <2>3, <2>5, <3>2, Zenon
  <2>7. CASE j # p
    <3>1. j - 1 \notin Bad
      <4> HIDE DEF Bad
      <4> QED BY ONLY <2>2, <2>4, Zenon
    <3>2. u[j-1]
      BY ONLY <2>4, <2>7, <3>1, Zenon
    <3>3. all[j]
      BY ONLY <1>1, <2>4, Zenon
    <3>4. RowEma(all, p, len, u, j)
      BY ONLY <2>4, <2>7, <3>2, <3>3, Zenon DEF RowEma
    <3> QED BY ONLY <2>3, <2>5, <3>4, Zenon
  <2> QED BY ONLY <2>6, <2>7
<1>4. ASSUME NEW i \in 1 .. len, i >= p PROVE Series!ema_sma_seed(all, p, len)[i]
  <2>1. i \in p .. len
    BY <1>4
  <2>2. u[i]
    BY ONLY <1>3, <2>1, Zenon
  <2> QED BY ONLY <1>2, <1>4, <2>2, i \in 1 .. len, Zenon
<1> QED BY ONLY <1>0, <1>4, Zenon

\* The last of a mask, the last of an average, and of the masks over a window.
LEMMA EmaLast ==
    ASSUME SeriesInv, NEW p \in Nat \ {0}, Series!n >= p
    PROVE  /\ Series!Last(Series!ema_sma_seed(Series!All, p, Series!n))
           /\ Series!ema_sma_seed(Series!All, p, Series!n)[Series!n]
           /\ Series!n > 0
<1>1. PICK n : n = Series!n
  OBVIOUS
<1>2. n \in Nat /\ n \in 1 .. n /\ n > 0 /\ n <= Series!n
  <2>1. n \in Nat
    BY <1>1, SeriesLength
  <2> QED BY <1>1, <2>1
<1>3. Series!ema_sma_seed(Series!All, p, n)[n]
  <2>1. n >= p
    BY <1>1
  <2> QED BY <1>2, <2>1, EmaWhole
<1> QED BY ONLY <1>1, <1>2, <1>3, Zenon DEF Series!Last

LEMMA RolledAt ==
    ASSUME NEW mask, NEW p, NEW i \in 1 .. Series!n, i >= p, \A j \in i - p + 1 .. i : mask[j]
    PROVE  Series!rolling(mask, p)[i]
BY ONLY i \in 1 .. Series!n, i >= p, \A j \in i - p + 1 .. i : mask[j], Zenon DEF Series!rolling, Series!Span

\* The minutes an indicator looks back on.
Lively(i) == /\ i > 1 /\ iBars[i].volume > 0 /\ iBars[i].high # iBars[i].low
             /\ iBars[i].close # iBars[i-1].close /\ Series!Tp(i) # Series!Tp(i-1)
LEMMA GoodIsLively == \A i : Series!Good(i) <=> Lively(i)
BY ONLY Zenon DEF Series!Good, Lively

LEMMA Periods ==
    /\ Fast \in Nat \ {0} /\ Slow \in Nat \ {0} /\ Signal \in Nat \ {0} /\ Ema \in Nat \ {0} /\ Smooth \in Nat \ {0}
    /\ D \in Nat \ {0} /\ Roc \in Nat \ {0} /\ Momentum \in Nat \ {0} /\ Super \in Nat \ {0}
    /\ Wilder \in Nat \ {0} /\ Window \in Nat \ {0} /\ Wilder >= 2 /\ Window >= 2 /\ Wilder <= Window /\ Fast <= Slow
BY SeriesAssumption

\* The last bar of a series.
LEMMA LastBar ==
    ASSUME SeriesInv, NEW n, n = Series!n, n > 0
    PROVE  /\ n \in Nat /\ n \in 1 .. n
           /\ \A mask : mask[n] => Series!Last(mask)
<1>1. n \in Nat /\ n \in 1 .. n
  <2>1. n \in Nat
    BY SeriesLength
  <2> QED BY <2>1
<1>2. \A mask : mask[n] => Series!Last(mask)
  BY ONLY n = Series!n, n > 0, Zenon DEF Series!Last
<1> QED BY ONLY <1>1, <1>2, Zenon

\* Every bar has a value where no bar has none.
LEMMA RolledAll ==
    ASSUME SeriesInv, NEW p \in Nat \ {0}, Series!n >= p
    PROVE  Series!Last(Series!rolling(Series!All, p))
<1>1. PICK n : n = Series!n
  OBVIOUS
<1>2. n \in Nat /\ n > 0 /\ n >= p /\ n - p + 1 .. n \subseteq 1 .. n /\ n \in 1 .. n
  <2>1. n \in Nat
    BY <1>1, SeriesLength
  <2> QED BY <1>1, <2>1
<1>3. \A j \in n - p + 1 .. n : Series!All[j]
  BY ONLY <1>1, <1>2, AllOf, Zenon
<1>4. Series!rolling(Series!All, p)[n]
  BY ONLY <1>1, <1>2, <1>3, RolledAt, Zenon
<1> QED BY ONLY <1>1, <1>2, <1>4, Zenon DEF Series!Last

LEMMA RsiLast ==
    ASSUME SeriesInv, NEW p \in Nat \ {0}, Series!n >= p + 1
    PROVE  Series!Last(Series!rsi_wilder(p))
<1>1. PICK n : n = Series!n
  OBVIOUS
<1>2. /\ n \in Nat /\ n > 1 /\ n > 0 /\ n # 0 /\ n \in 1 .. n /\ n - 1 \in Nat /\ n - 1 <= Series!n
      /\ n - 1 \in 1 .. n - 1 /\ n - 1 >= p
  <2>1. n \in Nat
    BY <1>1, SeriesLength
  <2> QED BY <1>1, <2>1
<1>3. PICK avg : avg = Series!ema_sma_seed(Series!All, p, n - 1)
  OBVIOUS
<1>4. avg[n - 1]
  <2>1. Series!ema_sma_seed(Series!All, p, n - 1)[n - 1]
    BY <1>2, EmaWhole
  <2> QED BY ONLY <1>3, <2>1, Zenon
<1>5. Series!rsi_wilder(p) = [i \in 1 .. n |-> i > 1 /\ avg[i - 1]]
  BY ONLY <1>1, <1>2, <1>3, Zenon DEF Series!rsi_wilder
<1>6. Series!rsi_wilder(p)[n]
  BY ONLY <1>2, <1>4, <1>5, Zenon
<1> QED BY ONLY <1>1, <1>2, <1>6, Zenon DEF Series!Last

LEMMA MacdLast ==
    ASSUME SeriesInv
    PROVE  /\ \A i \in 1 .. Series!n : Series!macd_line[i] <=> i >= Slow
           /\ Series!n >= Slow => Series!Last(Series!macd_line)
           /\ Series!n >= Slow + Signal - 1 => Series!Last(Series!macd_signal)
<1>1. PICK n, line : n = Series!n /\ line = Series!macd_line
  OBVIOUS
<1>2. n \in Nat /\ n <= Series!n
  BY <1>1, SeriesLength
<1>3. ASSUME NEW i \in 1 .. n PROVE line[i] <=> i >= Slow
  <2>1. PICK f, s : f = Series!ema_sma_seed(Series!All, Fast, n) /\ s = Series!ema_sma_seed(Series!All, Slow, n)
    OBVIOUS
  <2>2. (i >= Fast => f[i]) /\ (i >= Slow => s[i])
    <3>1. i >= Fast => Series!ema_sma_seed(Series!All, Fast, n)[i]
      BY <1>2, Periods, EmaWhole
    <3>2. i >= Slow => Series!ema_sma_seed(Series!All, Slow, n)[i]
      BY <1>2, Periods, EmaWhole
    <3> QED BY ONLY <2>1, <3>1, <3>2, Zenon
  <2>3. s[i] => ~(i < Slow)
    <3>1. PICK u : /\ Series!ema_sma_seed(Series!All, Slow, n) = [j \in 1 .. n |-> u[j]]
                   /\ \A j \in 0 .. n : u[j] = RowEma(Series!All, Slow, n, u, j)
      BY <1>2, Periods, EmaUnfolds
    <3>2. i \in 0 .. n
      OBVIOUS
    <3>3. s[i] = u[i]
      BY ONLY <2>1, <3>1, i \in 1 .. n, Zenon
    <3> QED BY ONLY <3>1, <3>2, <3>3, Zenon DEF RowEma
  <2>4. line = [j \in 1 .. n |-> f[j] /\ s[j]]
    BY ONLY <1>1, <2>1, Zenon DEF Series!macd_line
  <2>5. line[i] <=> f[i] /\ s[i]
    BY ONLY <2>4, i \in 1 .. n, Zenon
  <2>6. (i >= Slow => i >= Fast) /\ (~(i < Slow) <=> i >= Slow)
    BY <1>2, Periods
  <2> QED BY ONLY <2>2, <2>3, <2>5, <2>6, Zenon
<1>4. ASSUME n >= Slow PROVE Series!Last(Series!macd_line)
  <2>1. n > 0 /\ n \in 1 .. n
    BY <1>2, <1>4, Periods
  <2>2. line[n]
    BY ONLY <1>3, <1>4, <2>1, Zenon
  <2> QED BY ONLY <1>1, <2>1, <2>2, Zenon DEF Series!Last
<1>5. ASSUME n >= Slow + Signal - 1 PROVE Series!Last(Series!macd_signal)
  <2>1. n > 0 /\ n \in 1 .. n /\ n >= Slow
    BY <1>2, <1>5, Periods
  <2>2. PICK valid : valid = {i \in 1 .. n : line[i]}
    OBVIOUS
  <2>3. valid = Slow .. n
    <3>1. \A i : i \in valid <=> i \in 1 .. n /\ i >= Slow
      BY ONLY <1>3, <2>2, Zenon
    <3>2. \A i : i \in 1 .. n /\ i >= Slow <=> i \in Slow .. n
      BY <1>2, Periods
    <3> QED BY ONLY <3>1, <3>2, Zenon
  <2>4. PICK k : k = Series!Cardinality(valid)
    OBVIOUS
  <2>5. k = n - Slow + 1
    <3>1. \A S : Series!Cardinality(S) = Cardinality(S)
      BY ONLY Zenon DEF Series!Cardinality, Cardinality
    <3>2. Cardinality(Slow .. n) = n - Slow + 1
      BY <1>2, <2>1, Periods, FS_Interval
    <3> QED BY ONLY <2>3, <2>4, <3>1, <3>2, Zenon
  <2>6. k \in Nat /\ k <= Series!n /\ k \in 1 .. k /\ k >= Signal
    BY <1>1, <1>2, <1>5, <2>1, <2>5, Periods
  <2>7. PICK sig : sig = Series!ema_sma_seed(Series!All, Signal, k)
    OBVIOUS
  <2>8. sig[k]
    <3>1. Series!ema_sma_seed(Series!All, Signal, k)[k]
      BY <2>6, Periods, EmaWhole
    <3> QED BY ONLY <2>7, <3>1, Zenon
  <2>9. Series!macd_signal = [i \in 1 .. n |-> i \in valid /\ sig[Series!Cardinality({j \in valid : j <= i})]]
    BY ONLY <1>1, <2>2, <2>4, <2>7, Zenon DEF Series!macd_signal
  <2>10. {j \in valid : j <= n} = valid /\ n \in valid
    <3>1. \A j \in valid : j <= n
      BY <1>2, <2>3, Periods
    <3>2. n \in valid
      BY <1>2, <2>1, <2>3, Periods
    <3> QED BY ONLY <3>1, <3>2, Zenon
  <2>11. Series!macd_signal[n]
    BY ONLY <2>1, <2>4, <2>8, <2>9, <2>10, Zenon
  <2> QED BY ONLY <1>1, <2>1, <2>11, Zenon DEF Series!Last
<1> QED BY ONLY <1>1, <1>3, <1>4, <1>5, Zenon

\* The minutes of a lively stretch of the last r.
LEMMA Stretch ==
    ASSUME SeriesInv, NEW r \in Nat, Series!n > r, NEW n, n = Series!n, \A i \in n - r + 1 .. n : Lively(i)
    PROVE  /\ n \in Nat /\ n > 0 /\ n \in 1 .. n
           /\ \A i \in 1 .. n : i > n - r => Lively(i)
<1>1. n \in Nat
  BY SeriesLength
<1>2. ASSUME NEW i \in 1 .. n, i > n - r PROVE i \in n - r + 1 .. n
  BY <1>1, <1>2
<1> QED BY <1>1, <1>2

LEMMA TradedLast ==
    ASSUME SeriesInv, NEW n, n = Series!n, n > Window + 1, \A i \in 1 .. n : i > n - (Window + 1) => Lively(i)
    PROVE  /\ Series!Last(Series!vwap) /\ Series!Last(Series!vwma) /\ Series!Last(Series!rvol)
           /\ Series!Last(Series!cmf) /\ Series!Last(Series!cci) /\ Series!Last(Series!percent_b)
           /\ n >= Wilder => Series!Last(Series!plus_di)
<1>1. /\ n \in Nat /\ n > 0 /\ n \in 1 .. n /\ n >= Window /\ n > Window
      /\ n - Window + 1 .. n \subseteq 1 .. n /\ n \in n - Window + 1 .. n /\ n - 1 \in n - Window + 1 .. n
      /\ n - 1 \in (n - 1) - Window + 1 .. n - 1 /\ n - 1 \in 1 .. n /\ n - 1 > n - (Window + 1)
      /\ n > n - (Window + 1) /\ \A i \in n - Window + 1 .. n : i > n - (Window + 1)
  <2>1. n \in Nat
    BY SeriesLength
  <2> QED BY <2>1, Periods
<1>2. Lively(n) /\ Lively(n - 1) /\ \A i \in n - Window + 1 .. n : Lively(i)
  BY ONLY <1>1, \A i \in 1 .. n : i > n - (Window + 1) => Lively(i), Zenon
<1>3. \A mask : mask[n] => Series!Last(mask)
  BY ONLY <1>1, n = Series!n, Zenon DEF Series!Last
<1>4. Series!vwap[n]
  BY ONLY <1>1, <1>2, n = Series!n, Zenon DEF Series!vwap, Series!Traded, Lively
<1>5. Series!vwma[n]
  BY ONLY <1>1, <1>2, n = Series!n, Zenon DEF Series!vwma, Series!Traded, Series!Span, Lively
<1>6. Series!rvol[n]
  BY ONLY <1>1, <1>2, n = Series!n, Zenon DEF Series!rvol, Series!Traded, Series!Span, Lively
<1>7. Series!cmf[n]
  <2>1. PICK moved : moved = [i \in 1 .. n |-> iBars[i].high # iBars[i].low]
    OBVIOUS
  <2>2. \A j \in n - Window + 1 .. n : moved[j]
    BY ONLY <1>1, <1>2, <2>1, Zenon DEF Lively
  <2>3. PICK flow : flow = Series!rolling(moved, Window)
    OBVIOUS
  <2>4. flow[n]
    <3>1. Series!rolling(moved, Window)[n]
      BY ONLY <1>1, <2>2, n = Series!n, RolledAt, Zenon
    <3> QED BY ONLY <2>3, <3>1, Zenon
  <2>5. Series!cmf = [i \in 1 .. n |-> flow[i] /\ Series!Traded(Series!Span(i, Window))]
    BY ONLY <2>1, <2>3, n = Series!n, Zenon DEF Series!cmf
  <2>6. Series!Traded(Series!Span(n, Window))
    BY ONLY <1>1, <1>2, Zenon DEF Series!Traded, Series!Span, Lively
  <2> QED BY ONLY <1>1, <2>4, <2>5, <2>6, Zenon
<1>8. Series!cci[n]
  BY ONLY <1>1, <1>2, n = Series!n, Zenon DEF Series!cci, Series!Same, Series!Span, Lively
<1>9. Series!percent_b[n]
  <2>1. iBars[n].close # iBars[n-1].close
    BY ONLY <1>2, Zenon DEF Lively
  <2>2. n >= Window /\ ~(\A i, j \in n - Window + 1 .. n : iBars[i].close = iBars[j].close)
    BY ONLY <1>1, <2>1, Zenon
  <2> QED BY ONLY <1>1, <2>2, n = Series!n, Zenon DEF Series!percent_b, Series!Same, Series!Span
<1>10. ASSUME n >= Wilder PROVE Series!plus_di[n]
  <2>1. Series!atr_wilder(Wilder)[n]
    <3>1. Series!ema_sma_seed(Series!All, Wilder, Series!n)[Series!n]
      BY <1>10, Periods, EmaLast
    <3> QED BY ONLY <3>1, n = Series!n, Zenon DEF Series!atr_wilder, Series!wilder_rma
  <2>2. \E j \in 1 .. n : Series!TrueRange(j)
    BY ONLY <1>1, <1>2, Zenon DEF Series!TrueRange, Lively
  <2> QED BY ONLY <1>1, <2>1, <2>2, n = Series!n, Zenon DEF Series!plus_di
<1> QED BY ONLY <1>3, <1>4, <1>5, <1>6, <1>7, <1>8, <1>9, <1>10, Zenon

\* The stochastic averages of ranges that are not flat.
LEMMA StochLast ==
    ASSUME SeriesInv, NEW n, n = Series!n, NEW r, r = Wilder + Smooth + D - 2, n > r,
           \A i \in 1 .. n : i > n - r => Lively(i)
    PROVE  Series!Last(Series!stoch_raw_k) /\ Series!Last(Series!stoch_k) /\ Series!Last(Series!stoch_d)
<1>1. n \in Nat /\ n > 0 /\ n \in 1 .. n /\ n >= Wilder + Smooth + D - 1
  <2>1. n \in Nat
    BY SeriesLength
  <2> QED BY <2>1, Periods
<1>2. ASSUME NEW i \in 1 .. n, i > n - r, i >= Wilder PROVE Series!stoch_raw_k[i]
  <2>1. i \in i - Wilder + 1 .. i
    BY Periods
  <2>2. Lively(i)
    BY ONLY <1>2, i \in 1 .. n, \A j \in 1 .. n : j > n - r => Lively(j), Zenon
  <2>3. ~Series!RangeFlat(Series!Span(i, Wilder))
    BY ONLY <2>1, <2>2, Zenon DEF Series!RangeFlat, Series!Span, Lively
  <2> QED BY ONLY <1>2, <2>3, i \in 1 .. n, n = Series!n, Zenon DEF Series!stoch_raw_k
<1>3. ASSUME NEW i \in 1 .. n, i > n - D PROVE Series!stoch_k[i]
  <2>1. ASSUME NEW j \in i - Smooth + 1 .. i PROVE Series!stoch_raw_k[j]
    <3>1. j \in 1 .. n /\ j > n - r /\ j >= Wilder
      BY <1>1, <1>3, Periods
    <3> QED BY ONLY <1>2, <3>1, Zenon
  <2>2. i >= Smooth
    BY <1>1, <1>3, Periods
  <2> QED BY ONLY <2>1, <2>2, i \in 1 .. n, n = Series!n, RolledAt, Zenon DEF Series!stoch_k
<1>4. Series!stoch_d[n]
  <2>1. ASSUME NEW j \in n - D + 1 .. n PROVE Series!stoch_k[j]
    <3>1. j \in 1 .. n /\ j > n - D
      BY <1>1, Periods
    <3> QED BY ONLY <1>3, <3>1, Zenon
  <2>2. n >= D
    BY <1>1, Periods
  <2> QED BY ONLY <1>1, <2>1, <2>2, n = Series!n, RolledAt, Zenon DEF Series!stoch_d
<1>5. Series!stoch_raw_k[n] /\ Series!stoch_k[n]
  <2>1. n > n - r /\ n >= Wilder /\ n > n - D
    BY <1>1, Periods
  <2> QED BY ONLY <1>1, <1>2, <1>3, <2>1, Zenon
<1> QED BY ONLY <1>1, <1>4, <1>5, n = Series!n, Zenon DEF Series!Last

\* The series of each name.
LEMMA SeriesOf ==
    /\ Series!Names = {"sma_20", "ema_9", "ema_20", "vwap", "vwma_20", "bb_percent_b_20", "atr_14", "rsi_14",
           "macd_line",
           "macd_signal", "stoch_raw_k", "stoch_k", "stoch_d", "cci_20", "roc_12", "momentum_10", "adx_14",
           "plus_di_14", "obv", "cmf_20", "mfi_14", "rvol_20", "donchian_upper_20", "keltner_upper", "supertrend"}
    /\ Series!calculate_indicators["sma_20"] = Series!rolling(Series!All, Window)
    /\ Series!calculate_indicators["ema_9"] = Series!ema_sma_seed(Series!All, Ema, Series!n)
    /\ Series!calculate_indicators["ema_20"] = Series!ema_sma_seed(Series!All, Window, Series!n)
    /\ Series!calculate_indicators["vwap"] = Series!vwap
    /\ Series!calculate_indicators["vwma_20"] = Series!vwma
    /\ Series!calculate_indicators["bb_percent_b_20"] = Series!percent_b
    /\ Series!calculate_indicators["atr_14"] = Series!atr_wilder(Wilder)
    /\ Series!calculate_indicators["rsi_14"] = Series!rsi_wilder(Wilder)
    /\ Series!calculate_indicators["macd_line"] = Series!macd_line
    /\ Series!calculate_indicators["macd_signal"] = Series!macd_signal
    /\ Series!calculate_indicators["stoch_raw_k"] = Series!stoch_raw_k
    /\ Series!calculate_indicators["stoch_k"] = Series!stoch_k
    /\ Series!calculate_indicators["stoch_d"] = Series!stoch_d
    /\ Series!calculate_indicators["cci_20"] = Series!cci
    /\ Series!calculate_indicators["roc_12"] = [i \in 1 .. Series!n |-> i > Roc]
    /\ Series!calculate_indicators["momentum_10"] = [i \in 1 .. Series!n |-> i > Momentum]
    /\ Series!calculate_indicators["adx_14"] = Series!adx_wilder
    /\ Series!calculate_indicators["plus_di_14"] = Series!plus_di
    /\ Series!calculate_indicators["obv"] = Series!All
    /\ Series!calculate_indicators["cmf_20"] = Series!cmf
    /\ Series!calculate_indicators["mfi_14"] = Series!rolling(Series!All, Wilder)
    /\ Series!calculate_indicators["rvol_20"] = Series!rvol
    /\ Series!calculate_indicators["donchian_upper_20"] = Series!donchian
    /\ Series!calculate_indicators["keltner_upper"] = [i \in 1 .. Series!n |->
             Series!ema_sma_seed(Series!All, Window, Series!n)[i] /\ Series!atr_wilder(Wilder)[i]]
    /\ Series!calculate_indicators["supertrend"] = Series!supertrend
<1>1. PICK c, x0, x1, x2, x3, x4, x5, x6, x7, x8, x9, x10, x11, x12, x13, x14, x15, x16, x17, x18, x19, x20,
         x21, x22, x23, x24 :
         /\ c = Series!calculate_indicators
         /\ x0 = Series!rolling(Series!All, Window)
         /\ x1 = Series!ema_sma_seed(Series!All, Ema, Series!n)
         /\ x2 = Series!ema_sma_seed(Series!All, Window, Series!n)
         /\ x3 = Series!vwap
         /\ x4 = Series!vwma
         /\ x5 = Series!percent_b
         /\ x6 = Series!atr_wilder(Wilder)
         /\ x7 = Series!rsi_wilder(Wilder)
         /\ x8 = Series!macd_line
         /\ x9 = Series!macd_signal
         /\ x10 = Series!stoch_raw_k
         /\ x11 = Series!stoch_k
         /\ x12 = Series!stoch_d
         /\ x13 = Series!cci
         /\ x14 = [i \in 1 .. Series!n |-> i > Roc]
         /\ x15 = [i \in 1 .. Series!n |-> i > Momentum]
         /\ x16 = Series!adx_wilder
         /\ x17 = Series!plus_di
         /\ x18 = Series!All
         /\ x19 = Series!cmf
         /\ x20 = Series!rolling(Series!All, Wilder)
         /\ x21 = Series!rvol
         /\ x22 = Series!donchian
         /\ x23 = [i \in 1 .. Series!n |->
                  Series!ema_sma_seed(Series!All, Window, Series!n)[i] /\ Series!atr_wilder(Wilder)[i]]
         /\ x24 = Series!supertrend
  OBVIOUS
<1>2. c = [sma_20 |-> x0, ema_9 |-> x1, ema_20 |-> x2, vwap |-> x3, vwma_20 |-> x4, bb_percent_b_20 |-> x5,
       atr_14 |-> x6, rsi_14 |-> x7, macd_line |-> x8, macd_signal |-> x9, stoch_raw_k |-> x10,
       stoch_k |-> x11, stoch_d |-> x12, cci_20 |-> x13, roc_12 |-> x14, momentum_10 |-> x15, adx_14 |-> x16,
       plus_di_14 |-> x17, obv |-> x18, cmf_20 |-> x19, mfi_14 |-> x20, rvol_20 |-> x21,
       donchian_upper_20 |-> x22, keltner_upper |-> x23, supertrend |-> x24]
  BY ONLY <1>1, Zenon DEF Series!calculate_indicators
<1>3. DOMAIN c = {"sma_20", "ema_9", "ema_20", "vwap", "vwma_20", "bb_percent_b_20", "atr_14", "rsi_14",
       "macd_line", "macd_signal", "stoch_raw_k", "stoch_k", "stoch_d", "cci_20", "roc_12", "momentum_10",
       "adx_14", "plus_di_14", "obv", "cmf_20", "mfi_14", "rvol_20", "donchian_upper_20", "keltner_upper",
       "supertrend"}
  BY ONLY <1>2
<1>4. c["sma_20"] = x0 /\ c["ema_9"] = x1 /\ c["ema_20"] = x2 /\ c["vwap"] = x3 /\ c["vwma_20"] = x4 /\
       c["bb_percent_b_20"] = x5 /\ c["atr_14"] = x6 /\ c["rsi_14"] = x7 /\ c["macd_line"] = x8 /\
       c["macd_signal"] = x9 /\ c["stoch_raw_k"] = x10 /\ c["stoch_k"] = x11 /\ c["stoch_d"] = x12 /\
       c["cci_20"] = x13 /\ c["roc_12"] = x14 /\ c["momentum_10"] = x15 /\ c["adx_14"] = x16 /\
       c["plus_di_14"] = x17 /\ c["obv"] = x18 /\ c["cmf_20"] = x19 /\ c["mfi_14"] = x20 /\
       c["rvol_20"] = x21 /\ c["donchian_upper_20"] = x22 /\ c["keltner_upper"] = x23 /\ c["supertrend"] = x24
  BY ONLY <1>2
<1>5. Series!Names = DOMAIN c
  BY ONLY <1>1, Zenon DEF Series!Names
<1> QED BY ONLY <1>1, <1>3, <1>4, <1>5

LEMMA RequiredOf ==
    /\ Series!required["sma_20"] = Window
    /\ Series!required["ema_9"] = Ema
    /\ Series!required["ema_20"] = Window
    /\ Series!required["vwap"] = 1
    /\ Series!required["vwma_20"] = Window
    /\ Series!required["bb_percent_b_20"] = Window
    /\ Series!required["atr_14"] = Wilder
    /\ Series!required["rsi_14"] = Wilder + 1
    /\ Series!required["macd_line"] = Slow
    /\ Series!required["macd_signal"] = Slow + Signal - 1
    /\ Series!required["stoch_raw_k"] = Wilder
    /\ Series!required["stoch_k"] = Wilder + Smooth - 1
    /\ Series!required["stoch_d"] = Wilder + Smooth + D - 2
    /\ Series!required["cci_20"] = Window
    /\ Series!required["roc_12"] = Roc + 1
    /\ Series!required["momentum_10"] = Momentum + 1
    /\ Series!required["plus_di_14"] = Wilder
    /\ Series!required["obv"] = 1
    /\ Series!required["cmf_20"] = Window
    /\ Series!required["mfi_14"] = Wilder + 1
    /\ Series!required["rvol_20"] = Window + 1
    /\ Series!required["donchian_upper_20"] = Window + 1
    /\ Series!required["keltner_upper"] = Window
    /\ Series!required["supertrend"] = Super
<1>1. PICK x0, x1, x2, x3, x4, x5, x6, x7, x8, x9, x10, x11, x12, x13, x14, x15, x16, x17, x18, x19, x20, x21,
         x22, x23, x24 :
         x0 = Window /\ x1 = Ema /\ x2 = Window /\ x3 = 1 /\ x4 = Window /\ x5 = Window /\ x6 = Wilder /\
                x7 = Wilder + 1 /\ x8 = Slow /\ x9 = Slow + Signal - 1 /\ x10 = Wilder /\
                x11 = Wilder + Smooth - 1 /\ x12 = Wilder + Smooth + D - 2 /\ x13 = Window /\ x14 = Roc + 1 /\
                x15 = Momentum + 1 /\ x16 = 2 * Wilder - 1 /\ x17 = Wilder /\ x18 = 1 /\ x19 = Window /\
                x20 = Wilder + 1 /\ x21 = Window + 1 /\ x22 = Window + 1 /\ x23 = Window /\ x24 = Super
  OBVIOUS
<1>2. Series!required = [sma_20 |-> x0, ema_9 |-> x1, ema_20 |-> x2, vwap |-> x3, vwma_20 |-> x4,
       bb_percent_b_20 |-> x5, atr_14 |-> x6, rsi_14 |-> x7, macd_line |-> x8, macd_signal |-> x9,
       stoch_raw_k |-> x10, stoch_k |-> x11, stoch_d |-> x12, cci_20 |-> x13, roc_12 |-> x14,
       momentum_10 |-> x15, adx_14 |-> x16, plus_di_14 |-> x17, obv |-> x18, cmf_20 |-> x19, mfi_14 |-> x20,
       rvol_20 |-> x21, donchian_upper_20 |-> x22, keltner_upper |-> x23, supertrend |-> x24]
  BY ONLY <1>1, Zenon DEF Series!required
<1> QED BY ONLY <1>1, <1>2

LEMMA ForgetsAlways == SeriesInv => Series!Forgets
<1> SUFFICES ASSUME SeriesInv, NEW name \in Series!Names \ {"adx_14"}, Series!n >= Series!required[name],
                    Series!n > Series!Reach(name),
                    \A i \in Series!n - Series!Reach(name) + 1 .. Series!n : Series!Good(i)
             PROVE  Series!Last(Series!calculate_indicators[name])
  BY DEF Series!Forgets
<1>1. PICK n, r, c, q : /\ n = Series!n /\ r = Series!Reach(name)
                        /\ c = Series!calculate_indicators[name] /\ q = Series!required[name]
  OBVIOUS
<1>2. r = (IF name \in {"stoch_d", "stoch_k", "stoch_raw_k"} THEN Wilder + Smooth + D - 2 ELSE Window + 1) /\ r \in Nat
  BY <1>1, Periods DEF Series!Reach
<1>3. \A i \in n - r + 1 .. n : Lively(i)
  BY ONLY <1>1, GoodIsLively, Zenon, \A i \in Series!n - Series!Reach(name) + 1 .. Series!n : Series!Good(i)
<1>4. /\ n \in Nat /\ n > 0 /\ n \in 1 .. n /\ n > r /\ n >= q
      /\ \A i \in 1 .. n : i > n - r => Lively(i)
  <2>1. n > r /\ n >= q /\ Series!n > r
    BY <1>1
  <2> QED BY <1>1, <1>2, <1>3, <2>1, Stretch
<1>5. \A mask : mask[n] => Series!Last(mask)
  BY ONLY <1>1, <1>4, Zenon DEF Series!Last
<1>6. CASE name \in {"sma_20", "mfi_14"}
  <2>1. (name = "sma_20" => n >= Window) /\ (name = "mfi_14" => n >= Wilder + 1)
    BY <1>1, <1>4, RequiredOf
  <2>2. (name = "sma_20" => Series!n >= Window) /\ (name = "mfi_14" => Series!n >= Wilder)
    BY <1>1, <1>4, <2>1, Periods
  <2>3. (name = "sma_20" => Series!Last(Series!rolling(Series!All, Window)))
        /\ (name = "mfi_14" => Series!Last(Series!rolling(Series!All, Wilder)))
    BY <2>2, Periods, RolledAll
  <2> QED BY ONLY <1>1, <1>6, <2>3, SeriesOf, Zenon
<1>7. CASE name \in {"ema_9", "ema_20", "atr_14", "supertrend"}
  <2>1. /\ name = "ema_9" => Series!n >= Ema
        /\ name = "ema_20" => Series!n >= Window
        /\ name = "atr_14" => Series!n >= Wilder
        /\ name = "supertrend" => Series!n >= Super
    BY <1>1, <1>4, RequiredOf
  <2>2. /\ name = "ema_9" => Series!Last(Series!ema_sma_seed(Series!All, Ema, Series!n))
        /\ name = "ema_20" => Series!Last(Series!ema_sma_seed(Series!All, Window, Series!n))
        /\ name = "atr_14" => Series!Last(Series!ema_sma_seed(Series!All, Wilder, Series!n))
        /\ name = "supertrend" => Series!Last(Series!ema_sma_seed(Series!All, Super, Series!n))
    BY <2>1, Periods, EmaLast
  <2>3. Series!supertrend = Series!ema_sma_seed(Series!All, Super, Series!n)
        /\ Series!atr_wilder(Wilder) = Series!ema_sma_seed(Series!All, Wilder, Series!n)
    BY ONLY Zenon DEF Series!supertrend, Series!atr_wilder, Series!wilder_rma
  <2> QED BY ONLY <1>1, <1>7, <2>2, <2>3, SeriesOf, Zenon
<1>8. CASE name = "rsi_14"
  <2>1. Series!n >= Wilder + 1
    BY <1>1, <1>4, <1>8, RequiredOf
  <2>2. Series!Last(Series!rsi_wilder(Wilder))
    BY <2>1, Periods, RsiLast
  <2> QED BY ONLY <1>1, <1>8, <2>2, SeriesOf, Zenon
<1>9. CASE name \in {"macd_line", "macd_signal"}
  <2>1. (name = "macd_line" => Series!n >= Slow) /\ (name = "macd_signal" => Series!n >= Slow + Signal - 1)
    BY <1>1, <1>4, RequiredOf
  <2>2. (name = "macd_line" => Series!Last(Series!macd_line)) /\ (name = "macd_signal" => Series!Last(Series!macd_signal))
    BY <2>1, MacdLast
  <2> QED BY ONLY <1>1, <1>9, <2>2, SeriesOf, Zenon
<1>10. CASE name \in {"vwap", "vwma_20", "bb_percent_b_20", "cci_20", "plus_di_14", "cmf_20", "rvol_20"}
  <2>1. r = Window + 1 /\ n > Window + 1 /\ n >= Wilder
    BY <1>2, <1>4, <1>10, Periods
  <2>2. \A i \in 1 .. n : i > n - (Window + 1) => Lively(i)
    BY ONLY <1>4, <2>1, Zenon
  <2>3. /\ Series!Last(Series!vwap) /\ Series!Last(Series!vwma) /\ Series!Last(Series!rvol)
        /\ Series!Last(Series!cmf) /\ Series!Last(Series!cci) /\ Series!Last(Series!percent_b)
        /\ Series!Last(Series!plus_di)
    BY <1>1, <2>1, <2>2, TradedLast
  <2> QED BY ONLY <1>1, <1>10, <2>3, SeriesOf, Zenon
<1>11. CASE name \in {"stoch_raw_k", "stoch_k", "stoch_d"}
  <2>1. r = Wilder + Smooth + D - 2
    BY <1>2, <1>11
  <2>2. Series!Last(Series!stoch_raw_k) /\ Series!Last(Series!stoch_k) /\ Series!Last(Series!stoch_d)
    BY <1>1, <1>4, <2>1, StochLast
  <2> QED BY ONLY <1>1, <1>11, <2>2, SeriesOf, Zenon
<1>12. CASE name \in {"roc_12", "momentum_10", "donchian_upper_20", "obv"}
  <2>1. /\ name = "roc_12" => n > Roc
        /\ name = "momentum_10" => n > Momentum
        /\ name = "donchian_upper_20" => n > Window
    BY <1>1, <1>4, RequiredOf, Periods
  <2>2. /\ name = "roc_12" => [i \in 1 .. Series!n |-> i > Roc][n]
        /\ name = "momentum_10" => [i \in 1 .. Series!n |-> i > Momentum][n]
        /\ name = "donchian_upper_20" => Series!donchian[n]
        /\ name = "obv" => Series!All[n]
    BY ONLY <1>1, <1>4, <2>1, Zenon DEF Series!donchian, Series!All
  <2>3. /\ Series!calculate_indicators["roc_12"] = [i \in 1 .. Series!n |-> i > Roc]
        /\ Series!calculate_indicators["momentum_10"] = [i \in 1 .. Series!n |-> i > Momentum]
        /\ Series!calculate_indicators["donchian_upper_20"] = Series!donchian
        /\ Series!calculate_indicators["obv"] = Series!All
    BY ONLY SeriesOf
  <2>4. CASE name = "roc_12"
    BY ONLY <1>1, <1>5, <2>2, <2>3, <2>4, Zenon
  <2>5. CASE name = "momentum_10"
    BY ONLY <1>1, <1>5, <2>2, <2>3, <2>5, Zenon
  <2>6. CASE name = "donchian_upper_20"
    BY ONLY <1>1, <1>5, <2>2, <2>3, <2>6, Zenon
  <2>7. CASE name = "obv"
    BY ONLY <1>1, <1>5, <2>2, <2>3, <2>7, Zenon
  <2> QED BY ONLY <1>12, <2>4, <2>5, <2>6, <2>7
<1>13. CASE name = "keltner_upper"
  <2>1. Series!n >= Window /\ Series!n >= Wilder
    BY <1>1, <1>4, <1>13, RequiredOf, Periods
  <2>2. Series!ema_sma_seed(Series!All, Window, Series!n)[Series!n] /\ Series!ema_sma_seed(Series!All, Wilder, Series!n)[Series!n]
    BY <2>1, Periods, EmaLast
  <2>3. Series!atr_wilder(Wilder)[Series!n]
    BY ONLY <2>2, Zenon DEF Series!atr_wilder, Series!wilder_rma
  <2>4. [i \in 1 .. Series!n |-> Series!ema_sma_seed(Series!All, Window, Series!n)[i] /\ Series!atr_wilder(Wilder)[i]][n]
    BY ONLY <1>1, <1>4, <2>2, <2>3, Zenon
  <2> QED BY ONLY <1>1, <1>5, <1>13, <2>4, SeriesOf, Zenon
<1>14. \/ name \in {"sma_20", "mfi_14"} \/ name \in {"ema_9", "ema_20", "atr_14", "supertrend"} \/ name = "rsi_14"
       \/ name \in {"macd_line", "macd_signal"}
       \/ name \in {"vwap", "vwma_20", "bb_percent_b_20", "cci_20", "plus_di_14", "cmf_20", "rvol_20"}
       \/ name \in {"stoch_raw_k", "stoch_k", "stoch_d"}
       \/ name \in {"roc_12", "momentum_10", "donchian_upper_20", "obv"} \/ name = "keltner_upper"
  BY ONLY name \in Series!Names \ {"adx_14"}, SeriesOf
<1> QED BY ONLY <1>6, <1>7, <1>8, <1>9, <1>10, <1>11, <1>12, <1>13, <1>14

\* A flat or untraded minute is forgotten once it has left the window.
LEMMA ForgetsHeld == Spec => [](SeriesInv /\ Series!Forgets)
<1>1. Init => SeriesInv
  BY DEF Init, Series!Init, SeriesInv
<1>2. [Next]_vars => [Series!Next]_(Series!vars)
  BY DEF Next, vars, iVars, DaysOnly, SelectOnly, OutcomeOnly, TablesOnly, BookOnly, WalkOnly, HistoryOnly,
         SeriesOnly, SyncOnly, LevelsOnly, Series!vars
<1>3. SeriesInv /\ [Series!Next]_(Series!vars) => SeriesInv'
  BY DEF SeriesInv, Series!Next, Series!Observe, Series!vars
<1> QED BY <1>1, <1>2, <1>3, ForgetsAlways, PTL DEF Spec

-----------------------------------------------------------------------------
(* The theorems, for every number of days, stocks, sessions and minutes.     *)

\* Nothing that is said of a moment depends on what came after it: a decision learns from earlier
\* days, the walk-forward direction of a day is the same whatever its outcome, a minute's matches
\* and baselines are the same whatever follows it, and the major levels are of the days before.
THEOREM NothingOfTheFuture == Spec => []OnlyThePast
<1>1. DecisionInv => Day!LearnsFromThePast
  BY DEF DecisionInv
<1>2. Day!LearnsFromThePast /\ Walk!NoLookAhead /\ Walk!WindowSuffices /\ History!OnlyThePast /\ Level!MajorOfThePast
          => OnlyThePast
  BY DEF OnlyThePast
<1> QED BY <1>1, <1>2, DecisionsHeld, DirectionsOfThePast, MatchesOfThePast, LevelsOfThePast, PTL

\* A stored decision is never rewritten, by a restart or by a replay, and later minutes take back
\* no settled swing and no complete opening range.
THEOREM WhatIsFinalStays == Spec => FinalStays
BY DecisionsStay, SettledStays, PTL DEF FinalStays

\* What is stored is what was computed: a candle table holds every usable minute that was answered,
\* once and as either reader takes it, a cached session is whole and of everything archived of its
\* day, and an archived day ends with its final outcome and its training record.
THEOREM WhatIsStored == Spec => []StoredIsComputed
<1>1. (which = "days" => Day!DayFinished) /\ FinalInv /\ History!CachedIsFinal /\ History!CacheWhole
      /\ Table!TableRoundTrip /\ Table!FrameSame => StoredIsComputed
  BY DEF StoredIsComputed
<1> QED BY <1>1, DaysFinished, RememberedIsFinal, CachesWhole, TablesHeld, PTL

\* The numbers are the ones their definitions give: a market turned upside down gets the mirror
\* decision, a return lies between its excursions, every traded share is on one side and the best
\* bid's quantity adds up, an indicator forgets a flat or untraded minute with its window, and
\* what is served was fresh and over.
THEOREM ValuesAreExact == Spec => []ValuesExact
<1>1. Pick!MirrorImage /\ Result!ReturnBracketed /\ (Book!SharesOnce /\ Book!BidQuantityAddsUp)
      /\ Series!Forgets /\ Sync!ServedValues => ValuesExact
  BY DEF ValuesExact
<1> QED BY <1>1, MirrorHeld, OutcomeHeld, BookHeld, ForgetsHeld, ServedHeld, PTL

-----------------------------------------------------------------------------
(* The types.                                                                *)

Outcomes == {"none", "provisional", "unmarked", "final"}
Positions == {"down", "idle", "create", "write", "outcome", "training", "mark"}
DayRest ==
    /\ dPhase \in Day!Phases /\ dPc \in Positions /\ dMade \subseteq Day!Days
    /\ \A d \in Day!Days : dDecision[d] \in Day!Said /\ dReplayed[d] \in Day!Said /\ dOutcome[d] \in Outcomes
    /\ dAt \in Day!Days \cup {None} /\ d_failed \in Day!Days \cup {None} /\ d_finalised \in Day!Days \cup {None}

LEMMA DayRestStays == DayTypes /\ dOutcome = [d \in Day!Days |-> dOutcome[d]] /\ DayRest /\ [Day!Next]_(Day!vars) => DayRest'
<1> SUFFICES ASSUME DayTypes, dOutcome = [d \in Day!Days |-> dOutcome[d]], DayRest, [Day!Next]_(Day!vars) PROVE DayRest'
  OBVIOUS
<1> USE DEF Day!live, Day!tool
<1>1. /\ dDay \in Day!Days /\ dArchive \subseteq Day!Days /\ dTraining \subseteq Day!Days
      /\ dDecision = [d \in Day!Days |-> dDecision[d]] /\ dReplayed = [d \in Day!Days |-> dReplayed[d]]
  BY DEF DayTypes
<1>2. dPhase' \in Day!Phases /\ dPc' \in Positions
  BY DEF DayRest, Day!Phases, Positions, Day!Next, Day!Service, Day!run_945, Day!Create, Day!Write, Day!Provisional, Day!finalise_945, Day!Outcome,
     Day!Training, Day!Mark, Day!Kill, Day!Restart, Day!reconstruct, Day!ReplayDay, Day!ReplayEnds, Day!Archived, Day!Advance,
     Day!vars
<1>3. dMade' \subseteq Day!Days
  <2>1. dMade' = dMade \/ dMade' = Day!load_training(dDay)
    BY DEF Day!Next, Day!Service, Day!run_945, Day!Create, Day!Write, Day!Provisional, Day!finalise_945, Day!Outcome,
     Day!Training, Day!Mark, Day!Kill, Day!Restart, Day!reconstruct, Day!ReplayDay, Day!ReplayEnds, Day!Archived, Day!Advance,
     Day!vars
  <2> QED BY <1>1, <2>1 DEF DayRest, Day!load_training
<1>4. \A d \in Day!Days : dDecision'[d] \in Day!Said
  <2>1. dDecision' = dDecision \/ \E v \in {Empty, dMade} : dDecision' = [dDecision EXCEPT ![dDay] = v]
    BY DEF Day!Next, Day!Service, Day!run_945, Day!Create, Day!Write, Day!Provisional, Day!finalise_945, Day!Outcome,
     Day!Training, Day!Mark, Day!Kill, Day!Restart, Day!reconstruct, Day!ReplayDay, Day!ReplayEnds, Day!Archived, Day!Advance,
     Day!vars
  <2>2. Empty \in Day!Said /\ dMade \in Day!Said
    BY DEF DayRest, Day!Said
  <2> QED BY <1>1, <2>1, <2>2 DEF DayRest
<1>5. \A d \in Day!Days : dReplayed'[d] \in Day!Said
  <2>1. dReplayed' = dReplayed \/ dReplayed' = [dReplayed EXCEPT ![dAt] = Day!load_training(dAt)]
    BY DEF Day!Next, Day!Service, Day!run_945, Day!Create, Day!Write, Day!Provisional, Day!finalise_945, Day!Outcome,
     Day!Training, Day!Mark, Day!Kill, Day!Restart, Day!reconstruct, Day!ReplayDay, Day!ReplayEnds, Day!Archived, Day!Advance,
     Day!vars
  <2>2. Day!load_training(dAt) \in Day!Said
    BY <1>1 DEF Day!Said, Day!load_training
  <2> QED BY <1>1, <2>1, <2>2 DEF DayRest
<1>6. \A d \in Day!Days : dOutcome'[d] \in Outcomes
  <2>1. dOutcome' = dOutcome \/ \E v \in Outcomes : dOutcome' = [dOutcome EXCEPT ![dDay] = v]
    BY DEF Outcomes, Day!Next, Day!Service, Day!run_945, Day!Create, Day!Write, Day!Provisional, Day!finalise_945, Day!Outcome,
     Day!Training, Day!Mark, Day!Kill, Day!Restart, Day!reconstruct, Day!ReplayDay, Day!ReplayEnds, Day!Archived, Day!Advance,
     Day!vars
  <2> QED BY <2>1 DEF DayRest
<1>7. d_failed' \in Day!Days \cup {None} /\ d_finalised' \in Day!Days \cup {None}
  <2>1. d_failed' \in {d_failed, dDay, None} /\ d_finalised' \in {d_finalised, dDay, None}
    BY DEF Day!Next, Day!Service, Day!run_945, Day!Create, Day!Write, Day!Provisional, Day!finalise_945, Day!Outcome,
     Day!Training, Day!Mark, Day!Kill, Day!Restart, Day!reconstruct, Day!ReplayDay, Day!ReplayEnds, Day!Archived, Day!Advance,
     Day!vars
  <2> QED BY <1>1, <2>1 DEF DayRest
<1>8. dAt' \in Day!Days \cup {None}
  <2>1. dAt' \in {dAt, None, 1} \/ (dAt # None /\ dAt' = Day!NextSession(dAt)) \/ (dAt \in dArchive /\ dAt' = Day!NextSession(dAt))
    BY DEF Day!Next, Day!Service, Day!run_945, Day!Create, Day!Write, Day!Provisional, Day!finalise_945, Day!Outcome,
     Day!Training, Day!Mark, Day!Kill, Day!Restart, Day!reconstruct, Day!ReplayDay, Day!ReplayEnds, Day!Archived, Day!Advance,
     Day!vars
  <2>2. 1 \in Day!Days
    BY DaysAssumption DEF Day!Days
  <2>3. ASSUME NEW d \in Day!Days PROVE Day!NextSession(d) \in Day!Days \cup {None}
    BY DaysAssumption DEF Day!NextSession, Day!Days
  <2>4. dAt \in dArchive => dAt \in Day!Days
    BY <1>1
  <2> QED BY <2>1, <2>2, <2>3, <2>4 DEF DayRest
<1> QED BY <1>2, <1>3, <1>4, <1>5, <1>6, <1>7, <1>8 DEF DayRest

LEMMA DaysTyped == Spec => []Day!TypeOK
<1> DEFINE Inv == DayTypes /\ dOutcome = [d \in Day!Days |-> dOutcome[d]] /\ DayRest
<1>1. Init => Inv
  <2> SUFFICES ASSUME Init PROVE Inv
    OBVIOUS
  <2>1. DayTypes /\ dOutcome = [d \in Day!Days |-> dOutcome[d]]
    BY DaysAssumption DEF Init, Day!Init, DayTypes, Day!Days
  <2>2. DayRest
    BY DEF Init, Day!Init, DayRest, Day!Said, Day!Phases, Outcomes, Positions
  <2> QED BY <2>1, <2>2
<1>2. [Next]_vars => [Day!Next]_(Day!vars)
  BY DEF Next, vars, dVars, DaysOnly, SelectOnly, OutcomeOnly, TablesOnly, BookOnly, WalkOnly, HistoryOnly,
         SeriesOnly, SyncOnly, LevelsOnly, Day!vars, Day!live, Day!tool
<1>3. DecisionInv /\ DecisionInv' /\ Inv /\ [Day!Next]_(Day!vars) => Inv'
  <2> SUFFICES ASSUME DecisionInv', Inv, [Day!Next]_(Day!vars) PROVE Inv'
    OBVIOUS
  <2>1. dOutcome' = dOutcome \/ \E v : dOutcome' = [dOutcome EXCEPT ![dDay] = v]
    BY DEF Day!live, Day!tool, Day!Next, Day!Service, Day!run_945, Day!Create, Day!Write, Day!Provisional, Day!finalise_945, Day!Outcome,
     Day!Training, Day!Mark, Day!Kill, Day!Restart, Day!reconstruct, Day!ReplayDay, Day!ReplayEnds, Day!Archived, Day!Advance,
     Day!vars
  <2>2. (dOutcome = [d \in Day!Days |-> dOutcome[d]])'
    BY <2>1
  <2> QED BY <2>2, DayRestStays DEF DecisionInv
<1>4. Inv => Day!TypeOK
  <2> SUFFICES ASSUME Inv PROVE Day!TypeOK
    OBVIOUS
  <2>1. dDecision \in [Day!Days -> Day!Said] /\ dReplayed \in [Day!Days -> Day!Said] /\ dOutcome \in [Day!Days -> Outcomes]
    BY DEF DayTypes, DayRest
  <2> QED BY <2>1 DEF Day!TypeOK, DayTypes, DayRest, Outcomes, Positions
<1> HIDE DEF Inv
<1> QED BY <1>1, <1>2, <1>3, <1>4, DecisionsHeld, PTL DEF Spec

LEMMA SelectTyped == Spec => []Pick!TypeOK
<1>1. SelectInv => Pick!TypeOK
  BY DEF SelectInv, Pick!TypeOK
<1> QED BY <1>1, MirrorHeld, PTL

LEMMA OutcomeTyped == Spec => []Result!TypeOK
<1>1. OutInv => Result!TypeOK
  BY DEF OutInv, OutTypes, Result!TypeOK
<1> QED BY <1>1, OutcomeHeld, PTL

\* The next span begins within the wanted days or on the day after the last.
LEMMA FirstBeforeLast == Table!FirstDay \in Int /\ Table!FirstDay <= Table!LastDay
<1>1. PICK a \in Wanted, b \in Wanted : a \in Int /\ b \in Int /\ \A d \in Wanted : a <= d /\ d <= b
  BY TableAssumption
<1>2. Table!FirstDay \in Wanted
  BY <1>1 DEF Table!FirstDay, Table!Min
<1>3. Table!LastDay \in Wanted /\ \A d \in Wanted : d <= Table!LastDay
  BY <1>1 DEF Table!LastDay, Table!Max
<1> QED BY <1>1, <1>2, <1>3, TableAssumption

LEMMA TablesTyped == Spec => []Table!TypeOK
<1> DEFINE Inv == tTodo \in Table!FirstDay .. (Table!LastDay + 1)
<1>0. PICK first, last : first = Table!FirstDay /\ last = Table!LastDay
  OBVIOUS
<1>1. Init => Inv
  <2> SUFFICES ASSUME Init PROVE Inv
    OBVIOUS
  <2>1. tTodo = first
    BY <1>0 DEF Init, Table!Init
  <2>2. first \in Int /\ last \in Int /\ first <= last
    BY <1>0, FirstBeforeLast, WantedEnds
  <2> QED BY <1>0, <2>1, <2>2
<1>2. [Next]_vars => [Table!Next]_(Table!vars)
  BY DEF Next, vars, tVars, DaysOnly, SelectOnly, OutcomeOnly, TablesOnly, BookOnly, WalkOnly, HistoryOnly,
         SeriesOnly, SyncOnly, LevelsOnly, Table!vars
<1>3. Inv /\ [Table!Next]_(Table!vars) => Inv'
  <2> SUFFICES ASSUME Inv, [Table!Next]_(Table!vars) PROVE Inv'
    OBVIOUS
  <2>1. tTodo' = tTodo \/ (tTodo <= last /\ tTodo' = Table!NextStart(tTodo))
    BY <1>0 DEF Table!Next, Table!assemble, Table!Download, Table!vars
  <2>2. first \in Int /\ last \in Int /\ tTodo \in first .. (last + 1) /\ tTodo \in Int
    BY <1>0, FirstBeforeLast, WantedEnds
  <2>3. CASE tTodo' = tTodo
    BY <1>0, <2>2, <2>3
  <2>4. CASE tTodo <= last /\ tTodo' = Table!NextStart(tTodo)
    <3>1. PICK next : next = Table!NextStart(tTodo)
      OBVIOUS
    <3>2. next \in Int /\ next > tTodo /\ next <= last + 1
      BY <1>0, <2>2, <2>4, <3>1, SpanAhead
    <3>3. next \in first .. (last + 1)
      BY <2>2, <3>2
    <3> QED BY <1>0, <2>4, <3>1, <3>3
  <2> QED BY <2>1, <2>3, <2>4
<1>4. Inv /\ TableInv => Table!TypeOK
  <2> SUFFICES ASSUME Inv, TableInv PROVE Table!TypeOK
    OBVIOUS
  <2>1. Len(tTable) <= 1
    <3>1. PICK files : files = [d \in Wanted |-> Table!writer(d)]
      OBVIOUS
    <3>2. tTable = <<>> \/ tTable = <<files>>
      BY <3>1 DEF TableInv
    <3>3. ASSUME NEW x PROVE Len(<<>>) <= 1 /\ Len(<<x>>) <= 1
      OBVIOUS
    <3>4. CASE tTable = <<>>
      BY <3>3, <3>4
    <3>5. CASE tTable = <<files>>
      BY <3>3, <3>5
    <3> QED BY <3>2, <3>4, <3>5
  <2>2. ASSUME NEW i \in DOMAIN tStaged PROVE Len(tStaged[i]) = 6
    <3>1. tStaged[i] \in TableRows
      BY DEF TableInv, GoodRows
    <3>2. PICK S : S = Int \cup {NaN}
      OBVIOUS
    <3>3. tStaged[i] \in [1 .. 6 -> S]
      BY <3>1, <3>2 DEF TableRows
    <3>4. ASSUME NEW r \in [1 .. 6 -> S] PROVE Len(r) = 6
      OBVIOUS
    <3> QED BY <3>3, <3>4
  <2> QED BY <2>1, <2>2 DEF Table!TypeOK
<1> HIDE DEF Inv
<1> QED BY <1>1, <1>2, <1>3, <1>4, TablesHeld, PTL DEF Spec

\* The minute's counts, and packets that were counted at most once.
BookRest ==
    /\ bB.volume >= 0 /\ bB.buy >= 0 /\ bB.sell >= 0 /\ bB.unclassified >= 0 /\ bB.valid >= 0 /\ bB.invalid >= 0
    /\ bPackets \in 0 .. MaxPackets /\ bB.valid + bB.invalid <= bPackets
    /\ bLast.book = None \/ Book!ValidBook(bLast.book)

LEMMA BookRestStays == BookInv /\ BookRest /\ [Book!Next]_(Book!vars) => BookRest'
<1> SUFFICES ASSUME BookInv, BookRest, [Book!Next]_(Book!vars) PROVE BookRest'
  OBVIOUS
<1>0. /\ bB.volume \in Int /\ bB.buy \in Int /\ bB.sell \in Int /\ bB.unclassified \in Int /\ bB.valid \in Int /\ bB.invalid \in Int
      /\ MaxPackets \in Nat
  BY BookAssumption DEF BookInv, BookFields
<1>1. ASSUME NEW p \in Book!Packets, Book!Observe(p) PROVE BookRest'
  <2>1. AddedTo(p)
    BY <1>1, Adds
  <2>2. PICK t : t = Book!Traded(p)
    OBVIOUS
  <2>3. t \in Int /\ t >= 0
    <3>1. p.volume \in Nat /\ (bLast.volume # None => bLast.volume \in Int)
      BY Packet, BookAssumption DEF BookInv
    <3>2. bLast.volume # None /\ p.volume > bLast.volume => p.volume - bLast.volume \in Nat
      BY <3>1
    <3> QED BY <2>2, <3>2 DEF Book!Traded, Book!If
  <2>4. PICK x1, x2, x3, x4, x5 :
           /\ x1 = Book!If(Book!Side(p) = "buy", t) /\ x2 = Book!If(Book!Side(p) = "sell", t) /\ x3 = Book!If(Book!Side(p) = "unclassified", t)
           /\ x4 = Book!If(Book!ValidBook(p), 1) /\ x5 = Book!If(~Book!ValidBook(p), 1)
    OBVIOUS
  <2>5. x1 \in Nat /\ x2 \in Nat /\ x3 \in Nat /\ x4 \in Nat /\ x5 \in Nat /\ x4 + x5 = 1
    BY <2>3, <2>4 DEF Book!If
  <2>6. /\ bB'.volume = bB.volume + t /\ bB'.buy = bB.buy + x1 /\ bB'.sell = bB.sell + x2 /\ bB'.unclassified = bB.unclassified + x3
        /\ bB'.valid = bB.valid + x4 /\ bB'.invalid = bB.invalid + x5
    BY <2>1, <2>2, <2>4 DEF AddedTo
  <2>7. bPackets < MaxPackets /\ bPackets' = bPackets + 1 /\ bLast'.book = (IF Book!ValidBook(p) THEN p ELSE bLast.book)
    BY <1>1 DEF Book!Observe
  <2>8. bLast'.book = None \/ Book!ValidBook(bLast'.book)
    BY <2>7 DEF BookRest
  <2>9. bPackets \in 0 .. MaxPackets /\ bB.valid + bB.invalid <= bPackets
    BY DEF BookRest
  <2>10. bPackets' \in 0 .. MaxPackets /\ bB'.valid + bB'.invalid <= bPackets'
    BY <1>0, <2>5, <2>6, <2>7, <2>9
  <2>11. bB'.volume >= 0 /\ bB'.buy >= 0 /\ bB'.sell >= 0 /\ bB'.unclassified >= 0 /\ bB'.valid >= 0 /\ bB'.invalid >= 0
    BY <1>0, <2>3, <2>5, <2>6 DEF BookRest
  <2> QED BY <2>8, <2>10, <2>11 DEF BookRest, Book!ValidBook
<1>2. CASE Book!NextMinute
  <2>1. bB' = Book!Zero /\ UNCHANGED <<bLast, bPackets>>
    BY <1>2 DEF Book!NextMinute
  <2>2. /\ bB'.volume = 0 /\ bB'.buy = 0 /\ bB'.sell = 0 /\ bB'.unclassified = 0 /\ bB'.valid = 0 /\ bB'.invalid = 0
    BY <2>1 DEF Book!Zero
  <2> QED BY <1>0, <2>1, <2>2 DEF BookRest, Book!ValidBook
<1>3. CASE UNCHANGED Book!vars
  BY <1>3 DEF Book!vars, BookRest, Book!ValidBook
<1> QED BY <1>1, <1>2, <1>3 DEF Book!Next

LEMMA BookTyped == Spec => []Book!TypeOK
<1>1. Init => BookRest
  <2> SUFFICES ASSUME Init PROVE BookRest
    OBVIOUS
  <2>1. bB = Book!Zero /\ bPackets = 0 /\ bLast = [book |-> None, mid2 |-> None, ltp |-> None, volume |-> None]
    BY DEF Init, Book!Init
  <2>2. bB.volume = 0 /\ bB.buy = 0 /\ bB.sell = 0 /\ bB.unclassified = 0 /\ bB.valid = 0 /\ bB.invalid = 0 /\ bLast.book = None
    BY <2>1 DEF Book!Zero
  <2> QED BY <2>1, <2>2, BookAssumption DEF BookRest
<1>2. [Next]_vars => [Book!Next]_(Book!vars)
  BY DEF Next, vars, bVars, DaysOnly, SelectOnly, OutcomeOnly, TablesOnly, BookOnly, WalkOnly, HistoryOnly,
         SeriesOnly, SyncOnly, LevelsOnly, Book!vars
<1>3. BookInv /\ BookRest => Book!TypeOK
  <2> SUFFICES ASSUME BookInv, BookRest PROVE Book!TypeOK
    OBVIOUS
  <2>1. /\ bB.volume \in Int /\ bB.buy \in Int /\ bB.sell \in Int /\ bB.unclassified \in Int /\ bB.valid \in Int /\ bB.invalid \in Int
        /\ MaxPackets \in Nat
    BY BookAssumption DEF BookInv, BookFields
  <2>2. bB.volume \in Nat /\ bB.buy \in Nat /\ bB.sell \in Nat /\ bB.unclassified \in Nat
    BY <2>1 DEF BookRest
  <2>3. bB.valid + bB.invalid \in 0 .. MaxPackets
    BY <2>1 DEF BookRest
  <2> QED BY <2>2, <2>3 DEF Book!TypeOK, BookRest
<1> QED BY <1>1, <1>2, <1>3, BookRestStays, BookHeld, PTL DEF Spec

LEMMA WalkTyped == Spec => []Walk!TypeOK
<1> DEFINE Inv == Len(wDays) <= MaxDays
<1>1. Init => Inv
  BY WalkAssumption DEF Init, Walk!Init
<1>2. [Next]_vars => [Walk!Next]_wDays
  BY DEF Next, vars, wVars, DaysOnly, SelectOnly, OutcomeOnly, TablesOnly, BookOnly, WalkOnly, HistoryOnly,
         SeriesOnly, SyncOnly, LevelsOnly
<1>3. wDays \in Seq(Walk!TrainingDays) /\ Inv /\ [Walk!Next]_wDays => Inv'
  BY WalkAssumption DEF Walk!Next, Walk!save_training
<1>4. wDays \in Seq(Walk!TrainingDays) /\ Inv => Walk!TypeOK
  BY DEF Walk!TypeOK
<1> HIDE DEF Inv
<1> QED BY <1>1, <1>2, <1>3, <1>4, WalkHeld, PTL DEF Spec

LEMMA HistoryTyped == Spec => []History!TypeOK
<1>1. FinalInv => History!TypeOK
  <2> SUFFICES ASSUME FinalInv PROVE History!TypeOK
    OBVIOUS
  <2>1. hRows \in [History!Days -> 0 .. MinuteCount] /\ hToday \in History!Days /\ hOpen \in BOOLEAN
    BY DEF FinalInv, HistoryInv
  <2>2. ASSUME NEW d \in History!Days, hSummary[d] # None PROVE hSummary[d] \in 1 .. MinuteCount
    <3>1. hSummary[d] = hRows[d] /\ hRows[d] > 0 /\ hRows[d] \in 0 .. MinuteCount
      BY <2>1, <2>2 DEF FinalInv, Fixed
    <3> QED BY <3>1, HistoryAssumption
  <2>3. ASSUME NEW k \in History!Threads, hLoad[k] # None PROVE hLoad[k].next \in 0 .. (Parts + 2)
    BY <2>3 DEF FinalInv, CacheTypes, Loadings
  <2> QED BY <2>1, <2>2, <2>3 DEF History!TypeOK
<1> QED BY <1>1, RememberedIsFinal, PTL

\* Every indicator has one place for each bar.
Whole(x) == DOMAIN x = 1 .. Series!n
LEMMA WholeSeries ==
    /\ \A m, p : Whole(Series!rolling(m, p)) /\ Whole(Series!ema_sma_seed(m, p, Series!n)) /\ Whole(Series!wilder_rma(m, p))
    /\ \A p : Whole(Series!atr_wilder(p)) /\ Whole(Series!rsi_wilder(p))
    /\ Whole(Series!All) /\ Whole(Series!vwap) /\ Whole(Series!vwma) /\ Whole(Series!percent_b) /\ Whole(Series!macd_line)
    /\ Whole(Series!macd_signal) /\ Whole(Series!stoch_raw_k) /\ Whole(Series!cci) /\ Whole(Series!plus_di)
    /\ Whole(Series!cmf) /\ Whole(Series!rvol) /\ Whole(Series!donchian)
<1>1. ASSUME NEW m, NEW p PROVE Whole(Series!rolling(m, p)) /\ Whole(Series!ema_sma_seed(m, p, Series!n))
  <2>1. Whole(Series!rolling(m, p))
    BY DEF Series!rolling, Whole
  <2>2. Whole(Series!ema_sma_seed(m, p, Series!n))
    BY Zenon DEF Series!ema_sma_seed, Whole
  <2> QED BY <2>1, <2>2
<1>2. ASSUME NEW m, NEW p PROVE Whole(Series!wilder_rma(m, p))
  BY <1>1, Zenon DEF Series!wilder_rma
<1>3. ASSUME NEW p PROVE Whole(Series!atr_wilder(p)) /\ Whole(Series!rsi_wilder(p))
  <2>1. Whole(Series!atr_wilder(p))
    BY <1>2, Zenon DEF Series!atr_wilder
  <2>2. Whole(Series!rsi_wilder(p))
    BY Zenon DEF Series!rsi_wilder, Whole
  <2> QED BY <2>1, <2>2
<1>4. Whole(Series!All) /\ Whole(Series!vwap) /\ Whole(Series!vwma) /\ Whole(Series!percent_b)
  BY Zenon DEF Whole, Series!All, Series!vwap, Series!vwma, Series!percent_b
<1>5. Whole(Series!macd_line) /\ Whole(Series!macd_signal)
  BY Zenon DEF Whole, Series!macd_line, Series!macd_signal
<1>6. Whole(Series!stoch_raw_k) /\ Whole(Series!cci) /\ Whole(Series!plus_di)
  BY Zenon DEF Whole, Series!stoch_raw_k, Series!cci, Series!plus_di
<1>7. Whole(Series!cmf) /\ Whole(Series!rvol) /\ Whole(Series!donchian)
  BY Zenon DEF Whole, Series!cmf, Series!rvol, Series!donchian
<1> QED BY <1>1, <1>2, <1>3, <1>4, <1>5, <1>6, <1>7

LEMMA SeriesDomains == \A name \in Series!Names : Whole(Series!calculate_indicators[name])
<1>1. /\ \A name \in {"sma_20", "mfi_14", "ema_9", "ema_20"} : Whole(Series!calculate_indicators[name])
      /\ \A name \in {"atr_14", "rsi_14", "supertrend", "obv", "adx_14"} : Whole(Series!calculate_indicators[name])
  <2>1. Whole(Series!supertrend) /\ Whole(Series!adx_wilder)
    BY WholeSeries, Zenon DEF Series!supertrend, Series!adx_wilder
  <2> QED BY <2>1, SeriesOf, WholeSeries
<1>2. \A name \in {"vwap", "vwma_20", "bb_percent_b_20", "macd_line", "macd_signal", "cci_20"} :
          Whole(Series!calculate_indicators[name])
  BY SeriesOf, WholeSeries
<1>3. \A name \in {"stoch_raw_k", "stoch_k", "stoch_d"} : Whole(Series!calculate_indicators[name])
  <2>1. Whole(Series!stoch_k) /\ Whole(Series!stoch_d)
    BY WholeSeries, Zenon DEF Series!stoch_k, Series!stoch_d
  <2> QED BY <2>1, SeriesOf, WholeSeries
<1>4. \A name \in {"plus_di_14", "cmf_20", "rvol_20", "donchian_upper_20"} : Whole(Series!calculate_indicators[name])
  BY SeriesOf, WholeSeries
<1>5. \A name \in {"roc_12", "momentum_10", "keltner_upper"} : Whole(Series!calculate_indicators[name])
  BY SeriesOf DEF Whole
<1> QED BY <1>1, <1>2, <1>3, <1>4, <1>5, SeriesOf

LEMMA SeriesTyped == Spec => []Series!TypeOK
<1> DEFINE Inv == Len(iBars) <= MaxBars
<1>1. Init => Inv
  BY SeriesAssumption DEF Init, Series!Init
<1>2. [Next]_vars => [Series!Next]_(Series!vars)
  BY DEF Next, vars, iVars, DaysOnly, SelectOnly, OutcomeOnly, TablesOnly, BookOnly, WalkOnly, HistoryOnly,
         SeriesOnly, SyncOnly, LevelsOnly, Series!vars
<1>3. SeriesInv /\ Inv /\ [Series!Next]_(Series!vars) => Inv'
  BY SeriesAssumption DEF SeriesInv, Series!Next, Series!Observe, Series!vars, Series!n
<1>4. SeriesInv /\ Inv => Series!TypeOK
  <2> SUFFICES ASSUME SeriesInv, Inv PROVE Series!TypeOK
    OBVIOUS
  <2>1. Series!n \in 0 .. MaxBars
    BY SeriesAssumption DEF SeriesInv, Series!n
  <2> QED BY <2>1, SeriesDomains DEF Series!TypeOK, Whole
<1> HIDE DEF Inv
<1> QED BY <1>1, <1>2, <1>3, <1>4, ForgetsHeld, PTL DEF Spec

\* What a synchronisation reads and keeps is of the day's minutes.
SyncRest ==
    /\ yNow \in 1 .. LastSyncMinute /\ yFaults \in 0 .. MaxSyncFaults /\ yErrors \subseteq SyncStocks
    /\ yPayload # None => \A s \in SyncStocks : \A c \in yPayload.stocks[s] : c.minute \in 1 .. LastSyncMinute
    /\ \A s \in SyncStocks : yResults[s] # None => yResults[s].asOf \in (1 .. LastSyncMinute) \cup {None}

\* The last of some candles is one of them.
LEMMA LastCandle ==
    ASSUME NEW cs, cs # {}, \A c \in cs : c.minute \in 1 .. LastSyncMinute
    PROVE  Sync!LastOf(cs) \in cs
<1>1. PICK n : n = LastSyncMinute /\ n \in Nat
  BY SyncAssumption
<1>2. ASSUME NEW c \in cs PROVE n - c.minute \in Nat
  BY <1>1
<1> DEFINE S == {n - c.minute : c \in cs}
<1>3. S \in SUBSET Nat /\ S # {}
  BY <1>2
<1>4. PICK p \in S : \A i \in S : p <= i
  <2> HIDE DEF S
  <2> QED BY <1>3, LeastNatural
<1>5. PICK c \in cs : p = n - c.minute
  BY <1>4
<1>6. \A d \in cs : n - c.minute <= n - d.minute
  BY <1>4, <1>5
<1>7. \A d \in cs : c.minute >= d.minute
  <2> SUFFICES ASSUME NEW d \in cs PROVE c.minute >= d.minute
    OBVIOUS
  <2>1. c.minute \in Int /\ d.minute \in Int /\ n - c.minute <= n - d.minute
    BY <1>1, <1>6
  <2> QED BY <1>1, <2>1
<1> QED BY <1>7 DEF Sync!LastOf

LEMMA SyncRestStays == SyncInv /\ SyncRest /\ [Sync!Next]_(Sync!vars) => SyncRest'
<1> SUFFICES ASSUME SyncInv, SyncRest, [Sync!Next]_(Sync!vars) PROVE SyncRest'
  OBVIOUS
<1>1. yNow' \in 1 .. LastSyncMinute
  <2>1. yNow' = yNow \/ (yNow < LastSyncMinute /\ yNow' = yNow + 1)
    BY DEF Sync!Next, Sync!NextMinute, Sync!Health, Sync!Fetch, Sync!FetchFails, Sync!_sync_once, Sync!Trade, Sync!Backfill, Sync!vars
  <2> QED BY <2>1, SyncAssumption DEF SyncRest
<1>2. yFaults' \in 0 .. MaxSyncFaults
  <2>1. yFaults' = yFaults \/ (yFaults < MaxSyncFaults /\ yFaults' = yFaults + 1)
    <3>1. ASSUME NEW s \in SyncStocks, Sync!Trade(s) PROVE yFaults' = yFaults \/ (yFaults < MaxSyncFaults /\ yFaults' = yFaults + 1)
      BY <3>1 DEF Sync!Trade
    <3>2. ASSUME NEW s \in SyncStocks, Sync!Backfill(s) PROVE yFaults < MaxSyncFaults /\ yFaults' = yFaults + 1
      BY <3>2 DEF Sync!Backfill
    <3> QED BY <3>1, <3>2 DEF Sync!Next, Sync!NextMinute, Sync!Health, Sync!Fetch, Sync!FetchFails, Sync!_sync_once, Sync!vars
  <2> QED BY <2>1, SyncAssumption DEF SyncRest
<1>3. CASE Sync!Fetch
  <2>1. yPayload' = [stocks |-> Sync!market_live_json, at |-> yNow] /\ UNCHANGED <<yResults, yErrors>>
    BY <1>3 DEF Sync!Fetch
  <2>2. \A s \in SyncStocks : \A c \in Sync!_stock_payload(s) : c.minute \in 1 .. LastSyncMinute
    BY DEF Sync!_stock_payload
  <2>3. \A s \in SyncStocks : yPayload'.stocks[s] = Sync!_stock_payload(s)
    BY <2>1 DEF Sync!market_live_json
  <2>4. \A s \in SyncStocks : \A c \in yPayload'.stocks[s] : c.minute \in 1 .. LastSyncMinute
    BY <2>2, <2>3
  <2> QED BY <1>1, <1>2, <2>1, <2>4 DEF SyncRest
<1>4. CASE Sync!_sync_once
  <2>1. yPayload # None /\ yPayload' = None
    BY <1>4 DEF Sync!_sync_once
  <2>2. ASSUME NEW s \in SyncStocks, yResults'[s] # None PROVE yResults'[s].asOf \in (1 .. LastSyncMinute) \cup {None}
    <3>1. CASE yResults'[s] = yResults[s]
      BY <2>2, <3>1 DEF SyncRest
    <3>2. CASE yResults'[s] = Sync!compute_stock(yPayload.at, yPayload.stocks[s])
      <4>1. PICK cs, t : cs = yPayload.stocks[s] /\ t = yPayload.at
        OBVIOUS
      <4>2. \A c \in cs : c.minute \in 1 .. LastSyncMinute
        BY <2>1, <4>1 DEF SyncRest
      <4>3. yResults'[s] = Sync!compute_stock(t, cs)
        BY <3>2, <4>1
      <4>4. CASE cs = {}
        BY <4>3, <4>4 DEF Sync!compute_stock
      <4>5. CASE cs # {}
        <5>1. PICK e, f, g : e = Sync!Emitted(t, cs) /\ f = Sync!_freshness(t, Sync!LastOf(cs).minute) /\ g = Sync!LastOf(cs).minute
          OBVIOUS
        <5>2. yResults'[s] = [asOf |-> g, at |-> t, freshness |-> f, from |-> cs, values |-> e]
          BY <4>3, <4>5, <5>1 DEF Sync!compute_stock
        <5>3. g \in 1 .. LastSyncMinute
          BY <4>2, <4>5, <5>1, LastCandle
        <5> QED BY <5>2, <5>3
      <4> QED BY <4>4, <4>5
    <3>3. yResults'[s] = yResults[s] \/ yResults'[s] = Sync!compute_stock(yPayload.at, yPayload.stocks[s])
      <4>1. CASE \E r \in SyncStocks : Sync!Breaks(r)
        BY <1>4, <4>1 DEF Sync!_sync_once
      <4>2. CASE ~ \E r \in SyncStocks : Sync!Breaks(r)
        <5>1. Sync!Unchanged(s) => Sync!Rejudged(s) = yResults[s]
          BY <4>2 DEF Sync!Breaks, Sync!Rejudged
        <5> QED BY <1>4, <4>2, <5>1 DEF Sync!_sync_once
      <4> QED BY <4>1, <4>2
    <3> QED BY <3>1, <3>2, <3>3
  <2>3. yErrors' \subseteq SyncStocks
    <3>1. \/ yErrors' = yErrors
          \/ \E todo \in SUBSET SyncStocks, failed \in SUBSET SyncStocks : yErrors' = (yErrors \ todo) \cup failed
      <4>1. PICK todo : todo = {s \in SyncStocks : ~Sync!Unchanged(s)}
        OBVIOUS
      <4>2. PICK failed : failed = {s \in todo : Sync!Raises(yPayload.stocks[s])}
        OBVIOUS
      <4>3. todo \in SUBSET SyncStocks /\ failed \in SUBSET SyncStocks
        BY <4>1, <4>2
      <4>4. yErrors' = yErrors \/ yErrors' = (yErrors \ todo) \cup failed
        BY <1>4, <4>1, <4>2 DEF Sync!_sync_once
      <4> QED BY <4>3, <4>4
    <3> QED BY <3>1 DEF SyncRest
  <2> QED BY <1>1, <1>2, <2>1, <2>2, <2>3 DEF SyncRest
<1>5. CASE UNCHANGED <<yPayload, yResults, yErrors>>
  BY <1>1, <1>2, <1>5 DEF SyncRest
<1>6. CASE \E s \in SyncStocks : Sync!Trade(s) \/ Sync!Backfill(s)
  BY <1>5, <1>6 DEF Sync!Trade, Sync!Backfill
<1>7. CASE Sync!NextMinute \/ Sync!Health \/ Sync!FetchFails \/ UNCHANGED Sync!vars
  BY <1>5, <1>7 DEF Sync!NextMinute, Sync!Health, Sync!FetchFails, Sync!vars
<1> QED BY <1>3, <1>4, <1>6, <1>7 DEF Sync!Next

LEMMA SyncTyped == Spec => []Sync!TypeOK
<1>1. Init => SyncRest
  BY SyncAssumption DEF Init, Sync!Init, SyncRest
<1>2. [Next]_vars => [Sync!Next]_(Sync!vars)
  BY DEF Next, vars, yVars, DaysOnly, SelectOnly, OutcomeOnly, TablesOnly, BookOnly, WalkOnly, HistoryOnly,
         SeriesOnly, SyncOnly, LevelsOnly, Sync!vars
<1>3. SyncRest => Sync!TypeOK
  BY DEF SyncRest, Sync!TypeOK
<1> QED BY <1>1, <1>2, <1>3, SyncRestStays, ServedHeld, PTL DEF Spec

\* The prices of some minutes that traded have a highest and a lowest one among them.
LEMMA PricesBounded ==
    ASSUME LevelInv, NEW C, C # {}, \A m \in C : m \in DOMAIN lCandle /\ lCandle[m] # None
    PROVE  LET at == {lCandle[m] : m \in C} IN
           /\ at \subseteq Int
           /\ Level!Max(at) \in at /\ \A x \in at : x <= Level!Max(at)
           /\ Level!Min(at) \in at /\ \A x \in at : Level!Min(at) <= x
<1>1. PICK n, f : n = LastMinute /\ f = lCandle
  OBVIOUS
<1>2. n \in Nat /\ C \in SUBSET (0 .. n - 1) /\ \A m \in C : f[m] \in Int
  BY <1>1, LevelsAssumption DEF LevelInv
<1>3. (\E m \in C : \A k \in C : f[m] >= f[k]) /\ (\E m \in C : \A k \in C : f[m] <= f[k])
  BY <1>2, Extremes
<1>4. PICK at : at = {f[m] : m \in C}
  OBVIOUS
<1>5. at \subseteq Int
  BY <1>2, <1>4
<1>6. (\E x \in at : \A y \in at : x >= y) /\ (\E x \in at : \A y \in at : x <= y)
  <2>1. PICK h \in C : \A k \in C : f[h] >= f[k]
    BY <1>3
  <2>2. PICK l \in C : \A k \in C : f[l] <= f[k]
    BY <1>3
  <2>3. f[h] \in at /\ f[l] \in at
    BY <1>4
  <2>4. \A y \in at : f[h] >= y /\ f[l] <= y
    BY <1>4, <2>1, <2>2
  <2> QED BY <2>3, <2>4
<1>7. /\ Level!Max(at) \in at /\ \A x \in at : Level!Max(at) >= x
      /\ Level!Min(at) \in at /\ \A x \in at : Level!Min(at) <= x
  BY <1>6 DEF Level!Max, Level!Min
<1>8. \A x \in at : x <= Level!Max(at)
  BY <1>5, <1>7
<1> QED BY <1>1, <1>4, <1>5, <1>7, <1>8

\* Every bar is the bar of a bucket that has a candle.
LEMMA BarsOfBuckets ==
    ASSUME NEW c
    PROVE  \E S : Level!_bars(c) \in Seq(S) /\ \A x \in S : \E k \in Level!Buckets(c) : x = Level!Bar(c, k)
<1>1. PICK last : last = LastBucket
  OBVIOUS
<1>2. last \in Nat
  BY <1>1, LastBucketType
<1>3. PICK f : f[last] = Level!_bars(c) /\ \A k \in -1 .. last : f[k] = RowOfBars(c, f, k)
  BY <1>1, BarsUpTo
<1>4. PICK S : S = {Level!Bar(c, k) : k \in Level!Buckets(c)}
  OBVIOUS
<1> DEFINE Bad == {j \in 0 .. last + 1 : f[j - 1] \notin Seq(S)}
<1>5. Bad = {}
  <2> SUFFICES ASSUME Bad # {} PROVE FALSE
    OBVIOUS
  <2>1. Bad \in SUBSET Nat
    BY <1>2
  <2>2. PICK j \in Bad : \A i \in Bad : j <= i
    <3> HIDE DEF Bad
    <3> QED BY <2>1, LeastNatural
  <2>3. j \in 0 .. last + 1 /\ j \in Nat /\ f[j - 1] \notin Seq(S)
    BY <1>2, <2>2
  <2>4. j - 1 \in -1 .. last
    BY <1>2, <2>3
  <2>5. PICK k : k = j - 1
    OBVIOUS
  <2>6. k \in -1 .. last /\ k \in Int /\ f[k] = RowOfBars(c, f, k) /\ f[k] \notin Seq(S)
    BY <1>2, <1>3, <2>3, <2>4, <2>5
  <2>7. CASE k < 0
    <3>1. f[k] = <<>>
      BY <2>6, <2>7 DEF RowOfBars
    <3> QED BY <2>6, <3>1
  <2>8. CASE ~(k < 0)
    <3>1. k \in 0 .. last + 1 /\ ~(j <= k)
      BY <1>2, <2>3, <2>5, <2>6, <2>8
    <3>2. k \notin Bad
      <4> HIDE DEF Bad
      <4> QED BY <2>2, <3>1
    <3>3. f[k - 1] \in Seq(S)
      BY <3>1, <3>2
    <3>4. (f[k] = Append(f[k - 1], Level!Bar(c, k)) /\ k \in Level!Buckets(c)) \/ f[k] = f[k - 1]
      BY <2>6, <2>8 DEF RowOfBars
    <3>5. k \in Level!Buckets(c) => Level!Bar(c, k) \in S
      BY <1>4
    <3>6. PICK b : b = Level!Bar(c, k)
      OBVIOUS
    <3>7. b \in S => Append(f[k - 1], b) \in Seq(S)
      BY <3>3
    <3> QED BY <2>6, <3>3, <3>4, <3>5, <3>6, <3>7
  <2> QED BY <2>6, <2>7, <2>8
<1>6. f[last] \in Seq(S)
  <2>1. last + 1 \in 0 .. last + 1 /\ (last + 1) - 1 = last
    BY <1>2
  <2>2. last + 1 \notin Bad
    <3> HIDE DEF Bad
    <3> QED BY <1>5
  <2> QED BY <2>1, <2>2
<1> QED BY <1>3, <1>4, <1>6

\* A swing high is a price of the day.
LEMMA SwingsOfTheDay ==
    ASSUME LevelInv, Level!Held # {}, NEW x \in Level!_ranked_swings(Level!_bars(lCandle), SideBars, Keep).highs
    PROVE  x.price \in Level!Min({lCandle[m] : m \in Level!Held}) .. Level!Max({lCandle[m] : m \in Level!Held})
<1>1. PICK bs, S : bs = Level!_bars(lCandle) /\ bs \in Seq(S) /\ \A y \in S : \E k \in Level!Buckets(lCandle) : y = Level!Bar(lCandle, k)
  BY BarsOfBuckets
<1>2. PICK i \in DOMAIN bs : x.price = bs[i].high
  <2>1. PICK tops, price : tops = Level!_swings(bs, SideBars).tops /\ price = [j \in DOMAIN bs |-> bs[j].high]
    OBVIOUS
  <2>2. x \in Level!Ranked(tops, price, Keep)
    <3>1. x \in Level!_ranked_swings(bs, SideBars, Keep).highs
      BY <1>1
    <3> QED BY <2>1, <3>1 DEF Level!_ranked_swings
  <2>3. x \in Level!_cluster(tops, price)
    BY <2>2 DEF Level!Ranked
  <2>4. PICK i \in tops : x.price = price[i]
    <3>1. \E p \in {price[j] : j \in tops} : x = [price |-> p, last |-> Level!Max({j \in tops : price[j] = p})]
      BY <2>3 DEF Level!_cluster
    <3>2. PICK p, t : p \in {price[j] : j \in tops} /\ x = [price |-> p, last |-> t]
      BY <3>1
    <3>3. x.price = p
      BY <3>2
    <3> QED BY <3>2, <3>3
  <2>5. tops \subseteq SideBars + 1 .. Len(bs) - SideBars
    BY <2>1 DEF Level!_swings
  <2>6. i \in DOMAIN bs
    <3>1. Len(bs) \in Nat /\ SideBars \in Nat /\ DOMAIN bs = 1 .. Len(bs)
      BY <1>1, LevelsAssumption
    <3>2. i \in SideBars + 1 .. Len(bs) - SideBars
      BY <2>5
    <3> QED BY <3>1, <3>2
  <2> QED BY <2>1, <2>4, <2>6
<1>3. bs[i] \in S
  BY <1>1
<1>4. PICK k \in Level!Buckets(lCandle) : bs[i] = Level!Bar(lCandle, k)
  BY <1>1, <1>3
<1>5. PICK C : C = {h \in DOMAIN lCandle : lCandle[h] # None /\ h \div BarMinutes = k}
  OBVIOUS
<1>6. C # {} /\ C \subseteq Level!Held /\ \A m \in C : m \in DOMAIN lCandle /\ lCandle[m] # None
  BY <1>5 DEF Level!Buckets, Level!Held
<1>7. PICK at : at = {lCandle[m] : m \in C}
  OBVIOUS
<1>8. bs[i].high = Level!Max(at)
  BY <1>4, <1>5, <1>7 DEF Level!Bar
<1>9. at \subseteq Int /\ Level!Max(at) \in at
  BY <1>6, <1>7, PricesBounded
<1>10. PICK all : all = {lCandle[m] : m \in Level!Held}
  OBVIOUS
<1>11. Level!Max(at) \in all
  BY <1>6, <1>7, <1>9, <1>10
<1>12. /\ all \subseteq Int /\ \A y \in all : y <= Level!Max(all) /\ Level!Min(all) <= y
       /\ Level!Max(all) \in all /\ Level!Min(all) \in all
  <2>1. \A m \in Level!Held : m \in DOMAIN lCandle /\ lCandle[m] # None
    BY DEF Level!Held
  <2> QED BY <1>10, <2>1, PricesBounded
<1>13. PICK high, low, top : high = Level!Max(all) /\ low = Level!Min(all) /\ top = Level!Max(at)
  OBVIOUS
<1>14. top \in low .. high
  <2>1. top \in Int /\ low \in Int /\ high \in Int /\ low <= top /\ top <= high
    BY <1>11, <1>12, <1>13
  <2> QED BY <2>1
<1> QED BY <1>2, <1>8, <1>10, <1>13, <1>14

LevelRest ==
    lTodo \subseteq Symbols /\ lWorker \in {"pass", "wait", "done"} /\ lFailures \in 0 .. MaxDailyFailures

LEMMA LevelTyped == Spec => []Level!TypeOK
<1>1. Init => LevelRest
  BY LevelsAssumption DEF Init, Level!Init, LevelRest
<1>2. [Next]_vars => [Level!Next]_(Level!vars)
  BY DEF Next, vars, lVars, DaysOnly, SelectOnly, OutcomeOnly, TablesOnly, BookOnly, WalkOnly, HistoryOnly,
         SeriesOnly, SyncOnly, LevelsOnly, Level!vars
<1>3. LevelRest /\ [Level!Next]_(Level!vars) => LevelRest'
  <2> SUFFICES ASSUME LevelRest, [Level!Next]_(Level!vars) PROVE LevelRest'
    OBVIOUS
  <2>1. CASE \E s \in Symbols : Level!Fetch(s)
    <3>1. PICK s \in Symbols : /\ lTodo' = lTodo \ {s} /\ lWorker' = lWorker
                               /\ lFailures' = lFailures \/ (lFailures < MaxDailyFailures /\ lFailures' = lFailures + 1)
      BY <2>1 DEF Level!Fetch
    <3> QED BY <3>1, LevelsAssumption DEF LevelRest
  <2>2. CASE Level!NextMinute \/ Level!PassEnds \/ Level!Retry \/ UNCHANGED Level!vars
    BY <2>2 DEF LevelRest, Level!NextMinute, Level!PassEnds, Level!Retry, Level!vars
  <2> QED BY <2>1, <2>2 DEF Level!Next
<1>4. LevelInv /\ LevelRest => Level!TypeOK
  <2> SUFFICES ASSUME LevelInv, LevelRest PROVE Level!TypeOK
    OBVIOUS
  <2>1. ASSUME Level!Held # {}, NEW x \in Level!intraday_levels(None).swings.highs
        PROVE  x.price \in Level!intraday_levels(None).day.low .. Level!intraday_levels(None).day.high
    <3>1. PICK all, w, o, g : /\ all = {lCandle[m] : m \in Level!Held}
                              /\ w = [high |-> Level!Max(all), low |-> Level!Min(all)]
                              /\ o = Level!OpeningRange(lCandle)
                              /\ g = Level!_ranked_swings(Level!_bars(lCandle), SideBars, Keep)
      OBVIOUS
    <3>2. PICK v : v = Level!intraday_levels(None)
      OBVIOUS
    <3>3. v = [day |-> [high |-> Level!Max(all), low |-> Level!Min(all), open |-> lCandle[0]], week |-> w, opening |-> o, swings |-> g]
      BY <3>1, <3>2 DEF Level!intraday_levels
    <3>4. v.swings = g /\ v.day.low = Level!Min(all) /\ v.day.high = Level!Max(all)
      BY <3>3
    <3>5. x \in g.highs
      BY <2>1, <3>2, <3>4
    <3>6. x.price \in Level!Min(all) .. Level!Max(all)
      BY <2>1, <3>1, <3>5, SwingsOfTheDay
    <3> QED BY <3>2, <3>4, <3>6
  <2> QED BY <2>1 DEF Level!TypeOK, LevelInv, LevelRest
<1> QED BY <1>1, <1>2, <1>3, <1>4, LevelHeld, PTL DEF Spec

\* Every part's state has its type, for any numbers of days, stocks, packets, bars and minutes,
\* and a swing high is a price of the day (TypeOK of the modules).
THEOREM AnalyticsTyped == Spec => []TypesOK
<1>1. Day!TypeOK /\ Pick!TypeOK /\ Result!TypeOK /\ Table!TypeOK /\ Book!TypeOK /\ Walk!TypeOK /\ History!TypeOK
      /\ Series!TypeOK /\ Sync!TypeOK /\ Level!TypeOK => TypesOK
  BY DEF TypesOK
<1> QED BY <1>1, DaysTyped, SelectTyped, OutcomeTyped, TablesTyped, BookTyped, WalkTyped, HistoryTyped, SeriesTyped,
           SyncTyped, LevelTyped, PTL
=============================================================================
