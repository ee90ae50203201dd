-------------------------- MODULE NodeStateProofs --------------------------
(***************************************************************************)
(* Proofs about NodeState for any number of stocks, feeds, bars and any    *)
(* length of a minute, a day and a session.                                *)
(***************************************************************************)
EXTENDS NodeState, WellFoundedInduction, TLAPS

-----------------------------------------------------------------------------
(* What put_completed does to the candles of a stock, for sequences of any *)
(* length.                                                                 *)

\* A non-empty set of naturals has a least element.
LEMMA LeastElement ==
    ASSUME NEW S \in SUBSET Nat, S # {}
    PROVE  \E p \in S : \A i \in S : p <= i
<1> DEFINE R == OpToRel(<, Nat)
<1>1. IsWellFoundedOn(R, Nat)
  BY NatLessThanWellFounded
<1>2. PICK p \in S : \A i \in S : ~(<<i, p>> \in R)
  <2> HIDE DEF R
  <2> QED BY <1>1, WFMin
<1>3. ASSUME NEW i \in S PROVE p <= i
  <2>1. ~(i < p)
    BY <1>2 DEF OpToRel
  <2> QED BY <2>1
<1> QED BY <1>3

\* bisect_left finds a position in every sorted epochs column.
LEMMA BisectLeftExists ==
    ASSUME NEW rs \in Seq(Row), NEW e \in Nat
    PROVE  IsBisectLeft(rs, e, BisectLeft(rs, e))
<1> DEFINE S == {i \in 1 .. Len(rs) + 1 : i <= Len(rs) => rs[i].epoch >= e}
<1>0. Len(rs) \in Nat
  OBVIOUS
<1>1. S \subseteq Nat /\ S # {}
  <2>1. Len(rs) + 1 \in S
    BY <1>0
  <2> QED BY <2>1, <1>0
<1>2. PICK p \in S : \A i \in S : p <= i
  BY <1>1, LeastElement
<1>3. IsBisectLeft(rs, e, p)
  <2>1. p \in 1 .. Len(rs) + 1
    BY <1>2
  <2>2. ASSUME NEW i \in 1 .. p - 1 PROVE rs[i].epoch < e
    <3>1. i \notin S /\ i \in 1 .. Len(rs)
      BY <1>2, <2>1, <1>0
    <3>2. rs[i] \in Row
      BY <3>1
    <3>3. rs[i].epoch \in Nat
      BY <3>2 DEF Row
    <3> QED BY <3>1, <3>3
  <2> QED BY <2>1, <2>2, <1>2 DEF IsBisectLeft
<1> QED BY <1>3 DEF BisectLeft, IsBisectLeft

\* put_completed keeps the columns well formed.
LEMMA PutCompletedType ==
    ASSUME NEW rs \in Seq(Row), NEW row \in Row
    PROVE  PutCompleted(rs, row) \in Seq(Row)
<1> DEFINE p == BisectLeft(rs, row.epoch)
<1>1. row.epoch \in Nat
  BY DEF Row
<1>2. p \in 1 .. Len(rs) + 1
  BY <1>1, BisectLeftExists DEF IsBisectLeft
<1>3. Append(rs, row) \in Seq(Row)
  OBVIOUS
<1>4. ASSUME p <= Len(rs) PROVE [rs EXCEPT ![p] = row] \in Seq(Row)
  BY <1>2, <1>4
<1>5. InsertRow(rs, p, row) \in Seq(Row)
  <2> HIDE DEF p
  <2> DEFINE f == [i \in 1 .. Len(rs) + 1 |-> IF i < p THEN rs[i]
                                              ELSE IF i = p THEN row ELSE rs[i - 1]]
  <2>1. ASSUME NEW i \in 1 .. Len(rs) + 1 PROVE f[i] \in Row
    BY <1>2
  <2>2. f \in [1 .. Len(rs) + 1 -> Row]
    BY <2>1
  <2>3. f \in Seq(Row)
    <3> HIDE DEF f
    <3> QED BY <2>2
  <2> QED BY <2>3 DEF InsertRow
<1> QED BY <1>3, <1>4, <1>5 DEF PutCompleted

\* Where everything is after put_completed: every candle is the new one or an old one, and
\* every old candle is still there unless the new one is for its minute and may replace it.
LEMMA PutCompletedContents ==
    ASSUME NEW rs \in Seq(Row), NEW row \in Row
    PROVE  LET new == PutCompleted(rs, row) IN
           /\ \A i \in DOMAIN new : new[i] = row \/ \E j \in DOMAIN rs : new[i] = rs[j]
           /\ \A j \in DOMAIN rs : \E i \in DOMAIN new :
                 \/ new[i] = rs[j]
                 \/ /\ new[i] = row /\ row.epoch = rs[j].epoch
                    /\ row.source = SOURCE_HISTORICAL \/ rs[j].source # SOURCE_HISTORICAL
<1> DEFINE new == PutCompleted(rs, row)
           p == BisectLeft(rs, row.epoch)
           Old(i) == new[i] = row \/ \E j \in DOMAIN rs : new[i] = rs[j]
           Kept(j) == \E i \in DOMAIN new :
                         \/ new[i] = rs[j]
                         \/ /\ new[i] = row /\ row.epoch = rs[j].epoch
                            /\ row.source = SOURCE_HISTORICAL \/ rs[j].source # SOURCE_HISTORICAL
<1>0. Len(rs) \in Nat /\ DOMAIN rs = 1 .. Len(rs)
  OBVIOUS
<1>1. p \in 1 .. Len(rs) + 1
  <2>1. row.epoch \in Nat
    BY DEF Row
  <2> QED BY <2>1, BisectLeftExists DEF IsBisectLeft
<1> HIDE DEF p
<1>2. CASE IsAppend(rs, row)
  <2>1. new = Append(rs, row)
    BY <1>2 DEF PutCompleted
  <2> HIDE DEF new
  <2>2. /\ DOMAIN new = 1 .. Len(rs) + 1
        /\ \A j \in 1 .. Len(rs) : new[j] = rs[j]
        /\ new[Len(rs) + 1] = row
    BY <2>1, <1>0
  <2>3. \A i \in DOMAIN new : Old(i)
    BY <2>2, <1>0
  <2>4. \A j \in DOMAIN rs : Kept(j)
    BY <2>2, <1>0
  <2> QED BY <2>3, <2>4 DEF new
<1>3. CASE ~IsAppend(rs, row) /\ Refused(rs, row)
  BY <1>3 DEF PutCompleted
<1>4. CASE ~IsAppend(rs, row) /\ ~Refused(rs, row) /\ p <= Len(rs) /\ rs[p].epoch = row.epoch
  <2>1. new = [rs EXCEPT ![p] = row]
    BY <1>4 DEF PutCompleted, p
  <2>2. row.source = SOURCE_HISTORICAL \/ rs[p].source # SOURCE_HISTORICAL
    BY <1>4 DEF Refused, p
  <2> HIDE DEF new
  <2>3. /\ DOMAIN new = 1 .. Len(rs)
        /\ \A j \in 1 .. Len(rs) : j # p => new[j] = rs[j]
        /\ new[p] = row
    BY <2>1, <1>0, <1>1, <1>4
  <2>4. \A i \in DOMAIN new : Old(i)
    BY <2>3, <1>0
  <2>5. \A j \in DOMAIN rs : Kept(j)
    BY <2>2, <2>3, <1>0, <1>1, <1>4
  <2> QED BY <2>4, <2>5 DEF new
<1>5. CASE ~IsAppend(rs, row) /\ ~Refused(rs, row) /\ ~(p <= Len(rs) /\ rs[p].epoch = row.epoch)
  <2>1. new = InsertRow(rs, p, row)
    BY <1>5 DEF PutCompleted, p
  <2> HIDE DEF new
  <2>2. /\ DOMAIN new = 1 .. Len(rs) + 1
        /\ \A i \in 1 .. Len(rs) + 1 : new[i] = IF i < p THEN rs[i] ELSE IF i = p THEN row ELSE rs[i - 1]
    BY <2>1 DEF InsertRow
  <2>3. ASSUME NEW i \in DOMAIN new PROVE Old(i)
    <3>1. CASE i < p
      BY <3>1, <2>2, <1>0, <1>1
    <3>2. CASE i = p
      BY <3>2, <2>2
    <3>3. CASE i > p
      <4>1. new[i] = rs[i - 1] /\ i - 1 \in DOMAIN rs
        BY <3>3, <2>2, <1>0, <1>1
      <4> QED BY <4>1
    <3> QED BY <3>1, <3>2, <3>3, <2>2, <1>1, <1>0
  <2>4. ASSUME NEW j \in DOMAIN rs PROVE Kept(j)
    <3>1. CASE j < p
      <4>1. new[j] = rs[j] /\ j \in DOMAIN new
        BY <3>1, <2>2, <1>0, <1>1
      <4> QED BY <4>1
    <3>2. CASE j >= p
      <4>1. new[j + 1] = rs[j] /\ j + 1 \in DOMAIN new
        BY <3>2, <2>2, <1>0, <1>1
      <4> QED BY <4>1
    <3> QED BY <3>1, <3>2, <1>0, <1>1
  <2> QED BY <2>3, <2>4 DEF new
<1> QED BY <1>2, <1>3, <1>4, <1>5

\* put_completed keeps the candles sorted, one per minute.
LEMMA PutCompletedSorted ==
    ASSUME NEW rs \in Seq(Row), NEW row \in Row, Sorted(rs)
    PROVE  Sorted(PutCompleted(rs, row))
<1> DEFINE new == PutCompleted(rs, row)
           p == BisectLeft(rs, row.epoch)
<1>0. Len(rs) \in Nat /\ row.epoch \in Nat /\ \A i \in 1 .. Len(rs) : rs[i].epoch \in Nat
  <2>1. \A i \in 1 .. Len(rs) : rs[i] \in Row
    OBVIOUS
  <2>2. \A r \in Row : r.epoch \in Nat
    BY DEF Row
  <2> QED BY <2>1, <2>2
<1>1. IsBisectLeft(rs, row.epoch, p)
  BY <1>0, BisectLeftExists
<1>2. p \in 1 .. Len(rs) + 1
  BY <1>1 DEF IsBisectLeft
<1> HIDE DEF p
<1>3. CASE IsAppend(rs, row)
  <2>1. new = Append(rs, row)
    BY <1>3 DEF PutCompleted
  <2> HIDE DEF new
  <2>2. /\ Len(new) = Len(rs) + 1
        /\ \A j \in 1 .. Len(rs) : new[j] = rs[j]
        /\ new[Len(rs) + 1] = row
    BY <2>1
  <2>3. \A i \in 1 .. Len(rs) : rs[i].epoch < row.epoch
    BY <1>0, <1>3 DEF IsAppend, Sorted
  <2>4. ASSUME NEW i \in 1 .. Len(new), NEW j \in 1 .. Len(new), i < j
        PROVE  new[i].epoch < new[j].epoch
    <3>1. i \in 1 .. Len(rs) /\ new[i] = rs[i]
      BY <2>2, <2>4, <1>0
    <3>2. CASE j = Len(rs) + 1
      BY <3>1, <3>2, <2>2, <2>3
    <3>3. CASE j \in 1 .. Len(rs)
      BY <3>1, <3>3, <2>2, <2>4 DEF Sorted
    <3> QED BY <3>2, <3>3, <2>2, <1>0
  <2> QED BY <2>4 DEF new, Sorted
<1>4. CASE ~IsAppend(rs, row) /\ Refused(rs, row)
  BY <1>4 DEF PutCompleted
<1>5. CASE ~IsAppend(rs, row) /\ ~Refused(rs, row) /\ p <= Len(rs) /\ rs[p].epoch = row.epoch
  <2>1. new = [rs EXCEPT ![p] = row]
    BY <1>5 DEF PutCompleted, p
  <2> HIDE DEF new
  <2>2. Len(new) = Len(rs) /\ \A j \in 1 .. Len(rs) : new[j].epoch = rs[j].epoch
    BY <2>1, <1>2, <1>5
  <2>3. Sorted(new)
    BY <2>2, <1>0 DEF Sorted
  <2> QED BY <2>3 DEF new
<1>6. CASE ~IsAppend(rs, row) /\ ~Refused(rs, row) /\ ~(p <= Len(rs) /\ rs[p].epoch = row.epoch)
  <2>1. new = InsertRow(rs, p, row)
    BY <1>6 DEF PutCompleted, p
  <2> HIDE DEF new
  <2>2. /\ Len(new) = Len(rs) + 1
        /\ \A i \in 1 .. Len(rs) + 1 : new[i] = IF i < p THEN rs[i] ELSE IF i = p THEN row ELSE rs[i - 1]
    BY <2>1, <1>0 DEF InsertRow
  <2>3. \A i \in 1 .. p - 1 : rs[i].epoch < row.epoch
    BY <1>1 DEF IsBisectLeft
  <2>4. \A i \in p .. Len(rs) : row.epoch < rs[i].epoch
    BY <1>0, <1>1, <1>2, <1>6 DEF IsBisectLeft, Sorted
  <2>5. ASSUME NEW i \in 1 .. Len(new), NEW j \in 1 .. Len(new), i < j
        PROVE  new[i].epoch < new[j].epoch
    <3>1. CASE j < p
      BY <3>1, <2>2, <2>5, <1>0, <1>2 DEF Sorted
    <3>2. CASE j = p
      BY <3>2, <2>2, <2>3, <2>5, <1>0, <1>2
    <3>3. CASE j > p /\ i < p
      <4>2. new[i] = rs[i] /\ i \in 1 .. p - 1 /\ new[j] = rs[j - 1] /\ j - 1 \in p .. Len(rs)
        BY <3>3, <2>2, <1>0, <1>2
      <4>3. rs[i].epoch < row.epoch /\ row.epoch < rs[j - 1].epoch
        BY <4>2, <2>3, <2>4
      <4>4. rs[i].epoch \in Nat /\ rs[j - 1].epoch \in Nat
        BY <4>2, <1>0, <1>2
      <4> QED BY <4>2, <4>3, <4>4, <1>0
    <3>4. CASE j > p /\ i = p
      <4>1. new[i] = row /\ new[j] = rs[j - 1] /\ j - 1 \in p .. Len(rs)
        BY <3>4, <2>2, <1>0, <1>2
      <4> QED BY <4>1, <2>4
    <3>5. CASE j > p /\ i > p
      <4>1. new[i] = rs[i - 1] /\ new[j] = rs[j - 1] /\ i - 1 \in 1 .. Len(rs)
            /\ j - 1 \in 1 .. Len(rs) /\ i - 1 < j - 1
        BY <3>5, <2>2, <2>5, <1>0, <1>2
      <4> QED BY <4>1 DEF Sorted
    <3> QED BY <3>1, <3>2, <3>3, <3>4, <3>5, <2>2, <1>0, <1>2
  <2>6. Sorted(new)
    BY <2>5 DEF Sorted
  <2> QED BY <2>6 DEF new
<1> QED BY <1>3, <1>4, <1>5, <1>6

-----------------------------------------------------------------------------
(* The node's invariant.                                                   *)

\* The start of a time's minute is a time, at most a minute earlier.
LEMMA MinuteOfType == \A t \in Nat : MinuteOf(t) \in Nat /\ MinuteOf(t) <= t
BY TimeAssumption DEF MinuteOf

\* Once a stock has a volume baseline, the history variable that explains it is set.
BaselineKnown == \A s \in Stocks : prevVol[s] # None => baseline[s] # None

\* What the invariant says of the stocks' series.
SeriesInv == SeriesType /\ BaselineKnown /\ EpochsSorted /\ WebSocketBehindForming

\* The inductive invariant: WebSocketBehindForming is what makes the candle a rollover
\* publishes new, EpochsSorted what makes bisect_left find its place.
IInv == SeriesInv /\ ThreadsType

\* A forming candle becomes a well-formed row.
LEMMA CompletedType ==
    ASSUME NEW b \in Forming, NEW src \in Source
    PROVE  Completed(b, src) \in Row /\ Completed(b, src).epoch = b.epoch
           /\ Completed(b, src).source = src
BY DEF Completed, Forming, Row

\* The initial state satisfies the invariant.
LEMMA InitIInv == Init => IInv
<1> SUFFICES ASSUME Init PROVE IInv
  OBVIOUS
<1>1. SeriesType
  BY DEF Init, SeriesType
<1>2. ThreadsType
  <2>1. Idle \in FeedWork
    BY DEF Idle, FeedWork
  <2> QED BY <2>1 DEF Init, ThreadsType, Runtimes, Statuses
<1>3. BaselineKnown /\ EpochsSorted /\ WebSocketBehindForming
  BY DEF Init, BaselineKnown, EpochsSorted, WebSocketBehindForming, Sorted
<1> QED BY <1>1, <1>2, <1>3 DEF IInv, SeriesInv

\* A new session's series satisfy the invariant.
LEMMA NewSeriesInv == NewSeries => SeriesInv'
<1> SUFFICES ASSUME NewSeries PROVE SeriesInv'
  OBVIOUS
<1>1. SeriesType'
  BY DEF NewSeries, SeriesType
<1>2. BaselineKnown' /\ EpochsSorted' /\ WebSocketBehindForming'
  BY DEF NewSeries, BaselineKnown, EpochsSorted, WebSocketBehindForming, Sorted
<1> QED BY <1>1, <1>2 DEF SeriesInv

\* Publishing the forming candle of one stock keeps its rows sorted and of their type, and
\* adds no WebSocket-built candle other than the published one.
LEMMA RolloverRows ==
    ASSUME SeriesInv, NEW s \in Stocks, current[s] # None
    PROVE  LET new == PutCompleted(rows[s], Completed(current[s], SOURCE_WEBSOCKET)) IN
           /\ new \in Seq(Row) /\ Sorted(new)
           /\ \A i \in DOMAIN new :
                 new[i].source = SOURCE_WEBSOCKET => new[i].epoch <= current[s].epoch
<1> DEFINE row == Completed(current[s], SOURCE_WEBSOCKET)
           new == PutCompleted(rows[s], row)
<1>1. rows[s] \in Seq(Row) /\ current[s] \in Forming /\ Sorted(rows[s])
  BY DEF SeriesInv, SeriesType, EpochsSorted
<1>2. row \in Row /\ row.epoch = current[s].epoch
  BY <1>1, CompletedType DEF Source
<1> HIDE DEF row
<1>3. new \in Seq(Row) /\ Sorted(new)
  BY <1>1, <1>2, PutCompletedType, PutCompletedSorted
<1>4. ASSUME NEW i \in DOMAIN new, new[i].source = SOURCE_WEBSOCKET
      PROVE  new[i].epoch <= current[s].epoch
  <2>0. current[s].epoch \in Nat
    BY <1>1 DEF Forming
  <2>1. new[i] = row \/ \E j \in DOMAIN rows[s] : new[i] = rows[s][j]
    BY <1>1, <1>2, PutCompletedContents
  <2>2. CASE new[i] = row
    BY <2>0, <2>2, <1>2
  <2>3. ASSUME NEW j \in DOMAIN rows[s], new[i] = rows[s][j] PROVE new[i].epoch <= current[s].epoch
    <3>1. rows[s][j] \in Row
      BY <1>1
    <3>2. rows[s][j].epoch < current[s].epoch /\ rows[s][j].epoch \in Nat
      BY <1>4, <2>3, <3>1 DEF SeriesInv, WebSocketBehindForming, Row
    <3> QED BY <2>0, <2>3, <3>2
  <2> QED BY <2>1, <2>2, <2>3
<1> QED BY <1>3, <1>4 DEF row

\* finalize_due keeps the invariant of the series.
LEMMA FinalizeSeriesInv == SeriesInv /\ FinalizeDue => SeriesInv'
<1> SUFFICES ASSUME SeriesInv, FinalizeDue PROVE SeriesInv'
  OBVIOUS
<1> DEFINE New(s) == PutCompleted(rows[s], Completed(current[s], SOURCE_WEBSOCKET))
<1>1. rows' = [s \in Stocks |-> IF IsDue(s) THEN New(s) ELSE rows[s]]
  BY DEF FinalizeDue, CompleteCurrent
<1>2. current' = [s \in Stocks |-> IF IsDue(s) THEN None ELSE current[s]]
  BY DEF FinalizeDue
<1>3. ASSUME NEW s \in Stocks, IsDue(s) PROVE New(s) \in Seq(Row) /\ Sorted(New(s))
  BY <1>3, RolloverRows DEF IsDue
<1> HIDE DEF New
<1>4. SeriesType'
  <2>1. rows' \in [Stocks -> Seq(Row)]
    BY <1>1, <1>3 DEF SeriesInv, SeriesType
  <2>2. current' \in [Stocks -> Forming \cup {None}]
    BY <1>2 DEF SeriesInv, SeriesType
  <2> QED BY <2>1, <2>2 DEF SeriesInv, SeriesType, FinalizeDue
<1>5. EpochsSorted'
  BY <1>1, <1>3 DEF SeriesInv, EpochsSorted
<1>6. WebSocketBehindForming'
  BY <1>1, <1>2 DEF SeriesInv, WebSocketBehindForming
<1>7. BaselineKnown'
  BY DEF SeriesInv, BaselineKnown, FinalizeDue
<1> QED BY <1>4, <1>5, <1>6, <1>7 DEF SeriesInv

\* A packet that is no trade keeps the invariant of the series.
LEMMA NotATradeSeriesInv ==
    ASSUME SeriesInv, NEW s \in Stocks, NEW q \in Quote, NEW st, NotATrade(s, q, st),
           NEW ev \in BOOLEAN, evidence' = [evidence EXCEPT ![s] = @ \/ ev],
           UNCHANGED <<lastRecv, refs>>
    PROVE  SeriesInv'
<1>1. q.volume \in Nat
  BY DataAssumption DEF Quote
<1>2. prevVol' \in [Stocks -> Nat \cup {None}]
  BY <1>1 DEF NotATrade, SeriesInv, SeriesType
<1>3. baseline' \in [Stocks -> Int \cup {None}] /\ BaselineKnown'
  <2>1. CASE UNCHANGED <<prevVol, baseline>>
    BY <2>1 DEF SeriesInv, SeriesType, BaselineKnown
  <2>2. CASE Verdict(s, q, st) \in Rebaselining
    <3> DEFINE b == IF prevVol[s] = None THEN q.volume
                    ELSE IF Verdict(s, q, st) = "repeated" THEN baseline[s]
                    ELSE baseline[s] + q.volume - prevVol[s]
    <3>1. baseline' = [baseline EXCEPT ![s] = b]
      BY <2>2 DEF NotATrade
    <3>2. b \in Int
      <4>1. CASE prevVol[s] = None
        BY <4>1, <1>1
      <4>2. CASE prevVol[s] # None
        <5>1. baseline[s] \in Int /\ prevVol[s] \in Nat
          BY <4>2 DEF SeriesInv, SeriesType, BaselineKnown
        <5> QED BY <5>1, <4>2, <1>1
      <4> QED BY <4>1, <4>2
    <3> HIDE DEF b
    <3>3. None \notin Int
      BY NoneAssumption
    <3>4. baseline' \in [Stocks -> Int \cup {None}]
      BY <3>1, <3>2 DEF SeriesInv, SeriesType
    <3>5. \A x \in Stocks : prevVol'[x] # None => baseline'[x] # None
      BY <3>1, <3>2, <3>3, <2>2 DEF NotATrade, SeriesInv, SeriesType, BaselineKnown
    <3> QED BY <3>4, <3>5 DEF BaselineKnown
  <2> QED BY <2>1, <2>2 DEF NotATrade
<1>4. evidence' \in [Stocks -> BOOLEAN]
  BY DEF SeriesInv, SeriesType
<1>5. SeriesType'
  BY <1>2, <1>3, <1>4 DEF NotATrade, SeriesInv, SeriesType
<1>6. EpochsSorted' /\ WebSocketBehindForming'
  BY DEF NotATrade, SeriesInv, EpochsSorted, WebSocketBehindForming
<1> QED BY <1>3, <1>5, <1>6 DEF SeriesInv

\* A trade keeps the invariant of the series: it is not late, so its minute is after every
\* WebSocket-built candle, and its day volume has not fallen, so its delta is a volume.
LEMMA TradeSeriesInv ==
    ASSUME SeriesInv, NEW s \in Stocks, NEW q \in Quote, NEW st,
           Verdict(s, q, st) = "trade", Trade(s, q, st),
           NEW ev \in BOOLEAN, evidence' = [evidence EXCEPT ![s] = @ \/ ev],
           UNCHANGED <<lastRecv, refs>>
    PROVE  SeriesInv'
<1> DEFINE min == MinuteOf(q.ltt)
           done == Completed(current[s], SOURCE_WEBSOCKET)
<1>1. Valid(q) /\ ~LateMinute(s, q) /\ ~VolumeRegressed(s, q)
  BY DEF Verdict
<1>2. q.volume \in Nat /\ q.ltt \in Nat /\ q.ltp \in Nat /\ min \in Nat
  <2>1. q.volume \in 0 .. MaxVol + 1 /\ q.ltt \in 0 .. MaxClock + FutureTol
    BY DEF Quote
  <2>2. q.ltp \in Prices
    BY <1>1 DEF Valid
  <2>3. q.volume \in Nat
    BY <2>1, DataAssumption
  <2>4. q.ltt \in Nat
    BY <2>1, TimeAssumption
  <2>5. q.ltp \in Nat
    BY <2>2, DataAssumption
  <2> QED BY <2>3, <2>4, <2>5, MinuteOfType
<1>3. rows[s] \in Seq(Row) /\ Sorted(rows[s]) /\ current[s] \in Forming \cup {None}
      /\ prevVol[s] \in Nat \cup {None}
  BY DEF SeriesInv, SeriesType, EpochsSorted
<1>4. DeltaVolume(s, q) \in Nat
  BY <1>1, <1>2, <1>3 DEF DeltaVolume, VolumeRegressed
<1> HIDE DEF min
<1>5. /\ rows'[s] \in Seq(Row) /\ Sorted(rows'[s]) /\ rows' \in [Stocks -> Seq(Row)]
      /\ \A x \in Stocks : x # s => rows'[x] = rows[x]
  <2>1. CASE RollsOver(s, q)
    <3>1. rows' = [rows EXCEPT ![s] = PutCompleted(@, done)]
      BY <2>1 DEF Trade
    <3>2. PutCompleted(rows[s], done) \in Seq(Row) /\ Sorted(PutCompleted(rows[s], done))
      BY <2>1, RolloverRows DEF RollsOver
    <3> QED BY <3>1, <3>2 DEF SeriesInv, SeriesType
  <2>2. CASE ~RollsOver(s, q)
    BY <2>2, <1>3 DEF Trade, SeriesInv, SeriesType
  <2> QED BY <2>1, <2>2
<1>6. Folded(s, q) \in Forming
  <2>1. CASE current[s] = None \/ RollsOver(s, q)
    BY <2>1, <1>2, <1>4 DEF Folded, Forming, min
  <2>2. CASE ~(current[s] = None \/ RollsOver(s, q))
    <3>1. current[s] \in Forming
      BY <2>2, <1>3
    <3>2. MaxOf(current[s].high, q.ltp) \in Nat /\ MinOf(current[s].low, q.ltp) \in Nat
          /\ current[s].volume + DeltaVolume(s, q) \in Nat
      BY <3>1, <1>2, <1>4 DEF Forming, MaxOf, MinOf
    <3> QED BY <3>1, <3>2, <2>2, <1>2 DEF Folded, Forming
  <2> QED BY <2>1, <2>2
<1>7. current'[s] \in Forming \cup {None} /\ current' \in [Stocks -> Forming \cup {None}]
      /\ \A x \in Stocks : x # s => current'[x] = current[x]
  BY <1>3, <1>6 DEF Trade, SeriesInv, SeriesType
<1>8. ASSUME current'[s] # None, NEW i \in DOMAIN rows'[s],
             rows'[s][i].source = SOURCE_WEBSOCKET
      PROVE  rows'[s][i].epoch < current'[s].epoch
  <2>0. rows'[s][i] \in Row /\ rows'[s][i].epoch \in Nat
    <3>1. rows'[s][i] \in Row
      BY <1>5
    <3> QED BY <3>1 DEF Row
  <2>1. CASE RollsOver(s, q)
    <3>1. current'[s].epoch = min
      BY <2>1, <1>8, <1>3 DEF Trade, Folded, SeriesInv, SeriesType, min
    <3>2. rows'[s] = PutCompleted(rows[s], done)
      BY <2>1 DEF Trade, SeriesInv, SeriesType
    <3>3. rows'[s][i].epoch <= current[s].epoch
      BY <3>2, <2>1, <1>8, RolloverRows DEF RollsOver
    <3>4. current[s].epoch \in Nat /\ current[s].epoch < min
      BY <2>1, <1>3 DEF RollsOver, Forming, min
    <3> QED BY <3>1, <3>3, <3>4, <2>0, <1>2
  <2>2. CASE ~RollsOver(s, q) /\ current[s] # None
    <3>1. rows' = rows /\ current'[s].epoch = current[s].epoch
      <4>1. rows' = rows /\ (current'[s] = Folded(s, q) \/ current'[s] = current[s])
        BY <2>2 DEF Trade, SeriesInv, SeriesType
      <4>2. Folded(s, q).epoch = current[s].epoch
        BY <2>2, <1>3 DEF Folded, Forming
      <4> QED BY <4>1, <4>2
    <3> QED BY <3>1, <2>2, <1>8 DEF SeriesInv, WebSocketBehindForming
  <2>3. CASE current[s] = None
    <3>1. rows'[s] = rows[s] /\ current'[s].epoch = min
      <4>1. ~RollsOver(s, q)
        BY <2>3 DEF RollsOver
      <4>2. current'[s] = Folded(s, q)
        BY <4>1, <2>3, <1>8 DEF Trade, SeriesInv, SeriesType
      <4> QED BY <4>1, <4>2, <2>3 DEF Trade, Folded, min
    <3>2. rows[s] # <<>> /\ Len(rows[s]) \in Nat /\ i \in 1 .. Len(rows[s])
      BY <3>1, <1>3, <1>8
    <3>3. rows[s][Len(rows[s])].epoch < min
      <4>1. rows[s][Len(rows[s])] \in Row
        BY <3>2, <1>3
      <4>2. rows[s][Len(rows[s])].epoch \in Nat
        BY <4>1 DEF Row
      <4> QED BY <4>2, <3>2, <2>3, <1>1, <1>2 DEF LateMinute, min
    <3>4. rows[s][i].epoch <= rows[s][Len(rows[s])].epoch
      <4>1. CASE i = Len(rows[s])
        BY <4>1, <3>1, <2>0
      <4>2. CASE i < Len(rows[s])
        <5>1. rows[s][i].epoch < rows[s][Len(rows[s])].epoch
          BY <4>2, <3>2, <1>3 DEF Sorted
        <5>2. rows[s][Len(rows[s])] \in Row
          BY <3>2, <1>3
        <5>3. rows[s][Len(rows[s])].epoch \in Nat
          BY <5>2 DEF Row
        <5> QED BY <5>1, <5>3, <3>1, <2>0
      <4> QED BY <4>1, <4>2, <3>2
    <3>5. rows[s][Len(rows[s])].epoch \in Nat
      <4>1. rows[s][Len(rows[s])] \in Row
        BY <3>2, <1>3
      <4> QED BY <4>1 DEF Row
    <3> QED BY <3>1, <3>3, <3>4, <3>5, <2>0, <1>2
  <2> QED BY <2>1, <2>2, <2>3
<1>9. WebSocketBehindForming'
  BY <1>5, <1>7, <1>8 DEF SeriesInv, WebSocketBehindForming
<1>10. EpochsSorted'
  BY <1>5 DEF SeriesInv, EpochsSorted
<1>11. BaselineKnown' /\ baseline' \in [Stocks -> Int \cup {None}]
  BY <1>2, NoneAssumption DEF Trade, SeriesInv, SeriesType, BaselineKnown
<1>12. SeriesType'
  <2>1. prevVol' \in [Stocks -> Nat \cup {None}]
    BY <1>2 DEF Trade, SeriesInv, SeriesType
  <2>2. lastKey' \in [Stocks -> (Nat \X Nat \X Nat) \cup {None}]
    BY <1>2 DEF Trade, TradeKey, SeriesInv, SeriesType
  <2>3. evidence' \in [Stocks -> BOOLEAN]
    BY DEF SeriesInv, SeriesType
  <2>4. lastRecv' \in [Stocks -> Nat \cup {None}] /\ refs' \in [Stocks -> RefValues \cup {None}]
    BY DEF SeriesInv, SeriesType
  <2> QED BY <2>1, <2>2, <2>3, <2>4, <1>5, <1>7, <1>11 DEF SeriesType
<1> QED BY <1>9, <1>10, <1>11, <1>12 DEF SeriesInv

\* One historical bar keeps the invariant of the series.
LEMMA MergeRowSeriesInv ==
    ASSUME SeriesInv, ThreadsType, MergeRow
    PROVE  SeriesInv'
<1> DEFINE s == merging.sec
           b == Head(merging.todo)
           bar == Completed([b EXCEPT !.epoch = MinuteOf(@)], SOURCE_HISTORICAL)
<1>1. s \in Stocks /\ merging.todo \in Seq(HistBars) /\ merging.todo # <<>>
  BY DEF MergeRow, ThreadsType, MergeWork
<1>2. b \in Forming
  BY <1>1, DataAssumption
<1> HIDE DEF b
<1>3. bar \in Row /\ bar.source = SOURCE_HISTORICAL
  <2>1. [b EXCEPT !.epoch = MinuteOf(@)] \in Forming
    BY <1>2, MinuteOfType DEF Forming
  <2> QED BY <2>1, CompletedType DEF Source
<1> HIDE DEF bar
<1>4. rows' = rows \/ rows' = [rows EXCEPT ![s] = PutCompleted(@, bar)]
  BY DEF MergeRow, b, bar
<1>5. CASE rows' = rows
  BY <1>5 DEF MergeRow, SeriesInv, SeriesType, BaselineKnown, EpochsSorted, WebSocketBehindForming
<1>6. CASE rows' = [rows EXCEPT ![s] = PutCompleted(@, bar)]
  <2> DEFINE new == PutCompleted(rows[s], bar)
  <2>1. rows[s] \in Seq(Row) /\ Sorted(rows[s])
    BY <1>1 DEF SeriesInv, SeriesType, EpochsSorted
  <2>2. new \in Seq(Row) /\ Sorted(new)
    BY <2>1, <1>3, PutCompletedType, PutCompletedSorted
  <2>3. \A i \in DOMAIN new : new[i] = bar \/ \E j \in DOMAIN rows[s] : new[i] = rows[s][j]
    BY <2>1, <1>3, PutCompletedContents
  <2> HIDE DEF new
  <2>4. rows' = [rows EXCEPT ![s] = new]
    BY <1>6 DEF new
  <2> HIDE DEF s
  <2>5. SeriesType'
    BY <2>2, <2>4, <1>1 DEF MergeRow, SeriesInv, SeriesType
  <2>6. EpochsSorted'
    BY <2>2, <2>4, <1>1 DEF SeriesInv, SeriesType, EpochsSorted
  <2>7. current' = current /\ SOURCE_HISTORICAL # SOURCE_WEBSOCKET
    BY DEF MergeRow, SOURCE_HISTORICAL, SOURCE_WEBSOCKET
  <2>8. ASSUME NEW x \in Stocks, current'[x] # None, NEW i \in DOMAIN rows'[x],
               rows'[x][i].source = SOURCE_WEBSOCKET
        PROVE  rows'[x][i].epoch < current'[x].epoch
    <3>1. PICK j \in DOMAIN rows[x] : rows'[x][i] = rows[x][j]
      <4>1. CASE x = s
        BY <4>1, <2>3, <2>4, <2>7, <2>8, <1>1, <1>3 DEF SeriesInv, SeriesType
      <4>2. CASE x # s
        BY <4>2, <2>4, <2>8 DEF SeriesInv, SeriesType
      <4> QED BY <4>1, <4>2
    <3> QED BY <3>1, <2>7, <2>8 DEF SeriesInv, WebSocketBehindForming
  <2>9. WebSocketBehindForming'
    BY <2>8 DEF WebSocketBehindForming
  <2>10. BaselineKnown'
    BY DEF MergeRow, SeriesInv, BaselineKnown
  <2> QED BY <2>5, <2>6, <2>9, <2>10 DEF SeriesInv
<1> QED BY <1>4, <1>5, <1>6

\* A step that leaves candles and baselines alone keeps the invariant of the series.
LEMMA QuietSeriesInv ==
    ASSUME SeriesInv, UNCHANGED <<rows, current, prevVol, lastKey, baseline>>,
           lastRecv' \in [Stocks -> Nat \cup {None}], refs' \in [Stocks -> RefValues \cup {None}],
           evidence' \in [Stocks -> BOOLEAN]
    PROVE  SeriesInv'
BY DEF SeriesInv, SeriesType, BaselineKnown, EpochsSorted, WebSocketBehindForming

\* Every step keeps the invariant, action by action.
LEMMA NextIInv == IInv /\ [Next]_vars => IInv'
<1> SUFFICES ASSUME IInv, [Next]_vars PROVE IInv'
  OBVIOUS
<1> USE DEF IInv
<1>0. Idle \in FeedWork /\ \A f \in Feeds : feed[f] \in FeedWork
  BY DEF Idle, FeedWork, ThreadsType
<1>a. ASSUME UNCHANGED seriesVars PROVE SeriesInv'
  BY <1>a, QuietSeriesInv DEF seriesVars, SeriesInv, SeriesType
<1>1. CASE UNCHANGED vars
  BY <1>1, <1>a DEF vars, ThreadsType
<1>2. CASE Tick
  BY <1>2, <1>a DEF Tick, ThreadsType
<1>3. CASE ConfigError
  BY <1>3, NewSeriesInv DEF ConfigError, ThreadsType, Statuses
<1>4. CASE Begin
  <2>1. Day(clock) \in Nat
    BY TimeAssumption DEF Day, ThreadsType
  <2> QED BY <1>4, <2>1, NewSeriesInv DEF Begin, ThreadsType, Statuses, Runtimes
<1>5. CASE AuthFails
  BY <1>5, <1>a DEF AuthFails, ThreadsType, Statuses, Runtimes
<1>6. CASE AuthSucceeds
  BY <1>6, <1>a DEF AuthSucceeds, ThreadsType, Statuses, Runtimes
<1>7. CASE SeedFromSnapshot
  <2>1. PICK S \in SUBSET Stocks, r \in RefValues : \E v \in [S -> 0 .. MaxVol] :
          /\ refs' = [s \in Stocks |-> IF s \in S THEN r ELSE refs[s]]
          /\ prevVol' = [s \in Stocks |-> IF s \in S /\ prevVol[s] = None THEN v[s] ELSE prevVol[s]]
          /\ baseline' = [s \in Stocks |-> IF s \in S /\ prevVol[s] = None THEN v[s] ELSE baseline[s]]
          /\ bumped' = \E s \in S : refs[s] # r
    BY <1>7 DEF SeedFromSnapshot
  <2>2. PICK v \in [S -> 0 .. MaxVol] :
          /\ refs' = [s \in Stocks |-> IF s \in S THEN r ELSE refs[s]]
          /\ prevVol' = [s \in Stocks |-> IF s \in S /\ prevVol[s] = None THEN v[s] ELSE prevVol[s]]
          /\ baseline' = [s \in Stocks |-> IF s \in S /\ prevVol[s] = None THEN v[s] ELSE baseline[s]]
          /\ bumped' = \E s \in S : refs[s] # r
    BY <2>1
  <2>3. \A s \in S : v[s] \in Nat /\ v[s] \in Int /\ v[s] # None
    BY DataAssumption, NoneAssumption
  <2>4. refs' \in [Stocks -> RefValues \cup {None}]
    BY <2>2 DEF SeriesInv, SeriesType
  <2>5. prevVol' \in [Stocks -> Nat \cup {None}] /\ baseline' \in [Stocks -> Int \cup {None}]
    BY <2>2, <2>3 DEF SeriesInv, SeriesType
  <2>6. BaselineKnown'
    BY <2>2, <2>3 DEF SeriesInv, BaselineKnown
  <2>7. EpochsSorted' /\ WebSocketBehindForming'
    BY <1>7 DEF SeedFromSnapshot, SeriesInv, EpochsSorted, WebSocketBehindForming
  <2>8. SeriesType'
    BY <1>7, <2>4, <2>5 DEF SeedFromSnapshot, SeriesInv, SeriesType
  <2>9. bumped' \in BOOLEAN
    BY <2>2
  <2>10. ThreadsType'
    BY <1>7, <2>9 DEF SeedFromSnapshot, ThreadsType, Runtimes
  <2> QED BY <2>6, <2>7, <2>8, <2>10 DEF SeriesInv
<1>8. ASSUME NEW f \in Feeds, StartFeed(f) PROVE IInv'
  BY <1>8, <1>a DEF StartFeed, ThreadsType, Runtimes
<1>9. CASE FeedStartFails
  BY <1>9, <1>a DEF FeedStartFails, ThreadsType, Statuses, Runtimes
<1>10. CASE OpenMarket
  BY <1>10, <1>a DEF OpenMarket, ThreadsType, Statuses
<1>11. CASE FinalizeDue
  <2>1. SeriesInv'
    BY <1>11, FinalizeSeriesInv
  <2>2. bumped' \in BOOLEAN
    BY <1>11 DEF FinalizeDue, CompleteCurrent
  <2>3. ThreadsType'
    BY <1>11, <2>2 DEF FinalizeDue, ThreadsType
  <2> QED BY <2>1, <2>3
<1>12. ASSUME NEW f \in Feeds, NEW g \in Feeds, NEW resolved \in BOOLEAN, ReplaceFeed(f, g, resolved)
       PROVE  IInv'
  BY <1>12, <1>a, <1>0 DEF ReplaceFeed, Retire, ThreadsType
<1>13. ASSUME NEW f \in Feeds, NEW resolved \in BOOLEAN, StopFeed(f, resolved) PROVE IInv'
  BY <1>13, <1>a, <1>0 DEF StopFeed, Retire, ThreadsType, Runtimes
<1>14. CASE Reset
  BY <1>14, NewSeriesInv DEF Reset, ThreadsType, Statuses, Runtimes
<1>15. ASSUME NEW f \in Feeds, RecordFeedMessage(f) PROVE IInv'
  <2>1. feed' \in [Feeds -> FeedWork]
    BY <1>15 DEF RecordFeedMessage, ThreadsType, FeedWork
  <2>2. status' \in Statuses /\ bumped' \in BOOLEAN
    BY <1>15 DEF RecordFeedMessage, OpenIfDue, ThreadsType, Statuses
  <2> QED BY <1>15, <1>a, <2>1, <2>2 DEF RecordFeedMessage, ThreadsType
<1>16. ASSUME NEW f \in Feeds, DropPacket(f) PROVE IInv'
  BY <1>16, <1>a, <1>0 DEF DropPacket, ThreadsType
<1>17. ASSUME NEW f \in Feeds, NEW s \in Stocks, NEW r \in RefValues, SetMarketReference(f, s, r)
       PROVE  IInv'
  <2>1. SeriesInv'
    BY <1>17, QuietSeriesInv DEF SetMarketReference, SeriesInv, SeriesType
  <2>2. feed' \in [Feeds -> FeedWork]
    BY <1>17, <1>0 DEF SetMarketReference, ThreadsType
  <2> QED BY <1>17, <2>1, <2>2 DEF SetMarketReference, ThreadsType
<1>18. ASSUME NEW f \in Feeds, NEW s \in Stocks, NEW q \in Quote, UpdateQuote(f, s, q)
       PROVE  IInv'
  <2> DEFINE st == OpenIfDue
             v == Verdict(s, q, st)
  <2> HIDE DEF st, v
  <2>1. /\ IF v = "trade" THEN Trade(s, q, st) ELSE NotATrade(s, q, st)
        /\ UNCHANGED <<lastRecv, refs>>
        /\ evidence' = [evidence EXCEPT ![s] = @ \/ v \in Evidence]
    BY <1>18 DEF UpdateQuote, st, v
  <2>2. (v \in Evidence) \in BOOLEAN
    OBVIOUS
  <2>3. SeriesInv'
    <3>1. CASE v = "trade"
      BY <2>1, <2>2, <3>1, TradeSeriesInv DEF v
    <3>2. CASE v # "trade"
      BY <2>1, <2>2, <3>2, NotATradeSeriesInv DEF v
    <3> QED BY <3>1, <3>2
  <2>4. q.ltt \in Nat
    BY TimeAssumption DEF Quote
  <2>5. feed' \in [Feeds -> FeedWork]
    BY <1>18, <1>0, <2>4 DEF UpdateQuote, ThreadsType, FeedWork
  <2>6. status' \in Statuses
    BY <1>18 DEF UpdateQuote, OpenIfDue, ThreadsType, Statuses
  <2>7. accepted' \in (Stocks \X Nat) \cup {None}
    BY <1>18, <2>4 DEF UpdateQuote
  <2>8. bumped' \in BOOLEAN
    BY <2>1 DEF Trade, NotATrade
  <2> QED BY <1>18, <2>3, <2>5, <2>6, <2>7, <2>8 DEF UpdateQuote, ThreadsType
<1>19. ASSUME NEW f \in Feeds, RecordLiveQuote(f) PROVE IInv'
  <2>1. lastRecv' \in [Stocks -> Nat \cup {None}] /\ evidence' \in [Stocks -> BOOLEAN]
    <3>1. /\ lastRecv \in [Stocks -> Nat \cup {None}] /\ evidence \in [Stocks -> BOOLEAN]
          /\ clock \in Nat
      BY DEF SeriesInv, SeriesType, ThreadsType
    <3>2. lastRecv' = lastRecv \/ lastRecv' = [lastRecv EXCEPT ![feed[f].sec] = clock]
      BY <1>19 DEF RecordLiveQuote
    <3>3. evidence' = evidence \/ evidence' = [evidence EXCEPT ![feed[f].sec] = FALSE]
      BY <1>19 DEF RecordLiveQuote
    <3>4. lastRecv' \in [Stocks -> Nat \cup {None}]
      BY <3>1, <3>2
    <3>5. evidence' \in [Stocks -> BOOLEAN]
      BY <3>1, <3>3
    <3> QED BY <3>4, <3>5
  <2>2. SeriesInv'
    BY <1>19, <2>1, QuietSeriesInv DEF RecordLiveQuote, SeriesInv, SeriesType
  <2> QED BY <1>19, <1>0, <2>2 DEF RecordLiveQuote, ThreadsType
<1>20. CASE MergeRow
  <2>1. SeriesInv'
    BY <1>20, MergeRowSeriesInv
  <2>2. merging' \in MergeWork
    <3>1. merging \in MergeWork /\ merging.todo # <<>>
      BY <1>20 DEF MergeRow, ThreadsType
    <3>2. Tail(merging.todo) \in Seq(HistBars)
      BY <3>1 DEF MergeWork
    <3> QED BY <1>20, <3>1, <3>2 DEF MergeRow, MergeWork
  <2> QED BY <1>20, <2>1, <2>2 DEF MergeRow, ThreadsType
<1>21. CASE MergeEnd
  <2>1. merging \in MergeWork
    BY <1>21 DEF MergeEnd, ThreadsType
  <2>2. current' \in [Stocks -> Forming \cup {None}]
        /\ \A x \in Stocks : current'[x] = None \/ current'[x] = current[x]
    BY <1>21, <2>1 DEF MergeEnd, MergeWork, SeriesInv, SeriesType
  <2>3. SeriesType'
    BY <1>21, <2>2 DEF MergeEnd, SeriesInv, SeriesType
  <2>4. BaselineKnown' /\ EpochsSorted' /\ WebSocketBehindForming'
    BY <1>21, <2>2 DEF MergeEnd, SeriesInv, BaselineKnown, EpochsSorted, WebSocketBehindForming
  <2> QED BY <1>21, <2>1, <2>3, <2>4 DEF MergeEnd, MergeWork, SeriesInv, ThreadsType
<1>22. ASSUME NEW s \in Stocks, NEW d \in 0 .. Day(clock), NEW bars \in Batches, MergeHistory(s, d, bars)
       PROVE  IInv'
  <2>1. bars \in Seq(HistBars)
    <3>1. PICK n \in 1 .. MaxBatch : bars \in [1 .. n -> HistBars]
      BY DEF Batches
    <3> QED BY <3>1, DataAssumption
  <2>2. merging' \in MergeWork
    BY <1>22, <2>1 DEF MergeHistory, MergeWork, SeriesInv, SeriesType
  <2> QED BY <1>22, <1>a, <2>2 DEF MergeHistory, ThreadsType
<1> QED
  BY <1>1, <1>2, <1>3, <1>4, <1>5, <1>6, <1>7, <1>8, <1>9, <1>10, <1>11, <1>12, <1>13, <1>14,
     <1>15, <1>16, <1>17, <1>18, <1>19, <1>20, <1>21, <1>22
  DEF Next, SessionThread, FeedThread, HistoryThread

\* Type correctness: whatever the packets, responses and interleavings, every variable
\* keeps its type and no candle gets a negative volume.
THEOREM TypeCorrect == Spec => []TypeOK
<1>1. IInv => TypeOK
  BY DEF IInv, SeriesInv, TypeOK
<1> QED BY <1>1, InitIInv, NextIInv, PTL DEF Spec

\* At every moment the candles of every stock are in strictly increasing order of minutes,
\* one per minute (put_completed and bisect_left in live_core/state.py).
THEOREM CandlesAlwaysSorted == Spec => []EpochsSorted
<1>1. IInv => EpochsSorted
  BY DEF IInv, SeriesInv
<1> QED BY <1>1, InitIInv, NextIInv, PTL DEF Spec

\* Every WebSocket-built candle lies before the forming minute: a trade never reaches a
\* published WebSocket candle (the late_minute rule of update_quote).
THEOREM PublishedBehindForming == Spec => []WebSocketBehindForming
<1>1. IInv => WebSocketBehindForming
  BY DEF IInv, SeriesInv
<1> QED BY <1>1, InitIInv, NextIInv, PTL DEF Spec

-----------------------------------------------------------------------------
(* The node implements CandleBook.                                         *)

\* In sorted rows, the candle of a minute is the row with that epoch.
LEMMA RowAtUnique ==
    ASSUME NEW rs \in Seq(Row), Sorted(rs), NEW i \in DOMAIN rs
    PROVE  RowAt(rs, rs[i].epoch) = rs[i]
<1> DEFINE k == CHOOSE j \in DOMAIN rs : rs[j].epoch = rs[i].epoch
<1>1. k \in DOMAIN rs /\ rs[k].epoch = rs[i].epoch
  OBVIOUS
<1> HIDE DEF k
<1>2. rs[i] \in Row /\ rs[k] \in Row
  BY <1>1
<1>3. rs[i].epoch \in Nat
  BY <1>2 DEF Row
<1>4. ~(i < k) /\ ~(k < i)
  BY <1>1, <1>3 DEF Sorted
<1>5. i = k
  BY <1>1, <1>4
<1> QED BY <1>5 DEF RowAt, k

\* put_completed only grows a stock's book, as long as a WebSocket-built candle is never
\* stored for a minute that has one.
LEMMA PutCompletedGrowsBook ==
    ASSUME NEW rs \in Seq(Row), Sorted(rs), NEW row \in Row,
           row.source = SOURCE_HISTORICAL
              \/ \A j \in DOMAIN rs : rs[j].source = SOURCE_WEBSOCKET => rs[j].epoch # row.epoch
    PROVE  Published!Grows(Book(rs), Book(PutCompleted(rs, row)))
<1> DEFINE new == PutCompleted(rs, row)
<1>1. new \in Seq(Row) /\ Sorted(new)
  BY PutCompletedType, PutCompletedSorted
<1>2. \A j \in DOMAIN rs : \E i \in DOMAIN new :
         \/ new[i] = rs[j]
         \/ /\ new[i] = row /\ row.epoch = rs[j].epoch
            /\ row.source = SOURCE_HISTORICAL \/ rs[j].source # SOURCE_HISTORICAL
  BY PutCompletedContents
<1> HIDE DEF new
<1>3. ASSUME NEW m \in Epochs(rs)
      PROVE  m \in Epochs(new)
             /\ (RowAt(new, m) = RowAt(rs, m) \/ RowAt(new, m).source = SOURCE_HISTORICAL)
  <2>1. PICK j \in DOMAIN rs : rs[j].epoch = m
    BY DEF Epochs
  <2>2. RowAt(rs, m) = rs[j] /\ rs[j] \in Row
    BY <2>1, RowAtUnique
  <2>3. PICK i \in DOMAIN new :
          \/ new[i] = rs[j]
          \/ /\ new[i] = row /\ row.epoch = rs[j].epoch
             /\ row.source = SOURCE_HISTORICAL \/ rs[j].source # SOURCE_HISTORICAL
    BY <1>2
  <2>4. new[i].epoch = m
    BY <2>1, <2>3
  <2>5. m \in Epochs(new) /\ RowAt(new, m) = new[i]
    BY <2>4, <1>1, RowAtUnique DEF Epochs
  <2>6. new[i] = rs[j] \/ new[i].source = SOURCE_HISTORICAL
    <3>1. rs[j].source # SOURCE_HISTORICAL => rs[j].source = SOURCE_WEBSOCKET
      BY <2>2 DEF Row, Source
    <3> QED BY <2>3, <3>1
  <2> QED BY <2>2, <2>5, <2>6
<1>4. DOMAIN Book(rs) = Epochs(rs) /\ DOMAIN Book(new) = Epochs(new)
      /\ (\A m \in Epochs(rs) : Book(rs)[m] = RowAt(rs, m))
      /\ (\A m \in Epochs(new) : Book(new)[m] = RowAt(new, m))
  BY DEF Book
<1>5. Published!Grows(Book(rs), Book(new))
  BY <1>3, <1>4 DEF Published!Grows
<1> QED BY <1>5 DEF new

\* Dropping all candles empties every book.
LEMMA NoRowsEmptyBook ==
    ASSUME NEW rs, rs = [s \in Stocks |-> <<>>]
    PROVE  [s \in Stocks |-> Book(rs[s])] = Published!EmptyBook
<1>1. Epochs(<<>>) = {}
  BY DEF Epochs
<1>2. Book(<<>>) = [m \in {} |-> m]
  BY <1>1 DEF Book
<1> QED BY <1>2 DEF Published!EmptyBook

\* Publishing a forming candle grows the stock's book.
LEMMA RolloverGrowsBook ==
    ASSUME SeriesInv, NEW s \in Stocks, current[s] # None
    PROVE  Published!Grows(Book(rows[s]),
                           Book(PutCompleted(rows[s], Completed(current[s], SOURCE_WEBSOCKET))))
<1> DEFINE row == Completed(current[s], SOURCE_WEBSOCKET)
<1>1. rows[s] \in Seq(Row) /\ current[s] \in Forming /\ Sorted(rows[s])
  BY DEF SeriesInv, SeriesType, EpochsSorted
<1>2. row \in Row /\ row.epoch = current[s].epoch /\ current[s].epoch \in Nat
  BY <1>1, CompletedType DEF Source, Forming
<1> HIDE DEF row
<1>3. ASSUME NEW j \in DOMAIN rows[s], rows[s][j].source = SOURCE_WEBSOCKET
      PROVE  rows[s][j].epoch # row.epoch
  BY <1>2, <1>3 DEF SeriesInv, WebSocketBehindForming
<1>4. Published!Grows(Book(rows[s]), Book(PutCompleted(rows[s], row)))
  BY <1>1, <1>2, <1>3, PutCompletedGrowsBook
<1> QED BY <1>4 DEF row

\* Every step of the node is a step of the abstract book or leaves it unchanged.
LEMMA NextRefines ==
    IInv /\ [Next]_vars => [Published!Next]_([s \in Stocks |-> Book(rows[s])])
<1> SUFFICES ASSUME IInv, [Next]_vars
             PROVE  [Published!Next]_([s \in Stocks |-> Book(rows[s])])
  OBVIOUS
<1>1. ASSUME \A s \in Stocks : rows'[s] = rows[s] \/ Published!Grows(Book(rows[s]), Book(rows'[s]))
      PROVE  Published!Publish
  <2>1. ASSUME NEW s \in Stocks PROVE Published!Grows(Book(rows[s]), Book(rows'[s]))
    BY <1>1 DEF Published!Grows
  <2> QED BY <2>1 DEF Published!Publish
<1>2. CASE rows' = rows
  BY <1>2
<1>3. CASE NewSeries
  <2>1. rows' = [s \in Stocks |-> <<>>]
    BY <1>3 DEF NewSeries
  <2>2. [s \in Stocks |-> Book(rows'[s])] = Published!EmptyBook
    BY <2>1, NoRowsEmptyBook
  <2> QED BY <2>2 DEF Published!Next, Published!DropAll, Published!EmptyBook
<1>4. CASE FinalizeDue
  <2>1. ASSUME NEW s \in Stocks
        PROVE  rows'[s] = rows[s] \/ Published!Grows(Book(rows[s]), Book(rows'[s]))
    <3>1. CASE IsDue(s)
      <4>1. rows'[s] = PutCompleted(rows[s], Completed(current[s], SOURCE_WEBSOCKET))
        BY <1>4, <3>1 DEF FinalizeDue, CompleteCurrent
      <4> QED BY <3>1, <4>1, RolloverGrowsBook DEF IsDue, IInv
    <3>2. CASE ~IsDue(s)
      BY <1>4, <3>2 DEF FinalizeDue, CompleteCurrent
    <3> QED BY <3>1, <3>2
  <2> QED BY <1>1, <2>1 DEF Published!Next
<1>5. ASSUME NEW f \in Feeds, NEW s \in Stocks, NEW q \in Quote, UpdateQuote(f, s, q), rows' # rows
      PROVE  Published!Publish
  <2>1. RollsOver(s, q)
        /\ rows' = [rows EXCEPT ![s] = PutCompleted(@, Completed(current[s], SOURCE_WEBSOCKET))]
    BY <1>5 DEF UpdateQuote, Trade, NotATrade
  <2>2. Published!Grows(Book(rows[s]), Book(PutCompleted(rows[s], Completed(current[s], SOURCE_WEBSOCKET))))
    BY <2>1, RolloverGrowsBook DEF RollsOver, IInv
  <2> QED BY <1>1, <2>1, <2>2 DEF IInv, SeriesInv, SeriesType
<1>6. CASE MergeRow
  <2> DEFINE s == merging.sec
             b == Head(merging.todo)
             bar == Completed([b EXCEPT !.epoch = MinuteOf(@)], SOURCE_HISTORICAL)
  <2>1. s \in Stocks /\ merging.todo \in Seq(HistBars) /\ merging.todo # <<>>
    BY <1>6 DEF MergeRow, IInv, ThreadsType, MergeWork
  <2>2. b \in Forming
    BY <2>1, DataAssumption
  <2> HIDE DEF b
  <2>3. bar \in Row /\ bar.source = SOURCE_HISTORICAL
    <3>1. [b EXCEPT !.epoch = MinuteOf(@)] \in Forming
      BY <2>2, MinuteOfType DEF Forming
    <3> QED BY <3>1, CompletedType DEF Source
  <2> HIDE DEF bar
  <2>4. rows' = rows \/ rows' = [rows EXCEPT ![s] = PutCompleted(@, bar)]
    BY <1>6 DEF MergeRow, b, bar
  <2>5. rows[s] \in Seq(Row) /\ Sorted(rows[s])
    BY <2>1 DEF IInv, SeriesInv, SeriesType, EpochsSorted
  <2>6. Published!Grows(Book(rows[s]), Book(PutCompleted(rows[s], bar)))
    BY <2>3, <2>5, PutCompletedGrowsBook
  <2> HIDE DEF s
  <2>7. \A x \in Stocks : rows'[x] = rows[x] \/ Published!Grows(Book(rows[x]), Book(rows'[x]))
    BY <2>1, <2>4, <2>6 DEF IInv, SeriesInv, SeriesType
  <2> QED BY <1>1, <2>7 DEF Published!Next
<1>7. rows' = rows \/ NewSeries \/ FinalizeDue \/ MergeRow
      \/ \E f \in Feeds, s \in Stocks, q \in Quote : UpdateQuote(f, s, q)
  BY DEF Next, SessionThread, FeedThread, HistoryThread, vars, seriesVars, Tick, ConfigError,
         Begin, AuthFails, AuthSucceeds, SeedFromSnapshot, StartFeed, FeedStartFails, OpenMarket,
         ReplaceFeed, StopFeed, Reset, RecordFeedMessage, DropPacket, SetMarketReference,
         RecordLiveQuote, MergeHistory, MergeEnd
<1> QED BY <1>2, <1>3, <1>4, <1>5, <1>6, <1>7 DEF Published!Next

\* The node implements its abstract promise, for every partition, packet stream, historical
\* response and interleaving: a published candle never disappears during a session and
\* changes only when a Dhan historical bar corrects it.
THEOREM NodeImplementsCandleBook == Spec => PublishesCandleBook
<1>1. Init => Published!Init
  <2> SUFFICES ASSUME Init PROVE Published!Init
    OBVIOUS
  <2>1. rows = [s \in Stocks |-> <<>>]
    BY DEF Init
  <2> QED BY <2>1, NoRowsEmptyBook DEF Published!Init
<1> QED BY <1>1, InitIInv, NextIInv, NextRefines, PTL DEF Spec, PublishesCandleBook, Published!Spec

-----------------------------------------------------------------------------
(* No candle before the open.                                              *)

\* Multiplication by a positive number preserves and reflects the order.
LEMMA TimesMonotone ==
    ASSUME NEW a \in Nat, NEW b \in Nat, NEW M \in Nat \ {0}
    PROVE  (a <= b => M * a <= M * b) /\ (M * a < M * b + M => a <= b)
BY Z3

\* The minute of a time after a minute boundary does not start before that boundary.
LEMMA MinuteAfterBoundary ==
    ASSUME NEW k \in Nat, NEW t \in Nat, Minute * k <= t
    PROVE  Minute * k <= MinuteOf(t)
<1> DEFINE q == t \div Minute
           m == Minute * q
<1>1. q \in Nat /\ m \in Nat /\ t = m + (t % Minute) /\ t % Minute \in 0 .. Minute - 1
  BY TimeAssumption, Z3
<1> HIDE DEF q
<1>2. Minute * k < m + Minute
  <2> DEFINE n == Minute * k
  <2>1. n \in Nat
    BY TimeAssumption
  <2> HIDE DEF n, m
  <2> QED BY <1>1, <2>1, TimeAssumption DEF n
<1>3. k <= q
  BY <1>1, <1>2, TimesMonotone, TimeAssumption
<1>4. Minute * k <= m
  BY <1>1, <1>3, TimesMonotone, TimeAssumption
<1>5. MinuteOf(t) = m
  <2> HIDE DEF m
  <2> QED BY <1>1 DEF MinuteOf
<1> QED BY <1>4, <1>5

\* The open and the start of a day are minute boundaries.
LEMMA OpenIsBoundary ==
    ASSUME NEW d \in Nat
    PROVE  /\ \E k \in Nat : OpenOf(d) = Minute * k
           /\ \E k \in Nat : d * DayLen = Minute * k
<1> DEFINE x == DayLen \div Minute
           y == OpenAt \div Minute
<1>1. x \in Nat /\ y \in Nat /\ DayLen = Minute * x /\ OpenAt = Minute * y
  BY TimeAssumption, Z3
<1> HIDE DEF x, y
<1>2. d * x \in Nat /\ d * DayLen = Minute * (d * x)
  BY <1>1, TimeAssumption, Z3
<1>3. d * x + y \in Nat /\ OpenOf(d) = Minute * (d * x + y)
  BY <1>1, <1>2, TimeAssumption, Z3 DEF OpenOf
<1> QED BY <1>2, <1>3

\* A valid trade after the open belongs to a minute of the session, after the open.
LEMMA TradeMinuteInSession ==
    ASSUME date \in Nat, NEW t \in Nat, InSessionDay(t), OpenOf(date) <= t
    PROVE  OpenOf(date) <= MinuteOf(t) /\ InSessionDay(MinuteOf(t))
<1>1. PICK k \in Nat : OpenOf(date) = Minute * k
  BY OpenIsBoundary
<1>2. PICK j \in Nat : date * DayLen = Minute * j
  BY OpenIsBoundary
<1>3. OpenOf(date) <= MinuteOf(t)
  BY <1>1, MinuteAfterBoundary
<1>4. date * DayLen <= MinuteOf(t)
  BY <1>2, MinuteAfterBoundary DEF InSessionDay
<1>5. MinuteOf(t) \in Nat /\ MinuteOf(t) <= t
  BY MinuteOfType
<1>6. MinuteOf(t) < (date + 1) * DayLen
  <2> DEFINE e == (date + 1) * DayLen
  <2>1. e \in Nat /\ t < e
    BY TimeAssumption DEF InSessionDay
  <2> HIDE DEF e
  <2>2. MinuteOf(t) < e
    BY <2>1, <1>5
  <2> QED BY <2>2 DEF e
<1> QED BY <1>3, <1>4, <1>6 DEF InSessionDay

\* Storing a row of the session keeps all rows in the session.
LEMMA PutCompletedInSession ==
    ASSUME NEW rs \in Seq(Row), NEW row \in Row, InSession(row.epoch),
           \A j \in DOMAIN rs : InSession(rs[j].epoch)
    PROVE  \A i \in DOMAIN PutCompleted(rs, row) : InSession(PutCompleted(rs, row)[i].epoch)
<1> DEFINE new == PutCompleted(rs, row)
<1>1. \A i \in DOMAIN new : new[i] = row \/ \E j \in DOMAIN rs : new[i] = rs[j]
  BY PutCompletedContents
<1> HIDE DEF new
<1>2. \A i \in DOMAIN new : InSession(new[i].epoch)
  BY <1>1
<1> QED BY <1>2 DEF new

\* Publishing the forming candle keeps the stock's rows in the session.
LEMMA RolloverInSession ==
    ASSUME IInv, CandlesInSession, NEW s \in Stocks, current[s] # None
    PROVE  LET new == PutCompleted(rows[s], Completed(current[s], SOURCE_WEBSOCKET))
           IN  \A i \in DOMAIN new : InSession(new[i].epoch)
<1> DEFINE row == Completed(current[s], SOURCE_WEBSOCKET)
<1>1. rows[s] \in Seq(Row) /\ current[s] \in Forming
  BY DEF IInv, SeriesInv, SeriesType
<1>2. row \in Row /\ row.epoch = current[s].epoch
  BY <1>1, CompletedType DEF Source
<1>3. InSession(row.epoch) /\ \A j \in DOMAIN rows[s] : InSession(rows[s][j].epoch)
  BY <1>2 DEF CandlesInSession
<1> HIDE DEF row
<1>4. \A i \in DOMAIN PutCompleted(rows[s], row) : InSession(PutCompleted(rows[s], row)[i].epoch)
  BY <1>1, <1>2, <1>3, PutCompletedInSession
<1> QED BY <1>4 DEF row

\* A trade's minute is in the session.
LEMMA TradeInSession ==
    ASSUME IInv, NEW s \in Stocks, NEW q \in Quote, NEW st, Verdict(s, q, st) = "trade"
    PROVE  InSession(MinuteOf(q.ltt))
<1>1. date # None /\ Valid(q) /\ ~BeforeOpen(q, st)
  BY DEF Verdict
<1>2. q.ltt \in Nat
  BY TimeAssumption DEF Quote
<1>3. date \in Nat
  BY <1>1 DEF IInv, ThreadsType
<1>4. OpenOf(date) \in Nat
  BY <1>3, TimeAssumption DEF OpenOf
<1>5. OpenOf(date) <= q.ltt /\ InSessionDay(q.ltt)
  BY <1>1, <1>2, <1>4 DEF Valid, BeforeOpen
<1> QED BY <1>1, <1>2, <1>3, <1>5, TradeMinuteInSession DEF InSession

\* A merge runs inside a session: the lock it holds keeps the session thread from ending it.
MergeInSession == merging # None => date # None

\* Every step keeps a running merge inside a session.
LEMMA NextMergeInSession == MergeInSession /\ [Next]_vars => MergeInSession'
<1> SUFFICES ASSUME MergeInSession, [Next]_vars PROVE MergeInSession'
  OBVIOUS
<1>1. ASSUME NEW s \in Stocks, NEW d \in 0 .. Day(clock), NEW bars \in Batches,
             MergeHistory(s, d, bars)
      PROVE  MergeInSession'
  BY <1>1, NoneAssumption DEF MergeInSession, MergeHistory
<1>2. CASE date' = date /\ (merging # None \/ merging' = None \/ merging' = merging)
  BY <1>2 DEF MergeInSession
<1>3. CASE Unlocked /\ merging' = merging
  BY <1>3 DEF MergeInSession, Unlocked
<1>4. \/ date' = date /\ (merging # None \/ merging' = None \/ merging' = merging)
      \/ Unlocked /\ merging' = merging
      \/ \E s \in Stocks, d \in 0 .. Day(clock), bars \in Batches : MergeHistory(s, d, bars)
  BY DEF Next, SessionThread, FeedThread, HistoryThread, vars, Tick, ConfigError,
         Begin, AuthFails, AuthSucceeds, SeedFromSnapshot, StartFeed, FeedStartFails, OpenMarket,
         FinalizeDue, ReplaceFeed, StopFeed, Reset, RecordFeedMessage, DropPacket,
         SetMarketReference, UpdateQuote, RecordLiveQuote, MergeRow, MergeEnd
<1> QED BY <1>1, <1>2, <1>3, <1>4

\* Every step keeps all candles inside the session.
LEMMA NextInSession ==
    IInv /\ MergeInSession /\ CandlesInSession /\ [Next]_vars => CandlesInSession'
<1> SUFFICES ASSUME IInv, MergeInSession, CandlesInSession, [Next]_vars PROVE CandlesInSession'
  OBVIOUS
<1>1. ASSUME date' = date, NEW m PROVE InSession(m)' <=> InSession(m)
  BY <1>1 DEF InSession, OpenOf, InSessionDay
<1>2. CASE date' = date /\ rows' = rows /\ current' = current
  BY <1>2 DEF CandlesInSession, InSession, OpenOf, InSessionDay
<1>3. CASE NewSeries
  BY <1>3 DEF NewSeries, CandlesInSession
<1>4. CASE FinalizeDue
  <2>1. date' = date
    BY <1>4 DEF FinalizeDue
  <2>2. ASSUME NEW s \in Stocks
        PROVE  /\ \A i \in DOMAIN rows'[s] : InSession(rows'[s][i].epoch)
               /\ current'[s] # None => InSession(current'[s].epoch)
    <3>1. CASE IsDue(s)
      <4>1. rows'[s] = PutCompleted(rows[s], Completed(current[s], SOURCE_WEBSOCKET))
            /\ current'[s] = None
        BY <1>4, <3>1 DEF FinalizeDue, CompleteCurrent
      <4> QED BY <3>1, <4>1, RolloverInSession DEF IsDue
    <3>2. CASE ~IsDue(s)
      BY <1>4, <3>2 DEF FinalizeDue, CompleteCurrent, CandlesInSession
    <3> QED BY <3>1, <3>2
  <2> QED BY <2>1, <2>2 DEF CandlesInSession, InSession, OpenOf, InSessionDay
<1>5. ASSUME NEW f \in Feeds, NEW s \in Stocks, NEW q \in Quote, UpdateQuote(f, s, q)
      PROVE  CandlesInSession'
  <2> DEFINE st == OpenIfDue
  <2>1. date' = date
    BY <1>5 DEF UpdateQuote
  <2>2. CASE Verdict(s, q, st) # "trade"
    <3>1. rows' = rows /\ current' = current
      BY <1>5, <2>2 DEF UpdateQuote, NotATrade
    <3> QED BY <3>1, <2>1, <1>2
  <2>3. CASE Verdict(s, q, st) = "trade"
    <3>1. Trade(s, q, st)
      BY <1>5, <2>3 DEF UpdateQuote
    <3>2. InSession(MinuteOf(q.ltt))
      BY <2>3, TradeInSession
    <3>3. \A i \in DOMAIN rows'[s] : InSession(rows'[s][i].epoch)
      <4>1. CASE RollsOver(s, q)
        <5>1. rows'[s] = PutCompleted(rows[s], Completed(current[s], SOURCE_WEBSOCKET))
          BY <3>1, <4>1 DEF Trade, IInv, SeriesInv, SeriesType
        <5> QED BY <4>1, <5>1, RolloverInSession DEF RollsOver
      <4>2. CASE ~RollsOver(s, q)
        BY <3>1, <4>2 DEF Trade, CandlesInSession
      <4> QED BY <4>1, <4>2
    <3>4. Folded(s, q).epoch = MinuteOf(q.ltt)
          \/ (current[s] # None /\ Folded(s, q).epoch = current[s].epoch)
      <4>1. CASE current[s] = None \/ RollsOver(s, q)
        BY <4>1 DEF Folded
      <4>2. CASE ~(current[s] = None \/ RollsOver(s, q))
        <5>1. current[s] \in Forming
          BY <4>2 DEF IInv, SeriesInv, SeriesType
        <5> QED BY <4>2, <5>1 DEF Folded, Forming
      <4> QED BY <4>1, <4>2
    <3>5. current'[s] # None => InSession(current'[s].epoch)
      <4>1. current'[s] = Folded(s, q) \/ current'[s] = None \/ current'[s] = current[s]
        BY <3>1 DEF Trade, IInv, SeriesInv, SeriesType
      <4> QED BY <4>1, <3>2, <3>4 DEF CandlesInSession
    <3>6. \A x \in Stocks : x # s => rows'[x] = rows[x] /\ current'[x] = current[x]
      BY <3>1 DEF Trade, IInv, SeriesInv, SeriesType
    <3>7. ASSUME NEW x \in Stocks
          PROVE  /\ \A i \in DOMAIN rows'[x] : InSession(rows'[x][i].epoch)
                 /\ current'[x] # None => InSession(current'[x].epoch)
      BY <3>3, <3>5, <3>6 DEF CandlesInSession
    <3> QED BY <2>1, <3>7 DEF CandlesInSession, InSession, OpenOf, InSessionDay
  <2> QED BY <2>2, <2>3
<1>6. CASE MergeRow
  <2> DEFINE s == merging.sec
             b == Head(merging.todo)
             bar == Completed([b EXCEPT !.epoch = MinuteOf(@)], SOURCE_HISTORICAL)
  <2>1. s \in Stocks /\ merging.todo \in Seq(HistBars) /\ merging.todo # <<>>
    BY <1>6 DEF MergeRow, IInv, ThreadsType, MergeWork
  <2>2. b \in Forming
    BY <2>1, DataAssumption
  <2> HIDE DEF b
  <2>3. bar \in Row /\ bar.epoch = MinuteOf(b.epoch)
    <3>1. [b EXCEPT !.epoch = MinuteOf(@)] \in Forming
          /\ [b EXCEPT !.epoch = MinuteOf(@)].epoch = MinuteOf(b.epoch)
      BY <2>2, MinuteOfType DEF Forming
    <3> QED BY <3>1, CompletedType DEF Source
  <2> HIDE DEF bar
  <2>4. rows' = rows \/ (ValidBar(b) /\ rows' = [rows EXCEPT ![s] = PutCompleted(@, bar)])
    BY <1>6 DEF MergeRow, b, bar
  <2>5. date' = date /\ current' = current
    BY <1>6 DEF MergeRow
  <2>6. CASE rows' = rows
    BY <2>5, <2>6, <1>2
  <2>7. CASE ValidBar(b) /\ rows' = [rows EXCEPT ![s] = PutCompleted(@, bar)]
    <3>1. date # None
      BY <1>6 DEF MergeRow, MergeInSession
    <3>2. InSession(bar.epoch)
      BY <2>3, <2>7, <3>1 DEF ValidBar, InSession
    <3>3. rows[s] \in Seq(Row) /\ rows'[s] = PutCompleted(rows[s], bar)
      BY <2>1, <2>7 DEF IInv, SeriesInv, SeriesType
    <3>4. \A i \in DOMAIN rows'[s] : InSession(rows'[s][i].epoch)
      BY <2>1, <2>3, <3>2, <3>3, PutCompletedInSession DEF CandlesInSession
    <3>5. \A x \in Stocks : x # s => rows'[x] = rows[x]
      BY <2>1, <2>7 DEF IInv, SeriesInv, SeriesType
    <3> HIDE DEF s
    <3>6. ASSUME NEW x \in Stocks
          PROVE  /\ \A i \in DOMAIN rows'[x] : InSession(rows'[x][i].epoch)
                 /\ current'[x] # None => InSession(current'[x].epoch)
      BY <2>5, <3>4, <3>5 DEF CandlesInSession
    <3> QED BY <2>5, <3>6 DEF CandlesInSession, InSession, OpenOf, InSessionDay
  <2> QED BY <2>4, <2>6, <2>7
<1>7. CASE MergeEnd
  <2>1. date' = date /\ rows' = rows
    BY <1>7 DEF MergeEnd
  <2>2. \A x \in Stocks : current'[x] = None \/ current'[x] = current[x]
    BY <1>7 DEF MergeEnd, IInv, SeriesInv, SeriesType
  <2> QED BY <2>1, <2>2 DEF CandlesInSession, InSession, OpenOf, InSessionDay
<1>8. \/ date' = date /\ rows' = rows /\ current' = current
      \/ NewSeries \/ FinalizeDue \/ MergeRow \/ MergeEnd
      \/ \E f \in Feeds, s \in Stocks, q \in Quote : UpdateQuote(f, s, q)
  BY DEF Next, SessionThread, FeedThread, HistoryThread, vars, seriesVars, Tick, ConfigError,
         Begin, AuthFails, AuthSucceeds, SeedFromSnapshot, StartFeed, FeedStartFails, OpenMarket,
         ReplaceFeed, StopFeed, Reset, RecordFeedMessage, DropPacket, SetMarketReference,
         RecordLiveQuote, MergeHistory
<1> QED BY <1>2, <1>3, <1>4, <1>5, <1>6, <1>7, <1>8

\* No candle, from trades or from a historical response, is ever stored for a minute before
\* the open or outside the session's day, whenever the packet or the response arrives.
THEOREM NoCandleOutsideSession == Spec => []CandlesInSession
<1>1. Init => CandlesInSession /\ MergeInSession
  BY DEF Init, CandlesInSession, MergeInSession
<1> QED BY <1>1, InitIInv, NextIInv, NextMergeInSession, NextInSession, PTL DEF Spec

-----------------------------------------------------------------------------
(* Freshness.                                                              *)

\* An accepted packet is evidence of its stock that has not been counted yet.
AcceptedIsEvidence == accepted # None => evidence[accepted[1]]

\* Every step keeps it, and moves last_received only on such evidence.
LEMMA NextFresh ==
    IInv /\ AcceptedIsEvidence /\ [Next]_vars =>
        /\ AcceptedIsEvidence'
        /\ \A s \in Stocks : lastRecv'[s] # lastRecv[s] /\ lastRecv'[s] # None => evidence[s]
<1> SUFFICES ASSUME IInv, AcceptedIsEvidence, [Next]_vars
             PROVE  /\ AcceptedIsEvidence'
                    /\ \A s \in Stocks : lastRecv'[s] # lastRecv[s] /\ lastRecv'[s] # None => evidence[s]
  OBVIOUS
<1>0. evidence \in [Stocks -> BOOLEAN] /\ lastRecv \in [Stocks -> Nat \cup {None}]
      /\ accepted \in (Stocks \X Nat) \cup {None}
  BY DEF IInv, SeriesInv, SeriesType, ThreadsType
<1>1. CASE NewSeries /\ accepted' = None
  BY <1>1 DEF NewSeries, AcceptedIsEvidence
<1>2. CASE UNCHANGED <<accepted, lastRecv, evidence>>
  BY <1>2 DEF AcceptedIsEvidence
<1>3. ASSUME NEW f \in Feeds, NEW s \in Stocks, NEW q \in Quote, UpdateQuote(f, s, q)
      PROVE  AcceptedIsEvidence' /\ lastRecv' = lastRecv
  <2>1. evidence'[s] = (evidence[s] \/ Verdict(s, q, OpenIfDue) \in Evidence)
    BY <1>0, <1>3 DEF UpdateQuote
  <2>2. CASE Verdict(s, q, OpenIfDue) \in Evidence
    <3>1. accepted' = <<s, q.ltt>> /\ evidence'[s]
      BY <2>1, <2>2, <1>3 DEF UpdateQuote
    <3> QED BY <3>1, <1>3 DEF UpdateQuote, AcceptedIsEvidence
  <2>3. CASE Verdict(s, q, OpenIfDue) \notin Evidence
    BY <2>3, <1>3 DEF UpdateQuote, AcceptedIsEvidence
  <2> QED BY <2>2, <2>3
<1>4. ASSUME NEW f \in Feeds, RecordLiveQuote(f)
      PROVE  /\ AcceptedIsEvidence'
             /\ \A s \in Stocks : lastRecv'[s] # lastRecv[s] => evidence[s]
  <2>1. CASE UNCHANGED <<accepted, lastRecv, evidence>>
    BY <2>1 DEF AcceptedIsEvidence
  <2>2. CASE accepted' = None /\ UNCHANGED <<lastRecv, evidence>>
    BY <2>2 DEF AcceptedIsEvidence
  <2>3. CASE /\ accepted' = None /\ accepted = <<feed[f].sec, feed[f].ltt>>
             /\ lastRecv' = [lastRecv EXCEPT ![feed[f].sec] = clock]
    <3>0. <<feed[f].sec, feed[f].ltt>> \in (Stocks \cup {None}) \X (Nat \cup {None})
      BY DEF IInv, ThreadsType, FeedWork
    <3>1. accepted # None => evidence[feed[f].sec]
      BY <2>3 DEF AcceptedIsEvidence
    <3>2. CASE accepted = None
      BY <3>2, <2>3, <3>0, NoneAssumption
    <3>3. CASE accepted # None
      BY <3>1, <3>3, <2>3, <1>0 DEF AcceptedIsEvidence
    <3> QED BY <3>2, <3>3
  <2> QED BY <1>4, <2>1, <2>2, <2>3 DEF RecordLiveQuote
<1>5. \/ NewSeries /\ accepted' = None
      \/ UNCHANGED <<accepted, lastRecv, evidence>>
      \/ \E f \in Feeds : RecordLiveQuote(f)
      \/ \E f \in Feeds, s \in Stocks, q \in Quote : UpdateQuote(f, s, q)
  BY DEF Next, SessionThread, FeedThread, HistoryThread, vars, seriesVars, Tick, ConfigError,
         Begin, AuthFails, AuthSucceeds, SeedFromSnapshot, StartFeed, FeedStartFails, OpenMarket,
         FinalizeDue, ReplaceFeed, StopFeed, Reset, RecordFeedMessage, DropPacket,
         SetMarketReference, MergeHistory, MergeRow, MergeEnd
<1> QED BY <1>1, <1>2, <1>3, <1>4, <1>5, <1>0 DEF NewSeries

\* A stock becomes fresh only on a packet of its own that update_quote accepted, and one
\* accepted packet is counted once, whatever the feeds interleave.
THEOREM FreshOnlyOnEvidence == Spec => FreshOnEvidence
<1>1. Init => AcceptedIsEvidence
  BY DEF Init, AcceptedIsEvidence
<1>2. Spec => [](IInv /\ AcceptedIsEvidence)
  BY <1>1, InitIInv, NextIInv, NextFresh, PTL DEF Spec
<1>3. IInv /\ AcceptedIsEvidence /\ [Next]_vars
      => [\A s \in Stocks : lastRecv'[s] # lastRecv[s] /\ lastRecv'[s] # None => evidence[s]]_vars
  BY NextFresh
<1> QED BY <1>2, <1>3, PTL DEF Spec, FreshOnEvidence

-----------------------------------------------------------------------------
(* The version of the published content.                                   *)

\* A merge that has stored nothing yet left the rows as it found them.
UnstoredUnchanged ==
    merging # None => merging.stored \/ rows[merging.sec] = merging.before

\* Only the merge that holds the lock touches the rows while it runs.
LEMMA NextUnstored == IInv /\ UnstoredUnchanged /\ [Next]_vars => UnstoredUnchanged'
<1> SUFFICES ASSUME IInv, UnstoredUnchanged, [Next]_vars PROVE UnstoredUnchanged'
  OBVIOUS
<1>1. CASE merging' = None
  BY <1>1 DEF UnstoredUnchanged
<1>2. CASE UNCHANGED <<merging, rows>>
  BY <1>2 DEF UnstoredUnchanged
<1>3. CASE merging = None /\ merging' = merging
  BY <1>3 DEF UnstoredUnchanged
<1>4. ASSUME NEW s \in Stocks, NEW d \in 0 .. Day(clock), NEW bars \in Batches,
             MergeHistory(s, d, bars)
      PROVE  UnstoredUnchanged'
  BY <1>4 DEF MergeHistory, seriesVars, UnstoredUnchanged
<1>5. CASE MergeRow
  <2>1. merging \in MergeWork
    BY <1>5 DEF MergeRow, IInv, ThreadsType
  <2>2. \/ merging'.stored
        \/ rows' = rows /\ merging'.sec = merging.sec /\ merging'.before = merging.before
           /\ merging'.stored = merging.stored
    BY <1>5, <2>1 DEF MergeRow, MergeWork
  <2> QED BY <2>2, <1>5 DEF MergeRow, UnstoredUnchanged
<1>6. \/ merging' = None \/ UNCHANGED <<merging, rows>> \/ (merging = None /\ merging' = merging)
      \/ MergeRow
      \/ \E s \in Stocks, d \in 0 .. Day(clock), bars \in Batches : MergeHistory(s, d, bars)
  BY DEF Next, SessionThread, FeedThread, HistoryThread, vars, seriesVars, Unlocked, Tick,
         ConfigError, Begin, AuthFails, AuthSucceeds, SeedFromSnapshot, StartFeed,
         FeedStartFails, OpenMarket, FinalizeDue, ReplaceFeed, StopFeed, Reset,
         RecordFeedMessage, DropPacket, SetMarketReference, UpdateQuote, RecordLiveQuote, MergeEnd
<1> QED BY <1>1, <1>2, <1>3, <1>4, <1>5, <1>6

\* What no merge hides is what the variables hold.
LEMMA VisibleUnlocked ==
    merging = None => Visible = [date |-> date, status |-> status, refs |-> refs, rows |-> rows]
BY DEF Visible

\* A rollover that put_completed refuses leaves the rows alone.
LEMMA RefusedUnchanged ==
    ASSUME NEW rs, NEW row, Refused(rs, row)
    PROVE  PutCompleted(rs, row) = rs
BY DEF PutCompleted, Refused

\* A step that changes what a reader sees has moved version.
LEMMA NextTracked ==
    ASSUME IInv, UnstoredUnchanged, [Next]_vars, merging' = None, Visible' # Visible
    PROVE  bumped'
<1>0. /\ rows \in [Stocks -> Seq(Row)] /\ refs \in [Stocks -> RefValues \cup {None}]
      /\ merging \in MergeWork \cup {None}
  BY DEF IInv, SeriesInv, SeriesType, ThreadsType
<1>1. CASE UNCHANGED <<date, status, refs, rows, merging>>
  BY <1>1 DEF Visible
<1>2. CASE MergeEnd
  <2>1. merging \in MergeWork
    BY <1>2, <1>0 DEF MergeEnd
  <2>2. CASE merging.stored
    BY <1>2, <2>2 DEF MergeEnd
  <2>3. CASE ~merging.stored
    <3>1. rows[merging.sec] = merging.before /\ merging.sec \in Stocks
      BY <1>2, <2>1, <2>3 DEF UnstoredUnchanged, MergeEnd, MergeWork
    <3>2. [rows EXCEPT ![merging.sec] = merging.before] = rows
      BY <3>1, <1>0
    <3>3. Visible = [date |-> date, status |-> status, refs |-> refs, rows |-> rows]
      BY <3>2, <1>2 DEF Visible, MergeEnd
    <3>4. Visible' = [date |-> date, status |-> status, refs |-> refs, rows |-> rows]
      BY <1>2 DEF Visible, MergeEnd
    <3> QED BY <3>3, <3>4
  <2> QED BY <2>2, <2>3
<1>3. CASE merging = None
  <2>1. ~UNCHANGED <<date, status, refs, rows>>
    BY <1>3 DEF Visible
  <2>2. CASE SeedFromSnapshot
    <3>1. PICK S \in SUBSET Stocks, r \in RefValues :
               /\ refs' = [s \in Stocks |-> IF s \in S THEN r ELSE refs[s]]
               /\ bumped' = \E s \in S : refs[s] # r
      BY <2>2 DEF SeedFromSnapshot
    <3>2. CASE \A s \in S : refs[s] = r
      <4>1. refs' = refs
        BY <3>1, <3>2, <1>0
      <4> QED BY <4>1, <2>1, <2>2 DEF SeedFromSnapshot
    <3> QED BY <3>1, <3>2
  <2>3. CASE FinalizeDue
    <3> DEFINE S == {s \in Stocks : IsDue(s)}
               done(s) == Completed(current[s], SOURCE_WEBSOCKET)
    <3>1. CASE \E s \in S : ~Refused(rows[s], done(s))
      BY <3>1, <2>3 DEF FinalizeDue, CompleteCurrent
    <3>2. CASE \A s \in S : Refused(rows[s], done(s))
      <4>1. \A s \in Stocks : rows'[s] = rows[s]
        BY <3>2, <2>3, RefusedUnchanged DEF FinalizeDue, CompleteCurrent
      <4>2. DOMAIN rows' = Stocks /\ rows' = [s \in Stocks |-> rows'[s]]
        BY <2>3 DEF FinalizeDue, CompleteCurrent
      <4>3. rows' = rows
        BY <4>1, <4>2, <1>0
      <4> QED BY <4>3, <2>1, <2>3 DEF FinalizeDue
    <3> QED BY <3>1, <3>2
  <2>4. ASSUME NEW f \in Feeds, RecordFeedMessage(f) PROVE bumped'
    BY <2>1, <2>4 DEF RecordFeedMessage, seriesVars
  <2>5. ASSUME NEW f \in Feeds, NEW s \in Stocks, NEW r \in RefValues,
               SetMarketReference(f, s, r)
        PROVE  bumped'
    <3>1. CASE refs[s] = r
      <4>1. refs' = refs
        BY <2>5, <3>1, <1>0 DEF SetMarketReference
      <4> QED BY <4>1, <2>1, <2>5 DEF SetMarketReference
    <3> QED BY <2>5, <3>1 DEF SetMarketReference
  <2>6. ASSUME NEW f \in Feeds, NEW s \in Stocks, NEW q \in Quote, UpdateQuote(f, s, q)
        PROVE  bumped'
    <3> DEFINE st == OpenIfDue
               done == Completed(current[s], SOURCE_WEBSOCKET)
    <3>0. status' = st /\ date' = date /\ refs' = refs
      BY <2>6 DEF UpdateQuote
    <3>1. CASE st # status
      BY <3>1, <2>6 DEF UpdateQuote, Trade, NotATrade
    <3>2. CASE st = status
      <4>1. rows' # rows
        BY <3>0, <3>2, <2>1
      <4>2. Trade(s, q, st) /\ RollsOver(s, q)
        BY <4>1, <2>6 DEF UpdateQuote, Trade, NotATrade
      <4>3. rows' = [rows EXCEPT ![s] = PutCompleted(rows[s], done)]
            /\ bumped' = (st # status \/ ~Refused(rows[s], done))
        BY <4>2 DEF Trade
      <4>4. CASE Refused(rows[s], done)
        <5>1. PutCompleted(rows[s], done) = rows[s]
          BY <4>4, RefusedUnchanged
        <5>2. rows' = rows
          BY <5>1, <4>3, <1>0
        <5> QED BY <5>2, <4>1
      <4> QED BY <4>3, <4>4
    <3> QED BY <3>1, <3>2
  <2>7. bumped' \/ SeedFromSnapshot \/ FinalizeDue
        \/ (\E f \in Feeds : RecordFeedMessage(f))
        \/ (\E f \in Feeds, s \in Stocks, r \in RefValues : SetMarketReference(f, s, r))
        \/ (\E f \in Feeds, s \in Stocks, q \in Quote : UpdateQuote(f, s, q))
    BY <1>3, <2>1 DEF Next, SessionThread, FeedThread, HistoryThread, vars, seriesVars, Tick,
         ConfigError, Begin, AuthFails, AuthSucceeds, StartFeed, FeedStartFails, OpenMarket,
         ReplaceFeed, StopFeed, Reset, DropPacket, RecordLiveQuote, MergeHistory, MergeRow, MergeEnd
  <2> QED BY <2>2, <2>3, <2>4, <2>5, <2>6, <2>7
<1>4. UNCHANGED <<date, status, refs, rows, merging>> \/ MergeEnd \/ merging = None
  <2>1. CASE MergeRow
    <3>1. merging' \in MergeWork
      <4>1. merging \in MergeWork
        BY <2>1, <1>0 DEF MergeRow
      <4>2. merging.todo \in Seq(HistBars) /\ Tail(merging.todo) \in Seq(HistBars)
        BY <2>1, <4>1 DEF MergeRow, MergeWork
      <4> QED BY <2>1, <4>1, <4>2 DEF MergeRow, MergeWork
    <3> QED BY <3>1, NoneAssumption
  <2>2. CASE ~MergeRow
    BY <2>2 DEF Next, SessionThread, FeedThread, HistoryThread, vars, seriesVars, Unlocked, Tick,
         ConfigError, Begin, AuthFails, AuthSucceeds, SeedFromSnapshot, StartFeed,
         FeedStartFails, OpenMarket, FinalizeDue, ReplaceFeed, StopFeed, Reset,
         RecordFeedMessage, DropPacket, SetMarketReference, UpdateQuote, RecordLiveQuote,
         MergeHistory
  <2> QED BY <2>1, <2>2
<1> QED BY <1>1, <1>2, <1>3, <1>4

\* Whatever the threads interleave, published content never changes without version moving
\* before the lock is released: a peer that holds the version holds the content.
THEOREM ContentMovesVersion == Spec => VersionTracksContent
<1>1. Init => UnstoredUnchanged
  BY DEF Init, UnstoredUnchanged
<1>2. IInv /\ UnstoredUnchanged /\ [Next]_vars
      => [(merging' = None /\ Visible' # Visible) => bumped']_vars
  BY NextTracked
<1> QED BY <1>1, <1>2, InitIInv, NextIInv, NextUnstored, PTL DEF Spec, VersionTracksContent

-----------------------------------------------------------------------------
(* The day volume is counted once.                                         *)

\* What a candle contributes to WebSocketVolume.
Weight(row) == IF row.source = SOURCE_WEBSOCKET THEN row.volume ELSE 0

\* f[n] is the WebSocket-built volume of the first n candles.
IsSum(f, rs) ==
    /\ f \in [0 .. Len(rs) -> Int] /\ f[0] = 0
    /\ \A n \in 1 .. Len(rs) : f[n] = f[n - 1] + Weight(rs[n])

\* Candles weigh a natural number.
LEMMA WeightType == \A row \in Row : Weight(row) \in Nat
BY DEF Weight, Row

\* The partial sums of a sequence are unique.
LEMMA SumUnique ==
    ASSUME NEW rs \in Seq(Row), NEW f, NEW g, IsSum(f, rs), IsSum(g, rs)
    PROVE  f = g
<1> DEFINE S == {n \in 0 .. Len(rs) : f[n] # g[n]}
<1>0. Len(rs) \in Nat
  OBVIOUS
<1>1. S = {}
  <2> SUFFICES ASSUME S # {} PROVE FALSE
    OBVIOUS
  <2>1. PICK p \in S : \A i \in S : p <= i
    <3>1. S \in SUBSET Nat
      BY <1>0
    <3> HIDE DEF S
    <3> QED BY <3>1, LeastElement
  <2>2. p \in 1 .. Len(rs)
    BY <2>1, <1>0 DEF IsSum
  <2>3. f[p - 1] = g[p - 1]
    <3>1. p - 1 \notin S
      BY <2>1, <2>2, <1>0
    <3> QED BY <3>1, <2>2, <1>0
  <2> QED BY <2>1, <2>2, <2>3 DEF IsSum
<1>2. \A n \in 0 .. Len(rs) : f[n] = g[n]
  BY <1>1
<1> QED BY <1>2 DEF IsSum

\* Every sequence of candles has partial sums.
LEMMA SumExists ==
    ASSUME NEW rs \in Seq(Row)
    PROVE  \E f : IsSum(f, rs)
<1> DEFINE Upto(n, f) == /\ f \in [0 .. n -> Int] /\ f[0] = 0
                         /\ \A k \in 1 .. n : f[k] = f[k - 1] + Weight(rs[k])
           S == {n \in 0 .. Len(rs) : ~ \E f : Upto(n, f)}
<1>0. Len(rs) \in Nat
  OBVIOUS
<1>1. S = {}
  <2> SUFFICES ASSUME S # {} PROVE FALSE
    OBVIOUS
  <2>1. PICK p \in S : \A i \in S : p <= i
    <3>1. S \in SUBSET Nat
      BY <1>0
    <3> HIDE DEF S
    <3> QED BY <3>1, LeastElement
  <2>2. p # 0
    <3>1. Upto(0, [k \in 0 .. 0 |-> 0])
      OBVIOUS
    <3>2. \E f : Upto(0, f)
      BY <3>1
    <3> QED BY <3>2, <2>1
  <2>3. p \in 1 .. Len(rs) /\ p - 1 \in 0 .. Len(rs)
    BY <2>1, <2>2, <1>0
  <2>4. p - 1 \notin S
    <3> HIDE DEF S
    <3> QED BY <2>1, <2>3, <1>0
  <2>5. PICK f : Upto(p - 1, f)
    BY <2>3, <2>4
  <2> DEFINE g == [k \in 0 .. p |-> IF k = p THEN f[p - 1] + Weight(rs[p]) ELSE f[k]]
  <2>6. Weight(rs[p]) \in Int
    <3>1. rs[p] \in Row
      BY <2>3
    <3> QED BY <3>1, WeightType
  <2>7. Upto(p, g)
    <3>1. f[p - 1] \in Int /\ \A k \in 0 .. p - 1 : f[k] \in Int
      BY <2>3, <2>5
    <3>2. g \in [0 .. p -> Int] /\ g[0] = 0
      BY <2>3, <2>5, <2>6, <3>1
    <3>3. ASSUME NEW k \in 1 .. p PROVE g[k] = g[k - 1] + Weight(rs[k])
      BY <2>3, <2>5
    <3> QED BY <3>2, <3>3
  <2> QED BY <2>1, <2>7
<1>2. \E f : Upto(Len(rs), f)
  BY <1>0, <1>1
<1> QED BY <1>2 DEF IsSum

\* WebSocketVolume is the last partial sum.
LEMMA VolumeIsSum ==
    ASSUME NEW rs \in Seq(Row), NEW f, IsSum(f, rs)
    PROVE  WebSocketVolume(rs) = f[Len(rs)]
<1> DEFINE Rec(g) == [n \in 0 .. Len(rs) |->
                        IF n = 0 THEN 0
                        ELSE g[n - 1] + (IF rs[n].source = SOURCE_WEBSOCKET THEN rs[n].volume ELSE 0)]
           sum == CHOOSE g : g = Rec(g)
<1>0. Len(rs) \in Nat
  OBVIOUS
<1>1. f = Rec(f)
  BY <1>0 DEF IsSum, Weight
<1>2. sum = Rec(sum)
  BY <1>1
<1>3. IsSum(sum, rs)
  <2> HIDE DEF sum
  <2>1. DOMAIN sum = 0 .. Len(rs) /\ sum[0] = 0
    BY <1>0, <1>2
  <2>2. \A n \in 1 .. Len(rs) : sum[n] = sum[n - 1] + Weight(rs[n])
    BY <1>0, <1>2 DEF Weight
  <2> DEFINE S == {n \in 0 .. Len(rs) : sum[n] # f[n]}
  <2>3. S = {}
    <3> SUFFICES ASSUME S # {} PROVE FALSE
      OBVIOUS
    <3>1. PICK p \in S : \A i \in S : p <= i
      <4>1. S \in SUBSET Nat
        BY <1>0
      <4> HIDE DEF S
      <4> QED BY <4>1, LeastElement
    <3>2. p \in 1 .. Len(rs)
      BY <3>1, <2>1, <1>0 DEF IsSum
    <3>3. p - 1 \notin S /\ p - 1 \in 0 .. Len(rs)
      BY <3>1, <3>2, <1>0
    <3> QED BY <3>1, <3>2, <3>3, <2>2 DEF IsSum
  <2>4. \A n \in 0 .. Len(rs) : sum[n] \in Int
    BY <2>3 DEF IsSum
  <2>5. sum \in [0 .. Len(rs) -> Int]
    BY <1>2, <2>4
  <2> QED BY <2>1, <2>2, <2>5 DEF IsSum
<1>4. sum = f
  BY <1>3, SumUnique
<1>5. WebSocketVolume(rs) = sum[Len(rs)]
  BY DEF WebSocketVolume
<1> QED BY <1>4, <1>5

\* Storing a candle after all others adds its weight.
LEMMA VolumeAppend ==
    ASSUME NEW rs \in Seq(Row), NEW row \in Row
    PROVE  WebSocketVolume(Append(rs, row)) = WebSocketVolume(rs) + Weight(row)
<1> DEFINE new == Append(rs, row)
<1>0. Len(rs) \in Nat /\ Weight(row) \in Nat
  BY WeightType
<1>1. PICK f : IsSum(f, rs)
  BY SumExists
<1> DEFINE g == [n \in 0 .. Len(rs) + 1 |-> IF n = Len(rs) + 1 THEN f[Len(rs)] + Weight(row) ELSE f[n]]
<1>2. /\ new \in Seq(Row) /\ Len(new) = Len(rs) + 1
      /\ \A n \in 1 .. Len(rs) : new[n] = rs[n]
      /\ new[Len(rs) + 1] = row
  BY <1>0
<1> HIDE DEF new
<1>3. \A n \in 0 .. Len(rs) : f[n] \in Int
  BY <1>1 DEF IsSum
<1>4. g \in [0 .. Len(new) -> Int] /\ g[0] = 0
  BY <1>0, <1>1, <1>2, <1>3 DEF IsSum
<1>5. \A n \in 1 .. Len(new) : g[n] = g[n - 1] + Weight(new[n])
  <2> SUFFICES ASSUME NEW n \in 1 .. Len(new) PROVE g[n] = g[n - 1] + Weight(new[n])
    OBVIOUS
  <2>1. CASE n = Len(rs) + 1
    BY <2>1, <1>0, <1>2
  <2>2. CASE n \in 1 .. Len(rs)
    BY <2>2, <1>0, <1>1, <1>2 DEF IsSum
  <2> QED BY <2>1, <2>2, <1>0, <1>2
<1>6. IsSum(g, new)
  BY <1>4, <1>5 DEF IsSum
<1>7. WebSocketVolume(new) = g[Len(new)] /\ WebSocketVolume(rs) = f[Len(rs)]
  BY <1>1, <1>2, <1>6, VolumeIsSum
<1> QED BY <1>0, <1>2, <1>7 DEF new

\* Replacing a candle exchanges its weight.
LEMMA VolumeReplace ==
    ASSUME NEW rs \in Seq(Row), NEW row \in Row, NEW p \in 1 .. Len(rs)
    PROVE  WebSocketVolume([rs EXCEPT ![p] = row]) = WebSocketVolume(rs) - Weight(rs[p]) + Weight(row)
<1> DEFINE new == [rs EXCEPT ![p] = row]
           d == Weight(row) - Weight(rs[p])
<1>0. Len(rs) \in Nat /\ Weight(row) \in Nat /\ Weight(rs[p]) \in Nat /\ d \in Int
  BY WeightType
<1>1. PICK f : IsSum(f, rs)
  BY SumExists
<1> DEFINE g == [n \in 0 .. Len(rs) |-> IF n < p THEN f[n] ELSE f[n] + d]
<1>2. /\ new \in Seq(Row) /\ Len(new) = Len(rs)
      /\ \A n \in 1 .. Len(rs) : n # p => new[n] = rs[n]
      /\ new[p] = row
  BY <1>0
<1> HIDE DEF new
<1>3. \A n \in 0 .. Len(rs) : f[n] \in Int
  BY <1>1 DEF IsSum
<1>4. g \in [0 .. Len(new) -> Int] /\ g[0] = 0
  <2>1. \A n \in 0 .. Len(rs) : (IF n < p THEN f[n] ELSE f[n] + d) \in Int
    BY <1>0, <1>3
  <2> HIDE DEF d
  <2> QED BY <2>1, <1>0, <1>1, <1>2 DEF IsSum
<1>5. \A n \in 1 .. Len(new) : g[n] = g[n - 1] + Weight(new[n])
  <2> SUFFICES ASSUME NEW n \in 1 .. Len(new) PROVE g[n] = g[n - 1] + Weight(new[n])
    OBVIOUS
  <2>0. f[n] = f[n - 1] + Weight(rs[n]) /\ f[n] \in Int /\ f[n - 1] \in Int /\ Weight(rs[n]) \in Nat
    <3>1. n \in 1 .. Len(rs) /\ n \in 0 .. Len(rs) /\ n - 1 \in 0 .. Len(rs)
      BY <1>0, <1>2
    <3>2. f[n] = f[n - 1] + Weight(rs[n])
      BY <3>1, <1>1 DEF IsSum
    <3>3. rs[n] \in Row
      BY <3>1
    <3> HIDE DEF g, d
    <3> QED BY <3>1, <3>2, <3>3, <1>3, WeightType
  <2>1. CASE n < p
    BY <2>0, <2>1, <1>0, <1>2
  <2>2. CASE n = p
    <3>1. g[n] = f[n] + d /\ g[n - 1] = f[n - 1] /\ new[n] = row
      BY <2>2, <1>0, <1>2
    <3> QED BY <3>1, <2>0, <2>2, <1>0
  <2>3. CASE n > p
    <3>1. g[n] = f[n] + d /\ g[n - 1] = f[n - 1] + d /\ new[n] = rs[n]
      BY <2>3, <1>0, <1>2
    <3> HIDE DEF d
    <3> QED BY <3>1, <2>0, <1>0
  <2> QED BY <2>1, <2>2, <2>3, <1>0, <1>2
<1>6. IsSum(g, new)
  BY <1>4, <1>5 DEF IsSum
<1>7. WebSocketVolume(new) = g[Len(new)] /\ WebSocketVolume(rs) = f[Len(rs)]
  BY <1>1, <1>2, <1>6, VolumeIsSum
<1>8. g[Len(new)] = f[Len(rs)] + d /\ f[Len(rs)] \in Int
  BY <1>0, <1>2, <1>3
<1> QED BY <1>0, <1>7, <1>8 DEF new

\* Inserting a candle anywhere adds its weight.
LEMMA VolumeInsert ==
    ASSUME NEW rs \in Seq(Row), NEW row \in Row, NEW p \in 1 .. Len(rs) + 1
    PROVE  WebSocketVolume(InsertRow(rs, p, row)) = WebSocketVolume(rs) + Weight(row)
<1> DEFINE new == InsertRow(rs, p, row)
           w == Weight(row)
<1>0. Len(rs) \in Nat /\ w \in Nat
  BY WeightType
<1>1. PICK f : IsSum(f, rs)
  BY SumExists
<1> DEFINE g == [n \in 0 .. Len(rs) + 1 |-> IF n < p THEN f[n] ELSE f[n - 1] + w]
<1>2. /\ new \in Seq(Row) /\ Len(new) = Len(rs) + 1
      /\ \A n \in 1 .. Len(rs) + 1 : new[n] = IF n < p THEN rs[n] ELSE IF n = p THEN row ELSE rs[n - 1]
  <2> DEFINE h == [n \in 1 .. Len(rs) + 1 |-> IF n < p THEN rs[n] ELSE IF n = p THEN row ELSE rs[n - 1]]
  <2>1. \A n \in 1 .. Len(rs) + 1 : h[n] \in Row
    BY <1>0
  <2>2. h \in [1 .. Len(rs) + 1 -> Row]
    BY <2>1
  <2>3. h \in Seq(Row) /\ Len(h) = Len(rs) + 1
    <3>1. DOMAIN h = 1 .. Len(rs) + 1
      OBVIOUS
    <3> HIDE DEF h
    <3> QED BY <2>2, <3>1, <1>0
  <2> QED BY <2>3 DEF InsertRow
<1> HIDE DEF new, w
<1>3. \A n \in 0 .. Len(rs) : f[n] \in Int
  BY <1>1 DEF IsSum
<1>4. g \in [0 .. Len(new) -> Int] /\ g[0] = 0
  <2>1. \A n \in 0 .. Len(rs) + 1 : (IF n < p THEN f[n] ELSE f[n - 1] + w) \in Int
    BY <1>0, <1>3
  <2> QED BY <2>1, <1>0, <1>1, <1>2, SMTT(20) DEF IsSum
<1>5. \A n \in 1 .. Len(new) : g[n] = g[n - 1] + Weight(new[n])
  <2> SUFFICES ASSUME NEW n \in 1 .. Len(rs) + 1 PROVE g[n] = g[n - 1] + Weight(new[n])
    BY <1>2
  <2>1. CASE n < p
    BY <2>1, <1>0, <1>1, <1>2 DEF IsSum
  <2>2. CASE n = p
    BY <2>2, <1>0, <1>2 DEF w
  <2>3. CASE n > p
    <3>1. n - 1 \in 1 .. Len(rs) /\ n - 2 \in 0 .. Len(rs)
      BY <2>3, <1>0
    <3>2. g[n] = f[n - 1] + w /\ g[n - 1] = f[n - 2] + w /\ new[n] = rs[n - 1]
      BY <2>3, <1>0, <1>2
    <3>3. f[n - 1] = f[n - 2] + Weight(rs[n - 1])
      <4>1. n - 1 - 1 = n - 2
        OBVIOUS
      <4> QED BY <3>1, <4>1, <1>1 DEF IsSum
    <3>4. Weight(rs[n - 1]) \in Nat /\ f[n - 2] \in Int
      BY <3>1, <1>3, WeightType
    <3> QED BY <3>2, <3>3, <3>4, <1>0
  <2> QED BY <2>1, <2>2, <2>3, <1>0
<1>6. IsSum(g, new)
  BY <1>4, <1>5 DEF IsSum
<1>7. WebSocketVolume(new) = g[Len(new)] /\ WebSocketVolume(rs) = f[Len(rs)]
  BY <1>1, <1>2, <1>6, VolumeIsSum
<1>8. g[Len(new)] = f[Len(rs)] + w
  BY <1>0, <1>2
<1> QED BY <1>7, <1>8 DEF new, w

\* Without WebSocket-built candles there is no WebSocket volume.
LEMMA VolumeZero ==
    ASSUME NEW rs \in Seq(Row), \A i \in DOMAIN rs : rs[i].source # SOURCE_WEBSOCKET
    PROVE  WebSocketVolume(rs) = 0
<1> DEFINE f == [n \in 0 .. Len(rs) |-> 0]
<1>0. Len(rs) \in Nat
  OBVIOUS
<1>1. IsSum(f, rs)
  BY <1>0 DEF IsSum, Weight
<1>2. f[Len(rs)] = 0
  BY <1>0
<1> HIDE DEF f
<1> QED BY <1>1, <1>2, VolumeIsSum

\* The WebSocket volume is an integer.
LEMMA VolumeInt == \A rs \in Seq(Row) : WebSocketVolume(rs) \in Int
<1> SUFFICES ASSUME NEW rs \in Seq(Row) PROVE WebSocketVolume(rs) \in Int
  OBVIOUS
<1>1. PICK f : IsSum(f, rs)
  BY SumExists
<1>2. WebSocketVolume(rs) = f[Len(rs)]
  BY <1>1, VolumeIsSum
<1>3. Len(rs) \in Nat
  OBVIOUS
<1>4. Len(rs) \in 0 .. Len(rs)
  BY <1>3
<1> QED BY <1>1, <1>2, <1>4 DEF IsSum

\* put_completed counts the volume of a published candle that is newer than all
\* WebSocket-built ones, unless a historical bar refuses it.
LEMMA PublishedVolume ==
    ASSUME NEW rs \in Seq(Row), NEW row \in Row, row.source = SOURCE_WEBSOCKET,
           \A i \in DOMAIN rs : rs[i].source = SOURCE_WEBSOCKET => rs[i].epoch < row.epoch
    PROVE  \/ /\ PutCompleted(rs, row) = rs
              /\ \E i \in DOMAIN rs : rs[i].source # SOURCE_WEBSOCKET
           \/ WebSocketVolume(PutCompleted(rs, row)) = WebSocketVolume(rs) + row.volume
<1> DEFINE p == BisectLeft(rs, row.epoch)
<1>0. Weight(row) = row.volume /\ row.epoch \in Nat /\ SOURCE_HISTORICAL # SOURCE_WEBSOCKET
  BY DEF Weight, Row, SOURCE_HISTORICAL, SOURCE_WEBSOCKET
<1>1. p \in 1 .. Len(rs) + 1
  BY <1>0, BisectLeftExists DEF IsBisectLeft
<1>2. CASE IsAppend(rs, row)
  BY <1>0, <1>2, VolumeAppend DEF PutCompleted
<1>3. CASE ~IsAppend(rs, row) /\ p <= Len(rs) /\ rs[p].epoch = row.epoch
  <2>1. p \in DOMAIN rs /\ rs[p] \in Row
    BY <1>1, <1>3
  <2>2. rs[p].source # SOURCE_WEBSOCKET
    BY <1>0, <1>3, <2>1
  <2>3. rs[p].source = SOURCE_HISTORICAL
    BY <2>1, <2>2 DEF Row, Source
  <2>4. Refused(rs, row)
    BY <1>0, <1>3, <2>3 DEF Refused
  <2> QED BY <2>1, <2>2, <2>4, <1>3 DEF PutCompleted
<1>4. CASE ~IsAppend(rs, row) /\ ~(p <= Len(rs) /\ rs[p].epoch = row.epoch)
  <2>1. PutCompleted(rs, row) = InsertRow(rs, p, row)
    BY <1>4 DEF PutCompleted, Refused
  <2> HIDE DEF p
  <2> QED BY <2>1, <1>0, <1>1, VolumeInsert
<1> QED BY <1>2, <1>3, <1>4

\* A historical bar is stored whatever was there and adds no WebSocket volume.
LEMMA HistoricalVolume ==
    ASSUME NEW rs \in Seq(Row), NEW row \in Row, row.source = SOURCE_HISTORICAL
    PROVE  LET new == PutCompleted(rs, row) IN
           /\ WebSocketVolume(new) <= WebSocketVolume(rs)
           /\ \E i \in DOMAIN new : new[i].source # SOURCE_WEBSOCKET
<1> DEFINE p == BisectLeft(rs, row.epoch)
           new == PutCompleted(rs, row)
<1>0. Weight(row) = 0 /\ row.epoch \in Nat /\ row.source # SOURCE_WEBSOCKET /\ ~Refused(rs, row)
  BY DEF Weight, Row, Refused, SOURCE_HISTORICAL, SOURCE_WEBSOCKET
<1>1. p \in 1 .. Len(rs) + 1 /\ Len(rs) \in Nat
  <2>1. p \in 1 .. Len(rs) + 1
    BY <1>0, BisectLeftExists DEF IsBisectLeft
  <2> QED BY <2>1
<1>2. WebSocketVolume(rs) \in Int
  BY VolumeInt
<1>3. CASE IsAppend(rs, row)
  <2>1. new = Append(rs, row)
    BY <1>3 DEF PutCompleted
  <2> HIDE DEF new
  <2>2. WebSocketVolume(new) <= WebSocketVolume(rs)
    BY <2>1, <1>0, <1>2, VolumeAppend
  <2>3. Len(rs) + 1 \in DOMAIN new /\ new[Len(rs) + 1] = row
    BY <2>1, <1>1
  <2> QED BY <2>2, <2>3, <1>0 DEF new
<1>4. CASE ~IsAppend(rs, row) /\ p <= Len(rs) /\ rs[p].epoch = row.epoch
  <2>1. new = [rs EXCEPT ![p] = row] /\ p \in 1 .. Len(rs)
    BY <1>0, <1>1, <1>4 DEF PutCompleted
  <2> HIDE DEF new, p
  <2>2. WebSocketVolume(new) = WebSocketVolume(rs) - Weight(rs[p]) + Weight(row)
    BY <2>1, VolumeReplace
  <2>3. Weight(rs[p]) \in Nat
    BY <2>1, WeightType
  <2>4. WebSocketVolume(new) <= WebSocketVolume(rs)
    BY <2>2, <2>3, <1>0, <1>2
  <2>5. p \in DOMAIN new /\ new[p] = row
    BY <2>1
  <2> QED BY <2>4, <2>5, <1>0 DEF new
<1>5. CASE ~IsAppend(rs, row) /\ ~(p <= Len(rs) /\ rs[p].epoch = row.epoch)
  <2>1. new = InsertRow(rs, p, row)
    BY <1>0, <1>5 DEF PutCompleted
  <2> HIDE DEF new, p
  <2>2. WebSocketVolume(new) <= WebSocketVolume(rs)
    BY <2>1, <1>0, <1>1, <1>2, VolumeInsert
  <2>3. p \in DOMAIN new /\ new[p] = row
    BY <2>1, <1>1 DEF InsertRow
  <2> QED BY <2>2, <2>3, <1>0 DEF new
<1> QED BY <1>3, <1>4, <1>5

\* Before the first volume of a stock is known it has no candle of ours.
NoCandleYet(s) ==
    prevVol[s] = None => /\ current[s] = None
                         /\ \A i \in DOMAIN rows[s] : rows[s][i].source # SOURCE_WEBSOCKET

\* The last trade did not have more volume than the last packet: a repetition adds nothing.
LastTradeCounted(s) == lastKey[s] # None => prevVol[s] # None /\ lastKey[s][2] <= prevVol[s]

Counted(s) == WebSocketVolume(rows[s]) + FormingVolume(s)

\* No historical bar has taken a minute over.
Ours(rs) == \A i \in DOMAIN rs : rs[i].source = SOURCE_WEBSOCKET

VolumeOf(s) ==
    prevVol[s] # None =>
        /\ Counted(s) <= prevVol[s] - baseline[s]
        /\ Ours(rows[s]) => Counted(s) = prevVol[s] - baseline[s]

\* What one stock contributes to the invariant of the volumes.
VolumeInv(s) == NoCandleYet(s) /\ LastTradeCounted(s) /\ VolumeOf(s)

\* What the invariants give about one stock.
LEMMA StockFacts ==
    ASSUME IInv, NEW s \in Stocks
    PROVE  /\ rows[s] \in Seq(Row) /\ current[s] \in Forming \cup {None}
           /\ prevVol[s] \in Nat \cup {None} /\ baseline[s] \in Int \cup {None}
           /\ (prevVol[s] # None => prevVol[s] \in Nat /\ baseline[s] \in Int)
           /\ lastKey[s] \in (Nat \X Nat \X Nat) \cup {None}
           /\ WebSocketVolume(rows[s]) \in Int /\ FormingVolume(s) \in Nat
           /\ (current[s] # None => current[s] \in Forming /\ FormingVolume(s) = current[s].volume)
<1>1. /\ rows[s] \in Seq(Row) /\ current[s] \in Forming \cup {None}
      /\ prevVol[s] \in Nat \cup {None} /\ baseline[s] \in Int \cup {None}
      /\ (prevVol[s] # None => prevVol[s] \in Nat /\ baseline[s] \in Int)
      /\ lastKey[s] \in (Nat \X Nat \X Nat) \cup {None}
  BY DEF IInv, SeriesInv, SeriesType, BaselineKnown
<1>2. FormingVolume(s) \in Nat /\ (current[s] # None => FormingVolume(s) = current[s].volume)
  BY <1>1 DEF FormingVolume, Forming
<1> QED BY <1>1, <1>2, VolumeInt

\* Publishing the forming candle moves its volume to the rows, or drops it when a historical
\* bar already holds its minute; a historical bar stays.
LEMMA RolloverVolume ==
    ASSUME IInv, NEW s \in Stocks, current[s] # None
    PROVE  LET new == PutCompleted(rows[s], Completed(current[s], SOURCE_WEBSOCKET)) IN
           /\ \/ new = rows[s] /\ ~Ours(rows[s])
              \/ WebSocketVolume(new) = WebSocketVolume(rows[s]) + current[s].volume
           /\ Ours(new) => Ours(rows[s])
<1> DEFINE row == Completed(current[s], SOURCE_WEBSOCKET)
           new == PutCompleted(rows[s], row)
<1>1. current[s] \in Forming /\ rows[s] \in Seq(Row)
  BY StockFacts
<1>2. row \in Row /\ row.source = SOURCE_WEBSOCKET /\ row.epoch = current[s].epoch
  BY <1>1, CompletedType DEF Source
<1>3. row.volume = current[s].volume
  BY DEF Completed
<1>4. \A i \in DOMAIN rows[s] : rows[s][i].source = SOURCE_WEBSOCKET => rows[s][i].epoch < row.epoch
  BY <1>2 DEF IInv, SeriesInv, WebSocketBehindForming
<1> HIDE DEF row
<1>5. \/ new = rows[s] /\ ~Ours(rows[s])
      \/ WebSocketVolume(new) = WebSocketVolume(rows[s]) + row.volume
  BY <1>1, <1>2, <1>4, PublishedVolume DEF Ours
<1>6. \A j \in DOMAIN rows[s] : \E i \in DOMAIN new :
          \/ new[i] = rows[s][j]
          \/ new[i] = row /\ (row.source = SOURCE_HISTORICAL \/ rows[s][j].source # SOURCE_HISTORICAL)
  BY <1>1, <1>2, PutCompletedContents
<1>7. Ours(new) => Ours(rows[s])
  <2> HIDE DEF new
  <2> SUFFICES ASSUME Ours(new), NEW j \in DOMAIN rows[s] PROVE rows[s][j].source = SOURCE_WEBSOCKET
    BY DEF Ours
  <2>1. rows[s][j].source \in Source
    <3>1. rows[s][j] \in Row
      BY <1>1
    <3> QED BY <3>1 DEF Row
  <2>2. rows[s][j].source # SOURCE_HISTORICAL
    BY <1>2, <1>6 DEF Ours, SOURCE_HISTORICAL, SOURCE_WEBSOCKET
  <2> QED BY <2>1, <2>2 DEF Source
<1> QED BY <1>3, <1>5, <1>7 DEF row, new

\* A packet that is no trade keeps the accounts of its stock.
LEMMA NotATradeVolume ==
    ASSUME IInv, NEW s \in Stocks, NEW q \in Quote, NEW st, NotATrade(s, q, st), VolumeInv(s)
    PROVE  VolumeInv(s)'
<1> DEFINE v == Verdict(s, q, st)
<1>0. q.volume \in Nat /\ None \notin Int
  BY DataAssumption, NoneAssumption DEF Quote
<1>1. rows' = rows /\ current' = current /\ lastKey' = lastKey
  BY DEF NotATrade
<1>2. Counted(s)' = Counted(s)
  BY <1>1 DEF Counted, FormingVolume
<1>3. CASE v \notin Rebaselining
  BY <1>1, <1>2, <1>3 DEF NotATrade, VolumeInv, NoCandleYet, LastTradeCounted, VolumeOf
<1>4. CASE v \in Rebaselining
  <2>1. prevVol'[s] = q.volume
    BY <1>4 DEF NotATrade, IInv, SeriesInv, SeriesType
  <2>2. prevVol[s] # None => q.volume >= prevVol[s]
    BY <1>0, <1>4, StockFacts
    DEF Rebaselining, Verdict, NoTradeToday, VolumeRegressed, RepeatsLastTrade
  <2>3. NoCandleYet(s)' /\ LastTradeCounted(s)'
    BY <1>0, <1>1, <2>1, <2>2, StockFacts DEF VolumeInv, NoCandleYet, LastTradeCounted
  <2>4. CASE prevVol[s] = None
    <3>1. baseline'[s] = q.volume
      BY <1>4, <2>4 DEF NotATrade, IInv, SeriesInv, SeriesType
    <3>2. Counted(s) = 0
      <4>1. WebSocketVolume(rows[s]) = 0
        BY <2>4, VolumeZero, StockFacts DEF VolumeInv, NoCandleYet
      <4> QED BY <4>1, <2>4 DEF VolumeInv, NoCandleYet, Counted, FormingVolume
    <3> QED BY <1>0, <1>2, <2>1, <2>3, <3>1, <3>2 DEF VolumeInv, VolumeOf
  <2>5. CASE prevVol[s] # None
    <3>1. baseline'[s] = baseline[s] + q.volume - prevVol[s]
      <4>1. CASE v = "repeated"
        <5>1. q.volume = prevVol[s]
          BY <4>1, <2>5 DEF Verdict, RepeatsLastTrade
        <5>2. baseline'[s] = baseline[s]
          BY <4>1, <1>4, <2>5 DEF NotATrade, IInv, SeriesInv, SeriesType
        <5> QED BY <5>1, <5>2, <2>5, <1>0, StockFacts
      <4>2. CASE v # "repeated"
        BY <4>2, <1>4, <2>5 DEF NotATrade, IInv, SeriesInv, SeriesType
      <4> QED BY <4>1, <4>2
    <3>2. prevVol'[s] - baseline'[s] = prevVol[s] - baseline[s]
      BY <3>1, <2>1, <2>5, <1>0, StockFacts
    <3> QED BY <1>1, <1>2, <2>3, <2>5, <3>2 DEF VolumeInv, VolumeOf
  <2> QED BY <2>4, <2>5
<1> QED BY <1>3, <1>4

\* A trade keeps the accounts of its stock: what the day volume has grown by since the last
\* packet goes to the forming candle, and a repetition of the last trade grew by nothing.
LEMMA TradeVolume ==
    ASSUME IInv, NEW s \in Stocks, NEW q \in Quote, NEW st,
           Verdict(s, q, st) = "trade", Trade(s, q, st), VolumeInv(s)
    PROVE  VolumeInv(s)'
<1> DEFINE done == Completed(current[s], SOURCE_WEBSOCKET)
           delta == DeltaVolume(s, q)
           cur == IF TradeKey(q) # lastKey[s] THEN Folded(s, q)
                  ELSE IF RollsOver(s, q) THEN None ELSE current[s]
<1>0. q.volume \in Nat /\ q.ltt \in Nat /\ q.ltp \in Nat /\ None \notin Int
  <2>1. q.volume \in 0 .. MaxVol + 1 /\ q.ltt \in 0 .. MaxClock + FutureTol
    BY DEF Quote
  <2>2. q.ltp \in Prices
    BY DEF Verdict, Valid
  <2>3. q.volume \in Nat
    BY <2>1, DataAssumption
  <2>4. q.ltt \in Nat
    BY <2>1, TimeAssumption
  <2>5. q.ltp \in Nat
    BY <2>2, DataAssumption
  <2> QED BY <2>3, <2>4, <2>5, NoneAssumption
<1>1. TradeKey(q) \in Nat \X Nat \X Nat /\ TradeKey(q)[2] = q.volume /\ TradeKey(q) # None
  BY <1>0, NoneAssumption DEF TradeKey
<1>2. /\ prevVol'[s] = q.volume /\ lastKey'[s] = TradeKey(q) /\ current'[s] = cur
      /\ baseline'[s] = (IF prevVol[s] = None THEN q.volume ELSE baseline[s])
      /\ rows'[s] = IF RollsOver(s, q) THEN PutCompleted(rows[s], done) ELSE rows[s]
  BY DEF Trade, IInv, SeriesInv, SeriesType
<1>3. prevVol[s] # None => q.volume >= prevVol[s] /\ delta = q.volume - prevVol[s]
  <2>1. ~VolumeRegressed(s, q)
    BY DEF Verdict
  <2> QED BY <2>1, <1>0, StockFacts DEF VolumeRegressed, DeltaVolume
<1>4. delta \in Nat /\ (prevVol[s] = None => delta = 0)
  BY <1>0, <1>3, StockFacts DEF DeltaVolume
<1>5. TradeKey(q) = lastKey[s] => delta = 0
  BY <1>0, <1>1, <1>3, <1>4, StockFacts DEF VolumeInv, LastTradeCounted
<1>6. FormingVolume(s)' = delta + (IF RollsOver(s, q) THEN 0 ELSE FormingVolume(s))
  <2>1. FormingVolume(s)' = IF cur = None THEN 0 ELSE cur.volume
    BY <1>2 DEF FormingVolume
  <2>2. CASE TradeKey(q) = lastKey[s]
    BY <2>1, <2>2, <1>5, StockFacts DEF FormingVolume
  <2>3. CASE TradeKey(q) # lastKey[s]
    <3>1. cur = Folded(s, q)
      BY <2>3
    <3>2. CASE current[s] = None \/ RollsOver(s, q)
      <4> DEFINE bar == [epoch |-> MinuteOf(q.ltt), open |-> q.ltp, high |-> q.ltp, low |-> q.ltp,
                         close |-> q.ltp, volume |-> delta]
      <4>1. Folded(s, q) = bar
        BY <3>2 DEF Folded
      <4>2. bar \in Forming
        BY <1>0, <1>4, MinuteOfType DEF Forming
      <4>3. bar # None /\ bar.volume = delta
        BY <4>2, NoneAssumption
      <4>4. FormingVolume(s)' = delta
        BY <2>1, <3>1, <4>1, <4>3
      <4> HIDE DEF delta
      <4> QED BY <4>4, <3>2, <1>4 DEF FormingVolume
    <3>3. CASE ~(current[s] = None \/ RollsOver(s, q))
      <4>1. current[s] \in Forming /\ FormingVolume(s) = current[s].volume
        BY <3>3, StockFacts
      <4>2. MaxOf(current[s].high, q.ltp) \in Nat /\ MinOf(current[s].low, q.ltp) \in Nat
            /\ current[s].volume + delta \in Nat
        BY <4>1, <1>0, <1>4 DEF Forming, MaxOf, MinOf
      <4>3. Folded(s, q) \in Forming /\ Folded(s, q).volume = current[s].volume + delta
        BY <3>3, <4>1, <4>2, <1>0 DEF Folded, Forming
      <4>4. Folded(s, q) # None
        BY <4>3, NoneAssumption
      <4>5. FormingVolume(s)' = current[s].volume + delta
        BY <2>1, <3>1, <4>3, <4>4
      <4>6. current[s].volume \in Nat
        BY <4>1 DEF Forming
      <4> HIDE DEF delta
      <4> QED BY <4>1, <4>5, <4>6, <3>3, <1>4
    <3> QED BY <3>2, <3>3
  <2> QED BY <2>2, <2>3
<1> HIDE DEF delta, cur
<1>7. /\ Counted(s)' <= Counted(s) + delta
      /\ Ours(rows'[s]) => Ours(rows[s]) /\ Counted(s)' = Counted(s) + delta
  <2>0. WebSocketVolume(rows[s]) \in Int /\ FormingVolume(s) \in Nat
    BY StockFacts
  <2>1. CASE ~RollsOver(s, q)
    BY <2>0, <2>1, <1>2, <1>4, <1>6 DEF Counted
  <2>2. CASE RollsOver(s, q)
    <3>1. current[s] # None
      BY <2>2 DEF RollsOver
    <3>2. /\ \/ rows'[s] = rows[s] /\ ~Ours(rows[s])
             \/ WebSocketVolume(rows'[s]) = WebSocketVolume(rows[s]) + FormingVolume(s)
          /\ Ours(rows'[s]) => Ours(rows[s])
      BY <3>1, <2>2, <1>2, RolloverVolume, StockFacts
    <3> QED BY <2>0, <2>2, <3>2, <1>4, <1>6 DEF Counted
  <2> QED BY <2>1, <2>2
<1>8. VolumeOf(s)'
  <2>0. Counted(s) \in Int
    BY StockFacts DEF Counted
  <2>1. CASE prevVol[s] = None
    <3>1. current[s] = None /\ WebSocketVolume(rows[s]) = 0
      BY <2>1, VolumeZero, StockFacts DEF VolumeInv, NoCandleYet
    <3>2. Counted(s) = 0 /\ ~RollsOver(s, q)
      BY <3>1 DEF Counted, FormingVolume, RollsOver
    <3>3. Counted(s)' = 0
      BY <3>1, <3>2, <2>1, <1>2, <1>4, <1>6 DEF Counted, FormingVolume
    <3> QED BY <2>1, <3>3, <1>0, <1>2 DEF VolumeOf
  <2>2. CASE prevVol[s] # None
    <3>1. prevVol'[s] - baseline'[s] = prevVol[s] - baseline[s] + delta
          /\ prevVol[s] - baseline[s] \in Int
      BY <2>2, <1>0, <1>2, <1>3, StockFacts
    <3>2. Counted(s) <= prevVol[s] - baseline[s]
          /\ (Ours(rows[s]) => Counted(s) = prevVol[s] - baseline[s])
      BY <2>2 DEF VolumeInv, VolumeOf
    <3>3. Counted(s)' <= prevVol'[s] - baseline'[s]
      <4>1. Counted(s)' \in Int
        <5>1. rows'[s] \in Seq(Row)
          BY <1>2, StockFacts, RolloverRows DEF IInv, RollsOver
        <5> QED BY <5>1, <1>4, <1>6, VolumeInt, StockFacts DEF Counted
      <4> QED BY <4>1, <2>0, <3>1, <3>2, <1>4, <1>7
    <3>4. Ours(rows'[s]) => Counted(s)' = prevVol'[s] - baseline'[s]
      BY <3>1, <3>2, <1>7
    <3> QED BY <3>3, <3>4 DEF VolumeOf
  <2> QED BY <2>1, <2>2
<1>9. NoCandleYet(s)' /\ LastTradeCounted(s)'
  BY <1>0, <1>1, <1>2 DEF NoCandleYet, LastTradeCounted
<1> QED BY <1>8, <1>9 DEF VolumeInv

\* The accounts of a stock depend on its own series only.
LEMMA VolumeFrame ==
    ASSUME NEW s \in Stocks, VolumeInv(s), rows'[s] = rows[s], current'[s] = current[s],
           prevVol'[s] = prevVol[s], lastKey'[s] = lastKey[s], baseline'[s] = baseline[s]
    PROVE  VolumeInv(s)'
BY DEF VolumeInv, NoCandleYet, LastTradeCounted, VolumeOf, Counted, FormingVolume

\* A packet of one stock keeps the accounts of all.
LEMMA UpdateQuoteVolume ==
    ASSUME IInv, \A x \in Stocks : VolumeInv(x),
           NEW f \in Feeds, NEW s \in Stocks, NEW q \in Quote, UpdateQuote(f, s, q)
    PROVE  \A x \in Stocks : VolumeInv(x)'
<1> SUFFICES ASSUME NEW x \in Stocks PROVE VolumeInv(x)'
  OBVIOUS
<1> DEFINE st == OpenIfDue
<1>1. CASE Verdict(s, q, st) = "trade"
  <2>1. Trade(s, q, st)
    BY <1>1 DEF UpdateQuote
  <2>2. CASE x = s
    BY <2>1, <2>2, <1>1, TradeVolume
  <2>3. CASE x # s
    <3>1. /\ rows'[x] = rows[x] /\ current'[x] = current[x] /\ prevVol'[x] = prevVol[x]
          /\ lastKey'[x] = lastKey[x] /\ baseline'[x] = baseline[x]
      BY <2>1, <2>3 DEF Trade, IInv, SeriesInv, SeriesType
    <3> QED BY <3>1, VolumeFrame
  <2> QED BY <2>2, <2>3
<1>2. CASE Verdict(s, q, st) # "trade"
  <2>1. NotATrade(s, q, st)
    BY <1>2 DEF UpdateQuote
  <2>2. CASE x = s
    BY <2>1, <2>2, NotATradeVolume
  <2>3. CASE x # s
    <3>1. /\ rows'[x] = rows[x] /\ current'[x] = current[x] /\ prevVol'[x] = prevVol[x]
          /\ lastKey'[x] = lastKey[x] /\ baseline'[x] = baseline[x]
      BY <2>1, <2>3 DEF NotATrade, IInv, SeriesInv, SeriesType
    <3> QED BY <3>1, VolumeFrame
  <2> QED BY <2>2, <2>3
<1> QED BY <1>1, <1>2

\* finalize_due moves the volume of a forming candle to the rows.
LEMMA FinalizeVolume ==
    ASSUME IInv, \A x \in Stocks : VolumeInv(x), FinalizeDue
    PROVE  \A x \in Stocks : VolumeInv(x)'
<1> SUFFICES ASSUME NEW s \in Stocks PROVE VolumeInv(s)'
  OBVIOUS
<1>0. prevVol' = prevVol /\ lastKey' = lastKey /\ baseline' = baseline
  BY DEF FinalizeDue
<1>1. CASE ~IsDue(s)
  <2>1. rows'[s] = rows[s] /\ current'[s] = current[s]
    BY <1>1 DEF FinalizeDue, CompleteCurrent
  <2> QED BY <1>0, <2>1, VolumeFrame
<1>2. CASE IsDue(s)
  <2>1. current[s] # None /\ current'[s] = None
        /\ rows'[s] = PutCompleted(rows[s], Completed(current[s], SOURCE_WEBSOCKET))
    BY <1>2 DEF FinalizeDue, CompleteCurrent, IsDue
  <2>2. /\ \/ rows'[s] = rows[s] /\ ~Ours(rows[s])
           \/ WebSocketVolume(rows'[s]) = WebSocketVolume(rows[s]) + FormingVolume(s)
        /\ Ours(rows'[s]) => Ours(rows[s])
    BY <2>1, RolloverVolume, StockFacts
  <2>3. prevVol[s] # None
    BY <2>1 DEF VolumeInv, NoCandleYet
  <2>4. Counted(s)' = WebSocketVolume(rows'[s])
    <3>1. FormingVolume(s)' = 0
      BY <2>1 DEF FormingVolume
    <3>2. WebSocketVolume(rows'[s]) \in Int
      BY <2>1, RolloverRows, VolumeInt DEF IInv
    <3> QED BY <3>1, <3>2 DEF Counted
  <2>5. Counted(s)' <= Counted(s) /\ (Ours(rows'[s]) => Counted(s)' = Counted(s))
    BY <2>2, <2>4, StockFacts DEF Counted
  <2>6. Counted(s) <= prevVol[s] - baseline[s]
        /\ (Ours(rows[s]) => Counted(s) = prevVol[s] - baseline[s])
    BY <2>3 DEF VolumeInv, VolumeOf
  <2>7. VolumeOf(s)'
    <3>1. Counted(s) \in Int /\ Counted(s)' \in Int /\ prevVol[s] - baseline[s] \in Int
      BY <2>1, <2>3, <2>4, StockFacts, RolloverRows, VolumeInt DEF Counted, IInv
    <3> QED BY <3>1, <1>0, <2>2, <2>5, <2>6 DEF VolumeOf
  <2> QED BY <1>0, <2>3, <2>7 DEF VolumeInv, NoCandleYet, LastTradeCounted
<1> QED BY <1>1, <1>2

\* A historical bar only takes volume of ours away, and from then on some of it is not ours.
LEMMA MergeRowVolume ==
    ASSUME IInv, \A x \in Stocks : VolumeInv(x), MergeRow
    PROVE  \A x \in Stocks : VolumeInv(x)'
<1> DEFINE s == merging.sec
           b == Head(merging.todo)
           bar == Completed([b EXCEPT !.epoch = MinuteOf(@)], SOURCE_HISTORICAL)
<1>0. /\ prevVol' = prevVol /\ lastKey' = lastKey /\ baseline' = baseline /\ current' = current
      /\ rows' = rows \/ rows' = [rows EXCEPT ![s] = PutCompleted(@, bar)]
  BY DEF MergeRow
<1>1. s \in Stocks /\ merging.todo \in Seq(HistBars) /\ merging.todo # <<>>
  BY DEF MergeRow, IInv, ThreadsType, MergeWork
<1>2. b \in Forming
  BY <1>1, DataAssumption
<1> HIDE DEF b
<1>3. bar \in Row /\ bar.source = SOURCE_HISTORICAL
  <2>1. [b EXCEPT !.epoch = MinuteOf(@)] \in Forming
    BY <1>2, MinuteOfType DEF Forming
  <2> QED BY <2>1, CompletedType DEF Source
<1> HIDE DEF bar, s
<1> SUFFICES ASSUME NEW x \in Stocks PROVE VolumeInv(x)'
  OBVIOUS
<1>4. CASE rows'[x] = rows[x]
  BY <1>0, <1>4, VolumeFrame
<1>5. CASE x = s /\ rows'[s] = PutCompleted(rows[s], bar)
  <2>1. WebSocketVolume(rows'[x]) <= WebSocketVolume(rows[x]) /\ ~Ours(rows'[x])
        /\ rows'[x] \in Seq(Row)
    <3> DEFINE new == PutCompleted(rows[x], bar)
    <3>1. rows[x] \in Seq(Row)
      BY StockFacts
    <3>2. WebSocketVolume(new) <= WebSocketVolume(rows[x])
          /\ \E i \in DOMAIN new : new[i].source # SOURCE_WEBSOCKET
      BY <3>1, <1>3, HistoricalVolume
    <3>3. new \in Seq(Row) /\ rows'[x] = new
      BY <3>1, <1>3, <1>5, PutCompletedType
    <3> HIDE DEF new
    <3> QED BY <3>2, <3>3 DEF Ours
  <2>2. Counted(x)' <= Counted(x) /\ Counted(x) \in Int /\ Counted(x)' \in Int
    BY <1>0, <2>1, StockFacts, VolumeInt DEF Counted, FormingVolume
  <2>3. VolumeOf(x)'
    BY <1>0, <2>1, <2>2, StockFacts DEF VolumeInv, VolumeOf
  <2>4. NoCandleYet(x)'
    <3> SUFFICES ASSUME prevVol[x] = None
                 PROVE  current[x] = None /\ \A i \in DOMAIN rows'[x] : rows'[x][i].source # SOURCE_WEBSOCKET
      BY <1>0 DEF NoCandleYet
    <3>1. current[x] = None /\ \A i \in DOMAIN rows[x] : rows[x][i].source # SOURCE_WEBSOCKET
      BY DEF VolumeInv, NoCandleYet
    <3>2. \A i \in DOMAIN rows'[x] : rows'[x][i] = bar \/ \E j \in DOMAIN rows[x] : rows'[x][i] = rows[x][j]
      BY <1>3, <1>5, StockFacts, PutCompletedContents
    <3> QED BY <3>1, <3>2, <1>3 DEF SOURCE_HISTORICAL, SOURCE_WEBSOCKET
  <2> QED BY <1>0, <2>3, <2>4 DEF VolumeInv, LastTradeCounted
<1> QED BY <1>0, <1>1, <1>4, <1>5 DEF IInv, SeriesInv, SeriesType

\* The end of a merge drops a forming candle only when a historical bar holds its minute.
LEMMA MergeEndVolume ==
    ASSUME IInv, \A x \in Stocks : VolumeInv(x), MergeEnd
    PROVE  \A x \in Stocks : VolumeInv(x)'
<1> SUFFICES ASSUME NEW s \in Stocks PROVE VolumeInv(s)'
  OBVIOUS
<1>0. prevVol' = prevVol /\ lastKey' = lastKey /\ baseline' = baseline /\ rows' = rows
  BY DEF MergeEnd
<1>1. \/ current'[s] = current[s]
      \/ current'[s] = None /\ current[s] # None /\ current[s].epoch \in Epochs(rows[s])
  <2>1. current \in [Stocks -> Forming \cup {None}]
    BY DEF IInv, SeriesInv, SeriesType
  <2> QED BY <2>1 DEF MergeEnd
<1>2. CASE current'[s] = current[s]
  BY <1>0, <1>2, VolumeFrame
<1>3. CASE current'[s] = None /\ current[s] # None /\ current[s].epoch \in Epochs(rows[s])
  <2>1. PICK i \in DOMAIN rows[s] : rows[s][i].epoch = current[s].epoch
    BY <1>3 DEF Epochs
  <2>2. ~Ours(rows[s])
    <3>1. current[s].epoch \in Nat
      BY <1>3, StockFacts DEF Forming
    <3>2. rows[s][i].source = SOURCE_WEBSOCKET => rows[s][i].epoch < current[s].epoch
      BY <1>3 DEF IInv, SeriesInv, WebSocketBehindForming
    <3>3. rows[s][i].source # SOURCE_WEBSOCKET
      BY <2>1, <3>1, <3>2
    <3> QED BY <3>3 DEF Ours
  <2>3. Counted(s)' <= Counted(s) /\ Counted(s) \in Int /\ Counted(s)' \in Int
    BY <1>0, <1>3, StockFacts DEF Counted, FormingVolume
  <2> QED BY <1>0, <1>3, <2>2, <2>3, StockFacts
          DEF VolumeInv, NoCandleYet, LastTradeCounted, VolumeOf
<1> QED BY <1>1, <1>2, <1>3

\* seed_from_snapshot gives a stock without volume the baseline it starts from.
LEMMA SeedVolume ==
    ASSUME IInv, \A x \in Stocks : VolumeInv(x), SeedFromSnapshot
    PROVE  \A x \in Stocks : VolumeInv(x)'
<1> SUFFICES ASSUME NEW s \in Stocks PROVE VolumeInv(s)'
  OBVIOUS
<1>0. rows' = rows /\ current' = current /\ lastKey' = lastKey
  BY DEF SeedFromSnapshot
<1>1. \/ prevVol'[s] = prevVol[s] /\ baseline'[s] = baseline[s]
      \/ prevVol[s] = None /\ \E n \in Nat : prevVol'[s] = n /\ baseline'[s] = n
  <2>1. PICK S \in SUBSET Stocks, r \in RefValues : \E v \in [S -> 0 .. MaxVol] :
            /\ prevVol' = [x \in Stocks |-> IF x \in S /\ prevVol[x] = None THEN v[x] ELSE prevVol[x]]
            /\ baseline' = [x \in Stocks |-> IF x \in S /\ prevVol[x] = None THEN v[x] ELSE baseline[x]]
    BY DEF SeedFromSnapshot
  <2>2. PICK v \in [S -> 0 .. MaxVol] :
            /\ prevVol' = [x \in Stocks |-> IF x \in S /\ prevVol[x] = None THEN v[x] ELSE prevVol[x]]
            /\ baseline' = [x \in Stocks |-> IF x \in S /\ prevVol[x] = None THEN v[x] ELSE baseline[x]]
    BY <2>1
  <2>3. s \in S => v[s] \in Nat
    BY DataAssumption
  <2> QED BY <2>2, <2>3
<1>2. CASE prevVol'[s] = prevVol[s] /\ baseline'[s] = baseline[s]
  BY <1>0, <1>2, VolumeFrame
<1>3. CASE prevVol[s] = None /\ \E n \in Nat : prevVol'[s] = n /\ baseline'[s] = n
  <2>1. current[s] = None /\ WebSocketVolume(rows[s]) = 0
    BY <1>3, VolumeZero, StockFacts DEF VolumeInv, NoCandleYet
  <2>2. Counted(s)' = 0
    BY <1>0, <2>1 DEF Counted, FormingVolume
  <2>3. VolumeOf(s)'
    <3>1. PICK n \in Nat : prevVol'[s] = n /\ baseline'[s] = n
      BY <1>3
    <3> QED BY <2>2, <3>1 DEF VolumeOf
  <2> QED BY <1>0, <1>3, <2>3, NoneAssumption DEF VolumeInv, NoCandleYet, LastTradeCounted
<1> QED BY <1>1, <1>2, <1>3

\* Every step keeps the accounts of every stock.
LEMMA NextVolumeInv ==
    IInv /\ (\A s \in Stocks : VolumeInv(s)) /\ [Next]_vars => (\A s \in Stocks : VolumeInv(s))'
<1> SUFFICES ASSUME IInv, \A s \in Stocks : VolumeInv(s), [Next]_vars
             PROVE  \A s \in Stocks : VolumeInv(s)'
  OBVIOUS
<1>1. CASE NewSeries
  BY <1>1 DEF NewSeries, VolumeInv, NoCandleYet, LastTradeCounted, VolumeOf
<1>2. CASE UNCHANGED <<rows, current, prevVol, lastKey, baseline>>
  BY <1>2, VolumeFrame
<1>3. \/ NewSeries \/ FinalizeDue \/ SeedFromSnapshot \/ MergeRow \/ MergeEnd
      \/ UNCHANGED <<rows, current, prevVol, lastKey, baseline>>
      \/ \E f \in Feeds, s \in Stocks, q \in Quote : UpdateQuote(f, s, q)
  BY DEF Next, SessionThread, FeedThread, HistoryThread, vars, seriesVars, Tick, ConfigError,
         Begin, AuthFails, AuthSucceeds, StartFeed, FeedStartFails, OpenMarket, ReplaceFeed,
         StopFeed, Reset, RecordFeedMessage, DropPacket, SetMarketReference, RecordLiveQuote,
         MergeHistory
<1> QED BY <1>1, <1>2, <1>3, FinalizeVolume, SeedVolume, MergeRowVolume, MergeEndVolume,
           UpdateQuoteVolume

\* Dhan's day volume is attributed to the node's own candles at most once, whatever is lost,
\* late, repeated, seeded, re-based before the open or taken over by historical bars; and
\* exactly once until a historical bar takes a minute over.
THEOREM VolumeNeverCountedTwice == Spec => []VolumeCountedOnce
<1>1. Init => \A s \in Stocks : VolumeInv(s)
  BY DEF Init, VolumeInv, NoCandleYet, LastTradeCounted, VolumeOf
<1>2. (\A s \in Stocks : VolumeInv(s)) => VolumeCountedOnce
  BY DEF VolumeInv, VolumeOf, VolumeCountedOnce, Counted, Ours
<1> QED BY <1>1, <1>2, InitIInv, NextIInv, NextVolumeInv, PTL DEF Spec
=============================================================================
