------------------------- MODULE EquitySessionProofs -------------------------
(* Theorems about EquitySession, for every value of its constants.         *)
EXTENDS EquitySession, FiniteSetTheorems, WellFoundedInduction, NaturalsInduction, TLAPS

Dates == 0 .. Days - 1
Job == [sid : Sids, from : Times, to : Times]
Store == [date : Dates \cup {None},
          status : {"CLOSED", "AUTHENTICATING", "AUTH_WAITING", "AUTH_ERROR", "LIVE"},
          reconnects : Nat,
          candles : [Sids -> SUBSET Candle],
          cur : [Sids -> Times \cup {None}]]

\* Type correctness.
Typed ==
    /\ now \in Times /\ state \in Store
    /\ spc \in {"wait", "auth", "snapshot", "check", "joinfeed", "joinhistory", "archived", "gone"}
    /\ stick \in Times /\ started \in Dates \cup {None} /\ lastSeen \in Nat /\ cooling \in BOOLEAN
    /\ mpc \in {"up", "joinfeed", "joinhistory", "joinself", "down"}
    /\ flags \subseteq {"stop", "history", "feed", "backfill"}
    /\ fth \in [Slots -> {"dead", "connect", "open"}]
    /\ hist \in [Sids -> [pc : {"done", "ask", "asked", "failed"}, left : Int, at : Times]]
    /\ pass \in 0 .. 2
    /\ queue \in Seq(Job) /\ wk \in [Workers -> Job \cup {None}]

Today == DayOf(now)
Hour == now % DayLen

\* Where the session thread is tells the time of day, and a running session is today's.
Schedule ==
    /\ started # None => started = Today /\ is_trading_day(Today) /\ Hour >= Open
    /\ spc \in {"auth", "snapshot"} => is_trading_day(Today) /\ Hour >= Open
    /\ spc \in {"auth", "snapshot", "check"} => DayOf(stick) = Today /\ stick <= now
    /\ spc = "snapshot" => started = Today
    /\ spc = "auth" => started = None
    /\ spc \in {"joinfeed", "joinhistory", "archived"} => Hour >= Close /\ started = Today

\* What stop() has done so far.
Stopping ==
    /\ "stop" \in flags <=> mpc # "up"
    /\ mpc # "up" => "history" \in flags
    /\ mpc \in {"joinhistory", "joinself", "down"} <=> "backfill" \in flags
    /\ mpc \in {"joinself", "down"} => state.date = None
    /\ mpc = "down" => spc = "gone"

\* What is asked for is of today.
Jobs == {queue[i] : i \in DOMAIN queue} \cup {wk[w] : w \in {v \in Workers : wk[v] # None}}
Requests ==
    /\ \A j \in Jobs : DayOf(j.from) = Today /\ j.to <= now
    /\ \A s \in Sids : hist[s].pc = "asked" => DayOf(hist[s].at) = Today /\ hist[s].at <= now

Busy == Loading \/ pass = 1 \/ Jobs # {}
Asked == \E s \in Sids : hist[s].pc = "asked"
Empty == \A s \in Sids : state.candles[s] = {} /\ state.cur[s] = None

\* Whose session the store is in.
Owner ==
    /\ state.status = "LIVE" => started # None
    /\ started # None => state.date \in {None, Today}
    /\ spc = "auth" => Empty /\ ~Busy /\ (state.date = Today \/ mpc \in {"joinself", "down"})
    /\ state.date # None /\ started = None => Empty /\ ~Busy
    /\ state.date = None /\ state.status = "LIVE" =>
          Empty /\ Jobs = {} /\ ~Asked /\ mpc \in {"joinself", "down"}
    /\ Busy => state.date \in {None, Today}
    /\ Busy /\ started = None => Hour >= Close

\* Every candle of a session that has a date is of that date.
OfItsDate ==
    state.date # None =>
        \A s \in Sids : \A m \in MinutesOf(state.candles[s]) \cup ({state.cur[s]} \ {None}) :
            DayOf(m) = state.date

\* No security is queued or in work twice.
Distinct ==
    /\ \A i, j \in DOMAIN queue : queue[i].sid = queue[j].sid => i = j
    /\ \A w, v \in Workers : wk[w] # None /\ wk[v] # None /\ wk[w].sid = wk[v].sid => w = v
    /\ \A i \in DOMAIN queue : \A w \in Workers : wk[w] # None => wk[w].sid # queue[i].sid

DayInv == Typed /\ Schedule /\ Stopping /\ Requests /\ Owner /\ OfItsDate
BackfillInv == Typed /\ Distinct /\ QueuedExact

-----------------------------------------------------------------------------
(* Days and minutes.                                                       *)

\* The constants' types, as the proofs cite them.
LEMMA Numbers ==
    /\ DayLen \in Nat /\ DayLen > 0 /\ Open \in Nat /\ Close \in Nat /\ Open < Close
    /\ Close < DayLen
    /\ 2 * (Close - Open) < DayLen /\ Days \in Nat /\ Days > 0 /\ Retries \in Nat /\ Retries > 0
    /\ MaxReconnects \in Nat /\ IsFiniteSet(Sids)
BY SessionAssumption

\* A day and a place in it determine a minute ...
LEMMA DayUnique ==
    ASSUME NEW t \in Nat, NEW d \in Int, NEW r \in 0 .. DayLen - 1, t = DayLen * d + r
    PROVE  DayOf(t) = d /\ t % DayLen = r
BY Numbers DEF DayOf

\* ... and every minute has them.
LEMMA DayParts ==
    ASSUME NEW t \in Nat
    PROVE  /\ DayOf(t) \in Nat /\ t % DayLen \in 0 .. DayLen - 1
           /\ t = DayLen * DayOf(t) + (t % DayLen)
BY Numbers DEF DayOf

\* A later minute is not of an earlier day.
LEMMA DayOrder ==
    ASSUME NEW t \in Nat, NEW u \in Nat, t <= u
    PROVE  DayOf(t) <= DayOf(u)
<1>1. PICK d \in Nat, e \in Nat, r \in 0 .. DayLen - 1, s \in 0 .. DayLen - 1 :
         /\ d = DayOf(t) /\ e = DayOf(u) /\ t = DayLen * d + r /\ u = DayLen * e + s
  <2>1. /\ DayOf(t) \in Nat /\ t % DayLen \in 0 .. DayLen - 1
        /\ t = DayLen * DayOf(t) + (t % DayLen)
    BY DayParts
  <2>2. /\ DayOf(u) \in Nat /\ u % DayLen \in 0 .. DayLen - 1
        /\ u = DayLen * DayOf(u) + (u % DayLen)
    BY DayParts
  <2> QED BY <2>1, <2>2, Zenon
<1>2. SUFFICES ASSUME e + 1 <= d PROVE FALSE BY <1>1
<1>3. DayLen * (e + 1) <= DayLen * d
  <2>1. \A a, b, c \in Nat : a <= b => c * a <= c * b OBVIOUS
  <2> QED BY <2>1, <1>2, Numbers
<1>4. DayLen * (e + 1) = DayLen * e + DayLen BY Numbers
<1>5. DayLen * e \in Nat /\ DayLen * d \in Nat BY Numbers
<1> QED BY <1>1, <1>3, <1>4, <1>5, Numbers

\* A minute between two of one day is of that day.
LEMMA DayBetween ==
    ASSUME NEW t \in Nat, NEW m \in Nat, NEW u \in Nat, t <= m, m <= u, DayOf(t) = DayOf(u)
    PROVE  DayOf(m) = DayOf(t)
<1>1. DayOf(t) <= DayOf(m) /\ DayOf(m) <= DayOf(u) BY DayOrder
<1>2. DayOf(t) \in Nat /\ DayOf(m) \in Nat BY DayParts
<1> HIDE DEF DayOf
<1> QED BY <1>1, <1>2

\* The next minute is the next one of the day, or of the next day.
LEMMA DayNext ==
    ASSUME NEW t \in Nat, DayOf(t + 1) = DayOf(t)
    PROVE  (t + 1) % DayLen = (t % DayLen) + 1
<1>1. PICK d \in Nat, r \in 0 .. DayLen - 1, s \in 0 .. DayLen - 1 :
         /\ d = DayOf(t) /\ r = t % DayLen /\ s = (t + 1) % DayLen
         /\ t = DayLen * d + r /\ t + 1 = DayLen * DayOf(t + 1) + s
  <2>1. /\ DayOf(t) \in Nat /\ t % DayLen \in 0 .. DayLen - 1
        /\ t = DayLen * DayOf(t) + (t % DayLen)
    BY DayParts
  <2>2. t + 1 \in Nat OBVIOUS
  <2>3. (t + 1) % DayLen \in 0 .. DayLen - 1 /\ t + 1 = DayLen * DayOf(t + 1) + ((t + 1) % DayLen)
    BY <2>2, DayParts
  <2> QED BY <2>1, <2>3, Zenon
<1>2. t + 1 = DayLen * d + s BY <1>1, Zenon
<1>3. DayLen * d \in Nat BY Numbers
<1>4. s = r + 1 BY <1>1, <1>2, <1>3
<1> QED BY <1>1, <1>4

-----------------------------------------------------------------------------
(* Writes to the store.                                                    *)

\* The minutes a store holds of a security, formed or forming.
Held(st, s) == MinutesOf(st.candles[s]) \cup ({st.cur[s]} \ {None})

\* A write adds candles of some minutes at most, and keeps every historical one.
Writes(st, next, minutes) ==
    /\ next \in Store /\ next.date = st.date /\ next.status = st.status
    /\ \A s \in Sids : Held(next, s) \subseteq Held(st, s) \cup minutes
    /\ \A s \in Sids : \A c \in st.candles[s] : c.src = "HIST" => c \in next.candles[s]

\* Prefer adds no other minute and drops no historical candle.
LEMMA PreferKeeps ==
    ASSUME NEW rows \in SUBSET Candle, NEW new \in SUBSET Candle
    PROVE  /\ Prefer(rows, new) \in SUBSET Candle
           /\ MinutesOf(Prefer(rows, new)) \subseteq MinutesOf(rows) \cup MinutesOf(new)
           /\ \A c \in rows : c.src = "HIST" => c \in Prefer(rows, new)
<1> DEFINE kept == {c \in rows : \A n \in new :
                       n.minute = c.minute => c.src = "HIST" /\ n.src # "HIST"}
           P == kept \cup {n \in new : n.minute \notin MinutesOf(kept)}
<1>1. Prefer(rows, new) = P BY DEF Prefer
<1>2. P \in SUBSET Candle /\ P \subseteq rows \cup new OBVIOUS
<1>3. MinutesOf(P) \subseteq MinutesOf(rows) \cup MinutesOf(new) BY <1>2 DEF MinutesOf
<1>4. ASSUME NEW c \in rows, c.src = "HIST" PROVE c \in P
  <2>1. CASE c \in kept BY <2>1
  <2>2. CASE c \notin kept
    <3>1. PICK n \in new : n.minute = c.minute /\ n.src = "HIST" BY <1>4, <2>2
    <3>2. n = c
      <4>1. n \in Candle /\ c \in Candle BY <3>1
      <4> QED BY <3>1, <4>1, <1>4 DEF Candle
    <3>3. n.minute \notin MinutesOf(kept)
      <4>1. ASSUME NEW k \in kept, k.minute = n.minute PROVE FALSE BY <3>1, <4>1
      <4> QED BY <4>1 DEF MinutesOf
    <3> QED BY <3>1, <3>2, <3>3
  <2> QED BY <2>1, <2>2
<1> QED BY <1>1, <1>2, <1>3, <1>4

\* A store with new candles and a new forming minute of one security is a store.
LEMMA StoreFields ==
    ASSUME NEW st \in Store
    PROVE  /\ st.candles \in [Sids -> SUBSET Candle] /\ st.cur \in [Sids -> Times \cup {None}]
           /\ st.date \in Dates \cup {None} /\ st.reconnects \in Nat
           /\ \A f \in [Sids -> SUBSET Candle], g \in [Sids -> Times \cup {None}] :
                 [st EXCEPT !.candles = f, !.cur = g] \in Store
BY DEF Store

LEMMA Built1 ==
    ASSUME NEW m \in Times
    PROVE  Built(m) \in SUBSET Candle /\ MinutesOf(Built(m)) = {m}
BY DEF Built, Candle, Sources, MinutesOf

\* The historical merge is a write of its minutes.
LEMMA MergeWrites ==
    ASSUME NEW st \in Store, NEW x \in Sids, NEW minutes \in SUBSET Times
    PROVE  Writes(st, merge_today_1m_history(st, x, minutes), minutes)
<1> DEFINE new == {[minute |-> m, src |-> "HIST"] : m \in minutes}
           rows == Prefer(st.candles[x], new)
           c == IF st.cur[x] \in MinutesOf(rows) THEN None ELSE st.cur[x]
           next == [st EXCEPT !.candles = [st.candles EXCEPT ![x] = rows],
                              !.cur = [st.cur EXCEPT ![x] = c]]
<1>1. merge_today_1m_history(st, x, minutes) = next BY DEF merge_today_1m_history
<1>2. st.candles \in [Sids -> SUBSET Candle] /\ st.cur \in [Sids -> Times \cup {None}]
  BY StoreFields
<1>3. new \in SUBSET Candle /\ MinutesOf(new) = minutes
  <2>1. ASSUME NEW m \in minutes PROVE [minute |-> m, src |-> "HIST"] \in Candle
    BY DEF Candle, Sources
  <2>2. MinutesOf(new) \subseteq minutes BY DEF MinutesOf
  <2>3. ASSUME NEW m \in minutes PROVE m \in MinutesOf(new)
    <3>1. [minute |-> m, src |-> "HIST"] \in new OBVIOUS
    <3> QED BY <3>1 DEF MinutesOf
  <2> QED BY <2>1, <2>2, <2>3
<1>4. /\ rows \in SUBSET Candle
      /\ MinutesOf(rows) \subseteq MinutesOf(st.candles[x]) \cup minutes
      /\ \A k \in st.candles[x] : k.src = "HIST" => k \in rows
  <2>1. st.candles[x] \in SUBSET Candle BY <1>2
  <2> HIDE DEF new
  <2> QED BY <1>3, <2>1, PreferKeeps
<1>5. c \in {st.cur[x], None} /\ c \in Times \cup {None} BY <1>2
<1> HIDE DEF new, rows, c
<1>6. /\ [st.candles EXCEPT ![x] = rows] \in [Sids -> SUBSET Candle]
      /\ [st.cur EXCEPT ![x] = c] \in [Sids -> Times \cup {None}]
  BY <1>2, <1>4, <1>5
<1>7. next \in Store BY <1>6, StoreFields
<1>8. /\ next.date = st.date /\ next.status = st.status
      /\ next.candles = [st.candles EXCEPT ![x] = rows] /\ next.cur = [st.cur EXCEPT ![x] = c]
  BY DEF Store
<1> HIDE DEF next
<1>9. ASSUME NEW s \in Sids
      PROVE  /\ Held(next, s) \subseteq Held(st, s) \cup minutes
             /\ \A k \in st.candles[s] : k.src = "HIST" => k \in next.candles[s]
  <2>1. CASE s = x BY <2>1, <1>2, <1>4, <1>5, <1>8 DEF Held
  <2>2. CASE s # x BY <2>2, <1>2, <1>8 DEF Held
  <2> QED BY <2>1, <2>2
<1> QED BY <1>1, <1>7, <1>8, <1>9 DEF Writes

\* A packet is a write of its minute.
LEMMA QuoteWrites ==
    ASSUME NEW st \in Store, NEW x \in Sids, NEW m \in Times
    PROVE  Writes(st, update_quote(st, x, m), {m})
<1>2. st.candles \in [Sids -> SUBSET Candle] /\ st.cur \in [Sids -> Times \cup {None}]
  BY StoreFields
<1>3. CASE st.cur[x] = None
  <2> DEFINE next == [st EXCEPT !.cur = [st.cur EXCEPT ![x] = m]]
  <2>1. update_quote(st, x, m) = next BY <1>3 DEF update_quote
  <2>2. next = [st EXCEPT !.candles = st.candles, !.cur = [st.cur EXCEPT ![x] = m]] BY DEF Store
  <2>3. [st.cur EXCEPT ![x] = m] \in [Sids -> Times \cup {None}] BY <1>2
  <2>4. next \in Store BY <1>2, <2>2, <2>3, StoreFields
  <2>5. /\ next.date = st.date /\ next.status = st.status
        /\ next.candles = st.candles /\ next.cur = [st.cur EXCEPT ![x] = m]
    BY DEF Store
  <2> HIDE DEF next
  <2> QED BY <1>2, <2>1, <2>4, <2>5 DEF Writes, Held
<1>4. CASE st.cur[x] # None /\ m <= st.cur[x]
  BY <1>4 DEF Writes, Held, update_quote
<1>5. CASE st.cur[x] # None /\ ~(m <= st.cur[x])
  <2> DEFINE rows == Prefer(st.candles[x], Built(st.cur[x]))
             next == [st EXCEPT !.candles = [st.candles EXCEPT ![x] = rows],
                                !.cur = [st.cur EXCEPT ![x] = m]]
  <2>1. update_quote(st, x, m) = next BY <1>5 DEF update_quote
  <2>2. st.cur[x] \in Times BY <1>2, <1>5
  <2>3. /\ rows \in SUBSET Candle
        /\ MinutesOf(rows) \subseteq MinutesOf(st.candles[x]) \cup {st.cur[x]}
        /\ \A k \in st.candles[x] : k.src = "HIST" => k \in rows
    <3>1. st.candles[x] \in SUBSET Candle BY <1>2
    <3> QED BY <2>2, <3>1, Built1, PreferKeeps
  <2> HIDE DEF rows
  <2>4. /\ [st.candles EXCEPT ![x] = rows] \in [Sids -> SUBSET Candle]
        /\ [st.cur EXCEPT ![x] = m] \in [Sids -> Times \cup {None}]
    BY <1>2, <2>3
  <2>5. next \in Store BY <2>4, StoreFields
  <2>6. /\ next.date = st.date /\ next.status = st.status
        /\ next.candles = [st.candles EXCEPT ![x] = rows] /\ next.cur = [st.cur EXCEPT ![x] = m]
    BY DEF Store
  <2> HIDE DEF next
  <2>7. ASSUME NEW s \in Sids
        PROVE  /\ Held(next, s) \subseteq Held(st, s) \cup {m}
               /\ \A k \in st.candles[s] : k.src = "HIST" => k \in next.candles[s]
    <3>1. CASE s = x BY <3>1, <1>2, <1>5, <2>3, <2>6 DEF Held
    <3>2. CASE s # x BY <3>2, <1>2, <2>6 DEF Held
    <3> QED BY <3>1, <3>2
  <2> QED BY <2>1, <2>5, <2>6, <2>7 DEF Writes
<1> QED BY <1>3, <1>4, <1>5

\* The end of the day closes the forming minutes and writes no other.
LEMMA FinalizeWrites ==
    ASSUME NEW st \in Store
    PROVE  Writes(st, finalize_current(st), {})
<1> DEFINE f == [s \in Sids |-> IF st.cur[s] = None THEN st.candles[s]
                               ELSE Prefer(st.candles[s], Built(st.cur[s]))]
           g == [s \in Sids |-> None]
           next == [st EXCEPT !.candles = f, !.cur = g]
<1>1. finalize_current(st) = next BY DEF finalize_current
<1>2. st.candles \in [Sids -> SUBSET Candle] /\ st.cur \in [Sids -> Times \cup {None}]
  BY StoreFields
<1>3. ASSUME NEW s \in Sids
      PROVE  /\ f[s] \in SUBSET Candle
             /\ MinutesOf(f[s]) \subseteq Held(st, s)
             /\ \A k \in st.candles[s] : k.src = "HIST" => k \in f[s]
  <2>1. CASE st.cur[s] = None BY <2>1, <1>2 DEF Held
  <2>2. CASE st.cur[s] # None
    <3>1. st.cur[s] \in Times /\ st.candles[s] \in SUBSET Candle BY <1>2, <2>2
    <3>2. f[s] = Prefer(st.candles[s], Built(st.cur[s])) BY <2>2
    <3>3. Built(st.cur[s]) \in SUBSET Candle /\ MinutesOf(Built(st.cur[s])) = {st.cur[s]}
      BY <3>1, Built1
    <3>4. {st.cur[s]} \subseteq Held(st, s) /\ MinutesOf(st.candles[s]) \subseteq Held(st, s)
      BY <2>2 DEF Held
    <3> HIDE DEF f
    <3> DEFINE p == Prefer(st.candles[s], Built(st.cur[s]))
    <3>5. /\ p \in SUBSET Candle
          /\ MinutesOf(p) \subseteq MinutesOf(st.candles[s]) \cup MinutesOf(Built(st.cur[s]))
          /\ \A k \in st.candles[s] : k.src = "HIST" => k \in p
      <4>1. st.candles[s] \in SUBSET Candle /\ Built(st.cur[s]) \in SUBSET Candle BY <3>1, <3>3
      <4> QED BY <4>1, PreferKeeps
    <3>6. f[s] = p BY <3>2
    <3> HIDE DEF p
    <3>7. MinutesOf(p) \subseteq Held(st, s) BY <3>3, <3>4, <3>5
    <3> QED BY <3>5, <3>6, <3>7
  <2> HIDE DEF f
  <2> QED BY <2>1, <2>2
<1>4. f \in [Sids -> SUBSET Candle] /\ g \in [Sids -> Times \cup {None}] BY <1>3
<1> HIDE DEF f
<1>5. next \in Store BY <1>4, StoreFields
<1>6. next.date = st.date /\ next.status = st.status /\ next.candles = f /\ next.cur = g
  BY DEF Store
<1> HIDE DEF next
<1>7. ASSUME NEW s \in Sids PROVE Held(next, s) \subseteq Held(st, s)
  BY <1>3, <1>6 DEF Held
<1> QED BY <1>1, <1>3, <1>5, <1>6, <1>7 DEF Writes

-----------------------------------------------------------------------------
(* Greatest elements and sequences of sets.                                *)

\* A non-empty set of naturals has a least element.
LEMMA LeastElement ==
    ASSUME NEW S \in SUBSET Nat, S # {}
    PROVE  \E p \in S : \A i \in S : p <= i
<1> DEFINE R == OpToRel(<, Nat)
<1>1. IsWellFoundedOn(R, Nat) BY NatLessThanWellFounded
<1>2. PICK p \in S : \A i \in S : ~(<<i, p>> \in R)
  <2> HIDE DEF R
  <2> QED BY <1>1, WFMin
<1>3. \A i \in S : ~(i < p) BY <1>2 DEF OpToRel
<1> QED BY <1>3

\* Max of a bounded set is one of its elements.
LEMMA MaxIn ==
    ASSUME NEW n \in Nat, NEW S \in SUBSET (0 .. n), S # {}
    PROVE  Max(S) \in S
<1> DEFINE D == {n - x : x \in S}
<1>1. D \subseteq Nat OBVIOUS
<1>5. D # {}
  <2>1. PICK x \in S : TRUE OBVIOUS
  <2>2. n - x \in D BY <2>1
  <2> QED BY <2>2
<1>2. PICK p \in D : \A i \in D : p <= i
  <2> HIDE DEF D
  <2> QED BY <1>1, <1>5, LeastElement
<1>3. PICK m \in S : p = n - m BY <1>2
<1>4. ASSUME NEW y \in S PROVE m >= y
  <2>1. n - m <= n - y BY <1>2, <1>3
  <2>2. m \in 0 .. n /\ y \in 0 .. n OBVIOUS
  <2> QED BY <2>1, <2>2
<1> QED BY <1>4 DEF Max

LEMMA LastCompletedIn ==
    ASSUME Typed, NEW s \in Sids, state.candles[s] # {}
    PROVE  LastCompleted(s) \in MinutesOf(state.candles[s])
<1>1. state.candles[s] \in SUBSET Candle BY StoreFields DEF Typed
<1>2. MinutesOf(state.candles[s]) \subseteq Times /\ MinutesOf(state.candles[s]) # {}
  BY <1>1 DEF MinutesOf, Candle
<1>3. Days * DayLen - 1 \in Nat
  <2>1. \A a, b \in Nat : a > 0 /\ b > 0 => a * b > 0 OBVIOUS
  <2> QED BY <2>1, Numbers
<1> QED BY <1>2, <1>3, MaxIn DEF LastCompleted, Times

\* The gaps are queued once each.
LEMMA SequenceOfSet ==
    ASSUME NEW S, IsFiniteSet(S)
    PROVE  /\ Cardinality(S) \in Nat
           /\ SetToSeq(S) \in [1 .. Cardinality(S) -> S]
           /\ \A i, j \in 1 .. Cardinality(S) : SetToSeq(S)[i] = SetToSeq(S)[j] => i = j
           /\ \A x \in S : \E i \in 1 .. Cardinality(S) : SetToSeq(S)[i] = x
<1> DEFINE n == Cardinality(S)
<1>1. n \in Nat /\ ExistsBijection(1 .. n, S) BY FS_CardinalityType
<1>2. PICK b \in Bijection(1 .. n, S) : TRUE BY <1>1 DEF ExistsBijection
<1>3. b \in [1 .. n -> S] /\ IsInjective(b) BY <1>2 DEF Bijection, Injection, IsInjective
<1>4. SetToSeq(S) \in [1 .. n -> S] /\ IsInjective(SetToSeq(S)) BY <1>3 DEF SetToSeq
<1>5. SetToSeq(S) \in Injection(1 .. n, S) BY <1>4 DEF Injection, IsInjective
<1>6. IsFiniteSet(1 .. n) /\ Cardinality(1 .. n) = n BY <1>1, FS_Interval
<1>7. SetToSeq(S) \in Surjection(1 .. n, S) BY <1>5, <1>6, FS_Injection
<1> QED BY <1>1, <1>4, <1>7 DEF Surjection, IsInjective

-----------------------------------------------------------------------------
(* Queued jobs.                                                            *)

\* A gap is a job of the security.
LEMMA GapTyped ==
    ASSUME Typed, NEW t \in Times, NEW s \in Gaps(t)
    PROVE  /\ s \in Sids /\ s \notin queued /\ Gap(s, t) \in Job /\ Gap(s, t).sid = s
           /\ LastCompleted(s) \in MinutesOf(state.candles[s])
           /\ LastCompleted(s) \in Times /\ Gap(s, t).to = t
           /\ Gap(s, t).from = LastCompleted(s) + 1
           /\ LastCompleted(s) + 1 < t
<1>1. s \in Sids /\ state.candles[s] # {} /\ LastCompleted(s) + 1 < t /\ s \notin queued
  BY DEF Gaps
<1>2. LastCompleted(s) \in MinutesOf(state.candles[s]) BY <1>1, LastCompletedIn
<1>3. LastCompleted(s) \in Times
  <2>1. state.candles[s] \in SUBSET Candle BY <1>1, StoreFields DEF Typed
  <2> QED BY <1>2, <2>1 DEF MinutesOf, Candle
<1> HIDE DEF LastCompleted
<1>4. LastCompleted(s) + 1 \in Times
  <2>1. \A n \in Int : \A a, b \in 0 .. n : a + 1 < b => a + 1 \in 0 .. n OBVIOUS
  <2>2. Days * DayLen - 1 \in Int BY Numbers
  <2> QED BY <1>1, <1>3, <2>1, <2>2 DEF Times
<1> QED BY <1>1, <1>2, <1>3, <1>4 DEF Gap, Job

\* enqueue_gap appends a job of each security with a gap.
LEMMA EnqueueAppends ==
    ASSUME Typed, NEW t \in Times, enqueue_gap(t), "backfill" \notin flags
    PROVE  \E n \in Nat : \E new \in [1 .. n -> Gaps(t)] :
              /\ \A i, j \in 1 .. n : new[i] = new[j] => i = j
              /\ \A s \in Gaps(t) : \E i \in 1 .. n : new[i] = s
              /\ queue' = queue \o [i \in 1 .. n |-> Gap(new[i], t)]
              /\ queued' = queued \cup Gaps(t) /\ wk' = wk
<1>1. IsFiniteSet(Gaps(t)) BY Numbers, FS_Subset DEF Gaps
<1> DEFINE n == Cardinality(Gaps(t))
           new == SetToSeq(Gaps(t))
<1>2. /\ n \in Nat /\ new \in [1 .. n -> Gaps(t)]
      /\ \A i, j \in 1 .. n : new[i] = new[j] => i = j
      /\ \A s \in Gaps(t) : \E i \in 1 .. n : new[i] = s
  BY <1>1, SequenceOfSet
<1>3. /\ queue' = queue \o [i \in 1 .. n |-> Gap(new[i], t)]
      /\ queued' = queued \cup Gaps(t) /\ wk' = wk
  BY DEF enqueue_gap
<1> HIDE DEF n, new
<1> QED BY <1>2, <1>3

\* What a sequence of jobs is after jobs were appended ...
LEMMA AppendedJobs ==
    ASSUME NEW q \in Seq(Job), NEW n \in Nat, NEW f \in [1 .. n -> Job]
    PROVE  /\ q \o f \in Seq(Job) /\ Len(q \o f) = Len(q) + n
           /\ \A i \in 1 .. Len(q) : (q \o f)[i] = q[i]
           /\ \A i \in 1 .. n : (q \o f)[Len(q) + i] = f[i]
           /\ \A i \in 1 .. Len(q) + n :
                 \/ i \in 1 .. Len(q) /\ (q \o f)[i] = q[i]
                 \/ i - Len(q) \in 1 .. n /\ (q \o f)[i] = f[i - Len(q)]
<1>1. f \in Seq(Job) /\ Len(f) = n OBVIOUS
<1>2. Len(q) \in Nat OBVIOUS
<1>3. q \o f \in Seq(Job) /\ Len(q \o f) = Len(q) + n BY <1>1
<1>4. \A i \in 1 .. Len(q) + n :
         (q \o f)[i] = IF i <= Len(q) THEN q[i] ELSE f[i - Len(q)]
  BY <1>1
<1> QED BY <1>1, <1>2, <1>3, <1>4

\* ... or its first was taken.
LEMMA TakenJob ==
    ASSUME NEW q \in Seq(Job), q # <<>>
    PROVE  /\ Head(q) = q[1] /\ 1 \in DOMAIN q /\ Head(q) \in Job
           /\ Tail(q) \in Seq(Job) /\ Len(Tail(q)) = Len(q) - 1 /\ Len(q) \in Nat \ {0}
           /\ \A i \in 1 .. Len(q) - 1 : Tail(q)[i] = q[i + 1]
OBVIOUS

LEMMA JobIsNotNone == \A j \in Job : j # None /\ j.from \in Nat /\ j.to \in Nat /\ j.sid \in Sids
BY NoneAssumption DEF Job, Times

-----------------------------------------------------------------------------
(* Types, part by part.                                                    *)

\* The parts of Typed ...
SessionTypes ==
    /\ now \in Times
    /\ spc \in {"wait", "auth", "snapshot", "check", "joinfeed", "joinhistory", "archived", "gone"}
    /\ stick \in Times /\ started \in Dates \cup {None} /\ lastSeen \in Nat /\ cooling \in BOOLEAN
    /\ mpc \in {"up", "joinfeed", "joinhistory", "joinself", "down"}
    /\ flags \subseteq {"stop", "history", "feed", "backfill"}
FeedTypes ==
    /\ fth \in [Slots -> {"dead", "connect", "open"}]
    /\ pass \in 0 .. 2
LoaderTypes == hist \in [Sids -> [pc : {"done", "ask", "asked", "failed"}, left : Int, at : Times]]
JobTypes == queue \in Seq(Job) /\ wk \in [Workers -> Job \cup {None}]

\* ... are all of it.
LEMMA TypeParts ==
    /\ Typed <=> state \in Store /\ SessionTypes /\ FeedTypes /\ LoaderTypes /\ JobTypes
    /\ Typed' <=> state' \in Store /\ SessionTypes' /\ FeedTypes' /\ LoaderTypes' /\ JobTypes'
BY DEF Typed, SessionTypes, FeedTypes, LoaderTypes, JobTypes

\* Bounds of time.
LEMMA TimeBounds ==
    /\ Days * DayLen - 1 \in Nat /\ 0 \in Times /\ Open \in Times /\ Times \subseteq Nat
    /\ \A t \in Times : DayOf(t) \in Dates
<1>1. Days * DayLen - 1 \in Nat
  <2>1. \A a, b \in Nat : a > 0 /\ b > 0 => a * b > 0 OBVIOUS
  <2> QED BY <2>1, Numbers
<1>2. Open <= Days * DayLen - 1
  <2>1. \A a, b \in Nat : a > 0 => a * b >= b OBVIOUS
  <2>2. Days * DayLen >= DayLen /\ Days * DayLen \in Nat BY <2>1, Numbers
  <2> QED BY <2>2, Numbers
<1>3. ASSUME NEW t \in Times PROVE DayOf(t) \in Dates
  <2> DEFINE d == DayOf(t)
  <2>1. t \in Nat /\ t <= Days * DayLen - 1 BY <1>1 DEF Times
  <2>2. DayOf(t) \in Nat /\ t % DayLen \in 0 .. DayLen - 1 /\ t = DayLen * DayOf(t) + (t % DayLen)
    BY <2>1, DayParts
  <2>3. d \in Nat /\ DayLen * d <= t
    <3>1. PICK e \in Nat, r \in 0 .. DayLen - 1 : e = DayOf(t) /\ t = DayLen * e + r
      BY <2>2, Zenon
    <3>2. DayLen * e \in Nat BY Numbers
    <3> QED BY <3>1, <3>2, Numbers
  <2> HIDE DEF d
  <2>4. DayLen * d < DayLen * Days
    <3>1. DayLen * Days = Days * DayLen /\ DayLen * d \in Nat BY <2>3, Numbers
    <3> QED BY <2>1, <2>3, <3>1, <1>1, Numbers
  <2>5. d < Days
    <3>1. \A a, b, c \in Nat : a <= b => c * a <= c * b OBVIOUS
    <3>2. DayLen * d \in Nat /\ DayLen * Days \in Nat BY <2>3, Numbers
    <3>3. ASSUME Days <= d PROVE FALSE
      <4>1. DayLen * Days <= DayLen * d BY <2>3, <3>1, <3>3, Numbers
      <4> QED BY <2>4, <3>2, <4>1
    <3> QED BY <2>3, <3>3, Numbers
  <2> QED BY <2>3, <2>5, Numbers DEF Dates, d
<1> QED BY <1>1, <1>2, <1>3, Numbers DEF Times

\* A store is changed in one field, or anew.
LEMMA StoreChanges ==
    ASSUME NEW st \in Store
    PROVE  /\ \A v \in {"CLOSED", "AUTHENTICATING", "AUTH_WAITING", "AUTH_ERROR", "LIVE"} :
                 [st EXCEPT !.status = v] \in Store
           /\ \A n \in Nat : [st EXCEPT !.reconnects = st.reconnects + n] \in Store
           /\ \A d \in Dates : begin(d) \in Store
           /\ NewState \in Store /\ reset \in Store
<1>1. NewState \in Store BY DEF NewState, Store
<1>2. \A d \in Dates : begin(d) \in Store BY <1>1 DEF begin, reset, Store
<1> QED BY <1>1, <1>2 DEF Store, reset

\* The session thread and stop() keep the types of their own state.
LEMMA SessionTyped ==
    ASSUME Typed, Next
    PROVE  SessionTypes'
<1> USE DEF SessionTypes
<1>0. SessionTypes /\ state \in Store BY TypeParts
<1>t. \A t \in Times : DayOf(t) \in Dates BY TimeBounds
<1>r. state.reconnects \in Nat BY <1>0, StoreFields
<1> HIDE DEF SessionTypes
<1>1. CASE Session
  <2>1. CASE BeginSession \/ Maintain \/ LoopEnds
    BY <1>0, <1>t, <2>1 DEF BeginSession, Maintain, LoopEnds, SessionTypes
  <2>2. CASE AuthFails \/ AuthSucceeds \/ OpenFeed
    BY <1>0, <1>t, <1>r, <2>2 DEF AuthFails, AuthSucceeds, OpenFeed, SessionTypes
  <2>3. CASE EndSession \/ JoinFeed \/ FinalizeDay
    BY <1>0, <2>3 DEF EndSession, JoinFeed, FinalizeDay, SessionTypes
  <2>5. CASE WipeDay BY <1>0, <2>5 DEF WipeDay, SessionTypes
  <2>4. CASE _check_for_feed_interruption
    <3>1. Max({lastSeen, state.reconnects}) \in Nat
      <4>1. \E x \in {lastSeen, state.reconnects} : \A y \in {lastSeen, state.reconnects} : x >= y
        BY <1>0, <1>r DEF SessionTypes
      <4>2. Max({lastSeen, state.reconnects}) \in {lastSeen, state.reconnects} BY <4>1 DEF Max
      <4> QED BY <1>0, <1>r, <4>2 DEF SessionTypes
    <3> QED BY <1>0, <2>4, <3>1, TimeBounds DEF _check_for_feed_interruption, SessionTypes
  <2> QED BY <1>1, <2>1, <2>2, <2>3, <2>4, <2>5 DEF Session
<1>2. CASE Stop
  BY <1>0, <1>2 DEF Stop, StopBegins, StopCloses, StopWipes, StopEnds, Set, sessionVars, SessionTypes
<1>3. CASE Tick \/ CooldownEnds \/ SecondSweep
  BY <1>0, <1>3 DEF Tick, CooldownEnds, SecondSweep, sessionVars, SessionTypes
<1>4. CASE \E i \in Slots : Feed(i)
  BY <1>0, <1>4 DEF Feed, FeedConnects, FeedFails, Packet, sessionVars, SessionTypes
<1>5. CASE (\E s \in Sids : Loader(s)) \/ (\E w \in Workers : Worker(w))
  BY <1>0, <1>5
  DEF Loader, LoaderAsks, LoaderAnswered, Worker, WorkerTakes, WorkerEnds, sessionVars, SessionTypes
<1> QED BY <1>1, <1>2, <1>3, <1>4, <1>5 DEF Next

\* So are the feed threads and the sweep.
LEMMA FeedTyped ==
    ASSUME Typed, Next
    PROVE  FeedTypes'
<1>0. FeedTypes BY TypeParts
<1>1. CASE Session
  BY <1>0, <1>1
  DEF Session, BeginSession, AuthFails, AuthSucceeds, OpenFeed, Maintain,
      _check_for_feed_interruption, EndSession, JoinFeed, FinalizeDay, WipeDay, LoopEnds,
      StartFeed, feedVars, histVars, FeedTypes
<1>2. CASE Stop
  BY <1>0, <1>2 DEF Stop, StopBegins, StopCloses, StopWipes, StopEnds, feedVars, histVars, FeedTypes
<1>3. CASE Tick \/ CooldownEnds \/ SecondSweep
  BY <1>0, <1>3 DEF Tick, CooldownEnds, SecondSweep, feedVars, histVars, FeedTypes
<1>4. CASE \E i \in Slots : Feed(i)
  BY <1>0, <1>4 DEF Feed, FeedConnects, FeedFails, Packet, feedVars, histVars, FeedTypes
<1>5. CASE (\E s \in Sids : Loader(s)) \/ (\E w \in Workers : Worker(w))
  BY <1>0, <1>5
  DEF Loader, LoaderAsks, LoaderAnswered, Worker, WorkerTakes, WorkerEnds, feedVars, histVars,
      FeedTypes
<1> QED BY <1>1, <1>2, <1>3, <1>4, <1>5 DEF Next

\* So are the loaders.
LEMMA LoaderTyped ==
    ASSUME Typed, Next
    PROVE  LoaderTypes'
<1>0. LoaderTypes /\ now \in Times BY TypeParts DEF SessionTypes
<1>l. /\ \A p \in {"done", "ask", "asked", "failed"} :
           Loader0(p) \in [pc : {"done", "ask", "asked", "failed"}, left : Int, at : Times]
      /\ NoLoader \in [pc : {"done", "ask", "asked", "failed"}, left : Int, at : Times]
      /\ NewLoader \in [pc : {"done", "ask", "asked", "failed"}, left : Int, at : Times]
  BY TimeBounds, Numbers DEF Loader0, NoLoader, NewLoader
<1>1. CASE OpenFeed \/ StopEnds \/ SecondSweep
  BY <1>0, <1>l, <1>1 DEF OpenFeed, StopEnds, SecondSweep, histVars, LoaderTypes
<1>2. CASE \E s \in Sids : LoaderAsks(s)
  BY <1>0, <1>l, <1>2 DEF LoaderAsks, LoaderTypes
<1>3. CASE \E s \in Sids : LoaderAnswered(s)
  <2>1. PICK s \in Sids : LoaderAnswered(s) BY <1>3
  <2>2. hist[s] \in [pc : {"done", "ask", "asked", "failed"}, left : Int, at : Times]
    BY <1>0 DEF LoaderTypes
  <2>3. [hist[s] EXCEPT !.pc = "ask", !.at = 0]
          \in [pc : {"done", "ask", "asked", "failed"}, left : Int, at : Times]
    BY <2>2, TimeBounds
  <2>4. \E x \in [pc : {"done", "ask", "asked", "failed"}, left : Int, at : Times] :
          hist' = [hist EXCEPT ![s] = x]
    BY <1>l, <2>1, <2>3 DEF LoaderAnswered
  <2> QED BY <1>0, <2>4 DEF LoaderTypes
<1>4. CASE hist' = hist BY <1>0, <1>4 DEF LoaderTypes
<1>5. CASE Session
  BY <1>1, <1>4, <1>5
  DEF Session, BeginSession, AuthFails, AuthSucceeds, Maintain, _check_for_feed_interruption,
      EndSession, JoinFeed, FinalizeDay, WipeDay, LoopEnds, histVars
<1>6. CASE Stop BY <1>1, <1>4, <1>6 DEF Stop, StopBegins, StopCloses, StopWipes, histVars
<1>7. CASE Tick \/ CooldownEnds BY <1>4, <1>7 DEF Tick, CooldownEnds, histVars
<1>8. CASE \E i \in Slots : Feed(i)
  BY <1>4, <1>8 DEF Feed, FeedConnects, FeedFails, Packet, histVars
<1>9. CASE \E w \in Workers : Worker(w) BY <1>4, <1>9 DEF Worker, WorkerTakes, WorkerEnds, histVars
<1> QED BY <1>1, <1>2, <1>3, <1>5, <1>6, <1>7, <1>8, <1>9 DEF Next, Loader

-----------------------------------------------------------------------------
(* Who writes which minutes.                                               *)

\* Of three numbers one is least.
LEMMA LeastOfThree ==
    ASSUME NEW a \in Int, NEW b \in Int, NEW c \in Int
    PROVE  \/ a <= b /\ a <= c
           \/ b <= a /\ b <= c
           \/ c <= a /\ c <= b
OBVIOUS

\* How far a minute lies from now.
Distance(x) == IF x >= now THEN x - now ELSE now - x

\* _parse_ltt answers with the time of day of the packet, on the nearest of three days.
LEMMA ParsedTime ==
    ASSUME Typed, NEW t \in Nat, ParseLtt(t) # None
    PROVE  \E k \in {-1, 0, 1} :
              /\ ParseLtt(t) = (DayOf(now) + k) * DayLen + (t % DayLen)
              /\ ParseLtt(t) \in Times /\ ParseLtt(t) <= now
              /\ Distance(ParseLtt(t)) <= Distance(DayOf(now) * DayLen + (t % DayLen))
<1> DEFINE C == {(DayOf(now) + k) * DayLen + (t % DayLen) : k \in {-1, 0, 1}}
           P(x) == \A y \in C : Distance(x) <= Distance(y)
           n == CHOOSE x \in C : P(x)
<1>1. ParseLtt(t) = IF n <= now /\ n >= 0 THEN n ELSE None BY DEF ParseLtt, Distance
<1>2. now \in Nat /\ now \in Times BY TimeBounds DEF Typed
<1>3. DayOf(now) \in Nat /\ t % DayLen \in Nat
  <2>1. DayOf(now) \in Nat /\ t % DayLen \in 0 .. DayLen - 1 BY <1>2, DayParts
  <2> QED BY <2>1, Numbers
<1>4. PICK a \in Int, b \in Int, c \in Int :
         /\ a = (DayOf(now) + (-1)) * DayLen + (t % DayLen)
         /\ b = (DayOf(now) + 0) * DayLen + (t % DayLen)
         /\ c = (DayOf(now) + 1) * DayLen + (t % DayLen)
         /\ C = {a, b, c}
  <2> DEFINE f(k) == (DayOf(now) + k) * DayLen + (t % DayLen)
  <2>1. f(-1) \in Int /\ f(0) \in Int /\ f(1) \in Int BY <1>3, Numbers
  <2>2. C = {f(-1), f(0), f(1)} OBVIOUS
  <2> HIDE DEF C
  <2> QED BY <2>1, <2>2
<1>5. \E x \in C : P(x)
  <2>1. Distance(a) \in Int /\ Distance(b) \in Int /\ Distance(c) \in Int BY <1>2 DEF Distance
  <2> HIDE DEF C
  <2> QED BY <1>4, <2>1, LeastOfThree
<1>6. n \in C /\ P(n)
  <2> HIDE DEF C, P
  <2> QED BY <1>5
<1> HIDE DEF n
<1>7. n <= now /\ n >= 0 /\ ParseLtt(t) = n BY <1>1
<1>8. PICK k \in {-1, 0, 1} : n = (DayOf(now) + k) * DayLen + (t % DayLen) BY <1>6
<1>9. n \in Times
  <2>1. n \in Int BY <1>3, <1>8, Numbers
  <2> QED BY <1>2, <1>7, <2>1, TimeBounds DEF Times
<1>10. Distance(n) <= Distance(DayOf(now) * DayLen + (t % DayLen))
  <2>1. b \in C /\ b = DayOf(now) * DayLen + (t % DayLen)
    <3>1. DayOf(now) + 0 = DayOf(now) BY <1>3
    <3> HIDE DEF C
    <3> QED BY <1>4, <3>1
  <2> HIDE DEF C
  <2> QED BY <1>6, <2>1
<1> QED BY <1>7, <1>8, <1>9, <1>10

\* In market hours that is today's time of day.
LEMMA ParsedToday ==
    ASSUME Typed, NEW t \in Nat, Traded(t), Hour >= Open, ParseLtt(t) # None
    PROVE  ParseLtt(t) \in Times /\ DayOf(ParseLtt(t)) = Today
<1> DEFINE n == ParseLtt(t)
           r == t % DayLen
           B == DayOf(now) * DayLen
<1>1. PICK k \in {-1, 0, 1} :
         /\ n = (DayOf(now) + k) * DayLen + r /\ n \in Times /\ n <= now
         /\ Distance(n) <= Distance(B + r)
  BY ParsedTime
<1>2. now \in Nat /\ n \in Nat BY <1>1, TimeBounds DEF Typed
<1>3. r \in 0 .. DayLen - 1 /\ Open <= r /\ r <= Close BY DayParts DEF Traded
<1>4. PICK H \in 0 .. DayLen - 1 : H = Hour /\ now = B + H
  <2>1. /\ DayOf(now) \in Nat /\ now % DayLen \in 0 .. DayLen - 1
        /\ now = DayLen * DayOf(now) + (now % DayLen)
    BY <1>2, DayParts
  <2>2. B = DayLen * DayOf(now) BY <2>1, Numbers
  <2> HIDE DEF B
  <2> QED BY <2>1, <2>2 DEF Hour
<1>5. DayOf(now) \in Nat /\ B \in Nat
  <2>1. DayOf(now) \in Nat BY <1>2, DayParts
  <2> QED BY <2>1, Numbers
<1>6. n = B + k * DayLen + r
  <2>1. \A d, e, l, x \in Int : (d + e) * l + x = d * l + e * l + x OBVIOUS
  <2>2. k \in Int /\ r \in Int /\ DayOf(now) \in Int /\ DayLen \in Int BY <1>3, <1>5, Numbers
  <2> QED BY <1>1, <2>1, <2>2
<1> HIDE DEF n, r, B
<1>7. k = 0
  <2>1. CASE k = 1
    <3>1. n = B + DayLen + r BY <1>6, <2>1, Numbers
    <3> QED BY <1>1, <1>3, <1>4, <1>5, <3>1, Numbers
  <2>2. CASE k = -1
    <3>1. n = B - DayLen + r BY <1>5, <1>6, <1>3, <2>2, Numbers
    <3>2. now - n = DayLen + H - r /\ now - n > 0 BY <1>3, <1>4, <1>5, <3>1, Numbers
    <3>3. Distance(n) = DayLen + H - r BY <1>2, <3>2 DEF Distance
    <3>4. Distance(B + r) = IF r >= H THEN r - H ELSE H - r
      BY <1>3, <1>4, <1>5, Numbers DEF Distance
    <3>5. H >= Open BY <1>4
    <3> QED BY <1>1, <1>3, <1>4, <3>3, <3>4, <3>5, Numbers
  <2> QED BY <2>1, <2>2
<1>8. n = DayLen * DayOf(now) + r
  BY <1>3, <1>5, <1>6, <1>7, Numbers DEF B
<1>9. DayOf(n) = DayOf(now)
  <2>1. DayOf(now) \in Int BY <1>5
  <2> QED BY <1>2, <1>3, <1>8, <2>1, DayUnique
<1> QED BY <1>1, <1>9 DEF Today, n

\* Nothing written is a write.
LEMMA NothingWritten ==
    ASSUME NEW st \in Store
    PROVE  Writes(st, st, {})
BY DEF Writes

\* A worker writes minutes of its job at most ...
LEMMA WorkerWrites ==
    ASSUME Typed, NEW w \in Workers, WorkerEnds(w)
    PROVE  /\ wk[w] \in Job
           /\ \E minutes \in SUBSET Times :
                 /\ minutes \subseteq wk[w].from .. (wk[w].to - 1)
                 /\ Writes(state, state', minutes)
<1>1. wk[w] \in Job BY DEF Typed, WorkerEnds
<1>2. state \in Store BY DEF Typed
<1>3. /\ wk[w].from \in Times /\ wk[w].to \in Times /\ wk[w].sid \in Sids BY <1>1 DEF Job
<1>4. wk[w].from .. (wk[w].to - 1) \in SUBSET Times BY <1>3, TimeBounds DEF Times
<1>5. PICK rows \in {{}, wk[w].from .. (wk[w].to - 1)} :
         state' = IF rows = {} THEN state ELSE merge_today_1m_history(state, wk[w].sid, rows)
  BY DEF WorkerEnds
<1>6. CASE rows = {} BY <1>1, <1>2, <1>5, <1>6, NothingWritten
<1>7. CASE rows # {}
  <2>1. rows \in SUBSET Times /\ rows \subseteq wk[w].from .. (wk[w].to - 1) BY <1>4, <1>7
  <2>2. Writes(state, merge_today_1m_history(state, wk[w].sid, rows), rows)
    BY <1>2, <1>3, <2>1, MergeWrites
  <2> QED BY <1>1, <1>5, <1>7, <2>1, <2>2
<1> QED BY <1>6, <1>7

\* ... a loader those of the day before the minute it asked at ...
LEMMA LoaderWrites ==
    ASSUME Typed, NEW s \in Sids, LoaderAnswered(s)
    PROVE  /\ hist[s].at \in Times
           /\ \E minutes \in SUBSET Times :
                 /\ minutes \subseteq OpenOf(DayOf(hist[s].at)) .. (hist[s].at - 1)
                 /\ Writes(state, state', minutes)
<1>1. hist[s].at \in Times BY DEF Typed
<1>2. state \in Store BY DEF Typed
<1> DEFINE R == OpenOf(DayOf(hist[s].at)) .. (hist[s].at - 1)
<1>3. R \in SUBSET Times
  <2>1. hist[s].at \in Nat /\ DayOf(hist[s].at) \in Nat
    <3>1. hist[s].at \in Nat BY <1>1, TimeBounds
    <3> QED BY <3>1, DayParts
  <2>2. OpenOf(DayOf(hist[s].at)) \in Nat BY <2>1, Numbers DEF OpenOf
  <2> QED BY <1>1, <2>1, <2>2, TimeBounds DEF Times
<1> HIDE DEF R
<1>5. PICK rows \in {{}, R} :
         state' = IF rows = {} THEN state ELSE merge_today_1m_history(state, s, rows)
  BY DEF LoaderAnswered, R
<1>6. CASE rows = {} BY <1>1, <1>2, <1>5, <1>6, NothingWritten
<1>7. CASE rows # {}
  <2>1. rows \in SUBSET Times /\ rows \subseteq R BY <1>3, <1>7
  <2>2. Writes(state, merge_today_1m_history(state, s, rows), rows) BY <1>2, <2>1, MergeWrites
  <2> QED BY <1>1, <1>5, <1>7, <2>1, <2>2 DEF R
<1> QED BY <1>6, <1>7

\* ... and the feed the minute of the packet.
LEMMA PacketWrites ==
    ASSUME Typed, NEW i \in Slots, NEW s \in Sids, NEW t \in Nat, Packet(i, s, t)
    PROVE  Writes(state, state', {ParseLtt(t)})
<1>1. ParseLtt(t) \in Times BY ParsedTime DEF Packet
<1>2. state \in Store BY DEF Typed
<1> QED BY <1>1, <1>2, QuoteWrites DEF Packet

-----------------------------------------------------------------------------
(* Type correctness.                                                       *)

\* Every step leaves a store.
LEMMA StoreTyped ==
    ASSUME Typed, Next
    PROVE  state' \in Store
<1>0. state \in Store /\ now \in Times BY DEF Typed
<1>1. CASE Session
  <2>1. CASE BeginSession
    <3>1. DayOf(now) \in Dates BY <1>0, TimeBounds
    <3> QED BY <1>0, <2>1, <3>1, StoreChanges DEF BeginSession
  <2>2. CASE AuthFails \/ AuthSucceeds
    BY <1>0, <2>2, StoreChanges DEF AuthFails, AuthSucceeds
  <2>3. CASE FinalizeDay BY <1>0, <2>3, FinalizeWrites DEF FinalizeDay, Writes
  <2>4. CASE WipeDay BY <1>0, <2>4, StoreChanges DEF WipeDay
  <2>5. CASE OpenFeed \/ Maintain \/ _check_for_feed_interruption \/ EndSession \/ JoinFeed \/ LoopEnds
    BY <1>0, <2>5
    DEF OpenFeed, Maintain, _check_for_feed_interruption, EndSession, JoinFeed, LoopEnds
  <2> QED BY <1>1, <2>1, <2>2, <2>3, <2>4, <2>5 DEF Session
<1>2. CASE Stop
  BY <1>0, <1>2, StoreChanges DEF Stop, StopBegins, StopCloses, StopWipes, StopEnds
<1>3. CASE Tick \/ CooldownEnds \/ SecondSweep BY <1>0, <1>3 DEF Tick, CooldownEnds, SecondSweep
<1>4. ASSUME NEW i \in Slots, Feed(i) PROVE state' \in Store
  <2>1. CASE FeedConnects(i) BY <1>0, <2>1 DEF FeedConnects
  <2>2. CASE FeedFails(i)
    <3>1. CASE state' = state BY <1>0, <3>1
    <3>2. CASE \E k \in {1, 2} : state' = [state EXCEPT !.reconnects = @ + k]
      <4>1. PICK k \in {1, 2} : state' = [state EXCEPT !.reconnects = state.reconnects + k] BY <3>2
      <4>2. k \in Nat OBVIOUS
      <4> QED BY <1>0, <4>1, <4>2, StoreChanges
    <3> QED BY <2>2, <3>1, <3>2 DEF FeedFails
  <2>3. ASSUME NEW s \in Sids, NEW t \in {now, now - 1, now - DayLen}, t >= 0, Packet(i, s, t)
        PROVE  state' \in Store
    <3>1. t \in Nat BY <1>0, <2>3, TimeBounds, Numbers
    <3> QED BY <2>3, <3>1, PacketWrites DEF Writes
  <2> QED BY <1>4, <2>1, <2>2, <2>3 DEF Feed
<1>5. ASSUME NEW s \in Sids, Loader(s) PROVE state' \in Store
  <2>1. CASE LoaderAsks(s) BY <1>0, <2>1 DEF LoaderAsks
  <2>2. CASE LoaderAnswered(s) BY <2>2, LoaderWrites DEF Writes
  <2> QED BY <1>5, <2>1, <2>2 DEF Loader
<1>6. ASSUME NEW w \in Workers, Worker(w) PROVE state' \in Store
  <2>1. CASE WorkerTakes(w) BY <1>0, <2>1 DEF WorkerTakes
  <2>2. CASE WorkerEnds(w) BY <2>2, WorkerWrites DEF Writes
  <2> QED BY <1>6, <2>1, <2>2 DEF Worker
<1> QED BY <1>1, <1>2, <1>3, <1>4, <1>5, <1>6 DEF Next

\* What a step does to the backfill queue and its workers: a job of each gap is appended ...
Appended(t, n, new) ==
    /\ \A i, j \in 1 .. n : new[i] = new[j] => i = j
    /\ \A s \in Gaps(t) : \E i \in 1 .. n : new[i] = s
    /\ queue' = queue \o [i \in 1 .. n |-> Gap(new[i], t)]
    /\ queued' = queued \cup Gaps(t) /\ wk' = wk
Enqueues ==
    \E t \in Times : \E n \in Nat : \E new \in [1 .. n -> Gaps(t)] :
        /\ spc = "check" /\ t = stick /\ state.status = "LIVE" /\ Appended(t, n, new)
        /\ UNCHANGED <<now, state, started, mpc, flags, feedVars, histVars>> /\ spc' = "wait"

\* ... or a worker takes or ends one, or nothing.
LEMMA BackfillSteps ==
    ASSUME Typed, Next
    PROVE  \/ UNCHANGED bfVars
           \/ Enqueues
           \/ \E w \in Workers : WorkerTakes(w) \/ WorkerEnds(w)
<1>1. CASE Session
  <2>1. CASE _check_for_feed_interruption
    <3>1. CASE UNCHANGED bfVars BY <3>1
    <3>2. CASE state.status = "LIVE" /\ enqueue_gap(stick) /\ "backfill" \notin flags
      <4>1. stick \in Times BY DEF Typed
      <4>2. \E n \in Nat : \E new \in [1 .. n -> Gaps(stick)] : Appended(stick, n, new)
        BY <3>2, <4>1, EnqueueAppends DEF Appended
      <4>3. /\ spc = "check" /\ spc' = "wait"
            /\ UNCHANGED <<now, state, started, mpc, flags, feedVars, histVars>>
        BY <2>1 DEF _check_for_feed_interruption
      <4> QED BY <3>2, <4>1, <4>2, <4>3, Zenon DEF Enqueues
    <3> QED BY <2>1, <3>1, <3>2 DEF _check_for_feed_interruption, enqueue_gap
  <2> QED BY <1>1, <2>1
          DEF Session, BeginSession, AuthFails, AuthSucceeds, OpenFeed, Maintain, EndSession,
              JoinFeed, FinalizeDay, WipeDay, LoopEnds
<1>2. CASE Stop BY <1>2 DEF Stop, StopBegins, StopCloses, StopWipes, StopEnds
<1>3. CASE Tick \/ CooldownEnds \/ SecondSweep BY <1>3 DEF Tick, CooldownEnds, SecondSweep
<1>4. CASE (\E i \in Slots : Feed(i)) \/ \E s \in Sids : Loader(s)
  BY <1>4 DEF Feed, FeedConnects, FeedFails, Packet, Loader, LoaderAsks, LoaderAnswered
<1>5. CASE \E w \in Workers : Worker(w) BY <1>5 DEF Worker
<1> QED BY <1>1, <1>2, <1>3, <1>4, <1>5 DEF Next

\* The queue and the workers hold jobs.
LEMMA JobTyped ==
    ASSUME Typed, Next
    PROVE  JobTypes'
<1>0. queue \in Seq(Job) /\ wk \in [Workers -> Job \cup {None}] BY DEF Typed
<1>1. CASE UNCHANGED bfVars BY <1>0, <1>1 DEF bfVars, JobTypes
<1>2. CASE Enqueues
  <2>1. PICK t \in Times, n \in Nat : \E new \in [1 .. n -> Gaps(t)] : Appended(t, n, new)
    BY <1>2, Zenon DEF Enqueues
  <2>2. PICK new \in [1 .. n -> Gaps(t)] :
           queue' = queue \o [i \in 1 .. n |-> Gap(new[i], t)] /\ wk' = wk
    BY <2>1, Zenon DEF Appended
  <2>3. \A i \in 1 .. n : Gap(new[i], t) \in Job BY GapTyped
  <2> DEFINE f == [i \in 1 .. n |-> Gap(new[i], t)]
  <2>4. f \in [1 .. n -> Job] BY <2>3
  <2>5. queue' = queue \o f BY <2>2
  <2> HIDE DEF f
  <2> QED BY <1>0, <2>2, <2>4, <2>5, AppendedJobs DEF JobTypes
<1>3. ASSUME NEW w \in Workers, WorkerTakes(w) \/ WorkerEnds(w) PROVE JobTypes'
  <2>1. queue # <<>> => Head(queue) \in Job /\ Tail(queue) \in Seq(Job) BY <1>0, TakenJob
  <2> QED BY <1>0, <1>3, <2>1 DEF WorkerTakes, WorkerEnds, JobTypes
<1> QED BY <1>1, <1>2, <1>3, BackfillSteps

\* Type correctness is kept by every step.
LEMMA TypedKept ==
    ASSUME Typed, [Next]_vars
    PROVE  Typed'
<1>1. CASE Next
  BY <1>1, SessionTyped, FeedTyped, LoaderTyped, StoreTyped, JobTyped, TypeParts
<1>2. CASE UNCHANGED vars
  BY <1>2 DEF vars, sessionVars, feedVars, histVars, bfVars, Typed
<1> QED BY <1>1, <1>2

LEMMA TypedInit == Init => Typed
<1> SUFFICES ASSUME Init PROVE Typed OBVIOUS
<1>1. NewState \in Store /\ 0 \in Times /\ Open \in Times
  <2>1. NewState \in Store BY DEF NewState, Store
  <2> QED BY <2>1, TimeBounds
<1>2. hist \in [Sids -> [pc : {"done", "ask", "asked", "failed"}, left : Int, at : Times]]
  BY <1>1 DEF Init, NoLoader, Loader0
<1>3. queue \in Seq(Job) BY DEF Init
<1>4. SessionTypes BY <1>1 DEF Init, SessionTypes
<1>5. FeedTypes BY DEF Init, FeedTypes
<1>6. JobTypes BY <1>3 DEF Init, JobTypes
<1>7. LoaderTypes BY <1>2 DEF LoaderTypes
<1> QED BY <1>1, <1>4, <1>5, <1>6, <1>7, TypeParts DEF Init

-----------------------------------------------------------------------------

\* Type correctness of the session, the store, the feed threads, the loaders and the backfill.
THEOREM TypeCorrect == Spec => []Typed
BY TypedInit, TypedKept, PTL DEF Spec

-----------------------------------------------------------------------------
(* The backfill's keys.                                                    *)

\* QueuedExact, element by element.
Named(x) ==
    \/ \E i \in 1 .. Len(queue) : queue[i].sid = x
    \/ \E w \in Workers : wk[w] # None /\ wk[w].sid = x

LEMMA ExactMeans ==
    /\ Typed => (QueuedExact <=> \A x : x \in queued <=> Named(x))
    /\ Typed' => (QueuedExact' <=> \A x : x \in queued' <=> Named(x)')
<1> DEFINE K == {queue[i].sid : i \in DOMAIN queue} \cup {wk[w].sid : w \in {v \in Workers : wk[v] # None}}
<1>1. ASSUME Typed PROVE \A x : x \in K <=> Named(x)
  <2>1. DOMAIN queue = 1 .. Len(queue) BY <1>1 DEF Typed
  <2> QED BY <2>1 DEF Named
<1>2. ASSUME Typed' PROVE \A x : x \in K' <=> Named(x)'
  <2>1. DOMAIN queue' = 1 .. Len(queue') BY <1>2 DEF Typed
  <2> QED BY <2>1 DEF Named
<1>3. QueuedExact <=> queued = K BY DEF QueuedExact
<1>4. QueuedExact' <=> queued' = K' BY DEF QueuedExact
<1> HIDE DEF K
<1>5. queued = K <=> \A x : x \in queued <=> x \in K OBVIOUS
<1>6. queued' = K' <=> \A x : x \in queued' <=> x \in K' OBVIOUS
<1> QED BY <1>1, <1>2, <1>3, <1>4, <1>5, <1>6

\* Distinct, with the queue's domain written out.
LEMMA DistinctMeans ==
    /\ Typed => (Distinct <=>
          /\ \A i, j \in 1 .. Len(queue) : queue[i].sid = queue[j].sid => i = j
          /\ \A w, v \in Workers : wk[w] # None /\ wk[v] # None /\ wk[w].sid = wk[v].sid => w = v
          /\ \A i \in 1 .. Len(queue) : \A w \in Workers : wk[w] # None => wk[w].sid # queue[i].sid)
    /\ Typed' => (Distinct' <=>
          /\ \A i, j \in 1 .. Len(queue') : queue'[i].sid = queue'[j].sid => i = j
          /\ \A w, v \in Workers : wk'[w] # None /\ wk'[v] # None /\ wk'[w].sid = wk'[v].sid => w = v
          /\ \A i \in 1 .. Len(queue') : \A w \in Workers : wk'[w] # None => wk'[w].sid # queue'[i].sid)
<1>1. Typed => DOMAIN queue = 1 .. Len(queue) BY DEF Typed
<1>2. Typed' => DOMAIN queue' = 1 .. Len(queue') BY DEF Typed
<1> QED BY <1>1, <1>2 DEF Distinct

\* A worker takes the first job.
LEMMA TakesKept ==
    ASSUME BackfillInv, Typed', NEW w \in Workers, queue # <<>>,
           wk' = [wk EXCEPT ![w] = Head(queue)], queue' = Tail(queue),
           queued' = queued \ (IF wk[w] = None THEN {} ELSE {wk[w].sid})
    PROVE  Distinct' /\ QueuedExact'
<1>1. /\ \A i, j \in 1 .. Len(queue) : queue[i].sid = queue[j].sid => i = j
      /\ \A u, v \in Workers : wk[u] # None /\ wk[v] # None /\ wk[u].sid = wk[v].sid => u = v
      /\ \A i \in 1 .. Len(queue) : \A u \in Workers : wk[u] # None => wk[u].sid # queue[i].sid
  BY DistinctMeans DEF BackfillInv
<1>2. \A x : x \in queued <=> Named(x) BY ExactMeans DEF BackfillInv
<1>3. queue \in Seq(Job) /\ wk \in [Workers -> Job \cup {None}] BY DEF BackfillInv, Typed
<1>4. /\ Head(queue) = queue[1] /\ Head(queue) \in Job /\ Len(queue) \in Nat \ {0}
      /\ Len(queue') = Len(queue) - 1
      /\ \A i \in 1 .. Len(queue) - 1 : queue'[i] = queue[i + 1]
  BY <1>3, TakenJob
<1>5. queue[1] # None BY <1>4, JobIsNotNone
<1>6. wk'[w] = queue[1] /\ \A v \in Workers \ {w} : wk'[v] = wk[v] BY <1>3, <1>4
<1>7. /\ \A i \in 1 .. Len(queue') : queue'[i] = queue[i + 1] /\ i + 1 \in 1 .. Len(queue)
      /\ 1 \in 1 .. Len(queue)
      /\ \A i \in 1 .. Len(queue) : i # 1 => i - 1 \in 1 .. Len(queue') /\ queue'[i - 1] = queue[i]
  BY <1>4
<1>8. \A i, j \in 1 .. Len(queue') : queue'[i].sid = queue'[j].sid => i = j
  <2>1. ASSUME NEW i \in 1 .. Len(queue'), NEW j \in 1 .. Len(queue'), queue'[i].sid = queue'[j].sid
        PROVE  i = j
    <3>1. i + 1 = j + 1 BY <1>1, <1>7, <2>1
    <3>2. i \in Int /\ j \in Int OBVIOUS
    <3> QED BY <3>1, <3>2
  <2> QED BY <2>1
<1>9. \A u, v \in Workers : wk'[u] # None /\ wk'[v] # None /\ wk'[u].sid = wk'[v].sid => u = v
  BY <1>1, <1>6, <1>7
<1>10. \A i \in 1 .. Len(queue') : \A u \in Workers : wk'[u] # None => wk'[u].sid # queue'[i].sid
  <2>1. ASSUME NEW i \in 1 .. Len(queue'), NEW u \in Workers, wk'[u] # None,
               wk'[u].sid = queue'[i].sid
        PROVE  FALSE
    <3>1. queue'[i] = queue[i + 1] /\ i + 1 \in 1 .. Len(queue) /\ i + 1 # 1
      <4>1. i # 0 /\ i \in Int OBVIOUS
      <4> QED BY <1>7, <4>1
    <3>2. CASE u = w BY <1>1, <1>6, <1>7, <2>1, <3>1, <3>2
    <3>3. CASE u # w BY <1>1, <1>6, <2>1, <3>1, <3>3
    <3> QED BY <3>2, <3>3
  <2> QED BY <2>1
<1>11. Distinct' BY <1>8, <1>9, <1>10, DistinctMeans
<1>12. ASSUME NEW x PROVE x \in queued' <=> Named(x)'
  <2>1. CASE x = queue[1].sid
    <3>1. x \in queued BY <1>2, <1>7, <2>1 DEF Named
    <3>2. x \in queued' BY <1>1, <1>7, <2>1, <3>1
    <3>3. Named(x)' BY <1>5, <1>6, <2>1 DEF Named
    <3> QED BY <3>2, <3>3
  <2>2. CASE x # queue[1].sid
    <3>1. (\E i \in 1 .. Len(queue') : queue'[i].sid = x)
            <=> (\E i \in 1 .. Len(queue) : queue[i].sid = x)
      BY <1>7, <2>2
    <3>2. (\E v \in Workers : wk'[v] # None /\ wk'[v].sid = x)
            <=> (\E v \in Workers \ {w} : wk[v] # None /\ wk[v].sid = x)
      BY <1>6, <2>2
    <3>3. Named(x)' <=> \/ \E i \in 1 .. Len(queue) : queue[i].sid = x
                        \/ \E v \in Workers \ {w} : wk[v] # None /\ wk[v].sid = x
      BY <3>1, <3>2 DEF Named
    <3>4. CASE wk[w] # None /\ x = wk[w].sid
      <4>1. x \notin queued' BY <3>4
      <4>2. ~Named(x)' BY <1>1, <3>3, <3>4
      <4> QED BY <4>1, <4>2
    <3>5. CASE wk[w] = None \/ x # wk[w].sid
      <4>1. x \in queued' <=> x \in queued BY <3>5
      <4>2. Named(x)' <=> Named(x) BY <3>3, <3>5 DEF Named
      <4> QED BY <1>2, <4>1, <4>2
    <3> QED BY <3>4, <3>5
  <2> QED BY <2>1, <2>2
<1>13. QueuedExact' BY <1>12, ExactMeans
<1> QED BY <1>11, <1>13

\* A worker that finds no further job gives its key back.
LEMMA LeavesKept ==
    ASSUME BackfillInv, Typed', NEW w \in Workers, wk[w] # None,
           wk' = [wk EXCEPT ![w] = None], queue' = queue, queued' = queued \ {wk[w].sid}
    PROVE  Distinct' /\ QueuedExact'
<1>1. /\ \A i, j \in 1 .. Len(queue) : queue[i].sid = queue[j].sid => i = j
      /\ \A u, v \in Workers : wk[u] # None /\ wk[v] # None /\ wk[u].sid = wk[v].sid => u = v
      /\ \A i \in 1 .. Len(queue) : \A u \in Workers : wk[u] # None => wk[u].sid # queue[i].sid
  BY DistinctMeans DEF BackfillInv
<1>2. \A x : x \in queued <=> Named(x) BY ExactMeans DEF BackfillInv
<1>3. wk'[w] = None /\ \A v \in Workers \ {w} : wk'[v] = wk[v] BY DEF BackfillInv, Typed
<1>4. Distinct' BY <1>1, <1>3, DistinctMeans
<1>5. ASSUME NEW x PROVE x \in queued' <=> Named(x)'
  <2>1. CASE x = wk[w].sid
    <3>1. ~Named(x)' BY <1>1, <1>3, <2>1 DEF Named
    <3> QED BY <2>1, <3>1
  <2>2. CASE x # wk[w].sid
    <3>1. Named(x)' <=> Named(x) BY <1>3, <2>2 DEF Named
    <3> QED BY <1>2, <2>2, <3>1
  <2> QED BY <2>1, <2>2
<1> QED BY <1>4, <1>5, ExactMeans

\* A gap is queued only for a security nobody has in hand.
LEMMA EnqueueKept ==
    ASSUME BackfillInv, Typed', Enqueues
    PROVE  Distinct' /\ QueuedExact'
<1>1. /\ \A i, j \in 1 .. Len(queue) : queue[i].sid = queue[j].sid => i = j
      /\ \A u, v \in Workers : wk[u] # None /\ wk[v] # None /\ wk[u].sid = wk[v].sid => u = v
      /\ \A i \in 1 .. Len(queue) : \A u \in Workers : wk[u] # None => wk[u].sid # queue[i].sid
  BY DistinctMeans DEF BackfillInv
<1>2. \A x : x \in queued <=> Named(x) BY ExactMeans DEF BackfillInv
<1>3. Typed /\ queue \in Seq(Job) BY DEF BackfillInv, Typed
<1>4. PICK t \in Times, n \in Nat : \E new \in [1 .. n -> Gaps(t)] : Appended(t, n, new)
  BY Zenon DEF Enqueues
<1>5. PICK new \in [1 .. n -> Gaps(t)] :
         /\ \A i, j \in 1 .. n : new[i] = new[j] => i = j
         /\ \A s \in Gaps(t) : \E i \in 1 .. n : new[i] = s
         /\ queue' = queue \o [i \in 1 .. n |-> Gap(new[i], t)]
         /\ queued' = queued \cup Gaps(t) /\ wk' = wk
  BY <1>4, Zenon DEF Appended
<1> DEFINE f == [i \in 1 .. n |-> Gap(new[i], t)]
           L == Len(queue)
<1>6. \A i \in 1 .. n : f[i] = Gap(new[i], t) OBVIOUS
<1>7. \A i \in 1 .. n :
         f[i] \in Job /\ f[i].sid = new[i] /\ new[i] \notin queued /\ new[i] \in Gaps(t)
  BY <1>3, GapTyped
<1>8. f \in [1 .. n -> Job] BY <1>7
<1>9. queue' = queue \o f BY <1>5
<1> HIDE DEF f
<1>10. /\ Len(queue') = L + n /\ L \in Nat
       /\ \A i \in 1 .. L : queue'[i] = queue[i]
       /\ \A i \in 1 .. n : queue'[L + i] = f[i]
       /\ \A i \in 1 .. L + n :
             \/ i \in 1 .. L /\ queue'[i] = queue[i]
             \/ i - L \in 1 .. n /\ queue'[i] = f[i - L]
  <2> DEFINE q == queue \o f
  <2>1. /\ Len(q) = Len(queue) + n
        /\ \A i \in 1 .. Len(queue) : q[i] = queue[i]
        /\ \A i \in 1 .. n : q[Len(queue) + i] = f[i]
        /\ \A i \in 1 .. Len(queue) + n :
              \/ i \in 1 .. Len(queue) /\ q[i] = queue[i]
              \/ i - Len(queue) \in 1 .. n /\ q[i] = f[i - Len(queue)]
    BY <1>3, <1>8, AppendedJobs
  <2>2. queue' = q BY <1>9
  <2>3. Len(queue) \in Nat BY <1>3
  <2> HIDE DEF q
  <2> QED BY <2>1, <2>2, <2>3
<1>11. \A i \in 1 .. L : queue[i].sid \in queued BY <1>2 DEF Named
<1>12. \A v \in Workers : wk[v] # None => wk[v].sid \in queued BY <1>2 DEF Named
<1> HIDE DEF L
<1>13. \A i, j \in 1 .. Len(queue') : queue'[i].sid = queue'[j].sid => i = j
  <2>1. ASSUME NEW i \in 1 .. L + n, NEW j \in 1 .. L + n, queue'[i].sid = queue'[j].sid
        PROVE  i = j
    <3>1. CASE i \in 1 .. L /\ queue'[i] = queue[i] /\ j \in 1 .. L /\ queue'[j] = queue[j]
      BY <1>1, <2>1, <3>1 DEF L
    <3>2. CASE i \in 1 .. L /\ queue'[i] = queue[i] /\ j - L \in 1 .. n /\ queue'[j] = f[j - L]
      BY <1>7, <1>11, <2>1, <3>2
    <3>3. CASE j \in 1 .. L /\ queue'[j] = queue[j] /\ i - L \in 1 .. n /\ queue'[i] = f[i - L]
      BY <1>7, <1>11, <2>1, <3>3
    <3>4. CASE i - L \in 1 .. n /\ queue'[i] = f[i - L] /\ j - L \in 1 .. n /\ queue'[j] = f[j - L]
      <4>1. new[i - L] = new[j - L] BY <1>7, <2>1, <3>4
      <4>2. i - L = j - L BY <1>5, <3>4, <4>1
      <4> QED BY <1>10, <4>2
    <3> QED BY <1>10, <3>1, <3>2, <3>3, <3>4
  <2> QED BY <1>10, <2>1
<1>14. \A i \in 1 .. Len(queue') : \A v \in Workers : wk'[v] # None => wk'[v].sid # queue'[i].sid
  <2>1. ASSUME NEW i \in 1 .. L + n, NEW v \in Workers, wk[v] # None
        PROVE  wk[v].sid # queue'[i].sid
    <3>1. CASE i \in 1 .. L /\ queue'[i] = queue[i] BY <1>1, <2>1, <3>1 DEF L
    <3>2. CASE i - L \in 1 .. n /\ queue'[i] = f[i - L] BY <1>7, <1>12, <2>1, <3>2
    <3> QED BY <1>10, <3>1, <3>2
  <2> QED BY <1>5, <1>10, <2>1
<1>15. Distinct' BY <1>1, <1>5, <1>13, <1>14, DistinctMeans
<1>16. ASSUME NEW x PROVE x \in queued' <=> Named(x)'
  <2>1. (\E i \in 1 .. Len(queue') : queue'[i].sid = x)
          <=> (\E i \in 1 .. L : queue[i].sid = x) \/ (\E i \in 1 .. n : f[i].sid = x)
    <3>1. ASSUME NEW i \in 1 .. L, queue[i].sid = x
          PROVE  \E k \in 1 .. Len(queue') : queue'[k].sid = x
      <4>1. i \in 1 .. L + n BY <1>10
      <4> QED BY <1>10, <3>1, <4>1
    <3>2. ASSUME NEW i \in 1 .. n, f[i].sid = x
          PROVE  \E k \in 1 .. Len(queue') : queue'[k].sid = x
      <4>1. L + i \in 1 .. L + n BY <1>10
      <4> QED BY <1>10, <3>2, <4>1
    <3>3. ASSUME NEW i \in 1 .. Len(queue'), queue'[i].sid = x
          PROVE  (\E k \in 1 .. L : queue[k].sid = x) \/ (\E k \in 1 .. n : f[k].sid = x)
      BY <1>10, <3>3
    <3> QED BY <3>1, <3>2, <3>3
  <2>2. (\E i \in 1 .. n : f[i].sid = x) <=> x \in Gaps(t)
    <3>1. \A s \in Gaps(t) : \E i \in 1 .. n : new[i] = s BY <1>5
    <3> QED BY <1>7, <3>1
  <2>3. Named(x)' <=> Named(x) \/ x \in Gaps(t) BY <1>5, <2>1, <2>2 DEF Named, L
  <2> QED BY <1>2, <1>5, <2>3
<1> QED BY <1>15, <1>16, ExactMeans

\* Every step keeps the key set exact.
LEMMA BackfillKept ==
    ASSUME BackfillInv, [Next]_vars
    PROVE  BackfillInv'
<1>1. Typed' BY TypedKept DEF BackfillInv
<1>2. CASE UNCHANGED bfVars
  BY <1>1, <1>2 DEF bfVars, BackfillInv, Distinct, QueuedExact
<1>3. CASE Enqueues BY <1>1, <1>3, EnqueueKept DEF BackfillInv
<1>4. ASSUME NEW w \in Workers, WorkerTakes(w) PROVE BackfillInv'
  BY <1>1, <1>4, TakesKept DEF WorkerTakes, BackfillInv
<1>5. ASSUME NEW w \in Workers, WorkerEnds(w) PROVE BackfillInv'
  <2>1. CASE queue = <<>> BY <1>1, <1>5, <2>1, LeavesKept DEF WorkerEnds, BackfillInv
  <2>2. CASE queue # <<>> BY <1>1, <1>5, <2>2, TakesKept DEF WorkerEnds, BackfillInv
  <2> QED BY <2>1, <2>2
<1>6. CASE UNCHANGED vars BY <1>2, <1>6 DEF vars
<1> QED BY <1>2, <1>3, <1>4, <1>5, <1>6, BackfillSteps DEF BackfillInv

\* QueuedExact: the key set names exactly the securities that are queued or in a worker's
\* hands, for any number of securities and workers, whatever requests fail or are late.
THEOREM KeysExact == Spec => []QueuedExact
<1>1. Init => BackfillInv
  BY TypedInit DEF Init, BackfillInv, Distinct, QueuedExact
<1>2. BackfillInv => QueuedExact BY DEF BackfillInv
<1> QED BY <1>1, <1>2, BackfillKept, PTL DEF Spec

-----------------------------------------------------------------------------
(* The schedule and the shutdown.                                          *)

\* Every step but a tick leaves the day alone; the next day finds the session over.
LEMMA DaySteps ==
    ASSUME Typed, Next
    PROVE  /\ now \in Nat /\ Today \in Dates /\ Today # None /\ Hour \in Nat
           /\ \/ now' = now /\ Today' = Today /\ Hour' = Hour
              \/ Tick /\ Today' = Today /\ Hour' = Hour + 1
              \/ Tick /\ Today' # Today /\ EveningOutlasts
<1>1. now \in Times /\ now \in Nat BY TimeBounds DEF Typed
<1>2. DayOf(now) \in Dates /\ DayOf(now) # None
  <2>1. DayOf(now) \in Dates BY <1>1, TimeBounds
  <2> QED BY <2>1, NoneAssumption DEF Dates
<1>3. now % DayLen \in Nat
  <2>1. now % DayLen \in 0 .. DayLen - 1 BY <1>1, DayParts
  <2> QED BY <2>1, Numbers
<1>4. now' = now \/ Tick
  <2>1. CASE Session
    BY <2>1
    DEF Session, BeginSession, AuthFails, AuthSucceeds, OpenFeed, Maintain,
        _check_for_feed_interruption, EndSession, JoinFeed, FinalizeDay, WipeDay, LoopEnds
  <2>2. CASE Stop BY <2>2 DEF Stop, StopBegins, StopCloses, StopWipes, StopEnds
  <2>3. CASE CooldownEnds \/ SecondSweep BY <2>3 DEF CooldownEnds, SecondSweep
  <2>4. CASE (\E i \in Slots : Feed(i)) \/ \E s \in Sids : Loader(s)
    BY <2>4 DEF Feed, FeedConnects, FeedFails, Packet, Loader, LoaderAsks, LoaderAnswered
  <2>5. CASE \E w \in Workers : Worker(w) BY <2>5 DEF Worker, WorkerTakes, WorkerEnds
  <2> QED BY <2>1, <2>2, <2>3, <2>4, <2>5 DEF Next
<1>5. CASE now' = now BY <1>1, <1>2, <1>3, <1>5 DEF Today, Hour
<1>6. CASE Tick
  <2>1. now' = now + 1 /\ EveningOutlasts BY <1>6 DEF Tick
  <2>2. CASE DayOf(now + 1) = DayOf(now)
    <3>1. (now + 1) % DayLen = (now % DayLen) + 1 BY <1>1, <2>2, DayNext
    <3> QED BY <1>1, <1>2, <1>3, <1>6, <2>1, <2>2, <3>1 DEF Today, Hour
  <2>3. CASE DayOf(now + 1) # DayOf(now)
    BY <1>1, <1>2, <1>3, <1>6, <2>1, <2>3 DEF Today, Hour
  <2> QED BY <2>2, <2>3
<1> QED BY <1>4, <1>5, <1>6

\* The session thread stays on schedule.
LEMMA ScheduleKept ==
    ASSUME DayInv, Next
    PROVE  Schedule'
<1>0. Typed /\ Schedule BY DEF DayInv
<1>d. /\ now \in Nat /\ Today \in Dates /\ Today # None /\ Hour \in Nat
      /\ \/ now' = now /\ Today' = Today /\ Hour' = Hour
         \/ Tick /\ Today' = Today /\ Hour' = Hour + 1
         \/ Tick /\ Today' # Today /\ EveningOutlasts
  BY <1>0, DaySteps
<1>1. CASE Tick /\ Today' # Today /\ EveningOutlasts
  <2>1. started' = None /\ spc' \in {"wait", "gone"}
    BY <1>1 DEF Tick, EveningOutlasts, Today, sessionVars
  <2> QED BY <2>1 DEF Schedule
<1>2. CASE Tick /\ Today' = Today /\ Hour' = Hour + 1
  <2>1. spc' = spc /\ stick' = stick /\ started' = started /\ now' = now + 1
    BY <1>2 DEF Tick, sessionVars
  <2>2. stick \in Nat /\ Hour \in Nat /\ now \in Nat BY <1>0, <1>d, TimeBounds DEF Typed
  <2>3. (Hour >= Open => Hour' >= Open) /\ (Hour >= Close => Hour' >= Close)
    BY <1>2, <2>2, Numbers
  <2>4. stick <= now => stick' <= now' BY <2>1, <2>2
  <2>5. (DayOf(stick))' = DayOf(stick) BY <2>1
  <2>6. (is_trading_day(Today))' = is_trading_day(Today) BY <1>2 DEF is_trading_day
  <2> HIDE DEF Today, Hour, DayOf, is_trading_day
  <2> QED BY <1>0, <1>2, <2>1, <2>3, <2>4, <2>5, <2>6 DEF Schedule
<1>3. CASE now' = now /\ Today' = Today /\ Hour' = Hour
  <2>0. (is_trading_day(Today))' = is_trading_day(Today) BY <1>3 DEF is_trading_day
  <2>n. DayOf(now) = Today BY DEF Today
  <2>m. /\ in_market(now) <=> is_trading_day(Today) /\ Hour >= Open /\ Hour < Close
    BY DEF in_market, Today, Hour
  <2>h. Hour >= Close \/ Hour < Close BY <1>d, Numbers
  <2>c. Hour >= Close => Hour >= Open BY <1>d, Numbers
  <2>1. CASE UNCHANGED <<spc, stick, started>>
    <3>1. (DayOf(stick))' = DayOf(stick) BY <2>1
    <3> HIDE DEF Today, Hour, DayOf, is_trading_day
    <3> QED BY <1>0, <1>3, <2>0, <2>1, <3>1 DEF Schedule
  <2>2. CASE Session
    <3>1. CASE BeginSession \/ Maintain
      <4>1. /\ stick' = now /\ started' = started /\ spc' \in {"auth", "check"}
            /\ in_market(now) /\ (spc' = "auth" => started # DayOf(now))
        BY <3>1 DEF BeginSession, Maintain
      <4>2. (DayOf(stick))' = Today BY <4>1, <2>n
      <4>3. now <= now BY <1>d
      <4> HIDE DEF Today, Hour, DayOf, is_trading_day, in_market
      <4> QED BY <1>0, <1>3, <2>0, <2>n, <2>m, <4>1, <4>2, <4>3 DEF Schedule
    <3>2. CASE AuthFails \/ AuthSucceeds
      <4>1. /\ spc = "auth" /\ stick' = stick /\ spc' \in {"check", "snapshot"}
            /\ \/ started' = started /\ spc' = "check"
               \/ started' = DayOf(stick) /\ spc' = "snapshot"
        BY <3>2 DEF AuthFails, AuthSucceeds
      <4>2. (DayOf(stick))' = DayOf(stick) BY <4>1
      <4> HIDE DEF Today, Hour, DayOf, is_trading_day
      <4> QED BY <1>0, <1>3, <2>0, <4>1, <4>2 DEF Schedule
    <3>3. CASE OpenFeed \/ JoinFeed \/ FinalizeDay \/ LoopEnds
      <4>1. /\ stick' = stick /\ started' = started
            /\ \/ spc = "snapshot" /\ spc' = "check"
               \/ spc = "joinfeed" /\ spc' = "joinhistory"
               \/ spc = "joinhistory" /\ spc' = "archived"
               \/ spc' = "gone"
        BY <3>3 DEF OpenFeed, JoinFeed, FinalizeDay, LoopEnds
      <4>2. (DayOf(stick))' = DayOf(stick) BY <4>1
      <4> HIDE DEF Today, Hour, DayOf, is_trading_day
      <4> QED BY <1>0, <1>3, <2>0, <4>1, <4>2 DEF Schedule
    <3>4. CASE _check_for_feed_interruption \/ WipeDay
      <4>1. spc' = "wait" /\ (started' = started \/ started' = None)
        BY <3>4 DEF _check_for_feed_interruption, WipeDay
      <4> HIDE DEF Today, Hour, DayOf, is_trading_day
      <4> QED BY <1>0, <1>3, <2>0, <4>1 DEF Schedule
    <3>5. CASE EndSession
      <4>1. spc' = "joinfeed" /\ started' = started /\ started # None /\ ~in_market(now)
        BY <3>5 DEF EndSession
      <4>2. Hour >= Close BY <1>0, <2>m, <2>h, <4>1 DEF Schedule
      <4> HIDE DEF Today, Hour, DayOf, is_trading_day
      <4> QED BY <1>0, <1>3, <2>0, <4>1, <4>2 DEF Schedule
    <3> QED BY <2>2, <3>1, <3>2, <3>3, <3>4, <3>5 DEF Session
  <2>3. CASE StopEnds
    <3>1. spc' = "gone" /\ started' = started BY <2>3 DEF StopEnds
    <3> HIDE DEF Today, Hour, DayOf, is_trading_day
    <3> QED BY <1>0, <1>3, <2>0, <3>1 DEF Schedule
  <2>4. CASE StopBegins \/ StopCloses \/ StopWipes \/ Tick \/ CooldownEnds \/ SecondSweep
    BY <2>1, <2>4
    DEF StopBegins, StopCloses, StopWipes, Tick, CooldownEnds, SecondSweep, sessionVars
  <2>5. CASE (\E i \in Slots : Feed(i)) \/ \E s \in Sids : Loader(s)
    BY <2>1, <2>5
    DEF Feed, FeedConnects, FeedFails, Packet, Loader, LoaderAsks, LoaderAnswered, sessionVars
  <2>6. CASE \E w \in Workers : Worker(w)
    BY <2>1, <2>6 DEF Worker, WorkerTakes, WorkerEnds, sessionVars
  <2> QED BY <2>2, <2>3, <2>4, <2>5, <2>6 DEF Next, Stop
<1> QED BY <1>d, <1>1, <1>2, <1>3

\* stop() goes on from step to step.
LEMMA StoppingKept ==
    ASSUME DayInv, Next
    PROVE  Stopping'
<1>0. Typed /\ Stopping BY DEF DayInv
<1>s. state \in Store BY <1>0 DEF Typed
<1>1. CASE UNCHANGED <<mpc, flags>> /\ state'.date = state.date /\ (spc = "gone" => spc' = "gone")
  BY <1>0, <1>1 DEF Stopping
<1>2. CASE BeginSession
  <2>1. "stop" \notin flags /\ mpc' = mpc /\ "stop" \notin flags' /\ spc = "wait"
    BY <1>2 DEF BeginSession
  <2>2. mpc = "up" BY <1>0, <2>1 DEF Stopping
  <2>3. "backfill" \notin flags' BY <1>0, <1>2, <2>2 DEF BeginSession, Stopping
  <2> QED BY <2>1, <2>2, <2>3 DEF Stopping
<1>3. CASE OpenFeed
  <2>1. mpc' = mpc /\ state' = state /\ spc = "snapshot" BY <1>3 DEF OpenFeed
  <2>2. flags' = flags \/ flags' = flags \ {"feed"} BY <1>3 DEF OpenFeed
  <2> QED BY <1>0, <2>1, <2>2 DEF Stopping
<1>4. CASE EndSession BY <1>0, <1>4 DEF EndSession, Stopping
<1>5. CASE WipeDay
  <2>1. state'.date = None /\ spc # "gone" BY <1>5 DEF WipeDay, reset, NewState
  <2> QED BY <1>0, <1>5, <2>1 DEF WipeDay, Stopping
<1>6. CASE StopBegins BY <1>0, <1>6 DEF StopBegins, Stopping
<1>7. CASE StopCloses BY <1>0, <1>7 DEF StopCloses, Set, Stopping
<1>8. CASE StopWipes
  <2>1. state'.date = None BY <1>8 DEF StopWipes, reset, NewState
  <2> QED BY <1>0, <1>8, <2>1 DEF StopWipes, Stopping
<1>9. CASE StopEnds BY <1>0, <1>9 DEF StopEnds, Stopping
<1>10. CASE \/ AuthFails \/ AuthSucceeds \/ Maintain \/ _check_for_feed_interruption \/ JoinFeed
            \/ LoopEnds
  <2>1. UNCHANGED <<mpc, flags>> /\ spc # "gone"
    BY <1>10
    DEF AuthFails, AuthSucceeds, Maintain, _check_for_feed_interruption, JoinFeed, LoopEnds
  <2>2. state'.date = state.date
    BY <1>10, <1>s
    DEF AuthFails, AuthSucceeds, Maintain, _check_for_feed_interruption, JoinFeed, LoopEnds, Store
  <2> QED BY <1>1, <2>1, <2>2
<1>11. CASE FinalizeDay
  BY <1>1, <1>11, <1>s, FinalizeWrites DEF FinalizeDay, Writes
<1>12. CASE Tick \/ CooldownEnds \/ SecondSweep
  BY <1>1, <1>12 DEF Tick, CooldownEnds, SecondSweep, sessionVars
<1>13. ASSUME NEW i \in Slots, Feed(i) PROVE Stopping'
  <2>1. UNCHANGED <<mpc, flags, spc>>
    BY <1>13 DEF Feed, FeedConnects, FeedFails, Packet, sessionVars
  <2>2. state'.date = state.date
    <3>1. CASE FeedConnects(i) \/ FeedFails(i) BY <1>s, <3>1 DEF FeedConnects, FeedFails, Store
    <3>2. ASSUME NEW s \in Sids, NEW t \in {now, now - 1, now - DayLen}, t >= 0, Packet(i, s, t)
          PROVE  state'.date = state.date
      <4>1. t \in Nat BY <1>0, <3>2, TimeBounds, Numbers DEF Typed
      <4> QED BY <1>0, <3>2, <4>1, PacketWrites DEF Writes
    <3> QED BY <1>13, <3>1, <3>2 DEF Feed
  <2> QED BY <1>1, <2>1, <2>2
<1>14. ASSUME NEW s \in Sids, Loader(s) PROVE Stopping'
  <2>1. UNCHANGED <<mpc, flags, spc>> BY <1>14 DEF Loader, LoaderAsks, LoaderAnswered, sessionVars
  <2>2. CASE LoaderAsks(s) BY <1>1, <2>1, <2>2 DEF LoaderAsks
  <2>3. CASE LoaderAnswered(s) BY <1>0, <1>1, <2>1, <2>3, LoaderWrites DEF Writes
  <2> QED BY <1>14, <2>2, <2>3 DEF Loader
<1>15. ASSUME NEW w \in Workers, Worker(w) PROVE Stopping'
  <2>1. UNCHANGED <<mpc, flags, spc>> BY <1>15 DEF Worker, WorkerTakes, WorkerEnds, sessionVars
  <2>2. CASE WorkerTakes(w) BY <1>1, <2>1, <2>2 DEF WorkerTakes
  <2>3. CASE WorkerEnds(w) BY <1>0, <1>1, <2>1, <2>3, WorkerWrites DEF Writes
  <2> QED BY <1>15, <2>2, <2>3 DEF Worker
<1> QED BY <1>2, <1>3, <1>4, <1>5, <1>6, <1>7, <1>8, <1>9, <1>10, <1>11, <1>12, <1>13, <1>14,
           <1>15
        DEF Next, Session, Stop

-----------------------------------------------------------------------------
(* Requests are of today.                                                  *)

\* The jobs, with the queue's domain written out.
JobHeld(j) ==
    \/ \E i \in 1 .. Len(queue) : queue[i] = j
    \/ \E w \in Workers : wk[w] # None /\ wk[w] = j

LEMMA JobsMeans ==
    /\ Typed => \A j : j \in Jobs <=> JobHeld(j)
    /\ Typed' => \A j : j \in Jobs' <=> JobHeld(j)'
<1>1. Typed => DOMAIN queue = 1 .. Len(queue) BY DEF Typed
<1>2. Typed' => DOMAIN queue' = 1 .. Len(queue') BY DEF Typed
<1>3. ASSUME Typed, NEW j PROVE j \in Jobs <=> JobHeld(j) BY <1>1, <1>3 DEF Jobs, JobHeld
<1>4. ASSUME Typed', NEW j PROVE j \in Jobs' <=> JobHeld(j)' BY <1>2, <1>4 DEF Jobs, JobHeld
<1> QED BY <1>3, <1>4

\* New jobs are gaps up to the time of the session thread's pass.
LEMMA JobSteps ==
    ASSUME Typed, Next
    PROVE  \/ Jobs' \subseteq Jobs
           \/ /\ Enqueues
              /\ Jobs' \subseteq Jobs \cup {Gap(s, stick) : s \in Gaps(stick)}
<1>0. queue \in Seq(Job) /\ wk \in [Workers -> Job \cup {None}] /\ Typed'
  BY TypedKept DEF Typed
<1>1. CASE UNCHANGED bfVars BY <1>1 DEF bfVars, Jobs
<1>2. CASE Enqueues
  <2>1. PICK t \in Times, n \in Nat : \E new \in [1 .. n -> Gaps(t)] :
           t = stick /\ Appended(t, n, new)
    BY <1>2, Zenon DEF Enqueues
  <2>2. PICK new \in [1 .. n -> Gaps(t)] : t = stick /\ Appended(t, n, new) BY <2>1, Zenon
  <2> DEFINE f == [i \in 1 .. n |-> Gap(new[i], t)]
             q == queue \o f
  <2>3. queue' = q /\ wk' = wk BY <2>2 DEF Appended
  <2>4. \A i \in 1 .. n : f[i] = Gap(new[i], t) /\ new[i] \in Gaps(t) /\ f[i] \in Job
    BY <1>0, GapTyped
  <2>5. f \in [1 .. n -> Job] BY <2>4
  <2> HIDE DEF f
  <2>6. /\ Len(q) = Len(queue) + n
        /\ \A i \in 1 .. Len(queue) + n :
              \/ i \in 1 .. Len(queue) /\ q[i] = queue[i]
              \/ i - Len(queue) \in 1 .. n /\ q[i] = f[i - Len(queue)]
    BY <1>0, <2>5, AppendedJobs
  <2> HIDE DEF q
  <2>7. ASSUME NEW j \in Jobs' PROVE j \in Jobs \cup {Gap(s, stick) : s \in Gaps(stick)}
    <3>1. JobHeld(j)' BY <1>0, <2>7, JobsMeans
    <3>2. CASE \E w \in Workers : wk'[w] # None /\ wk'[w] = j
      BY <2>3, <3>2, JobsMeans DEF JobHeld
    <3>3. ASSUME NEW i \in 1 .. Len(queue'), queue'[i] = j
          PROVE  j \in Jobs \cup {Gap(s, stick) : s \in Gaps(stick)}
      <4>1. CASE i \in 1 .. Len(queue) /\ q[i] = queue[i]
        BY <2>3, <3>3, <4>1, JobsMeans DEF JobHeld
      <4>2. CASE i - Len(queue) \in 1 .. n /\ q[i] = f[i - Len(queue)]
        <5>1. j = Gap(new[i - Len(queue)], t) /\ new[i - Len(queue)] \in Gaps(t)
          BY <2>3, <2>4, <3>3, <4>2
        <5> QED BY <2>2, <5>1
      <4> QED BY <2>3, <2>6, <4>1, <4>2
    <3> QED BY <3>1, <3>2, <3>3 DEF JobHeld
  <2> QED BY <1>2, <2>7
<1>3. ASSUME NEW w \in Workers, WorkerTakes(w) \/ WorkerEnds(w) PROVE Jobs' \subseteq Jobs
  <2>1. \/ queue' = queue /\ wk' = [wk EXCEPT ![w] = None]
        \/ queue # <<>> /\ queue' = Tail(queue) /\ wk' = [wk EXCEPT ![w] = Head(queue)]
    BY <1>3 DEF WorkerTakes, WorkerEnds
  <2>2. CASE queue' = queue /\ wk' = [wk EXCEPT ![w] = None]
    <3>1. ASSUME NEW j, JobHeld(j)' PROVE JobHeld(j) BY <1>0, <2>2, <3>1 DEF JobHeld
    <3> QED BY <1>0, <3>1, JobsMeans
  <2>3. CASE queue # <<>> /\ queue' = Tail(queue) /\ wk' = [wk EXCEPT ![w] = Head(queue)]
    <3>1. /\ Head(queue) = queue[1] /\ Len(queue) \in Nat \ {0}
          /\ Len(queue') = Len(queue) - 1
          /\ \A i \in 1 .. Len(queue) - 1 : queue'[i] = queue[i + 1]
      BY <1>0, <2>3, TakenJob
    <3>2. \A i \in 1 .. Len(queue') : queue'[i] = queue[i + 1] /\ i + 1 \in 1 .. Len(queue)
      BY <3>1
    <3>3. 1 \in 1 .. Len(queue) BY <3>1
    <3>4. wk'[w] = queue[1] /\ \A v \in Workers \ {w} : wk'[v] = wk[v] BY <1>0, <2>3, <3>1
    <3>5. ASSUME NEW j, JobHeld(j)' PROVE JobHeld(j)
      BY <3>2, <3>3, <3>4, <3>5 DEF JobHeld
    <3> QED BY <1>0, <3>5, JobsMeans
  <2> QED BY <2>1, <2>2, <2>3
<1> QED BY <1>1, <1>2, <1>3, BackfillSteps

\* What loaders have asked for is of today.
LEMMA AskedKept ==
    ASSUME DayInv, Next
    PROVE  \A s \in Sids : (hist[s].pc = "asked" => DayOf(hist[s].at) = Today /\ hist[s].at <= now)'
<1>0. Typed /\ Requests BY DEF DayInv
<1>d. /\ now \in Nat
      /\ \/ now' = now /\ Today' = Today
         \/ Tick /\ Today' = Today
         \/ Tick /\ Today' # Today /\ EveningOutlasts
  BY <1>0, DaySteps
<1> SUFFICES ASSUME NEW s \in Sids, hist'[s].pc = "asked"
             PROVE  DayOf(hist'[s].at) = Today' /\ hist'[s].at <= now'
  BY DEF DayOf
<1>1. CASE hist' = hist
  <2>1. DayOf(hist[s].at) = Today /\ hist[s].at <= now /\ hist[s].at \in Nat
    <3>1. hist[s].at \in Nat BY <1>0, TimeBounds DEF Typed
    <3> QED BY <1>0, <1>1, <3>1 DEF Requests
  <2>2. CASE now' = now /\ Today' = Today BY <1>1, <2>1, <2>2
  <2>3. CASE Tick /\ Today' = Today
    <3>1. now' = now + 1 BY <2>3 DEF Tick
    <3> QED BY <1>d, <1>1, <2>1, <2>3, <3>1
  <2>4. CASE Tick /\ Today' # Today /\ EveningOutlasts
    BY <1>1, <2>4 DEF Tick, EveningOutlasts, Loading, Today
  <2> QED BY <1>d, <2>2, <2>3, <2>4
<1>2. CASE OpenFeed \/ StopEnds \/ SecondSweep
  BY <1>2 DEF OpenFeed, StopEnds, SecondSweep, NoLoader, NewLoader, Loader0
<1>3. ASSUME NEW x \in Sids, LoaderAsks(x) \/ LoaderAnswered(x)
      PROVE  DayOf(hist'[s].at) = Today' /\ hist'[s].at <= now'
  <2>1. now' = now /\ Today' = Today BY <1>3 DEF LoaderAsks, LoaderAnswered, Today
  <2>2. CASE s # x
    <3>1. hist'[s] = hist[s] BY <1>0, <1>3, <2>2 DEF LoaderAsks, LoaderAnswered, Typed
    <3> QED BY <1>0, <2>1, <3>1 DEF Requests
  <2>3. CASE s = x
    <3>0. /\ x \in DOMAIN hist /\ hist[x].pc \in {"done", "ask", "asked", "failed"}
          /\ hist[x] \in [pc : {"done", "ask", "asked", "failed"}, left : Int, at : Times]
      BY <1>0 DEF Typed
    <3>1. CASE LoaderAsks(x)
      <4>1. hist'[x] = IF Stopped \/ ~in_market(now) THEN Loader0("failed")
                       ELSE [pc |-> "asked", left |-> hist[x].left - 1, at |-> now]
        BY <3>0, <3>1 DEF LoaderAsks
      <4>2. hist'[x].at = now BY <2>3, <4>1 DEF Loader0
      <4> QED BY <1>d, <2>1, <2>3, <4>2 DEF Today
    <3>2. CASE LoaderAnswered(x)
      <4>1. \/ hist'[x] = NoLoader \/ hist'[x] = Loader0("failed")
            \/ hist'[x] = [hist[x] EXCEPT !.pc = "ask", !.at = 0]
        BY <3>0, <3>2 DEF LoaderAnswered
      <4>2. [hist[x] EXCEPT !.pc = "ask", !.at = 0].pc = "ask"
        <5>1. \A h \in [pc : {"done", "ask", "asked", "failed"}, left : Int, at : Times] :
                 [h EXCEPT !.pc = "ask", !.at = 0].pc = "ask"
          OBVIOUS
        <5> QED BY <3>0, <5>1
      <4>3. NoLoader.pc # "asked" /\ Loader0("failed").pc # "asked" BY DEF NoLoader, Loader0
      <4> DEFINE again == [hist[x] EXCEPT !.pc = "ask", !.at = 0]
      <4>4. hist'[x] = NoLoader \/ hist'[x] = Loader0("failed") \/ hist'[x] = again BY <4>1
      <4>5. again.pc # "asked" BY <4>2
      <4> HIDE DEF again
      <4>6. hist'[x].pc # "asked" BY <4>3, <4>4, <4>5
      <4> QED BY <2>3, <4>6
    <3> QED BY <1>3, <3>1, <3>2
  <2> QED BY <2>2, <2>3
<1>4. CASE Session
  BY <1>1, <1>2, <1>4
  DEF Session, BeginSession, AuthFails, AuthSucceeds, Maintain, _check_for_feed_interruption,
      EndSession, JoinFeed, FinalizeDay, WipeDay, LoopEnds, histVars
<1>5. CASE Stop BY <1>1, <1>2, <1>5 DEF Stop, StopBegins, StopCloses, StopWipes, histVars
<1>6. CASE Tick \/ CooldownEnds BY <1>1, <1>6 DEF Tick, CooldownEnds, histVars
<1>7. CASE \E i \in Slots : Feed(i)
  BY <1>1, <1>7 DEF Feed, FeedConnects, FeedFails, Packet, histVars
<1>8. CASE \E w \in Workers : Worker(w) BY <1>1, <1>8 DEF Worker, WorkerTakes, WorkerEnds, histVars
<1> QED BY <1>2, <1>3, <1>4, <1>5, <1>6, <1>7, <1>8 DEF Next, Loader

\* So is what the backfill has been asked for.
LEMMA RequestsKept ==
    ASSUME DayInv, Next
    PROVE  Requests'
<1>0. Typed /\ Requests /\ Schedule /\ Owner /\ OfItsDate BY DEF DayInv
<1>d. /\ now \in Nat /\ Today \in Dates /\ Today # None
      /\ \/ now' = now /\ Today' = Today
         \/ Tick /\ Today' = Today
         \/ Tick /\ Today' # Today /\ EveningOutlasts
  BY <1>0, DaySteps
<1>1. ASSUME NEW j \in Jobs PROVE DayOf(j.from) = Today /\ j.to <= now BY <1>0, <1>1 DEF Requests
<1>2. ASSUME NEW j \in Jobs' PROVE DayOf(j.from) = Today' /\ j.to <= now'
  <2>1. CASE Tick
    <3>1. Jobs' = Jobs BY <2>1 DEF Tick, bfVars, Jobs
    <3>2. now' = now + 1 BY <2>1 DEF Tick
    <3>3. CASE Today' = Today
      <4>1. j.to \in Nat
        <5>1. JobHeld(j) BY <1>0, <1>2, <3>1, JobsMeans
        <5>2. queue \in Seq(Job) /\ wk \in [Workers -> Job \cup {None}] BY <1>0 DEF Typed
        <5>3. j \in Job BY <5>1, <5>2 DEF JobHeld
        <5> QED BY <5>3, JobIsNotNone
      <4> QED BY <1>d, <1>1, <1>2, <3>1, <3>2, <3>3, <4>1
    <3>4. CASE Today' # Today /\ EveningOutlasts
      <4>1. queue = <<>> /\ \A w \in Workers : wk[w] = None
        BY <2>1, <3>4 DEF Tick, EveningOutlasts, Today
      <4>2. ~JobHeld(j) BY <4>1 DEF JobHeld
      <4> QED BY <1>0, <1>2, <3>1, <4>2, JobsMeans
    <3> QED BY <1>d, <3>3, <3>4
  <2>2. CASE now' = now /\ Today' = Today
    <3>1. CASE j \in Jobs BY <1>1, <2>2, <3>1
    <3>2. CASE j \notin Jobs
      <4>1. PICK s \in Gaps(stick) : Enqueues /\ j = Gap(s, stick)
        BY <1>0, <1>2, <3>2, JobSteps
      <4>2. spc = "check" /\ state.status = "LIVE" /\ stick \in Times
        <5>1. stick \in Times BY <1>0 DEF Typed
        <5> QED BY <4>1, <5>1 DEF Enqueues
      <4>3. /\ s \in Sids /\ LastCompleted(s) \in MinutesOf(state.candles[s])
            /\ LastCompleted(s) \in Times /\ j.to = stick /\ j.from = LastCompleted(s) + 1
            /\ LastCompleted(s) + 1 < stick
        BY <1>0, <4>1, <4>2, GapTyped
      <4>4. state.candles[s] # {} BY <4>1 DEF Gaps
      <4>5. state.date = Today
        <5>1. started # None BY <1>0, <4>2 DEF Owner
        <5>2. state.date \in {None, Today} BY <1>0, <5>1 DEF Owner
        <5>3. state.date # None BY <1>0, <4>2, <4>3, <4>4 DEF Owner, Empty
        <5> QED BY <5>2, <5>3
      <4>6. DayOf(LastCompleted(s)) = Today BY <1>0, <1>d, <4>3, <4>5 DEF OfItsDate
      <4>7. DayOf(stick) = Today /\ stick <= now BY <1>0, <4>2 DEF Schedule
      <4> DEFINE m == LastCompleted(s)
      <4>8. m \in Nat /\ m + 1 \in Nat /\ stick \in Nat /\ m <= m + 1 /\ m + 1 <= stick
        <5>1. m \in Nat /\ stick \in Nat BY <4>2, <4>3, TimeBounds
        <5> HIDE DEF m
        <5>2. m + 1 < stick BY <4>3 DEF m
        <5> QED BY <5>1, <5>2
      <4>9. DayOf(m + 1) = Today
        <5> HIDE DEF m
        <5>1. DayOf(m) = DayOf(stick) BY <4>6, <4>7 DEF m
        <5> QED BY <4>8, <5>1, <4>7, DayBetween
      <4> QED BY <2>2, <4>3, <4>7, <4>9
    <3> QED BY <3>1, <3>2
  <2> QED BY <1>d, <2>1, <2>2
<1>3. \A j \in Jobs' : DayOf(j.from) = Today' /\ j.to <= now' BY <1>2
<1>4. \A s \in Sids : (hist[s].pc = "asked" => DayOf(hist[s].at) = Today /\ hist[s].at <= now)'
  BY AskedKept
<1> QED BY <1>3, <1>4 DEF Requests, DayOf

-----------------------------------------------------------------------------
(* Steps of the store and of the work under way.                           *)

\* Every write of a session that runs is of today's minutes.
TodaysWrite ==
    /\ \E minutes \in SUBSET Times :
          (\A m \in minutes : DayOf(m) = Today) /\ Writes(state, state', minutes)
    /\ UNCHANGED <<now, started, spc, mpc>>
    /\ Asked \/ Jobs # {} \/ (state.status = "LIVE" /\ state.date # None)

SameCandles == state'.candles = state.candles /\ state'.cur = state.cur /\ state'.date = state.date
SameStore == SameCandles /\ state'.status = state.status

\* The minutes of a worker's job are of today, ...
LEMMA WorkerToday ==
    ASSUME DayInv, NEW w \in Workers, WorkerEnds(w)
    PROVE  TodaysWrite
<1>0. Typed /\ Requests BY DEF DayInv
<1>1. PICK minutes \in SUBSET Times :
         minutes \subseteq wk[w].from .. (wk[w].to - 1) /\ Writes(state, state', minutes)
  BY <1>0, WorkerWrites
<1>2. wk[w] \in Job /\ wk[w] # None /\ now \in Nat
  <2>1. now \in Nat BY <1>0, TimeBounds DEF Typed
  <2> QED BY <1>0, <2>1, WorkerWrites DEF WorkerEnds
<1>3. wk[w] \in Jobs BY <1>2 DEF Jobs
<1>4. DayOf(wk[w].from) = Today /\ wk[w].to <= now BY <1>0, <1>3 DEF Requests
<1>5. ASSUME NEW m \in minutes PROVE DayOf(m) = Today
  <2>1. wk[w].from \in Nat /\ wk[w].to \in Nat BY <1>2, JobIsNotNone
  <2>2. m \in Nat /\ wk[w].from <= m /\ m <= now
    <3>1. m \in wk[w].from .. (wk[w].to - 1) BY <1>1
    <3> QED BY <1>2, <1>4, <2>1, <3>1
  <2> QED BY <1>2, <1>4, <2>1, <2>2, DayBetween DEF Today
<1>6. UNCHANGED <<now, started, spc, mpc>> BY DEF WorkerEnds, sessionVars
<1>7. Jobs # {} BY <1>3
<1>8. (\A m \in minutes : DayOf(m) = Today) /\ Writes(state, state', minutes) BY <1>1, <1>5
<1> QED BY <1>1, <1>6, <1>7, <1>8, Zenon DEF TodaysWrite

\* ... and so are a loader's ...
LEMMA LoaderToday ==
    ASSUME DayInv, NEW s \in Sids, LoaderAnswered(s)
    PROVE  TodaysWrite
<1>0. Typed /\ Requests BY DEF DayInv
<1> DEFINE at == hist[s].at
<1>1. PICK minutes \in SUBSET Times :
         minutes \subseteq OpenOf(DayOf(at)) .. (at - 1) /\ Writes(state, state', minutes)
  BY <1>0, LoaderWrites
<1>2. hist[s].pc = "asked" BY DEF LoaderAnswered
<1>3. DayOf(at) = Today /\ at <= now BY <1>0, <1>2 DEF Requests
<1>4. at \in Nat /\ now \in Nat BY <1>0, TimeBounds DEF Typed
<1>5. OpenOf(Today) \in Nat /\ DayOf(OpenOf(Today)) = Today
  <2>1. Today \in Nat BY <1>3, <1>4, DayParts
  <2> HIDE DEF Today
  <2>2. OpenOf(Today) = DayLen * Today + Open /\ Open \in 0 .. DayLen - 1
    BY <2>1, Numbers DEF OpenOf
  <2>3. OpenOf(Today) \in Nat BY <2>1, Numbers DEF OpenOf
  <2>4. Today \in Int BY <2>1
  <2> HIDE DEF OpenOf
  <2> QED BY <2>2, <2>3, <2>4, DayUnique
<1> HIDE DEF at
<1>6. ASSUME NEW m \in minutes PROVE DayOf(m) = Today
  <2> HIDE DEF OpenOf
  <2>1. m \in Nat /\ OpenOf(Today) <= m /\ m <= at
    <3>1. m \in OpenOf(Today) .. (at - 1) BY <1>1, <1>3
    <3> QED BY <1>4, <1>5, <3>1
  <2> QED BY <1>3, <1>4, <1>5, <2>1, DayBetween
<1>7. UNCHANGED <<now, started, spc, mpc>> BY DEF LoaderAnswered, sessionVars
<1>8. Asked BY <1>2 DEF Asked
<1>9. (\A m \in minutes : DayOf(m) = Today) /\ Writes(state, state', minutes) BY <1>1, <1>6
<1> QED BY <1>1, <1>7, <1>8, <1>9, Zenon DEF TodaysWrite

\* ... and a packet's.
LEMMA PacketToday ==
    ASSUME DayInv, NEW i \in Slots, NEW s \in Sids, NEW t \in Nat, Traded(t), Packet(i, s, t)
    PROVE  TodaysWrite
<1>0. Typed /\ Owner /\ Schedule BY DEF DayInv
<1>1. state.status = "LIVE" /\ state.date # None /\ ParseLtt(t) # None BY DEF Packet
<1>2. Hour >= Open BY <1>0, <1>1 DEF Owner, Schedule
<1>3. ParseLtt(t) \in Times /\ DayOf(ParseLtt(t)) = Today BY <1>0, <1>1, <1>2, ParsedToday
<1>4. Writes(state, state', {ParseLtt(t)}) BY <1>0, PacketWrites
<1>5. UNCHANGED <<now, started, spc, mpc>> BY DEF Packet, sessionVars
<1>6. {ParseLtt(t)} \in SUBSET Times /\ \A m \in {ParseLtt(t)} : DayOf(m) = Today BY <1>3
<1> QED BY <1>1, <1>4, <1>5, <1>6, Zenon DEF TodaysWrite

\* What a step does to the store.
LEMMA StoreSteps ==
    ASSUME DayInv, Next
    PROVE  \/ SameStore
           \/ (AuthFails \/ AuthSucceeds) /\ SameCandles
           \/ TodaysWrite
           \/ FinalizeDay /\ Writes(state, state', {})
           \/ BeginSession /\ state' = begin(Today) /\ ~cooling
           \/ (WipeDay \/ StopWipes) /\ state' = reset
<1>0. Typed /\ state \in Store BY DEF DayInv, Typed
<1>1. CASE state' = state BY <1>1 DEF SameStore, SameCandles
<1>2. CASE BeginSession BY <1>1, <1>2 DEF BeginSession, Today
<1>3. CASE AuthFails \/ AuthSucceeds BY <1>0, <1>3 DEF AuthFails, AuthSucceeds, SameCandles, Store
<1>4. CASE FinalizeDay BY <1>0, <1>4, FinalizeWrites DEF FinalizeDay
<1>5. CASE WipeDay BY <1>5 DEF WipeDay
<1>6. CASE OpenFeed \/ Maintain \/ _check_for_feed_interruption \/ EndSession \/ JoinFeed \/ LoopEnds
  BY <1>1, <1>6
  DEF OpenFeed, Maintain, _check_for_feed_interruption, EndSession, JoinFeed, LoopEnds
<1>7. CASE Stop BY <1>1, <1>7 DEF Stop, StopBegins, StopCloses, StopWipes, StopEnds
<1>8. CASE Tick \/ CooldownEnds \/ SecondSweep BY <1>1, <1>8 DEF Tick, CooldownEnds, SecondSweep
<1>9. ASSUME NEW i \in Slots, Feed(i) PROVE SameStore \/ TodaysWrite
  <2>1. CASE FeedConnects(i) BY <1>1, <2>1 DEF FeedConnects, SameStore, SameCandles
  <2>2. CASE FeedFails(i)
    BY <1>0, <2>2 DEF FeedFails, SameStore, SameCandles, Store
  <2>3. ASSUME NEW s \in Sids, NEW t \in {now, now - 1, now - DayLen}, t >= 0, Traded(t),
               Packet(i, s, t)
        PROVE  TodaysWrite
    <3>1. t \in Nat BY <1>0, <2>3, TimeBounds, Numbers DEF Typed
    <3> QED BY <2>3, <3>1, PacketToday
  <2> QED BY <1>9, <2>1, <2>2, <2>3 DEF Feed
<1>10. ASSUME NEW s \in Sids, Loader(s) PROVE state' = state \/ TodaysWrite
  BY <1>10, LoaderToday DEF Loader, LoaderAsks
<1>11. ASSUME NEW w \in Workers, Worker(w) PROVE state' = state \/ TodaysWrite
  BY <1>11, WorkerToday DEF Worker, WorkerTakes
<1> QED BY <1>1, <1>2, <1>3, <1>4, <1>5, <1>6, <1>7, <1>8, <1>9, <1>10, <1>11 DEF Next, Session

\* An empty store stays so unless minutes are written.
LEMMA WriteOfNothing ==
    ASSUME NEW st \in Store, NEW next, Writes(st, next, {}),
           \A s \in Sids : st.candles[s] = {} /\ st.cur[s] = None
    PROVE  \A s \in Sids : next.candles[s] = {} /\ next.cur[s] = None
<1> SUFFICES ASSUME NEW s \in Sids PROVE next.candles[s] = {} /\ next.cur[s] = None OBVIOUS
<1>1. Held(st, s) = {} BY DEF Held, MinutesOf
<1>2. Held(next, s) = {} BY <1>1 DEF Writes
<1>3. next \in Store BY DEF Writes
<1>4. MinutesOf(next.candles[s]) = {} /\ {next.cur[s]} \ {None} = {} BY <1>2 DEF Held
<1>5. next.candles[s] = {} BY <1>4 DEF MinutesOf
<1> QED BY <1>4, <1>5

LEMMA BeginEmpty ==
    /\ \A d : /\ begin(d).date = d /\ begin(d).status = "AUTHENTICATING"
              /\ \A s \in Sids : begin(d).candles[s] = {} /\ begin(d).cur[s] = None
    /\ reset.date = None /\ reset.status = "CLOSED"
BY DEF begin, reset, NewState

\* What a step does to the work under way.
LEMMA WorkSteps ==
    ASSUME DayInv, Next
    PROVE  /\ OpenFeed \/ Enqueues \/ (Busy' => Busy)
           /\ Enqueues \/ Jobs' \subseteq Jobs
           /\ (\E s \in Sids : LoaderAsks(s)) \/ (Asked' => Asked)
<1>0. Typed BY DEF DayInv
<1>1. Enqueues \/ Jobs' \subseteq Jobs BY <1>0, JobSteps
<1>2. CASE UNCHANGED histVars
  <2>1. (Asked' <=> Asked) /\ (Loading' <=> Loading) /\ pass' = pass
    BY <1>2 DEF histVars, Asked, Loading
  <2> QED BY <1>1, <2>1 DEF Busy
<1>3. CASE OpenFeed
  <2>1. ~Asked' BY <1>3 DEF OpenFeed, Asked, NewLoader
  <2> QED BY <1>1, <1>3, <2>1
<1>4. CASE SecondSweep
  <2>1. ~Asked' BY <1>4 DEF SecondSweep, Asked, NewLoader, NoLoader, Loader0
  <2>2. Busy BY <1>4 DEF SecondSweep, Busy
  <2> QED BY <1>1, <2>1, <2>2
<1>5. CASE StopEnds
  <2>1. ~Asked' /\ ~Loading' /\ pass' = pass
    BY <1>5 DEF StopEnds, Asked, Loading, NoLoader, Loader0
  <2> QED BY <1>1, <2>1 DEF Busy
<1>6. ASSUME NEW s \in Sids, LoaderAsks(s)
      PROVE  Busy' => Busy
  BY <1>6 DEF LoaderAsks, Busy, Loading
<1>7. ASSUME NEW s \in Sids, LoaderAnswered(s)
      PROVE  (Busy' => Busy) /\ (Asked' => Asked)
  BY <1>7 DEF LoaderAnswered, Busy, Loading, Asked
<1>8. CASE Session
  BY <1>2, <1>3, <1>8
  DEF Session, BeginSession, AuthFails, AuthSucceeds, Maintain, _check_for_feed_interruption,
      EndSession, JoinFeed, FinalizeDay, WipeDay, LoopEnds
<1>9. CASE Stop BY <1>2, <1>5, <1>9 DEF Stop, StopBegins, StopCloses, StopWipes
<1>10. CASE Tick \/ CooldownEnds BY <1>2, <1>10 DEF Tick, CooldownEnds
<1>11. CASE \E i \in Slots : Feed(i) BY <1>2, <1>11 DEF Feed, FeedConnects, FeedFails, Packet
<1>12. CASE \E s \in Sids : Loader(s) BY <1>1, <1>6, <1>7, <1>12 DEF Loader
<1>13. CASE \E w \in Workers : Worker(w) BY <1>2, <1>13 DEF Worker, WorkerTakes, WorkerEnds
<1> QED BY <1>4, <1>8, <1>9, <1>10, <1>11, <1>12, <1>13 DEF Next

-----------------------------------------------------------------------------
(* Whose session the store is in.                                          *)

\* Every candle of a session with a date stays of that date.
LEMMA DateKept ==
    ASSUME DayInv, Next
    PROVE  OfItsDate'
<1>0. Typed /\ Owner /\ OfItsDate /\ state \in Store BY DEF DayInv, Typed
<1>i. state.date # None => \A s \in Sids : \A m \in Held(state, s) : DayOf(m) = state.date
  BY <1>0 DEF OfItsDate, Held
<1> SUFFICES ASSUME state'.date # None, NEW s \in Sids, NEW m \in Held(state', s)
             PROVE  DayOf(m) = state'.date
  BY DEF OfItsDate, Held, DayOf
<1>1. CASE SameCandles
  <2>1. Held(state', s) = Held(state, s) /\ state'.date = state.date
    BY <1>1 DEF SameCandles, Held
  <2> QED BY <1>i, <2>1
<1>2. CASE TodaysWrite
  <2>1. PICK minutes \in SUBSET Times :
           (\A n \in minutes : DayOf(n) = Today) /\ Writes(state, state', minutes)
    BY <1>2 DEF TodaysWrite
  <2>2. state'.date = state.date /\ m \in Held(state, s) \cup minutes BY <2>1 DEF Writes
  <2>3. state.date = Today
    <3>1. CASE Asked \/ Jobs # {}
      <4>1. Busy BY <3>1 DEF Asked, Busy, Loading
      <4>2. state.date \in {None, Today} BY <1>0, <4>1 DEF Owner
      <4> QED BY <2>2, <4>2
    <3>2. CASE state.status = "LIVE"
      <4>1. state.date \in {None, Today} BY <1>0, <3>2 DEF Owner
      <4> QED BY <2>2, <4>1
    <3> QED BY <1>2, <3>1, <3>2 DEF TodaysWrite
  <2> QED BY <1>i, <2>1, <2>2, <2>3
<1>3. CASE FinalizeDay /\ Writes(state, state', {})
  <2>1. state'.date = state.date /\ Held(state', s) \subseteq Held(state, s)
    BY <1>3 DEF Writes
  <2> QED BY <1>i, <2>1
<1>4. CASE state' = begin(Today)
  <2>1. Held(state', s) = {} BY <1>4, BeginEmpty DEF Held, MinutesOf
  <2> QED BY <2>1
<1>5. CASE state' = reset BY <1>5, BeginEmpty
<1> QED BY <1>1, <1>2, <1>3, <1>4, <1>5, StoreSteps DEF SameStore

\* Most steps leave the session as it is.
GoesOn ==
    /\ started' = started /\ (spc' = "auth" => spc = "auth")
    /\ mpc \in {"joinself", "down"} => mpc' \in {"joinself", "down"}

LEMMA SessionSteps ==
    ASSUME Next
    PROVE  BeginSession \/ AuthSucceeds \/ WipeDay \/ GoesOn
<1>1. CASE UNCHANGED <<started, spc, mpc>> BY <1>1 DEF GoesOn
<1>2. CASE Session
  BY <1>2
  DEF Session, AuthFails, OpenFeed, Maintain, _check_for_feed_interruption, EndSession, JoinFeed,
      FinalizeDay, LoopEnds, GoesOn
<1>3. CASE Stop
  BY <1>3 DEF Stop, StopBegins, StopCloses, StopWipes, StopEnds, sessionVars, GoesOn
<1>4. CASE Tick \/ CooldownEnds \/ SecondSweep
  BY <1>1, <1>4 DEF Tick, CooldownEnds, SecondSweep, sessionVars
<1>5. CASE (\E i \in Slots : Feed(i)) \/ \E s \in Sids : Loader(s)
  BY <1>1, <1>5
  DEF Feed, FeedConnects, FeedFails, Packet, Loader, LoaderAsks, LoaderAnswered, sessionVars
<1>6. CASE \E w \in Workers : Worker(w)
  BY <1>1, <1>6 DEF Worker, WorkerTakes, WorkerEnds, sessionVars
<1> QED BY <1>2, <1>3, <1>4, <1>5, <1>6 DEF Next

\* The store belongs to the session that runs.
LEMMA OwnerKept ==
    ASSUME DayInv, Next
    PROVE  Owner'
<1>0. Typed /\ Schedule /\ Stopping /\ Requests /\ Owner /\ state \in Store BY DEF DayInv, Typed
<1>d. /\ now \in Nat /\ Today \in Dates /\ Today # None /\ Hour \in Nat
      /\ \/ now' = now /\ Today' = Today /\ Hour' = Hour
         \/ Tick /\ Today' = Today /\ Hour' = Hour + 1
         \/ Tick /\ Today' # Today /\ EveningOutlasts
  BY <1>0, DaySteps
<1>w. /\ OpenFeed \/ Enqueues \/ (Busy' => Busy)
      /\ Enqueues \/ Jobs' \subseteq Jobs
      /\ (\E s \in Sids : LoaderAsks(s)) \/ (Asked' => Asked)
  BY WorkSteps
<1>j. Jobs # {} => Busy BY DEF Busy
<1>a. Asked => Busy BY DEF Asked, Busy, Loading
<1>h. Hour >= Close \/ Hour < Close BY <1>d, Numbers
<1> DEFINE Quiet == /\ SameStore /\ (Busy' => Busy) /\ Jobs' \subseteq Jobs /\ (Asked' => Asked)
                    /\ GoesOn
<1>e. SameCandles => (Empty' <=> Empty) BY DEF SameCandles, Empty
<1>1. CASE Tick
  <2>1. Quiet
    BY <1>1 DEF Tick, sessionVars, histVars, bfVars, SameStore, SameCandles, Busy, Loading, Jobs,
                Asked, GoesOn
  <2>2. CASE Today' = Today /\ Hour' = Hour + 1
    <3>1. Hour >= Close => Hour' >= Close BY <1>d, <2>2, Numbers
    <3> HIDE DEF Today, Hour, Busy, Jobs, Asked, Empty
    <3> QED BY <1>0, <1>e, <2>1, <2>2, <3>1 DEF Owner, SameStore, SameCandles, GoesOn
  <2>3. CASE EveningOutlasts /\ Today' # Today
    <3>1. /\ ~Loading /\ pass # 1 /\ queue = <<>> /\ (\A w \in Workers : wk[w] = None)
          /\ spc \in {"wait", "gone"} /\ started = None
      BY <1>1, <2>3 DEF Tick, EveningOutlasts, Today
    <3>2. Jobs = {} BY <3>1 DEF Jobs
    <3>3. ~Busy' BY <2>1, <3>1, <3>2 DEF Busy
    <3> HIDE DEF Today, Hour, Busy, Jobs, Asked, Empty
    <3> QED BY <1>0, <1>e, <2>1, <3>1, <3>3 DEF Owner, SameStore, SameCandles, GoesOn
  <2>4. now' # now BY <1>1, <1>d DEF Tick
  <2> QED BY <1>d, <2>2, <2>3, <2>4
<1>2. CASE now' = now /\ Today' = Today /\ Hour' = Hour
  <2>1. CASE Quiet
    <3> HIDE DEF Today, Hour, Busy, Jobs, Asked, Empty
    <3> QED BY <1>0, <1>2, <1>e, <2>1 DEF Owner, SameStore, SameCandles, GoesOn
  <2>2. CASE BeginSession
    <3>1. /\ "stop" \notin flags /\ in_market(now) /\ started # Today /\ UNCHANGED <<started, mpc>>
          /\ UNCHANGED histVars /\ UNCHANGED bfVars
      BY <2>2 DEF BeginSession, Today
    <3>2. mpc = "up" BY <1>0, <3>1 DEF Stopping
    <3>3. started = None BY <1>0, <3>1 DEF Schedule
    <3>4. ~(Hour >= Close) BY <1>d, <3>1, Numbers DEF in_market, Hour
    <3>5. ~Busy BY <1>0, <3>3, <3>4 DEF Owner
    <3>6. (Busy' => Busy) /\ Jobs' \subseteq Jobs /\ (Asked' => Asked)
      BY <3>1 DEF histVars, bfVars, Busy, Loading, Jobs, Asked
    <3>7. CASE spc' = "check" /\ state' = state
      <4> HIDE DEF Today, Hour, Busy, Jobs, Asked
      <4> QED BY <1>0, <1>2, <3>1, <3>3, <3>5, <3>6, <3>7 DEF Owner, Empty
    <3>8. CASE spc' = "auth" /\ state' = begin(Today)
      <4>1. Empty' /\ state'.date = Today /\ state'.status = "AUTHENTICATING"
        BY <3>8, BeginEmpty DEF Empty
      <4> HIDE DEF Today, Hour, Busy, Jobs, Asked, Empty
      <4> QED BY <1>2, <3>1, <3>3, <3>5, <3>6, <4>1, <1>d DEF Owner
    <3> QED BY <2>2, <3>7, <3>8 DEF BeginSession, Today
  <2>3. CASE AuthFails
    <3>1. /\ SameCandles /\ state'.status # "LIVE" /\ spc' = "check" /\ spc = "auth"
          /\ UNCHANGED <<started, mpc>>
      BY <1>0, <2>3 DEF AuthFails, SameCandles, Store
    <3>2. (Busy' => Busy) /\ Jobs' \subseteq Jobs /\ (Asked' => Asked)
      BY <2>3 DEF AuthFails, histVars, bfVars, Busy, Loading, Jobs, Asked
    <3> HIDE DEF Today, Hour, Busy, Jobs, Asked, Empty
    <3> QED BY <1>0, <1>2, <1>e, <3>1, <3>2 DEF Owner, SameCandles
  <2>4. CASE AuthSucceeds
    <3>1. /\ SameCandles /\ spc' = "snapshot" /\ spc = "auth"
          /\ started' = DayOf(stick) /\ UNCHANGED mpc
      BY <1>0, <2>4 DEF AuthSucceeds, SameCandles, Store
    <3>2. (Busy' => Busy) /\ Jobs' \subseteq Jobs /\ (Asked' => Asked)
      BY <2>4 DEF AuthSucceeds, histVars, bfVars, Busy, Loading, Jobs, Asked
    <3>3. DayOf(stick) = Today BY <1>0, <3>1 DEF Schedule
    <3>4. Empty /\ ~Busy /\ (state.date = Today \/ mpc \in {"joinself", "down"})
      BY <1>0, <3>1 DEF Owner
    <3>5. mpc \in {"joinself", "down"} => state.date = None BY <1>0 DEF Stopping
    <3>6. Jobs = {} /\ ~Asked BY <1>a, <1>j, <3>4
    <3> HIDE DEF Today, Hour, Busy, Jobs, Asked, Empty
    <3> QED BY <1>2, <1>d, <1>e, <3>1, <3>2, <3>3, <3>4, <3>5, <3>6 DEF Owner, SameCandles
  <2>5. CASE OpenFeed
    <3>1. /\ SameStore /\ spc = "snapshot" /\ spc' = "check" /\ UNCHANGED <<started, mpc>>
      BY <2>5 DEF OpenFeed, SameStore, SameCandles
    <3>2. Jobs' = Jobs /\ ~Asked'
      BY <2>5 DEF OpenFeed, bfVars, Jobs, Asked, NewLoader
    <3>3. started = Today BY <1>0, <3>1 DEF Schedule
    <3>4. state.date \in {None, Today} BY <1>0, <1>d, <3>3 DEF Owner
    <3> HIDE DEF Today, Hour, Busy, Jobs, Asked, Empty
    <3> QED BY <1>0, <1>2, <1>d, <1>e, <3>1, <3>2, <3>3, <3>4 DEF Owner, SameStore, SameCandles
  <2>6. CASE Enqueues
    <3>1. /\ state' = state /\ spc = "check" /\ spc' = "wait" /\ UNCHANGED <<started, mpc, hist, pass>>
          /\ state.status = "LIVE"
      BY <2>6 DEF Enqueues, histVars
    <3>2. SameStore BY <3>1 DEF SameStore, SameCandles
    <3>3. Asked' = Asked BY <3>1 DEF Asked
    <3>4. started # None /\ state.date \in {None, Today} BY <1>0, <3>1 DEF Owner
    <3>5. state.date = None => Jobs' = {}
      <4>1. ASSUME state.date = None PROVE Jobs' = {}
        <5>1. Empty /\ Jobs = {} BY <1>0, <3>1, <4>1 DEF Owner
        <5>2. Gaps(stick) = {} BY <5>1 DEF Empty, Gaps
        <5>3. Jobs' \subseteq Jobs \cup {Gap(s, stick) : s \in Gaps(stick)} BY <1>0, JobSteps
        <5> QED BY <5>1, <5>2, <5>3
      <4> QED BY <4>1
    <3> HIDE DEF Today, Hour, Busy, Jobs, Asked, Empty
    <3> QED BY <1>0, <1>2, <1>e, <3>1, <3>2, <3>3, <3>4, <3>5 DEF Owner, SameStore, SameCandles
  <2>7. CASE FinalizeDay
    <3>1. Writes(state, state', {}) BY <1>0, <2>7, FinalizeWrites DEF FinalizeDay
    <3>2. /\ state'.date = state.date /\ state'.status = state.status
          /\ spc' = "archived" /\ UNCHANGED <<started, mpc>>
      BY <2>7, <3>1 DEF FinalizeDay, Writes
    <3>3. Empty => Empty' BY <1>0, <3>1, WriteOfNothing DEF Empty
    <3>4. (Busy' => Busy) /\ Jobs' \subseteq Jobs /\ (Asked' => Asked)
      BY <2>7 DEF FinalizeDay, histVars, bfVars, Busy, Loading, Jobs, Asked
    <3> HIDE DEF Today, Hour, Busy, Jobs, Asked, Empty
    <3> QED BY <1>0, <1>2, <3>2, <3>3, <3>4 DEF Owner
  <2>8. CASE WipeDay \/ StopWipes
    <3>1. state' = reset BY <2>8 DEF WipeDay, StopWipes
    <3>2. state'.date = None /\ state'.status = "CLOSED" /\ Empty'
      <4>1. Empty' BY <3>1 DEF reset, NewState, Empty
      <4> QED BY <3>1, <4>1, BeginEmpty
    <3>3. (Busy' => Busy) /\ Jobs' \subseteq Jobs /\ (Asked' => Asked)
      BY <2>8 DEF WipeDay, StopWipes, histVars, bfVars, Busy, Loading, Jobs, Asked
    <3>4. CASE WipeDay
      <4>1. spc = "archived" /\ spc' = "wait" /\ started' = None BY <3>4 DEF WipeDay
      <4>2. Hour >= Close BY <1>0, <4>1 DEF Schedule
      <4> HIDE DEF Today, Hour, Busy, Jobs, Asked, Empty
      <4> QED BY <1>2, <3>2, <3>3, <4>1, <4>2 DEF Owner
    <3>5. CASE StopWipes
      <4>1. UNCHANGED <<spc, started>> /\ mpc' = "joinself" BY <3>5 DEF StopWipes, sessionVars
      <4> HIDE DEF Today, Hour, Busy, Jobs, Asked, Empty
      <4> QED BY <1>0, <1>2, <3>2, <3>3, <4>1 DEF Owner
    <3> QED BY <2>8, <3>4, <3>5
  <2>9. ASSUME NEW s \in Sids, LoaderAsks(s) PROVE Owner'
    <3>1. SameStore BY <2>9 DEF LoaderAsks, SameStore, SameCandles
    <3>2. GoesOn /\ (Busy' => Busy) /\ Jobs' \subseteq Jobs
      BY <2>9 DEF LoaderAsks, sessionVars, bfVars, GoesOn, Busy, Loading, Jobs
    <3>3. CASE Asked' => Asked BY <2>1, <3>1, <3>2, <3>3
    <3>4. CASE ~(Asked' => Asked)
      <4>1. ~Stopped
        <5>1. ASSUME Stopped PROVE Asked' => Asked BY <2>9, <5>1 DEF LoaderAsks, Asked, Loader0
        <5> QED BY <3>4, <5>1
      <4>2. mpc \notin {"joinself", "down"} BY <1>0, <4>1 DEF Stopping, Stopped
      <4> HIDE DEF Today, Hour, Busy, Jobs, Asked, Empty
      <4> QED BY <1>0, <1>2, <1>e, <3>1, <3>2, <4>2 DEF Owner, SameStore, SameCandles, GoesOn
    <3> QED BY <3>3, <3>4
  <2>10. CASE TodaysWrite /\ ~\E s \in Sids : LoaderAsks(s)
    <3>1. PICK minutes \in SUBSET Times : Writes(state, state', minutes) BY <2>10 DEF TodaysWrite
    <3>2. state'.date = state.date /\ state'.status = state.status /\ UNCHANGED <<started, spc, mpc>>
      BY <2>10, <3>1 DEF Writes, TodaysWrite
    <3>3. ~OpenFeed /\ ~Enqueues BY <3>2 DEF OpenFeed, Enqueues
    <3>4. (Busy' => Busy) /\ Jobs' \subseteq Jobs /\ (Asked' => Asked) BY <1>w, <2>10, <3>3
    <3>5. CASE Asked \/ Jobs # {}
      <4>1. Busy BY <1>a, <1>j, <3>5
      <4> HIDE DEF Today, Hour, Busy, Jobs, Asked, Empty
      <4> QED BY <1>0, <1>2, <3>2, <3>4, <3>5, <4>1 DEF Owner
    <3>6. CASE state.status = "LIVE" /\ state.date # None
      <4>1. started # None /\ spc # "auth" BY <1>0, <3>6 DEF Owner, Schedule
      <4> HIDE DEF Today, Hour, Busy, Jobs, Asked, Empty
      <4> QED BY <1>0, <1>2, <3>2, <3>4, <3>6, <4>1 DEF Owner
    <3> QED BY <2>10, <3>5, <3>6 DEF TodaysWrite
  <2>11. CASE /\ SameStore /\ ~OpenFeed /\ ~Enqueues /\ ~BeginSession /\ ~AuthSucceeds /\ ~WipeDay
              /\ ~\E s \in Sids : LoaderAsks(s)
    BY <1>w, <2>1, <2>11, SessionSteps
  <2>12. \/ SameStore \/ AuthFails \/ AuthSucceeds \/ TodaysWrite \/ FinalizeDay \/ BeginSession
         \/ WipeDay \/ StopWipes
    BY StoreSteps
  <2> HIDE DEF Quiet
  <2> QED BY <2>2, <2>3, <2>4, <2>5, <2>6, <2>7, <2>8, <2>9, <2>10, <2>11, <2>12
<1> QED BY <1>d, <1>1, <1>2

-----------------------------------------------------------------------------
(* The theorems.                                                           *)

LEMMA DayInit == Init => DayInv
<1> SUFFICES ASSUME Init PROVE DayInv OBVIOUS
<1>1. Typed BY TypedInit
<1>2. /\ state.date = None /\ state.status = "CLOSED"
      /\ \A s \in Sids : state.candles[s] = {} /\ state.cur[s] = None
  BY DEF Init, NewState
<1>3. Jobs = {} /\ ~Asked /\ ~Busy BY DEF Init, Jobs, Asked, Busy, Loading, NoLoader, Loader0
<1>4. started = None /\ spc = "wait" /\ mpc = "up" /\ flags = {} BY DEF Init
<1>5. Schedule /\ Stopping BY <1>2, <1>4 DEF Schedule, Stopping
<1>6. Requests BY <1>3 DEF Requests, Asked
<1>7. Owner BY <1>2, <1>3, <1>4 DEF Owner
<1>8. OfItsDate BY <1>2 DEF OfItsDate
<1> QED BY <1>1, <1>5, <1>6, <1>7, <1>8 DEF DayInv

LEMMA DayKept ==
    ASSUME DayInv, [Next]_vars
    PROVE  DayInv'
<1>1. CASE Next
  BY <1>1, TypedKept, ScheduleKept, StoppingKept, RequestsKept, OwnerKept, DateKept DEF DayInv
<1>2. CASE UNCHANGED vars
  <2>1. Typed' /\ Schedule' /\ Stopping' /\ OfItsDate'
    BY <1>2, TypedKept
    DEF vars, sessionVars, DayInv, Schedule, Stopping, OfItsDate, Today, Hour, MinutesOf, DayOf
  <2>2. Jobs' = Jobs /\ hist' = hist /\ Today' = Today /\ now' = now
    BY <1>2 DEF vars, histVars, bfVars, Jobs, Today
  <2>3. Requests' BY <2>2 DEF DayInv, Requests, DayOf
  <2>4. Owner'
    BY <1>2, <2>2
    DEF vars, sessionVars, histVars, DayInv, Owner, Empty, Busy, Loading, Asked, Hour
  <2> QED BY <2>1, <2>3, <2>4 DEF DayInv
<1> QED BY <1>1, <1>2

\* SessionCandles: while a session is LIVE, every candle in memory, formed or forming, is of
\* the session's own day, for any day layout, number of days, stocks, workers and loaders, and
\* whichever request is answered after whatever the session and stop() have done meanwhile.
THEOREM CandlesOfTheDay == Spec => []SessionCandles
<1>1. DayInv => SessionCandles
  <2> SUFFICES ASSUME DayInv, state.status = "LIVE", NEW s \in Sids,
                      NEW m \in MinutesOf(state.candles[s]) \cup ({state.cur[s]} \ {None})
               PROVE  DayOf(m) = state.date
    BY DEF SessionCandles
  <2>1. CASE state.date # None BY <2>1 DEF DayInv, OfItsDate
  <2>2. CASE state.date = None
    <3>1. state.candles[s] = {} /\ state.cur[s] = None BY <2>2 DEF DayInv, Owner, Empty
    <3> QED BY <3>1 DEF MinutesOf
  <2> QED BY <2>1, <2>2
<1> QED BY <1>1, DayInit, DayKept, PTL DEF Spec

\* HistoricalStays: a minute the historical API supplied stays as supplied until the state is
\* wiped, whoever writes next.
THEOREM HistoryNeverOverwritten == Spec => HistoricalStays
<1> DEFINE Stay == state'.date = state.date /\ state.date # None =>
                      \A s \in Sids : \A c \in state.candles[s] :
                         c.src = "HIST" => c \in state'.candles[s]
<1>1. ASSUME DayInv, [Next]_vars PROVE Stay
  <2> SUFFICES ASSUME state'.date = state.date, state.date # None, NEW s \in Sids,
                      NEW c \in state.candles[s], c.src = "HIST"
               PROVE  c \in state'.candles[s]
    OBVIOUS
  <2>1. CASE SameCandles BY <2>1 DEF SameCandles
  <2>2. ASSUME NEW minutes, Writes(state, state', minutes) PROVE c \in state'.candles[s]
    BY <2>2 DEF Writes
  <2>3. CASE BeginSession /\ state' = begin(Today)
    <3>1. state.date = Today BY <2>3, BeginEmpty
    <3>2. started # Today BY <2>3 DEF BeginSession, Today
    <3>3. started = None BY <1>1, <3>2 DEF DayInv, Schedule
    <3>4. Empty BY <1>1, <3>3 DEF DayInv, Owner
    <3> QED BY <3>4 DEF Empty
  <2>4. CASE state' = reset BY <2>4, BeginEmpty
  <2>5. CASE UNCHANGED vars BY <2>5 DEF vars
  <2>6. CASE TodaysWrite BY <2>2, <2>6 DEF TodaysWrite
  <2> QED BY <1>1, <2>1, <2>2, <2>3, <2>4, <2>5, <2>6, StoreSteps DEF SameStore
<1>2. Spec => [][Stay]_vars BY <1>1, DayInit, DayKept, PTL DEF Spec
<1> QED BY <1>2 DEF HistoricalStays
=============================================================================
