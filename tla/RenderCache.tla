---------------------------- MODULE RenderCache ----------------------------
(***************************************************************************)
(* How one node's candles become response bodies: the per-stock encoding   *)
(* that is extended in place (live_core.render.stock_fragment), the two-   *)
(* phase coherent snapshot (live_core.render.snapshot) and the body and    *)
(* tail caches with their single flight (live_core.api.LiveCoreService     *)
(* ._cached), all while the feed and history threads keep writing.         *)
(*                                                                         *)
(* An encoding is what it encodes: the reference prices and the candles.   *)
(* A body is the session status of its head, its tail and its version.     *)
(* One cache key is modelled; the entries of different keys only share     *)
(* the clean-up of what nobody asks for.  A clock second ages the bodies.  *)
(***************************************************************************)
EXTENDS StockSeries, SequenceTheorems, WellFoundedInduction, TLAPS

CONSTANTS
    Stocks,         \* stocks of the partition
    Requests,       \* request threads
    None,           \* Python's None
    Refs,           \* reference prices
    Bars,           \* candles that trades and historical bars complete
    RenderSeconds,  \* render_cache_seconds
    MaxVersion      \* bound on the content versions of a run

\* What the code gives these constants; the instances assume it.
RenderAssumption ==
    /\ RenderSeconds \in Nat /\ MaxVersion \in Nat
    /\ None \notin Refs /\ None \notin Requests /\ None \notin Nat
    /\ \A bar \in Bars : bar.epoch \in Nat

VARIABLES
    session,   \* the running session's number, or None
    sessions,  \* sessions begun so far
    ending,    \* _end_session has reset the state and has not dropped the bodies yet
    version,   \* NodeState.version
    rows,      \* per stock: completed candles
    ref,       \* per stock: reference price
    revision,  \* per stock: StockSeries.revision
    generation,\* per stock: StockSeries.generation
    frag,      \* per stock: the cached encoding, with what it was made from
    req,       \* per request: where it is, and what it has built
    keyLock,   \* the request that builds the body, or None
    body,      \* _cache[key]: the body and its age, or None
    tail,      \* _tails[key]: the stocks part and the content key it was made for, or None
    served,    \* the body the last step returned, or None
    newest,    \* history variable: the newest version any request was given
    contents   \* history variable: what the node published at each version

seriesVars == <<rows, ref, revision, generation>>
vars == <<session, sessions, ending, version, seriesVars, frag, req, keyLock, body, tail, served, newest,
          contents>>

\* What the node publishes now.
Content == [session |-> session,
            stocks |-> IF session = None THEN None
                       ELSE [s \in Stocks |-> [ref |-> ref[s], rows |-> rows[s]]]]

Idle == [pc |-> "idle", todo |-> {}, session |-> None, floor |-> 0, version |-> 0,
         content |-> None, tail |-> None]

NewSeries ==
    /\ rows' = [s \in Stocks |-> <<>>]
    /\ ref' = [s \in Stocks |-> None]
    /\ revision' = [s \in Stocks |-> 0]
    /\ generation' = [s \in Stocks |-> 0]
    /\ frag' = [s \in Stocks |-> None]

Init ==
    /\ session = None /\ sessions = 0 /\ ending = FALSE /\ version = 0
    /\ rows = [s \in Stocks |-> <<>>]
    /\ ref = [s \in Stocks |-> None]
    /\ revision = [s \in Stocks |-> 0]
    /\ generation = [s \in Stocks |-> 0]
    /\ frag = [s \in Stocks |-> None]
    /\ req = [r \in Requests |-> Idle]
    /\ keyLock = None /\ body = None /\ tail = None
    /\ served = None /\ newest = 0
    /\ contents = [v \in {0} |-> [session |-> None, stocks |-> None]]

-----------------------------------------------------------------------------
(* The writers: each operation takes the state's lock once.                *)

\* `version` moves with the content.
Publish ==
    /\ version < MaxVersion
    /\ version' = version + 1
    /\ contents' = [v \in DOMAIN contents \cup {version'} |->
                        IF v = version' THEN Content' ELSE contents[v]]
    /\ served' = None

\* begin(): new series objects for the session.
Begin ==
    /\ session = None /\ ~ending
    /\ session' = sessions + 1 /\ sessions' = sessions + 1
    /\ NewSeries
    /\ UNCHANGED <<ending, req, keyLock, body, tail, newest>>
    /\ Publish

\* _end_session: reset() drops the session's series,
Reset ==
    /\ session # None
    /\ session' = None /\ ending' = TRUE
    /\ NewSeries
    /\ UNCHANGED <<sessions, req, keyLock, body, tail, newest>>
    /\ Publish

\* and its hooks drop the cached bodies (clear()).
Clear ==
    /\ ending
    /\ ending' = FALSE
    /\ body' = None /\ tail' = None /\ served' = None
    /\ UNCHANGED <<session, sessions, version, contents, seriesVars, frag, req, keyLock, newest>>

\* put_completed moves the generation unless the candle is a plain append.
Rewrites(s, bar) == ~IsAppend(rows[s], bar)

PutBar(s, bar) ==
    /\ session # None /\ ~Refused(rows[s], bar)
    /\ rows' = [rows EXCEPT ![s] = PutCompleted(@, bar)]
    /\ revision' = [revision EXCEPT ![s] = @ + 1]
    /\ generation' = [generation EXCEPT ![s] = IF Rewrites(s, bar) THEN @ + 1 ELSE @]
    /\ UNCHANGED <<session, sessions, ending, ref, frag, req, keyLock, body, tail, newest>>
    /\ Publish

SetReference(s, p) ==
    /\ session # None /\ ref[s] # p
    /\ ref' = [ref EXCEPT ![s] = p]
    /\ revision' = [revision EXCEPT ![s] = @ + 1]
    /\ UNCHANGED <<session, sessions, ending, rows, generation, frag, req, keyLock, body, tail, newest>>
    /\ Publish

-----------------------------------------------------------------------------
(* stock_fragment.                                                         *)

\* The cached encoding can be extended: nothing it holds has been rewritten.
Extends(s) ==
    /\ frag[s] # None
    /\ frag[s].generation = generation[s] /\ frag[s].refs = ref[s]
    /\ frag[s].count <= Len(rows[s])

\* The encoding stock_fragment returns and caches.
Encoded(s) ==
    LET text == IF Extends(s)
                THEN [frag[s].text EXCEPT !.rows =
                        @ \o SubSeq(rows[s], frag[s].count + 1, Len(rows[s]))]
                ELSE [ref |-> ref[s], rows |-> rows[s]]
    IN  IF frag[s] # None /\ frag[s].revision = revision[s] THEN frag[s]
        ELSE [text |-> text, revision |-> revision[s], generation |-> generation[s],
              refs |-> ref[s], count |-> Len(rows[s])]

-----------------------------------------------------------------------------
(* _cached.                                                                *)

Fresh == body # None /\ body.age <= RenderSeconds

Give(r, b, floor) ==
    /\ served' = [version |-> b.version, session |-> b.session, tail |-> b.tail, floor |-> floor]
    /\ newest' = IF b.version > newest THEN b.version ELSE newest
    /\ req' = [req EXCEPT ![r] = Idle]

\* A body younger than render_cache_seconds is reused outright.
ReuseBody(r) ==
    /\ req[r].pc = "idle" /\ Fresh
    /\ Give(r, body, newest)
    /\ UNCHANGED <<session, sessions, ending, version, seriesVars, frag, keyLock, body, tail, contents>>

\* Otherwise the request goes on to the key's lock.
AskForBuild(r) ==
    /\ req[r].pc = "idle" /\ ~Fresh
    /\ req' = [req EXCEPT ![r] = [Idle EXCEPT !.pc = "waiting", !.floor = newest]]
    /\ served' = None
    /\ UNCHANGED <<session, sessions, ending, version, seriesVars, frag, keyLock, body, tail, newest,
                   contents>>

SingleFlight == keyLock = None

\* With the lock: the body built meanwhile, or phase 1 of a snapshot of the session's stocks.
StartBuild(r) ==
    /\ req[r].pc = "waiting" /\ SingleFlight
    /\ IF Fresh THEN Give(r, body, req[r].floor) /\ keyLock' = keyLock
       ELSE /\ keyLock' = r
            /\ req' = [req EXCEPT ![r].pc = "refresh", ![r].session = session,
                                  ![r].todo = IF session = None THEN {} ELSE Stocks]
            /\ served' = None /\ newest' = newest
    /\ UNCHANGED <<session, sessions, ending, version, seriesVars, frag, body, tail, contents>>

\* Phase 1: one stock's encoding is brought up to date.  A stock of a session that has ended
\* meanwhile is an object nobody else sees any more.
Refresh(r, s) ==
    /\ req[r].pc = "refresh" /\ s \in req[r].todo
    /\ req' = [req EXCEPT ![r].todo = @ \ {s}]
    /\ frag' = IF req[r].session = session THEN [frag EXCEPT ![s] = Encoded(s)] ELSE frag
    /\ served' = None
    /\ UNCHANGED <<session, sessions, ending, version, seriesVars, keyLock, body, tail, newest, contents>>

\* Phase 2: version, session and every encoding are captured under one lock.
Capture(r) ==
    /\ req[r].pc = "refresh" /\ req[r].todo = {}
    /\ frag' = IF session = None THEN frag ELSE [s \in Stocks |-> Encoded(s)]
    /\ req' = [req EXCEPT ![r].pc = "captured", ![r].version = version, ![r].session = session,
                  ![r].content = IF session = None THEN None
                                 ELSE [s \in Stocks |-> Encoded(s).text]]
    /\ served' = None
    /\ UNCHANGED <<session, sessions, ending, version, seriesVars, keyLock, body, tail, newest, contents>>

\* The tail is reused while the content key is unchanged, otherwise it is built anew.
Assemble(r) ==
    /\ req[r].pc = "captured"
    /\ req' = [req EXCEPT ![r].pc = "assembled", ![r].tail =
                 IF tail # None /\ tail.key = <<req[r].version, req[r].session>>
                 THEN tail.content ELSE req[r].content]
    /\ served' = None
    /\ UNCHANGED <<session, sessions, ending, version, seriesVars, frag, keyLock, body, tail, newest,
                   contents>>

\* The new body and tail are stored and the body is returned.
Store(r) ==
    /\ req[r].pc = "assembled"
    /\ body' = [version |-> req[r].version, session |-> req[r].session, tail |-> req[r].tail,
                age |-> 0]
    /\ tail' = [key |-> <<req[r].version, req[r].session>>, content |-> req[r].tail]
    /\ Give(r, body', req[r].floor)
    /\ keyLock' = None
    /\ UNCHANGED <<session, sessions, ending, version, seriesVars, frag, contents>>

Second ==
    /\ body # None /\ body.age <= RenderSeconds
    /\ body' = [body EXCEPT !.age = @ + 1]
    /\ served' = None
    /\ UNCHANGED <<session, sessions, ending, version, seriesVars, frag, req, keyLock, tail, newest,
                   contents>>

-----------------------------------------------------------------------------
Writer ==
    \/ Begin \/ Reset \/ Clear
    \/ \E s \in Stocks, bar \in Bars : PutBar(s, bar)
    \/ \E s \in Stocks, p \in Refs : SetReference(s, p)

Build(r) ==
    \/ StartBuild(r) \/ Capture(r) \/ Assemble(r) \/ Store(r)
    \/ \E s \in Stocks : Refresh(r, s)

Request(r) == ReuseBody(r) \/ AskForBuild(r) \/ Build(r)

Next == Writer \/ Second \/ \E r \in Requests : Request(r)

Spec == Init /\ [][Next]_vars

-----------------------------------------------------------------------------
(* Properties.                                                             *)

Text == [ref : Refs \cup {None}, rows : Seq(Bars)]
StocksPart == [Stocks -> Text] \cup {None}
SessionId == Nat \cup {None}

\* Every variable has its type, and the key's lock belongs to the one request that builds.
TypeOK ==
    /\ session \in SessionId /\ sessions \in Nat /\ ending \in BOOLEAN
    /\ version \in 0 .. MaxVersion
    /\ rows \in [Stocks -> Seq(Bars)] /\ ref \in [Stocks -> Refs \cup {None}]
    /\ revision \in [Stocks -> Nat] /\ generation \in [Stocks -> Nat]
    /\ frag \in [Stocks -> [text : Text, revision : Nat, generation : Nat,
                            refs : Refs \cup {None}, count : Nat] \cup {None}]
    /\ req \in [Requests ->
                 [pc : {"idle", "waiting", "refresh", "captured", "assembled"},
                  todo : SUBSET Stocks, session : SessionId, floor : Nat, version : Nat,
                  content : StocksPart, tail : StocksPart]]
    /\ keyLock \in Requests \cup {None}
    /\ \A r \in Requests : keyLock = r <=> req[r].pc \in {"refresh", "captured", "assembled"}
    /\ body \in [version : Nat, session : SessionId, tail : StocksPart,
                 age : 0 .. RenderSeconds + 1] \cup {None}
    /\ tail \in [key : Nat \X SessionId, content : StocksPart] \cup {None}
    /\ newest \in 0 .. MaxVersion

\* The encoding that stock_fragment extends in place is always the encoding it would make
\* from scratch, whatever mix of appends, insertions, corrections and reference changes
\* happened since it was cached.
FragmentExact == \A s \in Stocks : Encoded(s).text = [ref |-> ref[s], rows |-> rows[s]]

\* A response shows what the node published at one moment: its stocks part and its session
\* are those of its version, although the stocks part may come from an earlier response.
BodyCoherent ==
    served # None =>
        [session |-> served.session, stocks |-> served.tail] = contents[served.version]

\* A request that starts after another one was answered with version v is never answered with
\* an older one (one build at a time per body).
MonotonicBodies == served # None => served.version >= served.floor

-----------------------------------------------------------------------------
(* The safety properties, for any number of stocks, requests, bars and     *)
(* content versions.                                                       *)

Encoding == [text : Text, revision : Nat, generation : Nat, refs : Refs \cup {None}, count : Nat]
Thread ==
    [pc : {"idle", "waiting", "refresh", "captured", "assembled"}, todo : SUBSET Stocks,
     session : SessionId, floor : Nat, version : Nat, content : StocksPart, tail : StocksPart]
Stored == [version : Nat, session : SessionId, tail : StocksPart, age : 0 .. RenderSeconds + 1]

\* What a cached encoding f of stock s still tells of the stock: of its generation, the candles
\* it was made from are the first ones of today; of its revision, it is the encoding of today.
Kept(s, f) ==
    /\ f.revision <= revision[s] /\ f.generation <= generation[s] /\ f.text.ref = f.refs
    /\ f.generation = generation[s] =>
          f.count <= Len(rows[s]) /\ f.text.rows = SubSeq(rows[s], 1, f.count)
    /\ f.revision = revision[s] =>
          f.generation = generation[s] /\ f.refs = ref[s] /\ f.count = Len(rows[s])
Fragments == \A s \in Stocks : frag[s] # None => Kept(s, frag[s])

\* contents records every version up to the current one.
History == DOMAIN contents = 0 .. version /\ contents[version] = Content

\* Version v had this session and these stocks.
AtVersion(v, id, stocks) ==
    v \in 0 .. version /\ [session |-> id, stocks |-> stocks] = contents[v]

\* What is cached or under construction is the content of the version it carries.
Coherent ==
    /\ \A r \in Requests :
        /\ req[r].pc = "captured" => AtVersion(req[r].version, req[r].session, req[r].content)
        /\ req[r].pc = "assembled" => AtVersion(req[r].version, req[r].session, req[r].tail)
    /\ tail # None => AtVersion(tail.key[1], tail.key[2], tail.content)
    /\ body # None => AtVersion(body.version, body.session, body.tail)

\* What is cached or under construction is at least as new as what any request was given, and
\* what is under construction at least as new as what is cached.
Ahead ==
    /\ newest <= version
    /\ body # None => newest <= body.version
    /\ \A r \in Requests :
        /\ req[r].floor <= newest
        /\ req[r].pc \in {"captured", "assembled"} =>
            newest <= req[r].version /\ (body # None => body.version <= req[r].version)

Answers == BodyCoherent /\ MonotonicBodies
Inductive == TypeOK /\ Fragments /\ History /\ Coherent /\ Ahead /\ Answers

\* The types, with their sets named.
LEMMA Types ==
    ASSUME TypeOK
    PROVE  /\ session \in SessionId /\ version \in Nat /\ newest \in Nat /\ sessions \in Nat
           /\ rows \in [Stocks -> Seq(Bars)] /\ ref \in [Stocks -> Refs \cup {None}]
           /\ revision \in [Stocks -> Nat] /\ generation \in [Stocks -> Nat]
           /\ frag \in [Stocks -> Encoding \cup {None}] /\ req \in [Requests -> Thread]
           /\ body \in Stored \cup {None}
BY DEF TypeOK, Encoding, Thread, Stored

-----------------------------------------------------------------------------
(* Encodings.                                                              *)

\* bisect_left finds a position in every epochs column.
LEMMA BisectLeftInside ==
    ASSUME RenderAssumption, NEW rs \in Seq(Bars), NEW e \in Nat
    PROVE  BisectLeft(rs, e) \in 1 .. Len(rs) + 1
<1> DEFINE S == {i \in 1 .. Len(rs) + 1 : i <= Len(rs) => rs[i].epoch >= e}
           R == OpToRel(<, Nat)
<1>0. Len(rs) \in Nat
  OBVIOUS
<1>1. S \subseteq Nat /\ S # {}
  <2>1. Len(rs) + 1 \in S
    BY <1>0
  <2> QED BY <2>1, <1>0
<1>2. PICK p \in S : \A i \in S : ~(<<i, p>> \in R)
  <2>1. IsWellFoundedOn(R, Nat)
    BY NatLessThanWellFounded
  <2> HIDE DEF S, R
  <2> QED BY <1>1, <2>1, WFMin
<1>3. p \in 1 .. Len(rs) + 1 /\ (p <= Len(rs) => rs[p].epoch >= e)
  BY <1>2
<1>4. ASSUME NEW i \in 1 .. p - 1 PROVE rs[i].epoch < e
  <2>1. i \in 1 .. Len(rs) /\ i \in Nat /\ p \in Nat /\ i < p
    BY <1>0, <1>3
  <2>2. <<i, p>> \in R
    BY <2>1 DEF OpToRel
  <2>3. i \notin S
    <3> HIDE DEF S, R
    <3> QED BY <1>2, <2>2
  <2>4. rs[i].epoch \in Nat
    <3>1. rs[i] \in Bars
      BY <2>1
    <3> QED BY <3>1 DEF RenderAssumption
  <2> QED BY <2>1, <2>3, <2>4, <1>0
<1>5. IsBisectLeft(rs, e, p)
  BY <1>3, <1>4 DEF IsBisectLeft
<1> HIDE DEF S, R
<1> QED BY <1>3, <1>5 DEF BisectLeft

\* put_completed keeps the columns well formed, and appends what is newer than all.
LEMMA PutCompletedSeq ==
    ASSUME RenderAssumption, NEW rs \in Seq(Bars), NEW bar \in Bars
    PROVE  /\ PutCompleted(rs, bar) \in Seq(Bars)
           /\ IsAppend(rs, bar) => PutCompleted(rs, bar) = Append(rs, bar)
<1> DEFINE p == BisectLeft(rs, bar.epoch)
<1>1. p \in 1 .. Len(rs) + 1
  BY BisectLeftInside DEF RenderAssumption
<1>2. Append(rs, bar) \in Seq(Bars)
  OBVIOUS
<1>3. ASSUME p <= Len(rs) PROVE [rs EXCEPT ![p] = bar] \in Seq(Bars)
  BY <1>1, <1>3
<1>4. InsertRow(rs, p, bar) \in Seq(Bars)
  <2> HIDE DEF p
  <2> DEFINE f == [i \in 1 .. Len(rs) + 1 |-> IF i < p THEN rs[i] ELSE IF i = p THEN bar ELSE rs[i - 1]]
  <2>1. ASSUME NEW i \in 1 .. Len(rs) + 1 PROVE f[i] \in Bars
    BY <1>1
  <2>2. f \in [1 .. Len(rs) + 1 -> Bars]
    BY <2>1
  <2>3. f \in Seq(Bars)
    <3> HIDE DEF f
    <3> QED BY <2>2
  <2> QED BY <2>3 DEF InsertRow
<1> QED BY <1>2, <1>3, <1>4 DEF PutCompleted

\* A prefix of candles and the candles after it are all of them.
LEMMA PrefixAndRest ==
    ASSUME NEW rs \in Seq(Bars), NEW n \in 0 .. Len(rs)
    PROVE  SubSeq(rs, 1, n) \o SubSeq(rs, n + 1, Len(rs)) = rs
<1>1. Len(rs) \in Nat /\ 1 \in 1 .. Len(rs) + 1 /\ n \in 1 - 1 .. Len(rs) /\ Len(rs) \in n .. Len(rs)
  OBVIOUS
<1>2. SubSeq(rs, 1, n) \o SubSeq(rs, n + 1, Len(rs)) = SubSeq(rs, 1, Len(rs))
  BY <1>1, ConcatAdjacentSubSeq, Zenon
<1> QED BY <1>2, SubSeqFull, Zenon

\* The encoding stock_fragment extends or keeps is the one it would make from scratch.
LEMMA EncodedExact ==
    ASSUME TypeOK, Fragments, NEW s \in Stocks
    PROVE  Encoded(s) = [text |-> [ref |-> ref[s], rows |-> rows[s]], revision |-> revision[s],
                         generation |-> generation[s], refs |-> ref[s], count |-> Len(rows[s])]
<1> DEFINE f == frag[s]
           q == rows[s]
<1>1. q \in Seq(Bars) /\ Len(q) \in Nat /\ SubSeq(q, 1, Len(q)) = q
  BY Types
<1>2. f \in Encoding \cup {None}
  BY Types
<1>3. CASE f = None
  BY <1>3 DEF Encoded, Extends
<1>4. CASE f # None
  <2>1. /\ f \in Encoding /\ f.text \in Text /\ f.count \in Nat
        /\ f = [text |-> f.text, revision |-> f.revision, generation |-> f.generation,
                refs |-> f.refs, count |-> f.count]
        /\ f.text = [ref |-> f.text.ref, rows |-> f.text.rows]
    BY <1>2, <1>4 DEF Encoding, Text
  <2>2. Kept(s, f)
    BY <1>4 DEF Fragments
  <2>3. CASE f.revision = revision[s]
    <3>1. f.generation = generation[s] /\ f.refs = ref[s] /\ f.count = Len(q) /\ f.text.rows = q /\ f.text.ref = ref[s]
      BY <1>1, <2>2, <2>3 DEF Kept
    <3>2. Encoded(s) = f
      BY <1>4, <2>3 DEF Encoded
    <3> QED BY <2>1, <2>3, <3>1, <3>2
  <2>4. CASE f.revision # revision[s] /\ Extends(s)
    <3>1. /\ f.count \in 0 .. Len(q) /\ f.text.rows = SubSeq(q, 1, f.count)
          /\ f.text.ref = ref[s]
      BY <1>1, <2>1, <2>2, <2>4 DEF Kept, Extends
    <3>2. f.text.rows \o SubSeq(q, f.count + 1, Len(q)) = q
      BY <1>1, <3>1, PrefixAndRest
    <3>3. [f.text EXCEPT !.rows = @ \o SubSeq(q, f.count + 1, Len(q))] = [ref |-> ref[s], rows |-> q]
      <4> DEFINE t == f.text
                 u == t.rows \o SubSeq(q, f.count + 1, Len(q))
      <4>1. t \in Text /\ t.ref = ref[s] /\ u = q
        BY <2>1, <3>1, <3>2
      <4> HIDE DEF t, u
      <4>2. [t EXCEPT !.rows = u] = [ref |-> ref[s], rows |-> q]
        BY <4>1 DEF Text
      <4> QED BY <4>2 DEF t, u
    <3> QED BY <2>4, <3>3 DEF Encoded
  <2>5. CASE f.revision # revision[s] /\ ~Extends(s)
    BY <2>5 DEF Encoded
  <2> QED BY <2>3, <2>4, <2>5
<1> QED BY <1>3, <1>4

\* So what stock_fragment caches tells all of the stock.
LEMMA EncodedKept ==
    ASSUME TypeOK, Fragments, NEW s \in Stocks
    PROVE  Encoded(s) \in Encoding /\ Kept(s, Encoded(s))
           /\ Encoded(s).text = [ref |-> ref[s], rows |-> rows[s]]
<1>1. /\ rows[s] \in Seq(Bars) /\ Len(rows[s]) \in Nat /\ ref[s] \in Refs \cup {None}
      /\ revision[s] \in Nat /\ generation[s] \in Nat /\ SubSeq(rows[s], 1, Len(rows[s])) = rows[s]
  BY Types
<1> DEFINE e == Encoded(s)
<1>2. e = [text |-> [ref |-> ref[s], rows |-> rows[s]], revision |-> revision[s],
           generation |-> generation[s], refs |-> ref[s], count |-> Len(rows[s])]
  BY EncodedExact
<1> HIDE DEF e
<1>3. e \in Encoding /\ Kept(s, e) /\ e.text = [ref |-> ref[s], rows |-> rows[s]]
  BY <1>1, <1>2 DEF Encoding, Text, Kept
<1> QED BY <1>3 DEF e

-----------------------------------------------------------------------------
(* The steps.                                                              *)

\* And back: what has its sets has its types.
LEMMA TypesBack ==
    ASSUME session' \in SessionId, sessions' \in Nat, ending' \in BOOLEAN,
           version' \in 0 .. MaxVersion,
           rows' \in [Stocks -> Seq(Bars)], ref' \in [Stocks -> Refs \cup {None}],
           revision' \in [Stocks -> Nat], generation' \in [Stocks -> Nat],
           frag' \in [Stocks -> Encoding \cup {None}], req' \in [Requests -> Thread],
           keyLock' \in Requests \cup {None},
           \A r \in Requests :
              keyLock' = r <=> req'[r].pc \in {"refresh", "captured", "assembled"},
           body' \in Stored \cup {None},
           tail' \in [key : Nat \X SessionId, content : StocksPart] \cup {None},
           newest' \in 0 .. MaxVersion
    PROVE  TypeOK'
BY Zenon DEF TypeOK, Encoding, Thread, Stored

LEMMA Initially == ASSUME RenderAssumption, Init PROVE Inductive
<1>1. Idle \in Thread /\ Idle.pc = "idle" /\ Idle.floor = 0
  BY DEF Idle, Thread, SessionId, StocksPart
<1>2. TypeOK
  <2>1. rows \in [Stocks -> Seq(Bars)] /\ ref \in [Stocks -> Refs \cup {None}]
        /\ revision \in [Stocks -> Nat] /\ generation \in [Stocks -> Nat]
        /\ frag \in [Stocks -> Encoding \cup {None}] /\ req \in [Requests -> Thread]
        /\ version \in 0 .. MaxVersion /\ newest \in 0 .. MaxVersion
    BY <1>1 DEF Init, RenderAssumption
  <2>2. session \in SessionId /\ sessions \in Nat /\ ending \in BOOLEAN
        /\ keyLock = None /\ body = None /\ tail = None
    BY DEF Init, SessionId
  <2>3. \A r \in Requests : keyLock = r <=> req[r].pc \in {"refresh", "captured", "assembled"}
    BY <1>1, <2>2 DEF Init, RenderAssumption
  <2> QED BY <2>1, <2>2, <2>3 DEF TypeOK, Encoding, Thread
<1>3. Fragments /\ History
  BY DEF Init, Fragments, History, Content
<1>4. Coherent /\ Ahead /\ Answers
  BY <1>1 DEF Init, Coherent, Ahead, Answers, BodyCoherent, MonotonicBodies
<1> QED BY <1>2, <1>3, <1>4 DEF Inductive

\* A writer that publishes leaves what is cached and under construction the content of its
\* version.
LEMMA Published ==
    ASSUME RenderAssumption, Inductive, Publish,
           UNCHANGED <<req, keyLock, body, tail, newest>>,
           session' \in SessionId, sessions' \in Nat, ending' \in BOOLEAN,
           rows' \in [Stocks -> Seq(Bars)], ref' \in [Stocks -> Refs \cup {None}],
           revision' \in [Stocks -> Nat], generation' \in [Stocks -> Nat],
           frag' \in [Stocks -> Encoding \cup {None}], Fragments'
    PROVE  Inductive'
<1>1. /\ version' = version + 1 /\ version \in 0 .. MaxVersion /\ version' \in 0 .. MaxVersion
      /\ served' = None
      /\ TypeOK /\ History /\ Coherent /\ Ahead
      /\ req' = req /\ keyLock' = keyLock /\ body' = body /\ tail' = tail /\ newest' = newest
  BY DEF Publish, Inductive, TypeOK, RenderAssumption
<1>2. TypeOK'
  BY <1>1, TypesBack, Types DEF TypeOK, Encoding, Thread, Stored
<1>3. /\ DOMAIN contents' = 0 .. version' /\ contents'[version'] = Content'
      /\ \A v \in 0 .. version : contents'[v] = contents[v]
  <2>1. contents' = [v \in DOMAIN contents \cup {version'} |->
                        IF v = version' THEN Content' ELSE contents[v]]
    BY DEF Publish
  <2>2. DOMAIN contents \cup {version'} = 0 .. version'
    BY <1>1 DEF History
  <2>3. version' \in 0 .. version' /\ \A v \in 0 .. version : v \in 0 .. version' /\ v # version'
    BY <1>1
  <2> QED BY <2>1, <2>2, <2>3
<1>4. ASSUME NEW v, NEW id, NEW stocks, AtVersion(v, id, stocks) PROVE AtVersion(v, id, stocks)'
  BY <1>1, <1>3, <1>4 DEF AtVersion
<1>5. Coherent'
  <2>1. \A v, id, stocks : AtVersion(v, id, stocks) =>
          v \in 0 .. version' /\ [session |-> id, stocks |-> stocks] = contents'[v]
    BY <1>4 DEF AtVersion
  <2>2. ASSUME NEW r \in Requests
        PROVE  /\ req'[r].pc = "captured" =>
                    /\ req'[r].version \in 0 .. version'
                    /\ [session |-> req'[r].session, stocks |-> req'[r].content] = contents'[req'[r].version]
               /\ req'[r].pc = "assembled" =>
                    /\ req'[r].version \in 0 .. version'
                    /\ [session |-> req'[r].session, stocks |-> req'[r].tail] = contents'[req'[r].version]
    <3>1. /\ req[r].pc = "captured" => AtVersion(req[r].version, req[r].session, req[r].content)
          /\ req[r].pc = "assembled" => AtVersion(req[r].version, req[r].session, req[r].tail)
      BY <1>1 DEF Coherent
    <3> QED BY <1>1, <2>1, <3>1
  <2>3. tail' # None =>
          /\ tail'.key[1] \in 0 .. version'
          /\ [session |-> tail'.key[2], stocks |-> tail'.content] = contents'[tail'.key[1]]
    <3>1. tail # None => AtVersion(tail.key[1], tail.key[2], tail.content)
      BY <1>1 DEF Coherent
    <3> QED BY <1>1, <2>1, <3>1
  <2>4. body' # None =>
          /\ body'.version \in 0 .. version'
          /\ [session |-> body'.session, stocks |-> body'.tail] = contents'[body'.version]
    <3>1. body # None => AtVersion(body.version, body.session, body.tail)
      BY <1>1 DEF Coherent
    <3> QED BY <1>1, <2>1, <3>1
  <2> QED BY <2>2, <2>3, <2>4, Zenon DEF Coherent, AtVersion
<1>6. Ahead'
  BY <1>1, Types DEF Ahead
<1> QED BY <1>1, <1>2, <1>3, <1>5, <1>6 DEF Inductive, History, Answers, BodyCoherent, MonotonicBodies

\* begin() and reset() drop every encoding.
LEMMA Renewed ==
    ASSUME NewSeries
    PROVE  /\ rows' \in [Stocks -> Seq(Bars)] /\ ref' \in [Stocks -> Refs \cup {None}]
           /\ revision' \in [Stocks -> Nat] /\ generation' \in [Stocks -> Nat]
           /\ frag' \in [Stocks -> Encoding \cup {None}] /\ Fragments'
BY DEF NewSeries, Fragments

LEMMA Sessions ==
    ASSUME RenderAssumption, Inductive, Begin \/ Reset
    PROVE  Inductive'
<1>1. TypeOK
  BY DEF Inductive
<1>2. session' \in SessionId /\ sessions' \in Nat /\ ending' \in BOOLEAN
  <2>1. session' = session \/ session' = None \/ session' = sessions + 1
    BY DEF Begin, Reset
  <2>2. sessions' = sessions \/ sessions' = sessions + 1
    BY DEF Begin, Reset
  <2>3. ending' = ending \/ ending' = TRUE
    BY DEF Begin, Reset
  <2>4. session \in SessionId /\ sessions \in Nat /\ ending \in BOOLEAN
    BY <1>1 DEF TypeOK
  <2>5. ending' \in BOOLEAN
    BY <2>3, <2>4, Zenon
  <2>6. session' \in SessionId /\ sessions' \in Nat
    BY <2>1, <2>2, <2>4 DEF SessionId
  <2> QED BY <2>5, <2>6
<1>3. Publish /\ NewSeries /\ UNCHANGED <<req, keyLock, body, tail, newest>>
  BY DEF Begin, Reset
<1> QED BY <1>2, <1>3, Renewed, Published

\* A candle changes what its stock's encoding may be extended by, or forbids to extend it.
LEMMA CandleKeeps ==
    ASSUME RenderAssumption, Inductive, NEW s \in Stocks, NEW bar \in Bars, PutBar(s, bar)
    PROVE  Inductive'
<1>1. TypeOK /\ Fragments
  BY DEF Inductive
<1> DEFINE q == rows[s]
<1>2. /\ q \in Seq(Bars) /\ Len(q) \in Nat /\ revision[s] \in Nat /\ generation[s] \in Nat
      /\ rows \in [Stocks -> Seq(Bars)]
  BY <1>1, Types
<1>3. /\ PutCompleted(q, bar) \in Seq(Bars)
      /\ IsAppend(q, bar) => PutCompleted(q, bar) = Append(q, bar)
  BY <1>2, PutCompletedSeq
<1>4. /\ rows' = [rows EXCEPT ![s] = PutCompleted(q, bar)]
      /\ revision' = [revision EXCEPT ![s] = revision[s] + 1]
      /\ generation' = [generation EXCEPT ![s] = IF IsAppend(q, bar) THEN generation[s] ELSE generation[s] + 1]
      /\ UNCHANGED <<session, sessions, ending, ref, frag, req, keyLock, body, tail, newest>>
      /\ Publish
  BY DEF PutBar, Rewrites
<1>5. /\ rows' \in [Stocks -> Seq(Bars)] /\ revision' \in [Stocks -> Nat]
      /\ generation' \in [Stocks -> Nat]
  BY <1>1, <1>2, <1>3, <1>4, Types
<1>6. Fragments'
  <2>1. ASSUME NEW z \in Stocks, frag[z] # None PROVE Kept(z, frag[z])'
    <3> DEFINE f == frag[z]
    <3>1. /\ f \in Encoding /\ f.text.ref = f.refs /\ Kept(z, f)
          /\ f.revision \in Nat /\ f.generation \in Nat /\ f.count \in Nat
      BY <1>1, <2>1, Types DEF Encoding, Fragments, Kept
    <3>2. CASE z # s
      <4>1. /\ rows'[z] = rows[z] /\ revision'[z] = revision[z] /\ generation'[z] = generation[z]
            /\ ref' = ref /\ frag' = frag
        BY <1>1, <1>4, <3>2, Types
      <4> QED BY <3>1, <4>1 DEF Kept
    <3>3. CASE z = s
      <4>1. /\ rows'[s] = PutCompleted(q, bar) /\ revision'[s] = revision[s] + 1
            /\ generation'[s] = IF IsAppend(q, bar) THEN generation[s] ELSE generation[s] + 1
            /\ ref' = ref /\ frag' = frag
        BY <1>1, <1>4, Types
      <4>2. f.revision <= revision[s] /\ f.generation <= generation[s]
        BY <3>1, <3>3 DEF Kept
      <4>3. f.revision <= revision'[s] /\ f.generation <= generation'[s] /\ f.revision # revision'[s]
        BY <1>2, <3>1, <4>1, <4>2
      <4>4. ASSUME f.generation = generation'[s]
            PROVE  f.count <= Len(rows'[s]) /\ f.text.rows = SubSeq(rows'[s], 1, f.count)
        <5>1. IsAppend(q, bar) /\ f.generation = generation[s]
          BY <1>2, <3>1, <4>1, <4>2, <4>4
        <5>2. f.count <= Len(q) /\ f.text.rows = SubSeq(q, 1, f.count)
          BY <3>1, <3>3, <5>1 DEF Kept
        <5>3. rows'[s] = Append(q, bar) /\ Len(rows'[s]) = Len(q) + 1
          BY <1>2, <1>3, <4>1, <5>1
        <5>4. SubSeq(Append(q, bar), 1, f.count) = SubSeq(q, 1, f.count)
          BY <1>2, <3>1, <5>2
        <5> QED BY <1>2, <3>1, <5>2, <5>3, <5>4
      <4> HIDE DEF f
      <4>5. Kept(s, f)'
        BY <3>1, <4>1, <4>3, <4>4 DEF Kept, f
      <4> QED BY <3>3, <4>1, <4>5 DEF f
    <3> QED BY <3>2, <3>3
  <2> QED BY <1>4, <2>1 DEF Fragments
<1>7. /\ session' \in SessionId /\ sessions' \in Nat /\ ending' \in BOOLEAN
      /\ ref' \in [Stocks -> Refs \cup {None}] /\ frag' \in [Stocks -> Encoding \cup {None}]
  BY <1>1, <1>4, Types DEF TypeOK
<1> QED BY <1>4, <1>5, <1>6, <1>7, Published

\* A new reference price leaves no encoding of the stock's revision.
LEMMA ReferenceKeeps ==
    ASSUME RenderAssumption, Inductive, NEW s \in Stocks, NEW p \in Refs, SetReference(s, p)
    PROVE  Inductive'
<1>1. TypeOK /\ Fragments
  BY DEF Inductive
<1>2. /\ ref' = [ref EXCEPT ![s] = p] /\ revision' = [revision EXCEPT ![s] = revision[s] + 1]
      /\ UNCHANGED <<session, sessions, ending, rows, generation, frag, req, keyLock, body, tail, newest>>
      /\ Publish
  BY DEF SetReference
<1>3. /\ session' \in SessionId /\ sessions' \in Nat /\ ending' \in BOOLEAN
      /\ rows' \in [Stocks -> Seq(Bars)] /\ ref' \in [Stocks -> Refs \cup {None}]
      /\ revision' \in [Stocks -> Nat] /\ generation' \in [Stocks -> Nat]
      /\ frag' \in [Stocks -> Encoding \cup {None}]
  BY <1>1, <1>2, Types DEF TypeOK
<1>4. Fragments'
  <2>1. ASSUME NEW z \in Stocks, frag[z] # None PROVE Kept(z, frag[z])'
    <3>1. /\ Kept(z, frag[z]) /\ frag[z].revision \in Nat /\ revision[z] \in Nat
      BY <1>1, <2>1, Types DEF Encoding, Fragments
    <3>2. /\ frag[z].revision <= revision'[z]
          /\ frag[z].revision = revision'[z] => frag[z].revision = revision[z] /\ ref'[z] = ref[z]
          /\ rows' = rows /\ generation' = generation /\ frag' = frag
      BY <1>1, <1>2, <3>1, Types DEF Kept
    <3> QED BY <3>1, <3>2 DEF Kept
  <2> QED BY <1>2, <2>1 DEF Fragments
<1> QED BY <1>2, <1>3, <1>4, Published

\* clear() and the clock touch only what is cached.
LEMMA Dropped == ASSUME RenderAssumption, Inductive, Clear \/ Second PROVE Inductive'
<1>0. TypeOK /\ Fragments /\ History /\ Coherent /\ Ahead
  BY DEF Inductive
<1>1. /\ UNCHANGED <<session, sessions, version, rows, ref, revision, generation, frag, req,
                     keyLock, newest, contents>>
      /\ served' = None
  BY DEF Clear, Second, seriesVars
<1>2. ending' \in BOOLEAN
  <2>1. ending' = ending \/ ending' = FALSE
    BY DEF Clear, Second
  <2> QED BY <1>0, <2>1, Zenon DEF TypeOK
<1>3. tail' = None \/ tail' = tail
  BY DEF Clear, Second
<1>4. /\ body' \in Stored \cup {None}
      /\ body' # None => /\ body # None /\ body'.version = body.version
                         /\ body'.session = body.session /\ body'.tail = body.tail
  <2>1. CASE Clear
    BY <2>1 DEF Clear
  <2>2. CASE Second
    <3>1. body \in Stored
      BY <1>0, <2>2, Types DEF Second
    <3>2. body' = [body EXCEPT !.age = body.age + 1] /\ body.age <= RenderSeconds /\ body # None
      BY <2>2 DEF Second
    <3> QED BY <3>1, <3>2 DEF Stored, RenderAssumption
  <2> QED BY <2>1, <2>2
<1>5. TypeOK'
  <2>1. /\ tail' \in [key : Nat \X SessionId, content : StocksPart] \cup {None}
        /\ \A r \in Requests : keyLock' = r <=> req'[r].pc \in {"refresh", "captured", "assembled"}
        /\ keyLock' \in Requests \cup {None} /\ newest' \in 0 .. MaxVersion
        /\ version' \in 0 .. MaxVersion
    BY <1>0, <1>1, <1>3 DEF TypeOK
  <2> QED BY <1>0, <1>1, <1>2, <1>4, <2>1, Types, TypesBack
<1>6. Fragments' /\ History'
  BY <1>0, <1>1 DEF Fragments, Kept, History, Content
<1>7. Coherent'
  BY <1>0, <1>1, <1>3, <1>4 DEF Coherent, AtVersion
<1>8. Ahead'
  BY <1>0, <1>1, <1>4 DEF Ahead
<1> QED BY <1>1, <1>5, <1>6, <1>7, <1>8 DEF Inductive, Answers, BodyCoherent, MonotonicBodies

\* A step of a request: what it must leave true of the request and of what is cached.
LEMMA RequestMoves ==
    ASSUME RenderAssumption, Inductive, NEW r \in Requests, NEW x \in Thread,
           req' = [req EXCEPT ![r] = x],
           UNCHANGED <<session, sessions, ending, version, rows, ref, revision, generation, contents>>,
           frag' \in [Stocks -> Encoding \cup {None}], Fragments',
           \/ keyLock' = keyLock
              /\ (x.pc \in {"refresh", "captured", "assembled"}
                    <=> req[r].pc \in {"refresh", "captured", "assembled"})
           \/ keyLock = None /\ keyLock' = r /\ x.pc \in {"refresh", "captured", "assembled"}
           \/ keyLock = r /\ keyLock' = None /\ x.pc \in {"idle", "waiting"},
           body' \in Stored \cup {None},
           tail' \in [key : Nat \X SessionId, content : StocksPart] \cup {None},
           newest' \in 0 .. version, newest <= newest', x.floor <= newest',
           \A q \in Requests : q # r /\ req[q].pc \in {"captured", "assembled"} =>
                newest' <= req[q].version /\ (body' # None => body'.version <= req[q].version),
           tail' # None => AtVersion(tail'.key[1], tail'.key[2], tail'.content),
           body' # None => AtVersion(body'.version, body'.session, body'.tail)
                           /\ newest' <= body'.version,
           x.pc = "captured" => AtVersion(x.version, x.session, x.content),
           x.pc = "assembled" => AtVersion(x.version, x.session, x.tail),
           x.pc \in {"captured", "assembled"} =>
                newest' <= x.version /\ (body' # None => body'.version <= x.version),
           Answers'
    PROVE  Inductive'
<1>0. TypeOK /\ History /\ Coherent /\ Ahead /\ newest \in Nat /\ version \in 0 .. MaxVersion
  BY DEF Inductive, TypeOK
<1>1. /\ req \in [Requests -> Thread] /\ req' \in [Requests -> Thread] /\ req'[r] = x
      /\ \A q \in Requests : q # r => req'[q] = req[q]
  BY <1>0, Types
<1>2. TypeOK'
  <2>1. /\ keyLock \in Requests \cup {None} /\ None \notin Requests
        /\ \A q \in Requests : keyLock = q <=> req[q].pc \in {"refresh", "captured", "assembled"}
    BY <1>0 DEF TypeOK, RenderAssumption
  <2>2. keyLock' \in Requests \cup {None}
    BY <2>1
  <2>3. ASSUME NEW q \in Requests
        PROVE  keyLock' = q <=> req'[q].pc \in {"refresh", "captured", "assembled"}
    BY <1>1, <2>1
  <2>4. newest' \in 0 .. MaxVersion /\ version' \in 0 .. MaxVersion
    BY <1>0 DEF RenderAssumption
  <2>5. ending' \in BOOLEAN
    <3>1. ending \in BOOLEAN /\ ending' = ending
      BY <1>0 DEF TypeOK
    <3> QED BY <3>1, Zenon
  <2> QED BY <1>0, <1>1, <2>2, <2>3, <2>4, <2>5, Types, TypesBack
<1>3. History'
  BY <1>0 DEF History, Content
<1>4. \A v, id, stocks : AtVersion(v, id, stocks) =>
          v \in 0 .. version' /\ [session |-> id, stocks |-> stocks] = contents'[v]
  BY <1>0 DEF AtVersion
<1>5. Coherent'
  <2>1. ASSUME NEW q \in Requests
        PROVE  /\ req'[q].pc = "captured" => AtVersion(req'[q].version, req'[q].session, req'[q].content)
               /\ req'[q].pc = "assembled" => AtVersion(req'[q].version, req'[q].session, req'[q].tail)
    <3>1. CASE q = r
      BY <1>1, <3>1
    <3>2. CASE q # r
      BY <1>0, <1>1, <3>2 DEF Coherent
    <3> QED BY <3>1, <3>2
  <2>2. ASSUME NEW q \in Requests
        PROVE  /\ req'[q].pc = "captured" =>
                    /\ req'[q].version \in 0 .. version'
                    /\ [session |-> req'[q].session, stocks |-> req'[q].content] = contents'[req'[q].version]
               /\ req'[q].pc = "assembled" =>
                    /\ req'[q].version \in 0 .. version'
                    /\ [session |-> req'[q].session, stocks |-> req'[q].tail] = contents'[req'[q].version]
    BY <1>4, <2>1
  <2>3. tail' # None =>
          /\ tail'.key[1] \in 0 .. version'
          /\ [session |-> tail'.key[2], stocks |-> tail'.content] = contents'[tail'.key[1]]
    BY <1>4
  <2>4. body' # None =>
          /\ body'.version \in 0 .. version'
          /\ [session |-> body'.session, stocks |-> body'.tail] = contents'[body'.version]
    BY <1>4
  <2> QED BY <2>2, <2>3, <2>4, Zenon DEF Coherent, AtVersion
<1>6. Ahead'
  <2>1. ASSUME NEW q \in Requests
        PROVE  /\ req'[q].floor <= newest'
               /\ req'[q].pc \in {"captured", "assembled"} =>
                    newest' <= req'[q].version /\ (body' # None => body'.version <= req'[q].version)
    <3>1. CASE q = r
      BY <1>1, <3>1
    <3>2. CASE q # r
      <4>1. req'[q] = req[q] /\ req[q].floor <= newest /\ req[q].floor \in Nat
        BY <1>0, <1>1, <3>2 DEF Ahead, Thread
      <4>2. req'[q].floor <= newest'
        BY <1>0, <4>1
      <4> QED BY <3>2, <4>1, <4>2
    <3> QED BY <3>1, <3>2
  <2>2. newest' <= version'
    BY <1>0
  <2> QED BY <2>1, <2>2 DEF Ahead
<1> QED BY <1>2, <1>3, <1>5, <1>6 DEF Inductive

\* What a request is given: the body b, at least as new as any before it.
LEMMA Given ==
    ASSUME RenderAssumption, Inductive, NEW r \in Requests, NEW b \in Stored, NEW floor \in Nat,
           Give(r, b, floor), floor <= newest, newest <= b.version,
           AtVersion(b.version, b.session, b.tail), contents' = contents
    PROVE  newest' = b.version /\ newest' \in 0 .. version /\ newest <= newest' /\ Answers'
<1>1. newest \in Nat /\ version \in Nat /\ b.version \in Nat /\ b.version \in 0 .. version
  BY DEF Inductive, TypeOK, Stored, AtVersion
<1>2. newest' = b.version
  BY <1>1 DEF Give
<1>3. /\ served' = [version |-> b.version, session |-> b.session, tail |-> b.tail, floor |-> floor]
      /\ [session |-> b.session, stocks |-> b.tail] = contents[b.version]
  BY DEF Give, AtVersion
<1>4. BodyCoherent'
  BY <1>3 DEF BodyCoherent
<1>5. MonotonicBodies'
  <2>1. served'.version = b.version /\ served'.floor = floor /\ floor <= b.version
    BY <1>1, <1>3
  <2> QED BY <1>1, <2>1 DEF MonotonicBodies
<1> QED BY <1>1, <1>2, <1>4, <1>5 DEF Answers

\* While r holds the key's lock, nothing else is under construction.
LEMMA Alone ==
    ASSUME TypeOK, NEW r \in Requests, keyLock = r \/ keyLock = None, None \notin Requests
    PROVE  \A q \in Requests : q # r => req[q].pc \notin {"refresh", "captured", "assembled"}
BY DEF TypeOK

\* Facts every step of a request starts from.
LEMMA Before ==
    ASSUME RenderAssumption, Inductive, NEW r \in Requests
    PROVE  /\ req[r] \in Thread /\ req[r].floor <= newest /\ newest \in Nat /\ version \in Nat
           /\ newest \in 0 .. version
           /\ frag \in [Stocks -> Encoding \cup {None}] /\ Fragments
           /\ body \in Stored \cup {None}
           /\ tail \in [key : Nat \X SessionId, content : StocksPart] \cup {None}
           /\ tail # None => AtVersion(tail.key[1], tail.key[2], tail.content)
           /\ body # None => AtVersion(body.version, body.session, body.tail) /\ newest <= body.version
           /\ None \notin Requests
           /\ keyLock = r <=> req[r].pc \in {"refresh", "captured", "assembled"}
           /\ Idle \in Thread /\ Idle.pc = "idle" /\ Idle.floor = 0
<1>0. TypeOK /\ Coherent /\ Ahead /\ Fragments
  BY DEF Inductive
<1>1. Idle \in Thread /\ Idle.pc = "idle" /\ Idle.floor = 0
  BY DEF Idle, Thread, SessionId, StocksPart
<1>2. /\ req[r] \in Thread /\ newest \in Nat /\ version \in Nat
      /\ frag \in [Stocks -> Encoding \cup {None}] /\ body \in Stored \cup {None}
      /\ tail \in [key : Nat \X SessionId, content : StocksPart] \cup {None}
  BY <1>0, Types DEF TypeOK
<1>3. req[r].floor <= newest /\ newest <= version /\ (body # None => newest <= body.version)
  BY <1>0 DEF Ahead
<1>4. /\ tail # None => AtVersion(tail.key[1], tail.key[2], tail.content)
      /\ body # None => AtVersion(body.version, body.session, body.tail)
  BY <1>0 DEF Coherent
<1>5. keyLock = r <=> req[r].pc \in {"refresh", "captured", "assembled"}
  BY <1>0 DEF TypeOK
<1> QED BY <1>0, <1>1, <1>2, <1>3, <1>4, <1>5 DEF RenderAssumption

\* The encodings keep what they tell when no writer moves.
LEMMA Untouched ==
    ASSUME Fragments, UNCHANGED <<rows, ref, revision, generation>>,
           \A s \in Stocks : frag'[s] = frag[s] \/ Kept(s, frag'[s])
    PROVE  Fragments'
<1>1. ASSUME NEW s \in Stocks, frag'[s] # None PROVE Kept(s, frag'[s])
  BY <1>1 DEF Fragments
<1> QED BY <1>1 DEF Fragments, Kept

\* A step of a request that gives no body, on its way to the lock or with it.
LEMMA Onward ==
    ASSUME RenderAssumption, Inductive, NEW r \in Requests, NEW x \in Thread,
           req' = [req EXCEPT ![r] = x],
           UNCHANGED <<session, sessions, ending, version, rows, ref, revision, generation, contents,
                       body, tail, newest>>,
           served' = None, x.floor <= newest,
           frag' \in [Stocks -> Encoding \cup {None}], Fragments',
           \/ keyLock' = keyLock
              /\ (x.pc \in {"refresh", "captured", "assembled"}
                    <=> req[r].pc \in {"refresh", "captured", "assembled"})
           \/ keyLock = None /\ keyLock' = r /\ x.pc \in {"refresh", "captured", "assembled"},
           x.pc = "captured" => AtVersion(x.version, x.session, x.content),
           x.pc = "assembled" => AtVersion(x.version, x.session, x.tail),
           x.pc \in {"captured", "assembled"} =>
                newest <= x.version /\ (body # None => body.version <= x.version)
    PROVE  Inductive'
<1>1. Answers'
  BY DEF Answers, BodyCoherent, MonotonicBodies
<1>2. /\ newest' = newest /\ body' = body /\ tail' = tail /\ newest \in Nat
      /\ newest' \in 0 .. version /\ newest <= newest' /\ x.floor <= newest'
      /\ body' \in Stored \cup {None}
      /\ tail' \in [key : Nat \X SessionId, content : StocksPart] \cup {None}
  BY Before
<1>3. /\ tail' # None => AtVersion(tail'.key[1], tail'.key[2], tail'.content)
      /\ body' # None => AtVersion(body'.version, body'.session, body'.tail) /\ newest' <= body'.version
      /\ x.pc \in {"captured", "assembled"} =>
                newest' <= x.version /\ (body' # None => body'.version <= x.version)
  BY <1>2, Before
<1>4. \A q \in Requests : q # r /\ req[q].pc \in {"captured", "assembled"} =>
            newest' <= req[q].version /\ (body' # None => body'.version <= req[q].version)
  BY <1>2 DEF Inductive, Ahead
<1> QED BY <1>1, <1>2, <1>3, <1>4, RequestMoves

LEMMA Queues ==
    ASSUME RenderAssumption, Inductive, NEW r \in Requests,
           AskForBuild(r) \/ (StartBuild(r) /\ ~Fresh)
    PROVE  Inductive'
<1>0. /\ req[r] \in Thread /\ req[r].floor <= newest /\ newest \in Nat
      /\ frag \in [Stocks -> Encoding \cup {None}] /\ Fragments
      /\ Idle \in Thread /\ req \in [Requests -> Thread] /\ session \in SessionId
      /\ None \notin Requests
  BY Before, Types DEF Inductive
<1>1. CASE AskForBuild(r)
  <2> DEFINE i == Idle
             x == [i EXCEPT !.pc = "waiting", !.floor = newest]
  <2>1. i \in Thread
    BY <1>0
  <2>2. /\ req' = [req EXCEPT ![r] = x] /\ keyLock' = keyLock /\ served' = None /\ frag' = frag
        /\ req[r].pc = "idle"
        /\ UNCHANGED <<session, sessions, ending, version, rows, ref, revision, generation, contents,
                       body, tail, newest>>
    BY <1>1 DEF AskForBuild, seriesVars
  <2> HIDE DEF i
  <2>3. x \in Thread /\ x.pc = "waiting" /\ x.floor = newest
    BY <1>0, <2>1 DEF Thread
  <2> HIDE DEF x
  <2>4. Fragments' /\ frag' \in [Stocks -> Encoding \cup {None}]
    BY <1>0, <2>2, Untouched
  <2>5. x.floor <= newest
    BY <1>0, <2>3
  <2> QED BY <2>2, <2>3, <2>4, <2>5, Onward
<1>2. CASE StartBuild(r) /\ ~Fresh
  <2> DEFINE t == IF session = None THEN {} ELSE Stocks
             x == [req[r] EXCEPT !.pc = "refresh", !.session = session, !.todo = t]
  <2>1. /\ req' = [req EXCEPT ![r].pc = "refresh", ![r].session = session, ![r].todo = t]
        /\ keyLock = None /\ keyLock' = r /\ served' = None /\ frag' = frag /\ newest' = newest
        /\ UNCHANGED <<session, sessions, ending, version, rows, ref, revision, generation, contents,
                       body, tail, newest>>
    BY <1>2 DEF StartBuild, SingleFlight, seriesVars
  <2>2. t \in SUBSET Stocks
    OBVIOUS
  <2> HIDE DEF t
  <2>3. req' = [req EXCEPT ![r] = x]
    BY <1>0, <2>1
  <2>4. x \in Thread /\ x.pc = "refresh" /\ x.floor = req[r].floor
    BY <1>0, <2>2 DEF Thread
  <2> HIDE DEF x
  <2>5. Fragments' /\ frag' \in [Stocks -> Encoding \cup {None}]
    BY <1>0, <2>1, Untouched
  <2>6. x.floor <= newest
    BY <1>0, <2>4
  <2> QED BY <2>1, <2>3, <2>4, <2>5, <2>6, Onward
<1> QED BY <1>1, <1>2

\* Phase 1: the stock's encoding is kept up to date.
LEMMA Refreshes ==
    ASSUME RenderAssumption, Inductive, NEW r \in Requests, NEW s \in Stocks, Refresh(r, s)
    PROVE  Inductive'
<1>0. /\ req[r] \in Thread /\ req[r].floor <= newest /\ newest \in Nat
      /\ frag \in [Stocks -> Encoding \cup {None}] /\ Fragments /\ TypeOK
      /\ req \in [Requests -> Thread]
  BY Before, Types DEF Inductive
<1> DEFINE t == req[r].todo \ {s}
           x == [req[r] EXCEPT !.todo = t]
<1>1. /\ req' = [req EXCEPT ![r].todo = t] /\ req[r].pc = "refresh"
      /\ keyLock' = keyLock /\ served' = None
      /\ frag' = frag \/ frag' = [frag EXCEPT ![s] = Encoded(s)]
      /\ UNCHANGED <<session, sessions, ending, version, rows, ref, revision, generation, contents,
                     body, tail, newest>>
  BY DEF Refresh, seriesVars
<1>2. t \in SUBSET Stocks
  BY <1>0 DEF Thread
<1> HIDE DEF t
<1>3. req' = [req EXCEPT ![r] = x]
  BY <1>0, <1>1
<1>4. x \in Thread /\ x.pc = "refresh" /\ x.floor = req[r].floor
  BY <1>0, <1>1, <1>2 DEF Thread
<1> HIDE DEF x
<1>5. Encoded(s) \in Encoding /\ Kept(s, Encoded(s))
  BY <1>0, EncodedKept
<1>6. frag' \in [Stocks -> Encoding \cup {None}]
      /\ \A z \in Stocks : frag'[z] = frag[z] \/ Kept(z, frag'[z])
  BY <1>0, <1>1, <1>5
<1>7. Fragments'
  BY <1>0, <1>1, <1>6, Untouched
<1>8. x.floor <= newest
  BY <1>0, <1>4
<1> QED BY <1>1, <1>3, <1>4, <1>6, <1>7, <1>8, Onward

\* Phase 2: what is captured is what the node publishes now.
LEMMA Captures ==
    ASSUME RenderAssumption, Inductive, NEW r \in Requests, Capture(r)
    PROVE  Inductive'
<1>0. /\ req[r] \in Thread /\ req[r].floor <= newest /\ newest \in Nat /\ version \in Nat
      /\ newest \in 0 .. version
      /\ frag \in [Stocks -> Encoding \cup {None}] /\ Fragments /\ TypeOK /\ History
      /\ req \in [Requests -> Thread] /\ session \in SessionId
      /\ body # None => AtVersion(body.version, body.session, body.tail)
  BY Before, Types DEF Inductive
<1> DEFINE c == IF session = None THEN None ELSE [s \in Stocks |-> Encoded(s).text]
           x == [req[r] EXCEPT !.pc = "captured", !.version = version, !.session = session,
                               !.content = c]
<1>1. /\ req' = [req EXCEPT ![r].pc = "captured", ![r].version = version, ![r].session = session,
                  ![r].content = c]
      /\ req[r].pc = "refresh" /\ keyLock' = keyLock /\ served' = None
      /\ frag' = frag \/ frag' = [s \in Stocks |-> Encoded(s)]
      /\ UNCHANGED <<session, sessions, ending, version, rows, ref, revision, generation, contents,
                     body, tail, newest>>
  BY DEF Capture, seriesVars
<1>2. ASSUME NEW s \in Stocks
      PROVE  /\ Encoded(s) \in Encoding /\ Kept(s, Encoded(s))
             /\ Encoded(s).text = [ref |-> ref[s], rows |-> rows[s]] /\ Encoded(s).text \in Text
  BY <1>0, EncodedKept DEF Encoding
<1>3. c \in StocksPart
  BY <1>2 DEF StocksPart
<1>4. AtVersion(version, session, c)
  <2>1. [session |-> session, stocks |-> c] = Content
    BY <1>2 DEF Content
  <2> HIDE DEF c
  <2> QED BY <1>0, <2>1 DEF AtVersion, History
<1> HIDE DEF c
<1>5. req' = [req EXCEPT ![r] = x]
  BY <1>0, <1>1
<1>6. /\ x \in Thread /\ x.pc = "captured" /\ x.floor = req[r].floor
      /\ x.version = version /\ x.session = session /\ x.content = c
  BY <1>0, <1>1, <1>3 DEF Thread
<1> HIDE DEF x
<1>7. frag' \in [Stocks -> Encoding \cup {None}]
      /\ \A z \in Stocks : frag'[z] = frag[z] \/ Kept(z, frag'[z])
  BY <1>0, <1>1, <1>2
<1>8. Fragments'
  BY <1>0, <1>1, <1>7, Untouched
<1>9. x.floor <= newest /\ newest <= x.version /\ AtVersion(x.version, x.session, x.content)
  BY <1>0, <1>4, <1>6
<1>10. body # None => body.version <= x.version
  BY <1>0, <1>6 DEF AtVersion
<1> QED BY <1>1, <1>5, <1>6, <1>7, <1>8, <1>9, <1>10, Onward

\* The tail that is reused is the one of the same version and session.
LEMMA Assembles ==
    ASSUME RenderAssumption, Inductive, NEW r \in Requests, Assemble(r)
    PROVE  Inductive'
<1>0. /\ req[r] \in Thread /\ req[r].floor <= newest /\ newest \in Nat /\ version \in Nat
      /\ frag \in [Stocks -> Encoding \cup {None}] /\ Fragments
      /\ req \in [Requests -> Thread]
      /\ tail # None => /\ AtVersion(tail.key[1], tail.key[2], tail.content)
                        /\ tail.content \in StocksPart
  BY Before, Types DEF Inductive
<1> DEFINE c == IF tail # None /\ tail.key = <<req[r].version, req[r].session>>
                THEN tail.content ELSE req[r].content
           x == [req[r] EXCEPT !.pc = "assembled", !.tail = c]
<1>1. /\ req' = [req EXCEPT ![r].pc = "assembled", ![r].tail = c]
      /\ req[r].pc = "captured" /\ keyLock' = keyLock /\ served' = None /\ frag' = frag
      /\ UNCHANGED <<session, sessions, ending, version, rows, ref, revision, generation, contents,
                     body, tail, newest>>
  BY DEF Assemble, seriesVars
<1>2. /\ AtVersion(req[r].version, req[r].session, req[r].content)
      /\ newest <= req[r].version /\ (body # None => body.version <= req[r].version)
  BY <1>1 DEF Inductive, Coherent, Ahead
<1>3. c \in StocksPart /\ AtVersion(req[r].version, req[r].session, c)
  <2>1. CASE tail # None /\ tail.key = <<req[r].version, req[r].session>>
    <3>1. tail.key[1] = req[r].version /\ tail.key[2] = req[r].session /\ c = tail.content
      BY <2>1
    <3> QED BY <1>0, <2>1, <3>1
  <2>2. CASE ~(tail # None /\ tail.key = <<req[r].version, req[r].session>>)
    <3>1. c = req[r].content
      BY <2>2
    <3> QED BY <1>0, <1>2, <3>1 DEF Thread
  <2> QED BY <2>1, <2>2
<1> HIDE DEF c
<1>5. req' = [req EXCEPT ![r] = x]
  BY <1>0, <1>1
<1>6. /\ x \in Thread /\ x.pc = "assembled" /\ x.floor = req[r].floor
      /\ x.version = req[r].version /\ x.session = req[r].session /\ x.tail = c
  BY <1>0, <1>1, <1>3 DEF Thread
<1> HIDE DEF x
<1>7. Fragments' /\ frag' \in [Stocks -> Encoding \cup {None}]
  BY <1>0, <1>1, Untouched
<1>8. /\ x.floor <= newest /\ newest <= x.version /\ AtVersion(x.version, x.session, x.tail)
      /\ body # None => body.version <= x.version
  BY <1>0, <1>2, <1>3, <1>6
<1> QED BY <1>1, <1>5, <1>6, <1>7, <1>8, Onward

\* A body that is young enough is given as it is.
LEMMA Reuses ==
    ASSUME RenderAssumption, Inductive, NEW r \in Requests,
           ReuseBody(r) \/ (StartBuild(r) /\ Fresh)
    PROVE  Inductive'
<1>0. /\ req[r] \in Thread /\ req[r].floor <= newest /\ req[r].floor \in Nat
      /\ newest \in Nat /\ version \in Nat
      /\ frag \in [Stocks -> Encoding \cup {None}] /\ Fragments
      /\ tail \in [key : Nat \X SessionId, content : StocksPart] \cup {None}
      /\ tail # None => AtVersion(tail.key[1], tail.key[2], tail.content)
      /\ keyLock = r <=> req[r].pc \in {"refresh", "captured", "assembled"}
      /\ Idle \in Thread /\ Idle.pc = "idle" /\ Idle.floor = 0
  BY Before DEF Thread
<1>1. body \in Stored /\ body # None /\ AtVersion(body.version, body.session, body.tail)
      /\ newest <= body.version
  BY Before DEF ReuseBody, Fresh
<1>2. PICK floor \in Nat : floor <= newest /\ Give(r, body, floor)
  BY <1>0 DEF ReuseBody, StartBuild
<1>3. /\ req[r].pc \in {"idle", "waiting"} /\ keyLock' = keyLock /\ frag' = frag
      /\ UNCHANGED <<session, sessions, ending, version, rows, ref, revision, generation, contents,
                     body, tail>>
  BY DEF ReuseBody, StartBuild, seriesVars
<1>4. /\ newest' = body.version /\ newest' \in 0 .. version /\ newest <= newest' /\ Answers'
      /\ req' = [req EXCEPT ![r] = Idle]
  BY <1>1, <1>2, <1>3, Given DEF Give
<1>5. Fragments' /\ frag' \in [Stocks -> Encoding \cup {None}]
  BY <1>0, <1>3, Untouched
<1>6. \A q \in Requests : q # r /\ req[q].pc \in {"captured", "assembled"} =>
            newest' <= req[q].version /\ (body' # None => body'.version <= req[q].version)
  BY <1>1, <1>3, <1>4 DEF Inductive, Ahead
<1>7. /\ body' \in Stored \cup {None}
      /\ tail' \in [key : Nat \X SessionId, content : StocksPart] \cup {None}
      /\ tail' # None => AtVersion(tail'.key[1], tail'.key[2], tail'.content)
      /\ body' # None => AtVersion(body'.version, body'.session, body'.tail) /\ newest' <= body'.version
  BY <1>0, <1>1, <1>3, <1>4 DEF Stored
<1>8. Idle.floor <= newest'
  BY <1>0, <1>4
<1> DEFINE x == Idle
<1>9. /\ x \in Thread /\ x.pc = "idle" /\ x.floor <= newest' /\ req' = [req EXCEPT ![r] = x]
  BY <1>0, <1>4, <1>8
<1> HIDE DEF x
<1> QED BY <1>3, <1>4, <1>5, <1>6, <1>7, <1>9, RequestMoves

\* The new body is the content of the version captured for it.
LEMMA Stores ==
    ASSUME RenderAssumption, Inductive, NEW r \in Requests, Store(r)
    PROVE  Inductive'
<1>0. /\ req[r] \in Thread /\ req[r].floor <= newest /\ req[r].floor \in Nat
      /\ newest \in Nat /\ version \in Nat
      /\ frag \in [Stocks -> Encoding \cup {None}] /\ Fragments /\ TypeOK
      /\ keyLock = r <=> req[r].pc \in {"refresh", "captured", "assembled"}
      /\ Idle \in Thread /\ Idle.pc = "idle" /\ Idle.floor = 0 /\ None \notin Requests
  BY Before DEF Thread, Inductive
<1> DEFINE b == [version |-> req[r].version, session |-> req[r].session, tail |-> req[r].tail, age |-> 0]
           c == [key |-> <<req[r].version, req[r].session>>, content |-> req[r].tail]
<1>1. /\ req[r].pc = "assembled" /\ body' = b /\ tail' = c /\ Give(r, b, req[r].floor)
      /\ keyLock' = None /\ frag' = frag
      /\ UNCHANGED <<session, sessions, ending, version, rows, ref, revision, generation, contents>>
  BY DEF Store, seriesVars, Give
<1>2. /\ AtVersion(req[r].version, req[r].session, req[r].tail) /\ newest <= req[r].version
      /\ keyLock = r
  BY <1>0, <1>1 DEF Inductive, Coherent, Ahead
<1>3. /\ b \in Stored /\ b.version = req[r].version /\ b.session = req[r].session /\ b.tail = req[r].tail
      /\ c \in [key : Nat \X SessionId, content : StocksPart]
      /\ c.key[1] = req[r].version /\ c.key[2] = req[r].session /\ c.content = req[r].tail
  BY <1>0 DEF Thread, Stored, RenderAssumption
<1> HIDE DEF b, c
<1>4. /\ newest' = b.version /\ newest' \in 0 .. version /\ newest <= newest' /\ Answers'
      /\ req' = [req EXCEPT ![r] = Idle]
  BY <1>0, <1>1, <1>2, <1>3, Given DEF Give
<1>5. Fragments' /\ frag' \in [Stocks -> Encoding \cup {None}]
  BY <1>0, <1>1, Untouched
<1>6. \A q \in Requests : q # r /\ req[q].pc \in {"captured", "assembled"} =>
            newest' <= req[q].version /\ (body' # None => body'.version <= req[q].version)
  BY <1>0, <1>2, Alone
<1>7. /\ body' \in Stored \cup {None}
      /\ tail' \in [key : Nat \X SessionId, content : StocksPart] \cup {None}
      /\ tail' # None => AtVersion(tail'.key[1], tail'.key[2], tail'.content)
      /\ body' # None => AtVersion(body'.version, body'.session, body'.tail) /\ newest' <= body'.version
  BY <1>0, <1>1, <1>2, <1>3, <1>4 DEF Thread
<1>8. Idle.floor <= newest'
  BY <1>0, <1>4
<1> DEFINE x == Idle
<1>9. /\ x \in Thread /\ x.pc = "idle" /\ x.floor <= newest' /\ req' = [req EXCEPT ![r] = x]
  BY <1>0, <1>4, <1>8
<1> HIDE DEF x
<1> QED BY <1>1, <1>2, <1>4, <1>5, <1>6, <1>7, <1>9, RequestMoves

LEMMA Steady == ASSUME RenderAssumption, Inductive, [Next]_vars PROVE Inductive'
<1>1. CASE Writer
  BY <1>1, Sessions, Dropped, CandleKeeps, ReferenceKeeps DEF Writer
<1>2. CASE Second
  BY <1>2, Dropped
<1>3. ASSUME NEW r \in Requests, Request(r) PROVE Inductive'
  <2>1. \/ ReuseBody(r) \/ AskForBuild(r) \/ StartBuild(r) \/ Capture(r) \/ Assemble(r) \/ Store(r)
        \/ \E s \in Stocks : Refresh(r, s)
    BY <1>3 DEF Request, Build
  <2> QED BY <2>1, Queues, Reuses, Refreshes, Captures, Assembles, Stores
<1>4. CASE UNCHANGED vars
  BY <1>4 DEF vars, seriesVars, Inductive, TypeOK, Fragments, Kept, History, Content, Coherent,
              AtVersion, Ahead, Answers, BodyCoherent, MonotonicBodies
<1> QED BY <1>1, <1>2, <1>3, <1>4 DEF Next

\* Bodies and encodings are what they say, whatever the writers do while they are built: the
\* encoding extended in place is the one from scratch, a body is the content of exactly one
\* version with the session status of that version, and no request is answered with an older
\* version than one answered before it began: for any number of stocks, candles, versions and
\* request threads (render.stock_fragment, render.snapshot, api.LiveCoreService._cached).
THEOREM BodiesHonest ==
    ASSUME RenderAssumption
    PROVE  Spec => [](TypeOK /\ FragmentExact /\ BodyCoherent /\ MonotonicBodies)
<1>1. Init => Inductive
  BY Initially
<1>2. Inductive /\ [Next]_vars => Inductive'
  BY Steady
<1>3. Inductive => TypeOK /\ FragmentExact /\ BodyCoherent /\ MonotonicBodies
  BY EncodedKept DEF Inductive, Answers, FragmentExact
<1> QED BY <1>1, <1>2, <1>3, PTL DEF Spec
=============================================================================
