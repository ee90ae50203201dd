----------------------------- MODULE BookFeatures -----------------------------
(***************************************************************************)
(* microstructure.MicrostructureRecorder._observe: what one Full packet    *)
(* adds to a stock's minute (_Bucket), given the stock's previous packet   *)
(* (_Last, carried across minutes).  Packets come in any order of values:  *)
(* a book without prices or crossed, a day volume that falls back, no last *)
(* price.  Prices and quantities are small numbers, 0 is "none".           *)
(***************************************************************************)
EXTENDS Integers

CONSTANTS
    Books,          \* [bp, ap, bq, aq] of a packet: best bid and ask, price and quantity
    Prices,         \* last traded prices
    Volumes,        \* volumes of the day
    MaxPackets,
    None

Packets == {[bp |-> k.bp, ap |-> k.ap, bq |-> k.bq, aq |-> k.aq, ltp |-> l, volume |-> v] :
                k \in Books, l \in Prices, v \in Volumes}
ValidBook(p) == p.bp > 0 /\ p.ap > 0 /\ p.ap > p.bp

VARIABLES
    b,          \* the bucket of the current minute
    last,       \* [book, mid2, ltp, volume]: the last valid book, twice its mid, the last price, volume
    day,        \* history: sums of the finished minutes' buckets, first volume, first and last book
    packets

vars == <<b, last, day, packets>>

Zero == [volume |-> 0, buy |-> 0, sell |-> 0, unclassified |-> 0, invalid |-> 0, valid |-> 0,
         ofi |-> 0, bid_dep |-> 0, bid_rep |-> 0, ask_dep |-> 0, ask_rep |-> 0,
         bid_up |-> 0, bid_down |-> 0, ask_up |-> 0, ask_down |-> 0, spread_max |-> 0]

If(c, x) == IF c THEN x ELSE 0

\* order-flow imbalance between two valid books
Ofi(p, q) ==
    If(p.bp >= q.bp, p.bq) - If(p.bp <= q.bp, q.bq) - If(p.ap <= q.ap, p.aq) + If(p.ap >= q.ap, q.aq)

\* the valid book p after the valid book q
Book(x, p, q) ==
    [x EXCEPT
        !.ofi = @ + Ofi(p, q),
        !.bid_dep = @ + If(p.bp = q.bp /\ p.bq < q.bq, q.bq - p.bq),
        !.bid_rep = @ + If(p.bp = q.bp /\ p.bq >= q.bq, p.bq - q.bq),
        !.bid_up = @ + If(p.bp > q.bp, 1), !.bid_down = @ + If(p.bp < q.bp, 1),
        !.ask_dep = @ + If(p.ap = q.ap /\ p.aq < q.aq, q.aq - p.aq),
        !.ask_rep = @ + If(p.ap = q.ap /\ p.aq >= q.aq, p.aq - q.aq),
        !.ask_down = @ + If(p.ap < q.ap, 1), !.ask_up = @ + If(p.ap > q.ap, 1)]

\* the side of a trade: by the previous mid, then by the previous price
Side(p) ==
    CASE last.mid2 # None /\ 2 * p.ltp > last.mid2 -> "buy"
      [] last.mid2 # None /\ 2 * p.ltp < last.mid2 -> "sell"
      [] OTHER -> IF last.ltp = None \/ p.ltp = last.ltp THEN "unclassified"
                  ELSE IF p.ltp > last.ltp THEN "buy" ELSE "sell"

Traded(p) == If(last.volume # None /\ p.volume > last.volume, p.volume - last.volume)

\* the day volume never falls back
LastVolume(p) == IF last.volume = None \/ p.volume >= last.volume THEN p.volume ELSE last.volume

\* _observe
Observe(p) ==
    /\ packets < MaxPackets /\ packets' = packets + 1
    /\ LET valid == ValidBook(p)
           x == [b EXCEPT !.valid = @ + If(valid, 1), !.invalid = @ + If(~valid, 1),
                          !.spread_max = IF valid /\ p.ap - p.bp > @ THEN p.ap - p.bp ELSE @]
           y == IF valid /\ last.book # None THEN Book(x, p, last.book) ELSE x
           t == Traded(p)
           z == [y EXCEPT !.volume = @ + t,
                          !.buy = @ + If(Side(p) = "buy", t), !.sell = @ + If(Side(p) = "sell", t),
                          !.unclassified = @ + If(Side(p) = "unclassified", t)]
       IN  /\ b' = z
           /\ last' = [book |-> IF valid THEN p ELSE last.book,
                       mid2 |-> IF valid THEN p.bp + p.ap ELSE last.mid2,
                       ltp |-> IF p.ltp > 0 THEN p.ltp ELSE last.ltp,
                       volume |-> LastVolume(p)]
           /\ day' = [day EXCEPT !.first = IF @ = None THEN p.volume ELSE @,
                                 !.high = IF p.volume > @ THEN p.volume ELSE @,
                                 !.book = IF @ = None /\ valid THEN p ELSE @]

\* the next packet is of another minute: a new bucket, the flush thread takes this one
NextMinute ==
    /\ b # Zero /\ b' = Zero
    /\ day' = [day EXCEPT !.traded = @ + b.volume, !.net = @ + b.bid_rep - b.bid_dep,
                          !.moved = @ \/ b.bid_up + b.bid_down > 0]
    /\ UNCHANGED <<last, packets>>

Init ==
    /\ b = Zero /\ packets = 0
    /\ last = [book |-> None, mid2 |-> None, ltp |-> None, volume |-> None]
    /\ day = [first |-> None, high |-> 0, book |-> None, traded |-> 0, net |-> 0, moved |-> FALSE]

Next == NextMinute \/ \E p \in Packets : Observe(p)
Spec == Init /\ [][Next]_vars

-----------------------------------------------------------------------------
TypeOK ==
    /\ b.buy \in Nat /\ b.sell \in Nat /\ b.unclassified \in Nat /\ b.volume \in Nat
    /\ b.valid + b.invalid \in 0..MaxPackets /\ packets \in 0..MaxPackets
    /\ last.book = None \/ ValidBook(last.book)

\* Each traded share is given to one minute and one side, once: over the minutes the
\* volumes add up to the rise of the day's volume, also when packets are out of order.
SharesOnce ==
    /\ b.volume = b.buy + b.sell + b.unclassified
    /\ day.first # None => day.traded + b.volume = day.high - day.first

\* While the best bid keeps its price, what was added to it minus what was taken is the
\* change of its quantity, over minutes and invalid books in between.
BidQuantityAddsUp ==
    ~(day.moved \/ b.bid_up + b.bid_down > 0) /\ day.book # None =>
        day.net + b.bid_rep - b.bid_dep = last.book.bq - day.book.bq
=============================================================================
