----------------------------- MODULE CandleBook -----------------------------
(***************************************************************************)
(* What a Live Core node promises about the 1-minute candles it publishes, *)
(* with no packets, threads or positions: per stock, a book from minutes   *)
(* to candles that grows during a session, in which a published candle     *)
(* changes only when a Dhan historical bar corrects it, a correction is    *)
(* final for WebSocket data, and everything is dropped together.           *)
(***************************************************************************)
EXTENDS Integers

CONSTANTS Stocks,   \* the stocks of the partition
          Historical \* the source of an authoritative bar

VARIABLE book

EmptyBook == [s \in Stocks |-> [m \in {} |-> m]]

\* What publication may do to one stock's candles.
Grows(old, new) ==
    /\ DOMAIN old \subseteq DOMAIN new
    /\ \A m \in DOMAIN old : new[m] = old[m] \/ new[m].source = Historical

Init == book = EmptyBook

Publish == \A s \in Stocks : Grows(book[s], book'[s])

DropAll == book' = EmptyBook

Next == Publish \/ DropAll

Spec == Init /\ [][Next]_book
=============================================================================
