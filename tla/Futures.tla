-------------------------------- MODULE Futures --------------------------------
(***************************************************************************)
(* futures_layer.FuturesGroup: one thread resolves the front-month         *)
(* contract of every index from the instrument master, another polls the   *)
(* quotes of all of them with one request.  They share FuturesState        *)
(* (contract, quote, open-interest change), which is locked only around    *)
(* each single call, so a contract may change between the request, the     *)
(* look-up of its answer and the store.                                    *)
(*                                                                         *)
(* A contract is its expiry day.  A quote is the contract it was asked     *)
(* for; an open-interest change is the pair of contracts it is taken from. *)
(***************************************************************************)
EXTENDS Integers, FiniteSets, FiniteSetsExt

CONSTANTS
    Symbols,        \* the indices
    Expiries,       \* expiry days, of every index
    LastDay,        \* bound: days
    None

\* What the code gives these constants; the instances assume it.
FuturesAssumption == Expiries \subseteq Nat \ {0} /\ LastDay \in Nat \ {0} /\ None \notin Nat

VARIABLES
    today,
    future,         \* FuturesState of each symbol
    master,         \* symbols the contract thread has still to set from its download, None between two
    resolved,       \* FALSE when the contract thread's wait is over
    live, asked,    \* poll_quotes: the managers polled, and what was asked for each
    pc,             \* of the quote thread: "idle", "asked", "lookup", "store"
    row             \* what it found for the manager at hand
vars == <<today, future, master, resolved, live, asked, pc, row>>

Blank == [contract |-> None, quote |-> None, prev |-> None, change |-> None, status |-> "STARTING"]

\* the nearest expiry that is not over
parse_front_month_index_futures ==
    LET open == {e \in Expiries : e >= today} IN IF open = {} THEN None ELSE Min(open)

set_contract(f, c) ==
    IF f.contract = c THEN f ELSE [f EXCEPT !.contract = c, !.prev = None, !.change = None]

\* a quote of contract c, with its open interest
set_quote(f, c) ==
    [f EXCEPT !.change = IF f.prev # None THEN <<f.prev, c>> ELSE @,
              !.prev = c, !.quote = c, !.status = "LIVE"]

set_error(f) == [f EXCEPT !.status = "ERROR"]

-----------------------------------------------------------------------------
(* The contract thread *)

\* the download, or its failure
Download ==
    /\ master = None /\ ~resolved
    /\ \/ master' = Symbols /\ UNCHANGED <<future, resolved>>
       \/ /\ future' = [s \in Symbols |-> IF future[s].contract = None THEN set_error(future[s]) ELSE future[s]]
          /\ UNCHANGED <<master, resolved>>
    /\ UNCHANGED <<today, live, asked, pc, row>>

\* resolve_contracts, one manager after the other
ResolveContract ==
    /\ master # None /\ master # {}
    /\ \E s \in master :
           LET c == parse_front_month_index_futures
           IN /\ future' = [future EXCEPT ![s] = IF c = None THEN set_error(@) ELSE set_contract(@, c)]
              /\ master' = master \ {s}
    /\ UNCHANGED <<today, resolved, live, asked, pc, row>>
Resolved ==
    /\ master = {} /\ master' = None /\ resolved' = TRUE
    /\ UNCHANGED <<today, future, live, asked, pc, row>>
\* FUTURES_CONTRACT_REFRESH_SECONDS, or the shorter wait after a failure
ContractWait ==
    /\ resolved /\ resolved' = FALSE
    /\ UNCHANGED <<today, future, master, live, asked, pc, row>>

-----------------------------------------------------------------------------
(* The quote thread *)

AskQuotes ==
    /\ pc = "idle"
    /\ live' = {s \in Symbols : future[s].contract # None} /\ live' # {}
    /\ asked' = {<<s, future[s].contract>> : s \in live'}
    /\ pc' = "asked"
    /\ UNCHANGED <<today, future, master, resolved, row>>

AskFails ==
    /\ pc = "asked"
    /\ future' = [s \in Symbols |-> IF s \in live THEN set_error(future[s]) ELSE future[s]]
    /\ pc' = "idle" /\ live' = {} /\ asked' = {}
    /\ UNCHANGED <<today, master, resolved, row>>
\* an expired contract has no quote
Answered ==
    /\ pc = "asked" /\ pc' = "lookup"
    /\ asked' = {a \in asked : a[2] >= today}
    /\ UNCHANGED <<today, future, master, resolved, live, row>>

\* the row of the contract the manager has now
LookUp(s) ==
    /\ pc = "lookup" /\ s \in live
    /\ LET c == future[s].contract
       IN row' = [symbol |-> s, quote |-> IF <<s, c>> \in asked THEN c ELSE None]
    /\ pc' = "store"
    /\ UNCHANGED <<today, future, master, resolved, live, asked>>
Store ==
    /\ pc = "store"
    /\ future' = [future EXCEPT ![row.symbol] =
                     IF row.quote = None THEN set_error(@) ELSE set_quote(@, row.quote)]
    /\ live' = live \ {row.symbol}
    /\ pc' = IF live' = {} THEN "idle" ELSE "lookup"
    /\ asked' = IF live' = {} THEN {} ELSE asked
    /\ row' = None
    /\ UNCHANGED <<today, master, resolved>>

NextDay ==
    /\ today < LastDay /\ today' = today + 1
    /\ UNCHANGED <<future, master, resolved, live, asked, pc, row>>

Init ==
    /\ today = 1 /\ future = [s \in Symbols |-> Blank]
    /\ master = None /\ resolved = FALSE /\ live = {} /\ asked = {} /\ pc = "idle" /\ row = None

Contracts == Download \/ ResolveContract \/ Resolved \/ ContractWait
Quotes == AskQuotes \/ AskFails \/ Answered \/ (\E s \in Symbols : LookUp(s)) \/ Store
Next == Contracts \/ Quotes \/ NextDay
Spec == Init /\ [][Next]_vars
\* both threads run, and neither the download nor the quote request fails for ever
FairSpec ==
    /\ Spec /\ WF_vars(Contracts) /\ WF_vars(Quotes)
    /\ SF_vars(Download /\ master' = Symbols) /\ SF_vars(Answered)

-----------------------------------------------------------------------------
TypeOK ==
    /\ today \in 1..LastDay
    /\ \A s \in Symbols : LET f == future[s] IN
           /\ {f.contract, f.quote, f.prev} \subseteq Expiries \cup {None}
           /\ f.change \in (Expiries \X Expiries) \cup {None}
           /\ f.status \in {"STARTING", "LIVE", "ERROR"}
    /\ master \in (SUBSET Symbols) \cup {None} /\ resolved \in BOOLEAN
    /\ live \subseteq Symbols /\ asked \subseteq Symbols \X Expiries
    /\ pc \in {"idle", "asked", "lookup", "store"}

\* However the contract thread and the quote thread interleave around a rollover, what is
\* served settles: the contract becomes the front month, the quote becomes that of the
\* contract, and the change of the open interest is one between two quotes of it, or none.
Settled ==
    \A s \in Symbols : LET f == future[s] IN
        f.contract = parse_front_month_index_futures /\ f.quote = f.contract /\ f.change \in {None, <<f.contract, f.contract>>}
=============================================================================
