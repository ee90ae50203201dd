------------------------------ MODULE OptionDepth ------------------------------
(***************************************************************************)
(* The option chain and the option depth of one index:                     *)
(* index_options.IndexOptionsManager polls the chain of the nearest        *)
(* expiry; index_depth.IndexDepthManager keeps a depth socket for the      *)
(* contracts nearest to the underlying, chosen from that chain, and a      *)
(* second thread polls their quotes.  The chain is read by both threads of *)
(* the depth manager and the contracts are written by both.                *)
(*                                                                         *)
(* A contract is an expiry and a strike.  One strike, the one at the       *)
(* underlying's price of the day, stands for the 25 nearest.               *)
(***************************************************************************)
EXTENDS Integers, TLC

CONSTANTS
    Expiries,       \* of the index, 1..n in order
    Strikes,        \* prices of the underlying and strikes
    None,
    MaxDays         \* bound: trading days

\* What the code gives these constants; the instances assume it.
DepthAssumption ==
    /\ Expiries \subseteq Nat \ {0} /\ 1 \in Expiries /\ None \notin Expiries /\ MaxDays \in Nat

VARIABLES
    twenty,         \* the index trades on NSE: its depth comes from the socket
    open, day,      \* market hours, trading days begun
    front, price,   \* at Dhan: the nearest expiry and the underlying's price
    list,           \* expiries[0] of the option thread, None before the first load
    listed,         \* FALSE when it is EXPIRY_REFRESH_SECONDS old
    opc,            \* option thread: "poll", "chain"
    chain,          \* IndexOptionsState: expiry and underlying_ltp, None before the first answer
    ostatus,
    picked,         \* _contracts and _expiry of the depth manager
    rows,           \* IndexDepthState.contracts: contract -> has depth
    dstatus,
    sub,            \* contracts the open socket is subscribed to, None when closed
    lpc,            \* depth thread: "top", "write", "track", "connect", "recv", "wait"
    lsel,           \* what it has selected
    qpc, qsel       \* quote thread: "top", "asked", "track", and what it has selected

market == <<twenty, open, day, front, price>>
options == <<list, listed, opc, chain, ostatus>>
depth == <<picked, rows, dstatus, sub>>
vars == <<market, options, depth, lpc, lsel, qpc, qsel>>

-----------------------------------------------------------------------------
(* The exchange: external *)

Opens ==
    /\ ~open /\ day < MaxDays /\ day' = day + 1
    /\ open' = TRUE /\ listed' = FALSE          \* the night is longer than the refresh
    /\ price' \in Strikes
    /\ UNCHANGED <<twenty, front, list, opc, chain, ostatus, depth, lpc, lsel, qpc, qsel>>
\* an expiry ends with its day
Closes ==
    /\ open /\ open' = FALSE
    /\ front' \in {front} \cup (Expiries \cap {front + 1})
    /\ UNCHANGED <<twenty, day, price, options, depth, lpc, lsel, qpc, qsel>>

-----------------------------------------------------------------------------
(* index_options *)

\* the market is closed: the last chain stays
OptionsPause ==
    /\ opc = "poll" /\ ~open /\ ostatus # "MARKET_CLOSED"
    /\ ostatus' = "MARKET_CLOSED"
    /\ UNCHANGED <<market, list, listed, opc, chain, depth, lpc, lsel, qpc, qsel>>

\* _load_expiries, when there are none or they are old; the request may fail
LoadExpiries ==
    /\ opc = "poll" /\ open
    /\ \/ list # None /\ listed /\ opc' = "chain" /\ UNCHANGED <<list, listed, ostatus>>
       \/ (list = None \/ ~listed) /\ opc' = "chain" /\ list' = front /\ listed' = TRUE /\ UNCHANGED ostatus
       \/ (list = None \/ ~listed) /\ ostatus # "ERROR" /\ ostatus' = "ERROR" /\ UNCHANGED <<list, listed, opc>>
    /\ UNCHANGED <<market, chain, depth, lpc, lsel, qpc, qsel>>

\* _load_chain and set_snapshot, or set_error
LoadChain ==
    /\ opc = "chain" /\ opc' = "poll"
    /\ \/ chain' = [expiry |-> list, price |-> price] /\ ostatus' = "LIVE"
       \/ ostatus' = "ERROR" /\ UNCHANGED chain
    /\ UNCHANGED <<market, list, listed, depth, lpc, lsel, qpc, qsel>>

-----------------------------------------------------------------------------
(* index_depth *)

\* _select_contracts from the chain's state: the strikes nearest to its price
Nothing == [contracts |-> {}, expiry |-> None]
NoChain == [expiry |-> None, price |-> None]
_select_contracts ==
    IF chain = NoChain THEN Nothing
    ELSE [contracts |-> {<<chain.expiry, chain.price>>}, expiry |-> chain.expiry]

\* set_contracts keeps the depth of a contract that stays
set_contracts(sel) == [c \in sel.contracts |-> c \in DOMAIN rows /\ rows[c]]

\* the depth thread outside market hours
DepthPauses ==
    /\ lpc = "top" /\ ~open
    /\ sub' = None /\ dstatus' = "MARKET_CLOSED"
    /\ <<sub, dstatus>>' # <<sub, dstatus>>
    /\ UNCHANGED <<market, options, picked, rows, lpc, lsel, qpc, qsel>>

\* _refresh_contracts: what the chain says now, compared with what was picked
RefreshContracts ==
    /\ lpc = "top" /\ open
    /\ LET chosen == _select_contracts
           new == chosen.contracts # {} /\ chosen # picked
           none == chosen.contracts = {} /\ picked.contracts = {}
       IN /\ lsel' = IF new THEN chosen ELSE Nothing
          /\ lpc' = IF new THEN "write" ELSE IF twenty /\ ~none THEN "connect" ELSE "wait"
          /\ dstatus' = IF none THEN "STARTING" ELSE dstatus
    /\ UNCHANGED <<market, options, picked, rows, sub, qpc, qsel>>
\* _contracts and _expiry first, the tracked rows after, without a lock around the two
WriteContracts ==
    /\ lpc = "write"
    /\ picked' = lsel /\ lpc' = "track"
    /\ UNCHANGED <<market, options, rows, dstatus, sub, lsel, qpc, qsel>>
TrackContracts ==
    /\ lpc = "track"
    /\ rows' = set_contracts(lsel) /\ sub' = None
    /\ lpc' = (IF twenty THEN "connect" ELSE "wait") /\ lsel' = Nothing
    /\ UNCHANGED <<market, options, picked, dstatus, qpc, qsel>>

\* _run_socket: connect and subscribe to _contracts; the connection may fail
Connect ==
    /\ lpc = "connect"
    /\ \/ sub' = picked.contracts /\ lpc' = "recv" /\ UNCHANGED dstatus
       \/ lpc' = "wait" /\ dstatus' = "ERROR" /\ UNCHANGED sub
    /\ UNCHANGED <<market, options, picked, rows, lsel, qpc, qsel>>

\* a depth packet of a subscribed contract: update_depth drops one that is not tracked
DepthPacket ==
    /\ lpc = "recv" /\ sub # None
    /\ \E c \in sub :
           /\ c[1] >= front                     \* an expired contract has no depth
           /\ rows' = IF c \in DOMAIN rows THEN [rows EXCEPT ![c] = TRUE] ELSE rows
           /\ dstatus' = IF c \in DOMAIN rows THEN "LIVE" ELSE dstatus
    /\ <<rows, dstatus>>' # <<rows, dstatus>>
    /\ UNCHANGED <<market, options, picked, sub, lpc, lsel, qpc, qsel>>

\* the receive loop ends with the market hours, or when somebody closed the socket
SocketEnds ==
    /\ lpc = "recv"
    /\ \/ ~open /\ sub' = None /\ lpc' = "top" /\ UNCHANGED dstatus
       \/ open /\ sub = None /\ lpc' = "wait" /\ dstatus' = "ERROR" /\ UNCHANGED sub
    /\ UNCHANGED <<market, options, picked, rows, lsel, qpc, qsel>>
\* the peer, or _close_socket after a token renewal, closes it
SocketDrops ==
    /\ lpc = "recv" /\ sub # None /\ sub' = None
    /\ UNCHANGED <<market, options, picked, rows, dstatus, lpc, lsel, qpc, qsel>>
Waited ==
    /\ lpc = "wait" /\ lpc' = "top"
    /\ UNCHANGED <<market, options, depth, lsel, qpc, qsel>>

\* _quote_loop: its own selection is asked for ...
QuoteAsks ==
    /\ qpc = "top" /\ open
    /\ qsel' = _select_contracts /\ qsel'.contracts # {}
    /\ qpc' = "asked"
    /\ UNCHANGED <<market, options, depth, lpc, lsel>>

\* Mutant of QuoteAnswered: a new expiry is left to the depth thread.
QuoteAnswered_NoSwitch ==
    /\ qpc = "asked" /\ qpc' = "top" /\ qsel' = Nothing
    /\ \/ /\ rows' = IF twenty THEN rows
                     ELSE [c \in DOMAIN rows |-> rows[c] \/ c \in qsel.contracts]
          /\ dstatus' = IF ~twenty /\ qsel.contracts \cap DOMAIN rows # {} THEN "LIVE" ELSE dstatus
       \/ dstatus' = "ERROR" /\ UNCHANGED rows
    /\ UNCHANGED <<market, options, picked, sub, lpc, lsel>>

\* ... and with the answer comes the depth of a BSE index, and a new expiry is taken
\* over; the socket is left as it is.  Or the request failed.
QuoteAnswered ==
    /\ qpc = "asked"
    /\ \/ /\ rows' = IF twenty THEN rows
                     ELSE [c \in DOMAIN rows |-> rows[c] \/ c \in qsel.contracts]
          /\ dstatus' = IF ~twenty /\ qsel.contracts \cap DOMAIN rows # {} THEN "LIVE" ELSE dstatus
          /\ IF qsel.expiry # picked.expiry
             THEN qpc' = "track" /\ picked' = qsel /\ UNCHANGED qsel
             ELSE qpc' = "top" /\ qsel' = Nothing /\ UNCHANGED picked
       \/ qpc' = "top" /\ qsel' = Nothing /\ dstatus' = "ERROR" /\ UNCHANGED <<picked, rows>>
    /\ UNCHANGED <<market, options, sub, lpc, lsel>>
QuoteTracks ==
    /\ qpc = "track" /\ qpc' = "top" /\ qsel' = Nothing
    /\ rows' = set_contracts(qsel)
    /\ UNCHANGED <<market, options, picked, dstatus, sub, lpc, lsel>>

-----------------------------------------------------------------------------
Init ==
    /\ twenty \in BOOLEAN /\ open = FALSE /\ day = 0 /\ front = 1 /\ price \in Strikes
    /\ list = None /\ listed = FALSE /\ opc = "poll" /\ chain = NoChain /\ ostatus = "STARTING"
    /\ picked = Nothing /\ rows = <<>> /\ dstatus = "STARTING" /\ sub = None
    /\ lpc = "top" /\ lsel = Nothing /\ qpc = "top" /\ qsel = Nothing

Depth == DepthPauses \/ RefreshContracts \/ WriteContracts \/ TrackContracts \/ Connect \/ SocketEnds \/ Waited
Next ==
    \/ Opens \/ Closes
    \/ OptionsPause \/ LoadExpiries \/ LoadChain
    \/ Depth \/ DepthPacket \/ SocketDrops \/ QuoteAsks \/ QuoteAnswered \/ QuoteTracks

\* The threads run; requests and connections end, and do not fail for ever.
Fairness ==
    /\ WF_vars(OptionsPause \/ LoadExpiries \/ LoadChain) /\ WF_vars(Depth)
    /\ WF_vars(QuoteAsks \/ QuoteAnswered \/ QuoteTracks)
    /\ SF_vars(LoadChain /\ ostatus' = "LIVE") /\ SF_vars(LoadExpiries /\ opc' = "chain")
    /\ SF_vars(Connect /\ lpc' = "recv") /\ SF_vars(QuoteAnswered /\ picked'.expiry = qsel.expiry)

Spec == Init /\ [][Next]_vars
FairSpec == Spec /\ Fairness

-----------------------------------------------------------------------------
Selection == [contracts : SUBSET (Expiries \X Strikes), expiry : Expiries \cup {None}]
TypeOK ==
    /\ twenty \in BOOLEAN /\ open \in BOOLEAN /\ day \in 0..MaxDays /\ front \in Expiries /\ price \in Strikes
    /\ list \in Expiries \cup {None} /\ listed \in BOOLEAN /\ opc \in {"poll", "chain"}
    /\ chain \in [expiry : Expiries, price : Strikes] \cup {NoChain}
    /\ picked \in Selection /\ lsel \in Selection /\ qsel \in Selection
    /\ DOMAIN rows \subseteq Expiries \X Strikes
    /\ sub \in (SUBSET (Expiries \X Strikes)) \cup {None}
    /\ lpc \in {"top", "write", "track", "connect", "recv", "wait"} /\ qpc \in {"top", "asked", "track"}
    /\ {ostatus, dstatus} \subseteq {"STARTING", "LIVE", "ERROR", "MARKET_CLOSED"}

\* While the exchange is open, the contracts that are tracked, and quoted, become those of the
\* chain's expiry, whichever of the two threads is behind; after the close both feeds stop:
\* the status says so and the socket is closed, although the quote thread may still bring an
\* answer or an error of before.
Tracked ==
    IF open THEN chain.expiry = picked.expiry
    ELSE dstatus = "MARKET_CLOSED" /\ ostatus = "MARKET_CLOSED" /\ sub = None
=============================================================================
