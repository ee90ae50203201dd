----------------------------- MODULE StockRotation -----------------------------
(***************************************************************************)
(* The stock options: stock_options.StockOptionsManager polls the option   *)
(* chains one stock after the other, stock_depth.StockDepthManager takes a *)
(* batch of stocks at a time, subscribes one socket to the contracts of    *)
(* their chains for STOCK_DEPTH_BATCH_SECONDS and goes on to the next      *)
(* batch, whatever became of this one.  The third thread, which only fills *)
(* the quote fields of tracked rows, and the status of the option polls    *)
(* are left out.                                                           *)
(*                                                                         *)
(* A contract is a stock and an expiry; it stands for the strikes nearest  *)
(* to the stock's price.                                                   *)
(***************************************************************************)
EXTENDS Integers, Sequences, SequencesExt, TLC

CONSTANTS
    Stocks,         \* instruments, in order: a sequence
    BatchSize,      \* STOCK_DEPTH_SYMBOLS_PER_BATCH
    Expiries,       \* 1..n
    None            \* no chain yet
\* What the code gives these constants; the instances assume it.
RotationAssumption ==
    /\ Stocks # <<>> /\ BatchSize \in Nat \ {0} /\ 1 \in Expiries /\ None \notin Expiries

Symbols == ToSet(Stocks)

VARIABLES
    open,           \* market hours
    front,          \* the nearest expiry at Dhan
    index,          \* stock the option thread polls next
    expiry,         \* _expiry of each stock, None when it has to be loaded
    chain,          \* StockOptionState.expiry
    bindex,         \* _batch_index
    batch,          \* _batch_symbols
    contracts,      \* _contracts: while the socket receives, what it is subscribed to
    rows,           \* StockDepthState.contracts: its expiry, None when there are none
    dstatus, rotation,
    pc              \* depth thread: "top", "refresh", "connect", "recv"
market == <<open, front>>
options == <<index, expiry, chain>>
depth == <<bindex, batch, contracts, rows, dstatus, rotation, pc>>
vars == <<market, options, depth>>

\* the market opens, and closes with or without the end of an expiry
Market ==
    /\ open' = ~open
    /\ front' \in {front} \cup (IF open THEN Expiries \cap {front + 1} ELSE {})
    /\ expiry' = IF open THEN expiry ELSE [s \in Symbols |-> None]      \* EXPIRY_REFRESH_SECONDS
    /\ UNCHANGED <<index, chain, depth>>

-----------------------------------------------------------------------------
(* stock_options *)

\* _poll_one: the expiries when they are old, then the chain; either request may fail
_poll_one(s) ==
    \/ /\ expiry' = [expiry EXCEPT ![s] = IF @ = None THEN front ELSE @]
       /\ \/ chain' = [chain EXCEPT ![s] = expiry'[s]]
          \/ UNCHANGED chain
    \/ UNCHANGED <<expiry, chain>>
Poll ==
    /\ open /\ _poll_one(Stocks[index])
    /\ index' = (index % Len(Stocks)) + 1
    /\ UNCHANGED <<market, depth>>

-----------------------------------------------------------------------------
(* stock_depth *)

\* the stocks of batch number i
_batches == (Len(Stocks) + BatchSize - 1) \div BatchSize
_batch(i) == {Stocks[j] : j \in {k \in 1..Len(Stocks) : (k - 1) \div BatchSize = i % _batches}}

\* outside market hours; a stock that was never served stays PENDING
DepthPauses ==
    /\ pc = "top" /\ ~open
    /\ dstatus' = [s \in Symbols |-> IF dstatus[s] = "PENDING" THEN "PENDING" ELSE "MARKET_CLOSED"]
    /\ rotation' = [s \in Symbols |-> IF dstatus[s] = "PENDING" THEN rotation[s] ELSE "IDLE"]
    /\ <<dstatus, rotation>>' # <<dstatus, rotation>>
    /\ UNCHANGED <<market, options, bindex, batch, contracts, rows, pc>>

\* the next batch becomes ACTIVE and the last one IDLE
NextBatch ==
    /\ pc = "top" /\ open
    /\ batch' = _batch(bindex) /\ bindex' = (bindex + 1) % _batches
    /\ rotation' = [s \in Symbols |-> IF s \in batch' THEN "ACTIVE" ELSE IF s \in batch THEN "IDLE" ELSE rotation[s]]
    /\ pc' = "refresh"
    /\ UNCHANGED <<market, options, contracts, rows, dstatus>>

\* _refresh_contracts_for_batch from the chains; without any the turn is over and
\* _contracts stays as it was
_refresh_contracts_for_batch ==
    LET chosen == {<<s, chain[s]>> : s \in {t \in batch : chain[t] # None}}
    IN /\ pc = "refresh"
       /\ rows' = [s \in Symbols |-> IF s \in batch /\ chain[s] # None THEN chain[s] ELSE rows[s]]
       /\ IF chosen = {} THEN pc' = "top" /\ UNCHANGED contracts
          ELSE pc' = "connect" /\ contracts' = chosen
       /\ UNCHANGED <<market, options, bindex, batch, dstatus, rotation>>

Connect ==
    /\ pc = "connect"
    /\ pc' = "recv"
    /\ UNCHANGED <<market, options, bindex, batch, contracts, rows, dstatus, rotation>>
\* the connection fails, at once or later
SocketFails ==
    /\ pc \in {"connect", "recv"}
    /\ dstatus' = [s \in Symbols |-> IF s \in batch THEN "ERROR" ELSE dstatus[s]]
    /\ pc' = "top"
    /\ UNCHANGED <<market, options, bindex, batch, contracts, rows, rotation>>
\* a packet goes to the stock whose contract it names in _contracts
DepthPacket ==
    /\ pc = "recv"
    /\ \E c \in contracts :
           /\ c[2] >= front
           /\ dstatus' = IF rows[c[1]] = c[2] THEN [dstatus EXCEPT ![c[1]] = "LIVE"] ELSE dstatus
    /\ dstatus' # dstatus
    /\ UNCHANGED <<market, options, bindex, batch, contracts, rows, rotation, pc>>
\* the batch's time, or the market's, is over
TurnEnds ==
    /\ pc = "recv" /\ pc' = "top"
    /\ UNCHANGED <<market, options, bindex, batch, contracts, rows, dstatus, rotation>>

-----------------------------------------------------------------------------
Init ==
    /\ open = FALSE /\ front = 1 /\ index = 1
    /\ expiry = [s \in Symbols |-> None] /\ chain = [s \in Symbols |-> None]
    /\ bindex = 0 /\ batch = {} /\ contracts = {}
    /\ rows = [s \in Symbols |-> None] /\ dstatus = [s \in Symbols |-> "PENDING"]
    /\ rotation = [s \in Symbols |-> "IDLE"] /\ pc = "top"

Depth == DepthPauses \/ NextBatch \/ _refresh_contracts_for_batch \/ Connect \/ SocketFails \/ TurnEnds
Next == Market \/ Poll \/ Depth \/ DepthPacket

Spec == Init /\ [][Next]_vars
\* both threads run; connections may fail for ever
FairSpec == Spec /\ WF_vars(Poll) /\ WF_vars(Depth)

-----------------------------------------------------------------------------
TypeOK ==
    /\ open \in BOOLEAN /\ front \in Expiries /\ index \in 1..Len(Stocks)
    /\ \A s \in Symbols :
           /\ {expiry[s], chain[s], rows[s]} \subseteq Expiries \cup {None}
           /\ dstatus[s] \in {"PENDING", "LIVE", "ERROR", "MARKET_CLOSED"}
           /\ rotation[s] \in {"ACTIVE", "IDLE"}
    /\ bindex \in 0.._batches - 1 /\ batch \subseteq Symbols
    /\ contracts \subseteq Symbols \X Expiries
    /\ pc \in {"top", "refresh", "connect", "recv"}

\* No batch holds up the rotation: the contracts tracked for any stock become those of
\* its chain, however often connections of its own or of other batches fail and however
\* many stocks have no chain (StockDepthManager._loop).
Served == open => rows = chain
=============================================================================
