---------------------------- MODULE StockSeries ----------------------------
(***************************************************************************)
(* The completed 1-minute candles of one stock (live_core.state.StockSeries)*)
(*                                                                         *)
(* The code keeps seven parallel columns (epochs, opens, ..., sources) that *)
(* are always written together; here they are one sequence of records.     *)
(* Positions are 1-based, the code's are 0-based.                          *)
(***************************************************************************)
EXTENDS Integers, Sequences

SOURCE_WEBSOCKET == 0
SOURCE_HISTORICAL == 1

Source == {SOURCE_WEBSOCKET, SOURCE_HISTORICAL}

\* A completed candle: the row (epoch, o, h, l, c, v) and the column `sources`.
Row == [epoch : Nat, open : Nat, high : Nat, low : Nat, close : Nat,
        volume : Nat, source : Source]

\* The candle being formed: the list [minute_epoch, o, h, l, c, v].
Forming == [epoch : Nat, open : Nat, high : Nat, low : Nat, close : Nat, volume : Nat]

\* A forming candle, stored as a completed one.
Completed(bar, src) ==
    [epoch |-> bar.epoch, open |-> bar.open, high |-> bar.high, low |-> bar.low,
     close |-> bar.close, volume |-> bar.volume, source |-> src]

\* bisect.bisect_left on the epochs column: the first position whose epoch is at least e.
IsBisectLeft(rows, e, p) ==
    /\ p \in 1 .. Len(rows) + 1
    /\ \A i \in 1 .. p - 1 : rows[i].epoch < e
    /\ p <= Len(rows) => rows[p].epoch >= e

BisectLeft(rows, e) == CHOOSE p \in 1 .. Len(rows) + 1 : IsBisectLeft(rows, e, p)

\* _insert_at: every later candle moves one position up.
InsertRow(rows, p, row) ==
    [i \in 1 .. Len(rows) + 1 |-> IF i < p THEN rows[i]
                                  ELSE IF i = p THEN row ELSE rows[i - 1]]

\* Mutant of IsAppend: a candle for the newest minute is appended again.
IsAppend_Equal(rows, row) == rows = <<>> \/ row.epoch >= rows[Len(rows)].epoch

\* The first branch of put_completed: the candle is newer than all others.
IsAppend(rows, row) == rows = <<>> \/ row.epoch > rows[Len(rows)].epoch

\* Mutant of Refused: a WebSocket-built candle may replace a historical bar.
Refused_Never(rows, row) == FALSE

\* put_completed refuses to replace a Dhan historical bar by a WebSocket-built one.
Refused(rows, row) ==
    /\ ~IsAppend(rows, row)
    /\ row.source # SOURCE_HISTORICAL
    /\ LET p == BisectLeft(rows, row.epoch)
       IN  p <= Len(rows) /\ rows[p].epoch = row.epoch /\ rows[p].source = SOURCE_HISTORICAL

\* The candles after put_completed(row); its result is ~Refused(rows, row).
PutCompleted(rows, row) ==
    IF IsAppend(rows, row) THEN Append(rows, row)
    ELSE IF Refused(rows, row) THEN rows
    ELSE LET p == BisectLeft(rows, row.epoch)
         IN  IF p <= Len(rows) /\ rows[p].epoch = row.epoch
             THEN [rows EXCEPT ![p] = row]
             ELSE InsertRow(rows, p, row)

\* The minutes that have a candle.
Epochs(rows) == {rows[i].epoch : i \in DOMAIN rows}

\* The volume that WebSocket-built candles carry.
WebSocketVolume(rows) ==
    LET sum[n \in 0 .. Len(rows)] ==
            IF n = 0 THEN 0
            ELSE sum[n - 1] + (IF rows[n].source = SOURCE_WEBSOCKET THEN rows[n].volume ELSE 0)
    IN  sum[Len(rows)]

\* The candles are in strictly increasing order of their minute, one per minute.
Sorted(rows) == \A i, j \in 1 .. Len(rows) : i < j => rows[i].epoch < rows[j].epoch
=============================================================================
