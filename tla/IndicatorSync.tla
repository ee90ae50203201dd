----------------------------- MODULE IndicatorSync -----------------------------
(*****************************************************************************)
(* The equity indicator runtime (indicator_runtime.py): a thread reads the   *)
(* published candles of every stock over HTTP, recomputes the stocks whose   *)
(* last candle changed and serves what it has.                               *)
(*****************************************************************************)
EXTENDS Integers, FiniteSets

CONSTANTS
    Stocks,
    LastMinute,     \* bound: minutes of the day
    StaleAfter,     \* stale_after_seconds, in minutes
    MaxFaults,      \* bound: failed requests, losses of FULL_LIVE, rejected candles
    None

VARIABLES
    now,            \* the minute of the day
    rows,           \* live_candles, per stock: the value of each completed minute
    forming,        \* current_1m, per stock: the minute of the candle still open, or None
    fullLive,       \* the snapshot says FULL_LIVE
    payload,        \* the source payload a sync works on
    results, prints, errors,    \* _results, _fingerprints, _errors
    _last_error,
    faults

vars == <<now, rows, forming, fullLive, payload, results, prints, errors, _last_error, faults>>

-----------------------------------------------------------------------------
\* _stock_payload(): the completed candles; _dedupe_candles drops the one still forming.
_stock_payload(s) == {[minute |-> k, value |-> rows[s][k]] : k \in {m \in 1..LastMinute : rows[s][m] # None}}
market_live_json == [s \in Stocks |-> _stock_payload(s)]

LastOf(cs) == CHOOSE c \in cs : \A d \in cs : c.minute >= d.minute
_fingerprint(cs) == IF cs = {} THEN None ELSE [minute |-> LastOf(cs).minute, value |-> LastOf(cs).value]
_freshness(t, minute) == IF t - minute > StaleAfter THEN "STALE" ELSE "FRESH"

\* compute_stock(): a rejected candle raises; the values of a series that is not FRESH are None.
Raises(cs) == \E c \in cs : c.value = "bad"
Emitted(t, cs) == _freshness(t, LastOf(cs).minute) = "FRESH"
compute_stock(t, cs) ==
    IF cs = {} THEN [asOf |-> None, at |-> t, freshness |-> None, from |-> {}, values |-> FALSE]
    ELSE [asOf |-> LastOf(cs).minute, at |-> t, freshness |-> _freshness(t, LastOf(cs).minute), from |-> cs, values |-> Emitted(t, cs)]

-----------------------------------------------------------------------------
Init ==
    /\ now = 1 /\ rows = [s \in Stocks |-> [m \in 1..LastMinute |-> None]] /\ forming = [s \in Stocks |-> None]
    /\ fullLive = TRUE /\ payload = None
    /\ results = [s \in Stocks |-> None] /\ prints = [s \in Stocks |-> None] /\ errors = {}
    /\ _last_error = FALSE /\ faults = 0

NextMinute ==
    /\ now < LastMinute /\ now' = now + 1
    /\ UNCHANGED <<rows, forming, fullLive, payload, results, prints, errors, _last_error, faults>>

\* update_quote(): a trade of a later minute completes the candle that was forming; a bad one
\* is a candle that compute_stock rejects.
Trade(s) ==
    /\ forming[s] # now
    /\ \E v \in {"ws"} \cup (IF forming[s] # None /\ faults < MaxFaults THEN {"bad"} ELSE {}) :
         /\ rows' = IF forming[s] = None THEN rows ELSE [rows EXCEPT ![s][forming[s]] = v]
         /\ faults' = IF v = "bad" THEN faults + 1 ELSE faults
    /\ forming' = [forming EXCEPT ![s] = now]
    /\ UNCHANGED <<now, fullLive, payload, results, prints, errors, _last_error>>

\* merge_today_1m_history(): a completed minute as the history has it.
Backfill(s) ==
    /\ faults < MaxFaults /\ faults' = faults + 1
    /\ \E k \in 1..now-1 :
         /\ rows[s][k] # "hist" /\ rows' = [rows EXCEPT ![s][k] = "hist"]
         /\ forming' = IF forming[s] = k THEN [forming EXCEPT ![s] = None] ELSE forming
    /\ UNCHANGED <<now, fullLive, payload, results, prints, errors, _last_error>>
Health ==
    /\ fullLive' = ~fullLive /\ (fullLive => faults < MaxFaults)
    /\ faults' = IF fullLive THEN faults + 1 ELSE faults
    /\ UNCHANGED <<now, rows, forming, payload, results, prints, errors, _last_error>>

\* _run(): nothing is synchronised unless every stock is live; the request may fail.
Fetch ==
    /\ payload = None /\ fullLive
    /\ payload' = [stocks |-> market_live_json, at |-> now]
    /\ UNCHANGED <<now, rows, forming, fullLive, results, prints, errors, _last_error, faults>>
FetchFails ==
    /\ payload = None /\ fullLive /\ faults < MaxFaults /\ faults' = faults + 1
    /\ _last_error' = TRUE
    /\ UNCHANGED <<now, rows, forming, fullLive, payload, results, prints, errors>>

\* _sync_once().  A stock whose last candle did not change keeps its result and is to get a
\* new freshness; but the stored as_of carries its UTC offset, which _parse_ist_timestamp
\* refuses to localise again: the exception ends the whole synchronisation.
Unchanged(s) == results[s] # None /\ _fingerprint(payload.stocks[s]) = prints[s]
Breaks(s) == Unchanged(s) /\ results[s].asOf # None
Rejudged(s) == IF results[s].asOf = None THEN results[s]
               ELSE [results[s] EXCEPT !.freshness = _freshness(payload.at, results[s].asOf)]
_sync_once ==
    /\ payload # None /\ payload' = None
    /\ IF \E s \in Stocks : Breaks(s)
       THEN _last_error' = TRUE /\ UNCHANGED <<results, prints, errors>>
       ELSE LET todo == {s \in Stocks : ~Unchanged(s)}
                failed == {s \in todo : Raises(payload.stocks[s])}
            IN  /\ results' = [s \in Stocks |-> IF s \in todo \ failed THEN compute_stock(payload.at, payload.stocks[s])
                                                ELSE IF s \in todo THEN results[s] ELSE Rejudged(s)]
                /\ prints' = [s \in Stocks |-> _fingerprint(payload.stocks[s])]
                /\ errors' = (errors \ todo) \cup failed
                /\ _last_error' = FALSE
    /\ UNCHANGED <<now, rows, forming, fullLive, faults>>

Next ==
    \/ NextMinute \/ Health \/ Fetch \/ FetchFails \/ _sync_once
    \/ \E s \in Stocks : Trade(s) \/ Backfill(s)
Spec == Init /\ [][Next]_vars

-----------------------------------------------------------------------------
TypeOK ==
    /\ now \in 1..LastMinute /\ faults \in 0..MaxFaults /\ errors \subseteq Stocks
    /\ \A s \in Stocks : results[s] # None => results[s].asOf \in (1..LastMinute) \cup {None}

\* What stock() and snapshot() serve with values was fresh by its own account, and came from
\* minutes that were over when they were read: never from the candle still forming.
ServedValues ==
    \A s \in Stocks : results[s] # None /\ results[s].values =>
        results[s].freshness = "FRESH" /\ \A c \in results[s].from : c.value # "part" /\ c.minute <= results[s].at
=============================================================================
