------------------------------ MODULE Indicators ------------------------------
(*****************************************************************************)
(* Which indicators a candle series yields (psygrid_master_indicator.py).  A *)
(* series is kept as its mask: bar i has a value or is NaN.  The masks carry *)
(* what decides it: the windows, the seeds of the recursive averages, the    *)
(* zero denominators of flat or untraded minutes, and how NaN spreads.       *)
(*****************************************************************************)
EXTENDS Integers, Sequences, FiniteSets

CONSTANTS
    Bars,           \* candles that may be observed: high, low, close, volume
    MaxBars,        \* bound: the length of the series
    Fast, Slow, Signal,     \* macd_fast, macd_slow, macd_signal
    Ema,            \* ema_fast
    Window,         \* the 20-bar windows: sma, bollinger, cci, rvol, cmf, donchian, ema_slow
    Wilder,         \* the 14-bar ones: rsi, atr, adx, mfi, stochastic_k
    Smooth, D,      \* stochastic_smooth, stochastic_d
    Roc, Momentum, Super    \* roc, momentum, supertrend_atr

VARIABLE bars       \* the observed candles, oldest first
vars == <<bars>>

n == Len(bars)
All == [i \in 1..n |-> TRUE]
Last(mask) == n > 0 /\ mask[n]
Span(i, p) == i-p+1..i
Tp(i) == bars[i].high + bars[i].low + bars[i].close
Same(f(_), S) == \A i, j \in S : f(i) = f(j)
Traded(S) == \E i \in S : bars[i].volume > 0

-----------------------------------------------------------------------------
\* rolling(p, min_periods=p): every bar of the window has a value.
rolling(mask, p) == [i \in 1..n |-> i >= p /\ \A j \in Span(i, p) : mask[j]]
\* ema_sma_seed and wilder_rma: the seed needs the first p bars, and a NaN is never left.
ema_sma_seed(mask, p, len) ==
    LET seeded == len >= p /\ \A j \in 1..p : mask[j]
        out[i \in 0..len] == IF i < p THEN FALSE ELSE IF i = p THEN seeded ELSE mask[i] /\ out[i-1]
    IN  [i \in 1..len |-> out[i]]
wilder_rma(mask, p) == ema_sma_seed(mask, p, n)
atr_wilder(p) == wilder_rma(All, p)

\* the differences start at the second bar
rsi_wilder(p) ==
    LET avg == ema_sma_seed(All, p, IF n = 0 THEN 0 ELSE n - 1)
    IN  [i \in 1..n |-> i > 1 /\ avg[i-1]]

\* The signal is seeded on the valid part of the line and put back at its bars.
macd_line == LET f == ema_sma_seed(All, Fast, n)
                 s == ema_sma_seed(All, Slow, n)
             IN  [i \in 1..n |-> f[i] /\ s[i]]
macd_signal ==
    LET valid == {i \in 1..n : macd_line[i]}
        rank(i) == Cardinality({j \in valid : j <= i})
        sig == ema_sma_seed(All, Signal, Cardinality(valid))
    IN  [i \in 1..n |-> i \in valid /\ sig[rank(i)]]

\* Ranges: a window whose highest high is its lowest low has no position in it.
RangeFlat(S) == \A i, j \in S : bars[i].high = bars[j].low
stoch_raw_k == [i \in 1..n |-> i >= Wilder /\ ~RangeFlat(Span(i, Wilder))]
stoch_k == rolling(stoch_raw_k, Smooth)
stoch_d == rolling(stoch_k, D)
cci == [i \in 1..n |-> i >= Window /\ ~Same(Tp, Span(i, Window))]
percent_b == [i \in 1..n |-> i >= Window /\ ~Same(LAMBDA j : bars[j].close, Span(i, Window))]

\* Directional movement: the smoothed averages are zero while every movement was.
Up(i) == bars[i].high - bars[i-1].high
Down(i) == bars[i-1].low - bars[i].low
Moved(i) == i > 1 /\ Up(i) # Down(i) /\ (Up(i) > 0 \/ Down(i) > 0)
TrueRange(i) == bars[i].high # bars[i].low \/ (i > 1 /\ (bars[i].high # bars[i-1].close))
plus_di == [i \in 1..n |-> atr_wilder(Wilder)[i] /\ \E j \in 1..i : TrueRange(j)]
dx == [i \in 1..n |-> plus_di[i] /\ \E j \in 1..i : Moved(j)]
adx_wilder == wilder_rma(dx, Wilder)

\* Volume: a window without a trade, or one with a flat bar, has no money flow.
cmf == LET flow == rolling([i \in 1..n |-> bars[i].high # bars[i].low], Window)
       IN  [i \in 1..n |-> flow[i] /\ Traded(Span(i, Window))]
vwap == [i \in 1..n |-> Traded(1..i)]
vwma == [i \in 1..n |-> i >= Window /\ Traded(Span(i, Window))]
rvol == [i \in 1..n |-> i > Window /\ Traded(Span(i - 1, Window))]
donchian == [i \in 1..n |-> i > Window]
supertrend == atr_wilder(Super)

calculate_indicators ==
    [sma_20 |-> rolling(All, Window), ema_9 |-> ema_sma_seed(All, Ema, n), ema_20 |-> ema_sma_seed(All, Window, n),
     vwap |-> vwap, vwma_20 |-> vwma, bb_percent_b_20 |-> percent_b, atr_14 |-> atr_wilder(Wilder),
     rsi_14 |-> rsi_wilder(Wilder), macd_line |-> macd_line, macd_signal |-> macd_signal,
     stoch_raw_k |-> stoch_raw_k, stoch_k |-> stoch_k, stoch_d |-> stoch_d, cci_20 |-> cci,
     roc_12 |-> [i \in 1..n |-> i > Roc], momentum_10 |-> [i \in 1..n |-> i > Momentum],
     adx_14 |-> adx_wilder, plus_di_14 |-> plus_di, obv |-> All, cmf_20 |-> cmf,
     mfi_14 |-> rolling(All, Wilder), rvol_20 |-> rvol, donchian_upper_20 |-> donchian,
     keltner_upper |-> [i \in 1..n |-> ema_sma_seed(All, Window, n)[i] /\ atr_wilder(Wilder)[i]], supertrend |-> supertrend]
Names == DOMAIN calculate_indicators

\* The table of compute_stock, as the formulas its numbers follow for the default periods.
required ==
    [sma_20 |-> Window, ema_9 |-> Ema, ema_20 |-> Window, vwap |-> 1, vwma_20 |-> Window, bb_percent_b_20 |-> Window,
     atr_14 |-> Wilder, rsi_14 |-> Wilder + 1, macd_line |-> Slow, macd_signal |-> Slow + Signal - 1,
     stoch_raw_k |-> Wilder, stoch_k |-> Wilder + Smooth - 1, stoch_d |-> Wilder + Smooth + D - 2, cci_20 |-> Window,
     roc_12 |-> Roc + 1, momentum_10 |-> Momentum + 1, adx_14 |-> 2 * Wilder - 1, plus_di_14 |-> Wilder, obv |-> 1,
     cmf_20 |-> Window, mfi_14 |-> Wilder + 1, rvol_20 |-> Window + 1, donchian_upper_20 |-> Window + 1,
     keltner_upper |-> Window, supertrend |-> Super]

\* _series_readiness: enough bars with a value, and the last one has one.
Ready(name) ==
    LET mask == calculate_indicators[name]
    IN  Cardinality({i \in 1..n : mask[i]}) >= required[name] /\ Last(mask)

-----------------------------------------------------------------------------
Init == bars = <<>>
Observe == /\ n < MaxBars
           /\ \E b \in Bars : bars' = Append(bars, b)
Next == Observe
Spec == Init /\ [][Next]_vars

TypeOK == n \in 0..MaxBars /\ \A name \in Names : DOMAIN calculate_indicators[name] = 1..n

-----------------------------------------------------------------------------
\* A minute that moved and traded: nothing of it makes a denominator zero.
Good(i) == i > 1 /\ bars[i].volume > 0 /\ bars[i].high # bars[i].low /\ bars[i].close # bars[i-1].close /\ Tp(i) # Tp(i-1)
\* the bars an indicator's last value looks back on
Reach(name) == IF name \in {"stoch_d", "stoch_k", "stoch_raw_k"} THEN Wilder + Smooth + D - 2 ELSE Window + 1

\* A flat or untraded minute is forgotten once it has left the window: when every bar an
\* indicator looks back on moved and traded, its last bar has a value, whatever came before.
\* adx_14 is the exception: its average is seeded on bars that have no dx yet, so it never
\* has a value (AdxServed).
Forgets ==
    \A name \in Names \ {"adx_14"} :
        n >= required[name] /\ n > Reach(name) /\ (\A i \in n - Reach(name) + 1..n : Good(i))
            => Last(calculate_indicators[name])

\* ADX is part of the suite that is served (app.py, "EMA/SMA/RSI/MACD/Bollinger/Supertrend/ADX").
AdxServed == n >= 2 * required["adx_14"] /\ (\A i \in 2..n : Good(i)) => Ready("adx_14")
=============================================================================
