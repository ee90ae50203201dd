------------------------------ MODULE Select945 ------------------------------
(***************************************************************************)
(* intelligence.selector945: how one stock and a direction come out of the *)
(* 09:45 state matrix.  The algorithm is a set of operators; the state     *)
(* machine decides one matrix.                                             *)
(*                                                                         *)
(* A row of the matrix is [tier, drive, agree, volume]: the best           *)
(* eligibility tier the stock passes (0 none, 1 MINIMAL, 2 RELAXED,        *)
(* 3 STRICT), its volatility-scaled market-relative move, the sum of its   *)
(* trend and breakout states, and the positive part of its relative-volume *)
(* z-score.  The ridge model's prediction is an input: None where it has   *)
(* none.  Stocks are numbered in key order; 1.4826 is 3/2.                 *)
(***************************************************************************)
EXTENDS Integers, FiniteSetsExt

CONSTANTS
    Stocks,         \* 1..n, in key order
    Rows,           \* the rows a matrix may have
    Predictions,    \* what the ridge model predicts for all stocks, or None
    Evidences,      \* out-of-sample comparisons: [days, better, ic]
    CompareMin,     \* COMPARE_MIN_DAYS
    None

VARIABLES
    matrix, prediction, evidence,
    result      \* <<>>, then what decide returned
vars == <<matrix, prediction, evidence, result>>

Abs(x) == IF x < 0 THEN -x ELSE x
Sign(x) == IF x > 0 THEN 1 ELSE IF x = 0 THEN 0 ELSE -1

\* eligibility: the strictest tier that any stock passes, and its mask
Tier(m) == Max({m[s].tier : s \in Stocks})
Mask(m) == {s \in Stocks : Tier(m) > 0 /\ m[s].tier >= Tier(m)}

\* the k-th smallest value of f, and twice their median
Kth(f, k) ==
    CHOOSE v \in {f[s] : s \in DOMAIN f} :
        Cardinality({s \in DOMAIN f : f[s] < v}) < k /\ k <= Cardinality({s \in DOMAIN f : f[s] <= v})
Median2(f) ==
    LET n == Cardinality(DOMAIN f) IN Kth(f, (n + 1) \div 2) + Kth(f, n \div 2 + 1)

\* the sum of the values of f
Total(f) ==
    LET n == Cardinality(Stocks)
        upto[i \in 0..n] == IF i = 0 THEN 0 ELSE upto[i-1] + IF i \in DOMAIN f THEN f[i] ELSE 0
    IN  upto[n]

\* _robust_z, of three values or more: <<deviation, spread>>, the z-score is 4/3 of their ratio
Drives(m, S) == [s \in S |-> m[s].drive]
Deviation(m, S) == [s \in S |-> 2 * m[s].drive - Median2(Drives(m, S))]
\* where half of the values are the median, the standard deviation; all rounded
Deviates(m, S) ==
    LET sum == Total(Drives(m, S))
        var == Cardinality(S) * Total([s \in S |-> m[s].drive * m[s].drive]) - sum * sum
        root == Cardinality({r \in 1..var : r * r <= var})
    IN  IF var = 0 THEN 3 ELSE Max({1, (8 * root) \div (3 * Cardinality(S))})
Spread(m, S) ==
    LET d == Deviation(m, S)  mad == Median2([s \in S |-> Abs(d[s])])
    IN  IF mad = 0 THEN Deviates(m, S) ELSE mad
Scored(S) == Cardinality(S) >= 3

\* Mutant of strength: without the absolute value of the move.
strength_Signed(m, S, s) ==
    LET d == Deviation(m, S)[s]  spread == Spread(m, S)
    IN  16 * d + 6 * spread * m[s].volume + 3 * spread * m[s].agree * Sign(d)
\* score_v1: the move, confirmed by volume, trend and breakout, times 12 * spread
strength(m, S, s) ==
    LET d == Deviation(m, S)[s]  spread == Spread(m, S)
    IN  Min({16 * Abs(d), 96 * spread}) + 6 * spread * m[s].volume
            + 3 * spread * m[s].agree * Sign(d)
score_v1(m, S) ==
    [s \in S |-> IF Scored(S) THEN strength(m, S, s) * Sign(Deviation(m, S)[s]) ELSE None]

\* predict_v2: of the masked rows
predict_v2(p, S) == [s \in S |-> IF p = None THEN None ELSE p[s]]

\* choose_model: v2 only if it beat v1 on the same earlier days
choose_model(e) == IF e.days >= CompareMin /\ e.better /\ e.ic THEN "v2" ELSE "v1"

\* the scores a decision goes by: v1's where v2 has none
Signed(m, p, e) ==
    LET S == Mask(m)  v2 == predict_v2(p, S)
    IN  IF choose_model(e) = "v2" /\ \E s \in S : v2[s] # None THEN v2 ELSE score_v1(m, S)

\* _pick: the largest absolute score, the first key of those
_pick(signed) ==
    LET finite == {s \in DOMAIN signed : signed[s] # None}
        best == Max({Abs(signed[s]) : s \in finite})
    IN  Min({s \in finite : Abs(signed[s]) = best})

\* decide: None where the code raises
decide(m, p, e) ==
    LET signed == Signed(m, p, e)
    IN  IF \A s \in DOMAIN signed : signed[s] = None THEN None
        ELSE LET s == _pick(signed)
             IN  [stock |-> s, direction |-> IF signed[s] < 0 THEN -1 ELSE 1, score |-> signed[s]]

Decide ==
    /\ result = <<>> /\ result' = <<decide(matrix, prediction, evidence)>>
    /\ UNCHANGED <<matrix, prediction, evidence>>

Init ==
    /\ matrix \in [Stocks -> Rows] /\ prediction \in Predictions /\ evidence \in Evidences
    /\ result = <<>>
Next == Decide
Spec == Init /\ [][Next]_vars

-----------------------------------------------------------------------------
TypeOK ==
    /\ matrix \in [Stocks -> Rows] /\ prediction \in Predictions /\ evidence \in Evidences

Decided == result # <<>> /\ result # <<None>>
Mirror(m) == [s \in Stocks |-> [m[s] EXCEPT !.drive = -@, !.agree = -@]]
Against(p) == IF p = None THEN None ELSE [s \in Stocks |-> IF p[s] = None THEN None ELSE -p[s]]

\* A market turned upside down gives the same stock and the other direction: nothing in
\* the ranking leans to one side (score_v1, predict_v2, _pick).
MirrorImage ==
    Decided /\ result[1].score # 0 =>
        LET other == decide(Mirror(matrix), Against(prediction), evidence)
        IN  other.stock = result[1].stock /\ other.direction = -result[1].direction

=============================================================================
