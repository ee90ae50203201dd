----------------------------- MODULE WalkForward ------------------------------
(*****************************************************************************)
(* How a 09:45 decision learns (intelligence/selector945.py): the training   *)
(* days before it, trimmed to a window; the walk-forward history of both     *)
(* models over that window; the rule that chooses between them; and the      *)
(* calibration of the probability.  One stock with one feature stands for    *)
(* the cross-section: v1 follows the feature's sign, and the ridge, whose    *)
(* coefficient then has the sign of the summed feature times outcome,        *)
(* predicts that sign times the feature.                                     *)
(*****************************************************************************)
EXTENDS Integers, Sequences, FiniteSets, FiniteSetsExt

CONSTANTS
    MaxDays,            \* bound: training days
    TrainWindow,        \* TRAIN_WINDOW
    V2MinTrain,         \* V2_MIN_TRAIN_DAYS
    CompareMin,         \* COMPARE_MIN_DAYS
    CalibrationMin,     \* CALIBRATION_MIN_DAYS
    V1MinPicks,         \* V1_CALIBRATION_MIN_PICKS
    IcMin               \* the summed daily information coefficient that passes for t > 2

VARIABLE days           \* the training records, oldest first

\* A training day: fewer than three eligible stocks with an outcome, or the feature and the
\* outcome of the stock that stands for them.
TrainingDays == [usable : {TRUE}, feature : {-1, 1}, outcome : {-1, 1}] \cup [usable : {FALSE}, feature : {1}, outcome : {1}]

Init == days = <<>>
save_training == Len(days) < MaxDays /\ \E day \in TrainingDays : days' = Append(days, day)
Next == save_training
Spec == Init /\ [][Next]_days

Sign(n) == IF n > 0 THEN 1 ELSE IF n < 0 THEN -1 ELSE 0
Sum(S, f(_)) == MapThenSumSet(f, S)

\* fit_ridge on the days with these indices: none when they are too few (an unusable day counts).
fit_ridge(list, fitted) ==
    IF Cardinality(fitted) < V2MinTrain THEN 0
    ELSE LET Term(k) == IF list[k].usable THEN list[k].feature * list[k].outcome ELSE 0
         IN  Sum(fitted, Term)
Fitted(j) == Max({1, j - TrainWindow})..(j - 1)

\* oos_history: the out-of-sample picks of both models, by day.
V1Picks(list) == {j \in 1..Len(list) : list[j].usable}
Prediction(list, j) == fit_ridge(list, Fitted(j)) * list[j].feature
\* A day with a model whose prediction is zero is still picked, with direction up.
V2Picks(list) == {j \in V1Picks(list) : Cardinality(Fitted(j)) >= V2MinTrain}
Direction(list, j) == IF Sign(Prediction(list, j)) = 0 THEN 1 ELSE Sign(Prediction(list, j))
V1Return(list, j) == list[j].feature * list[j].outcome
V2Return(list, j) == Direction(list, j) * list[j].outcome
DailyIc(list, j) == Sign(Prediction(list, j)) * list[j].outcome

\* choose_model: v2 only after enough common days, a higher mean return and a positive
\* information coefficient that varies (the t of equal values is zero) and is large enough.
choose_model(list) ==
    LET common == V1Picks(list) \cap V2Picks(list)
        ic == Sum(V2Picks(list), LAMBDA j : DailyIc(list, j))
        better == Sum(common, LAMBDA j : V2Return(list, j)) > Sum(common, LAMBDA j : V1Return(list, j))
        varies == Cardinality({DailyIc(list, j) : j \in V2Picks(list)}) > 1 /\ Cardinality(V2Picks(list)) >= 3
    IN  IF Cardinality(common) >= CompareMin /\ better /\ varies /\ ic >= IcMin THEN "v2" ELSE "v1"

\* decide: the newest days of the training records.
Last(list, n) == IF Len(list) <= n THEN list ELSE SubSeq(list, Len(list) - n + 1, Len(list))
Trimmed(list) == Last(list, TrainWindow + 2 * CalibrationMin)
\* v2 that cannot score today falls back to v1; the days its calibration needs, met or not.
decide(list) ==
    LET kept == Trimmed(list)
        coef == fit_ridge(Last(kept, TrainWindow), 1..Len(Last(kept, TrainWindow)))
        chosen == choose_model(kept)
        model == IF chosen = "v2" /\ Len(Last(kept, TrainWindow)) < V2MinTrain THEN "v1" ELSE chosen
        picks == IF model = "v2" THEN V2Picks(kept) ELSE V1Picks(kept)
    IN  [model |-> model, kept |-> kept, sign |-> Sign(coef),
         enough |-> Cardinality(picks) >= IF model = "v2" THEN CalibrationMin ELSE V1MinPicks]

-----------------------------------------------------------------------------
TypeOK == Len(days) <= MaxDays /\ \A k \in 1..Len(days) : days[k] \in TrainingDays

\* The same list with the outcomes from day j on turned round.
Turned(list, j) == [k \in 1..Len(list) |-> IF k < j THEN list[k] ELSE [list[k] EXCEPT !.outcome = -@]]

\* "For day j, v2 is trained only on days before j ... it is all in that day's past"
\* (oos_history): the direction picked for a day does not change with the outcome of that day
\* or of any later one, at any place in the list and after any trimming.
NoLookAhead ==
    \A list \in {days, Trimmed(days)} : \A j \in V2Picks(list) :
        Direction(list, j) = Direction(Turned(list, j), j)

\* The window a decision keeps is long enough for what it is used for: once enough days have
\* been recorded, and all of them usable, both models have the days their calibration and
\* the comparison ask for, although the first days of the window only train.
WindowSuffices ==
    LET kept == decide(days).kept
    IN  Len(days) >= TrainWindow + 2 * CalibrationMin /\ V1Picks(kept) = 1..Len(kept) =>
            /\ decide(days).enough
            /\ Cardinality(V1Picks(kept)) >= V1MinPicks
            /\ Cardinality(V2Picks(kept)) >= Max({CalibrationMin, CompareMin})
=============================================================================
