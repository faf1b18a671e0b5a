---------------------------- MODULE WalkForward ----------------------------
(***************************************************************************)
(* The four ways to judge a strategy out of sample: folds of a portfolio   *)
(* backtest, of a single-stock backtest, of an optimisation of weights,    *)
(* and the one nested split whose windows the user gives.  Rows are        *)
(* numbered from 0; a fold trains on one range of them and is tested on    *)
(* another, and the returns of the tests are strung into one curve.        *)
(***************************************************************************)
EXTENDS Integers, Sequences, FiniteSets, FiniteSetsExt

CONSTANTS
  Jobs,           \* kind, rows, splits, ratio (of Scale); windows of a nested one
  Scale,
  MinTest,        \* rows of a portfolio's smallest test window
  Warmup, MinBars \* rows a single strategy waits for, and has to trade on

ASSUME WalkAssumption ==
  /\ Scale \in Nat \ {0} /\ MinTest \in Nat \ {0} /\ Warmup \in Nat /\ MinBars \in Nat
  /\ Jobs \subseteq [kind : {"portfolio", "single", "weights", "nested"}, rows : Nat,
                    splits : Nat \ {0}, ratio : 0..Scale,
                    train : Int \X Int, test : Int \X Int]
  /\ \A j \in Jobs : j.kind = "nested" => j.splits = 1

VARIABLES
  job,
  phase,
  next,           \* the fold to come
  folds,          \* those in the result: their rows, what the optimiser said
  curve,          \* the rows whose returns the judgement is made of,
                  \* those of each fold by its place in the result
  reference       \* the rows the baseline is judged on, in the same way

walkVars == <<job, phase, next, folds, curve, reference>>

(* Mutant: windows of equal length; the remainder is never looked at.      *)
StartOfEqual(i) == i * (job.rows \div job.splits)

Start(i) == (i * job.rows) \div job.splits
Size(i) == Start(i + 1) - Start(i)
Share(size) == (size * job.ratio) \div Scale

(* _compute_fold_boundaries(): two rows at least on either side.           *)
TrainEndOfWeights(i) ==
  LET end == Start(i) + Max({2, Share(Size(i))}) IN
  IF Start(i + 1) - end < 2 THEN Max({Start(i) + 2, Start(i + 1) - 2}) ELSE end

TrainEnd(i) ==
  IF job.kind = "weights" THEN TrainEndOfWeights(i) ELSE Start(i) + Share(Size(i))

(* Rows of a nested split, whose windows are inclusive.                    *)
Slice(window) == {r \in 0..job.rows - 1 : window[1] <= r /\ r <= window[2]}

(* Mutant: the last day of the training is the first of the test.          *)
TrainUntilTest(i) ==
  IF job.kind = "nested" THEN Slice(job.train) ELSE Start(i)..TrainEnd(i)

(* The days of a training.  A portfolio names them by their first and last;*)
(* index -1 is the last of all.                                            *)
Train(i) ==
  CASE job.kind = "nested" -> Slice(job.train)
    [] job.kind = "portfolio" /\ TrainEnd(i) = 0 -> 0..job.rows - 1
    [] OTHER -> Start(i)..TrainEnd(i) - 1

Test(i) ==
  IF job.kind = "nested" THEN Slice(job.test) ELSE TrainEnd(i)..Start(i + 1) - 1

(* The checks before the first fold judge the smallest window.             *)
SmallestTest == LET size == job.rows \div job.splits IN size - Share(size)
Refused ==
  CASE job.kind = "portfolio" -> SmallestTest < MinTest
    [] job.kind = "single" -> SmallestTest < Warmup + MinBars
    [] job.kind = "weights" -> job.rows < 4 * job.splits
    [] job.kind = "nested" ->
         \/ job.test[1] <= job.train[2]
         \/ Cardinality(Slice(job.train)) < 2 \/ Cardinality(Slice(job.test)) < 2

WalkInit ==
  /\ job \in Jobs
  /\ phase = "asked" /\ next = 0 /\ folds = <<>> /\ curve = {} /\ reference = {}

Begin ==
  /\ phase = "asked"
  /\ phase' = IF Refused THEN "refused" ELSE "folds"
  /\ UNCHANGED <<job, next, folds, curve, reference>>

(* The first value of an equity curve is where the one before ended, and   *)
(* the strategy of a single stock has its warm-up cut away before that.    *)
Returns(i) ==
  CASE job.kind = "portfolio" -> Test(i) \ {Min(Test(i))}
    [] job.kind = "single" -> {r \in Test(i) : r > Min(Test(i)) + Warmup}
    [] OTHER -> Test(i)

TooShort(i) ==
  \/ job.kind = "single" /\ Cardinality(Test(i)) < MinBars
  \/ job.kind = "weights" /\ (Cardinality(Train(i)) < 2 \/ Cardinality(Test(i)) < 2)

(* Backtests enter the curve, and so does the best of an optimiser's       *)
(* candidates; without a feasible one its fold is in the list only.        *)
Fold(found) ==
  /\ phase = "folds" /\ next < job.splits
  /\ found \/ job.kind = "weights"
  /\ next' = next + 1
  /\ IF TooShort(next) THEN UNCHANGED <<folds, curve>>
     ELSE /\ folds' = Append(folds, [train |-> Train(next), test |-> Test(next), found |-> found])
          /\ curve' = IF found
                      THEN curve \cup {[fold |-> Len(folds) + 1, rows |-> Returns(next)]}
                      ELSE curve
  /\ UNCHANGED <<job, phase, reference>>

(* An optimiser that raises has its fold skipped; a nested split fails.    *)
FoldFails ==
  /\ phase = "folds" /\ next < job.splits /\ job.kind \in {"weights", "nested"}
  /\ next' = next + 1
  /\ phase' = IF job.kind = "nested" THEN "failed" ELSE phase
  /\ UNCHANGED <<job, folds, curve, reference>>

Tests(places) == {[fold |-> k, rows |-> folds[k].test] : k \in places}

(* Mutant: every fold of the list counts for the baseline.                 *)
BaselineOfAll == Tests(DOMAIN folds)

(* The baseline is judged on the folds that the optimiser succeeded in.    *)
Baseline == Tests({k \in DOMAIN folds : folds[k].found})

Finish ==
  /\ phase = "folds" /\ next = job.splits
  /\ phase' = IF job.kind = "weights" /\ folds = <<>> THEN "failed" ELSE "judged"
  /\ reference' = IF job.kind \in {"weights", "nested"} THEN Baseline ELSE {}
  /\ UNCHANGED <<job, next, folds, curve>>

WalkNext == Begin \/ (\E found \in BOOLEAN : Fold(found)) \/ FoldFails \/ Finish

WalkSpec == WalkInit /\ [][WalkNext]_walkVars

(* A judgement is out of sample: each fold of it was trained only on rows  *)
(* before its test; no test row is judged twice or out of order, and in a  *)
(* walk through the sample none is left out, a remainder of the division   *)
(* included; the tests are as long as was promised; and a baseline is      *)
(* compared on the same rows.  Excepted is a portfolio's fold whose test   *)
(* begins at the very first row: index -1 has it train on the whole range. *)
JudgedOutOfSample ==
  phase = "judged" =>
    /\ \A i \in DOMAIN folds : \A r \in folds[i].train, t \in folds[i].test :
         r < t \/ (job.kind = "portfolio" /\ 0 \in folds[i].test)
    /\ \A c, e \in curve :
         /\ c.fold = e.fold => c = e
         /\ c.fold < e.fold => \A r \in c.rows, t \in e.rows : r < t
    /\ \A i \in DOMAIN folds :
         Cardinality(folds[i].test) >=
           CASE job.kind = "portfolio" -> MinTest
             [] job.kind = "single" -> Warmup + MinBars
             [] OTHER -> 2
    /\ job.kind \in {"portfolio", "single"} =>
         UNION {folds[i].train \cup folds[i].test : i \in DOMAIN folds} = 0..job.rows - 1
    /\ job.kind \in {"weights", "nested"} => reference = curve
==============================================================================
