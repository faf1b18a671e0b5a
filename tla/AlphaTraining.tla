---------------------------- MODULE AlphaTraining ----------------------------
(***************************************************************************)
(* A machine-learning factor that trains itself while it is asked for      *)
(* scores, and the diagnostics that walk a fresh copy of it through a      *)
(* range of dates.  The engine hands over the bars before the date, the    *)
(* diagnostics all of them.  Bars are the days a symbol was traded; a      *)
(* label reads the bar that lies Horizon bars ahead, and Horizon is at     *)
(* most what is purged, as the factor asks of its user.                    *)
(***************************************************************************)
EXTENDS Integers, Sequences, FiniteSets, FiniteSetsExt

CONSTANTS
  Symbols,
  HistoryEnd,
  Dates,          \* the dates that scores are asked for
  Callers,        \* "engine", "diagnostics"
  Histories,      \* of a symbol: its bars, and those with usable features
  Horizon, PurgeBars, TrainWindow, RetrainFreq, MinRows,
  ShortWindow, LongWindow   \* bounds of the window after a training

ASSUME AlphaAssumption ==
  /\ HistoryEnd \in Nat /\ Dates \subseteq Nat
  /\ Histories \subseteq [bars : SUBSET (1..HistoryEnd), usable : SUBSET (1..HistoryEnd)]
  /\ Horizon \in Nat \ {0} /\ PurgeBars \in Nat /\ Horizon <= PurgeBars

VARIABLES
  caller,
  history,
  date,           \* the last one asked for
  alpha,          \* the model in use, the day it was trained, how many were
  models,         \* history: what each was trained on
  scores,         \* by date: the training count noted with it, and the model
  trainings,      \* the dates the diagnostics took down
  raised

alphaVars == <<caller, history, date, alpha, models, scores, trainings, raised>>

AlphaInit ==
  /\ caller \in Callers
  /\ history \in [Symbols -> Histories]
  /\ date = 0
  /\ alpha = [model |-> 0, last |-> 0, count |-> 0]
  /\ models = <<>> /\ scores = <<>> /\ trainings = <<>>
  /\ raised = FALSE

(* The bars of a symbol that a call for day d receives.                    *)
Data(s, d) ==
  IF caller = "engine" THEN {b \in history[s].bars : b < d} ELSE history[s].bars

LaterBars(s, r, d) == {b \in Data(s, d) : b > r}
HasLabel(s, r, d) == Cardinality(LaterBars(s, r, d)) >= Horizon

(* The bar that comes Horizon bars after that of the row.                  *)
LabelDay(s, r, d) ==
  CHOOSE b \in LaterBars(s, r, d) :
    Cardinality({x \in LaterBars(s, r, d) : x <= b}) = Horizon

RowsAfter(r, days) == {x \in days : x > r}

(* Mutant: the purge counts days of the calendar.                          *)
PurgedByCalendar(days, d) == {r \in days : r < d - PurgeBars}

(* The last rows go, by position.                                          *)
Purged(days, d) == {r \in days : Cardinality(RowsAfter(r, days)) >= PurgeBars}

(* _build_training_panel() of one symbol: the rows before the date, purged,*)
(* those with features and a label, and of these the latest.               *)
PanelRows(s, d) ==
  LET whole == {r \in Purged({b \in Data(s, d) : b < d}, d) :
                  r \in history[s].usable /\ HasLabel(s, r, d)} IN
  {r \in whole : Cardinality(RowsAfter(r, whole)) < TrainWindow}

Panel(d) == {p \in Symbols \X (1..HistoryEnd) : p[2] \in PanelRows(p[1], d)}

(* History: the last day that the labels of a symbol were taken from.      *)
Reach(s, d) == Max({0} \cup {LabelDay(s, r, d) : r \in PanelRows(s, d)})

(* "No earlier date" cannot come: both callers go forward.                 *)
NeedsRetrain(d) == alpha.model = 0 \/ d - alpha.last >= RetrainFreq

(* _retrain(): a panel that is too small, and a fit that raises, keep the  *)
(* model there is; the date of the last training stays with it.            *)
Retrained(d, fits) ==
  IF NeedsRetrain(d) /\ Cardinality(Panel(d)) >= MinRows /\ fits
  THEN [model |-> alpha.count + 1, last |-> d, count |-> alpha.count + 1]
  ELSE alpha

(* _predict(): the latest features before the date.                        *)
Predicts(s, d) ==
  LET before == {b \in Data(s, d) : b < d} IN
  before # {} /\ Max(before) \in history[s].usable

(* The diagnostics note the count after the call with the scores, and the  *)
(* date of the training when it has risen.                                 *)
Tag(a) == a.count
Noted(a) ==
  IF caller = "diagnostics" /\ Tag(a) > Len(trainings) THEN Append(trainings, a.last)
  ELSE trainings

Compute(d, fits) ==
  /\ ~raised /\ d > date /\ \A e \in Dates : e > date => d <= e
  /\ fits \/ NeedsRetrain(d)
  /\ date' = d
  /\ alpha' = Retrained(d, fits)
  /\ models' = IF alpha'.count > alpha.count
               THEN Append(models, [at |-> d, reach |-> [s \in Symbols |-> Reach(s, d)]])
               ELSE models
  /\ scores' =
       Append(scores,
         [date |-> d, tag |-> Tag(alpha'), by |-> alpha'.model,
          of |-> IF alpha'.model = 0 THEN {} ELSE {s \in Symbols : Predicts(s, d)}])
  /\ trainings' = Noted(alpha')
  /\ UNCHANGED <<caller, history, raised>>

(* An estimator outside the list is an error of the run.                   *)
Unsupported(d) ==
  /\ ~raised /\ d > date /\ \A e \in Dates : e > date => d <= e
  /\ NeedsRetrain(d) /\ Cardinality(Panel(d)) >= MinRows
  /\ raised' = TRUE
  /\ UNCHANGED <<caller, history, date, alpha, models, scores, trainings>>

AlphaNext == \E d \in Dates : (\E fits \in BOOLEAN : Compute(d, fits)) \/ Unsupported(d)

AlphaSpec == AlphaInit /\ [][AlphaNext]_alphaVars

(* The return a score is compared with begins at the last bar up to its    *)
(* date.                                                                   *)
ReturnFrom(s, d) == Max({b \in history[s].bars : b <= d})

(* _compute_oos_ic(): the scores that judge the k-th training.             *)
OosWindow == Min({Max({RetrainFreq, ShortWindow}), LongWindow})

(* Mutant: every score of the window counts.                               *)
OosScoresOfAnyModel(k) ==
  {i \in DOMAIN scores :
     /\ scores[i].date > trainings[k] /\ scores[i].date <= trainings[k] + OosWindow
     /\ scores[i].of # {}}

OosScores(k) ==
  {i \in DOMAIN scores :
     /\ scores[i].date > trainings[k] /\ scores[i].date <= trainings[k] + OosWindow
     /\ scores[i].tag = k /\ scores[i].of # {}}

(* Scores are out of sample: nothing the model learned from, suspensions   *)
(* of a symbol included, lies on or after the day it gives scores for; and *)
(* a training is judged only by scores of its own model, against returns   *)
(* that begin no earlier than the labels of the symbol ended.              *)
ScoresAreOutOfSample ==
  /\ \A i \in DOMAIN scores, s \in Symbols :
       scores[i].by # 0 => models[scores[i].by].reach[s] < scores[i].date
  /\ \A k \in DOMAIN trainings : \A i \in OosScores(k) :
       /\ scores[i].by = k
       /\ \A s \in scores[i].of : models[k].reach[s] <= ReturnFrom(s, scores[i].date)
==============================================================================
