------------------------- MODULE ResearchPartsProofs -------------------------
(***************************************************************************)
(* What the research side keeps.  Of its store, for any number of tasks,   *)
(* requests, specs and runs, and however long abandoned batches go on: a   *)
(* spec is completed once, and a task stays within its budget.  Of user    *)
(* code, for any number of files and versions: a refused save leaves no    *)
(* trace, and a name stands for the class loaded last.  Of a factor that   *)
(* trains itself and of the ways to divide a sample: scores and judgements *)
(* are out of sample, for any histories of bars and any lengths.  Of the   *)
(* files of bars: a request is never served from one that ends before it.  *)
(* MCResearchParts runs these parts on small bounds; LedgerProofs has the  *)
(* least member of a set.                                                  *)
(***************************************************************************)
EXTENDS ResearchRuns, CodeSandbox, AlphaTraining, WalkForward, DataCache, LedgerProofs

-----------------------------------------------------------------------------
(* Types                                                                   *)

ThreadRecords ==
  [todo : Seq(Specs), pc : {"idle", "check", "spec", "claim", "save", "ended", "raised"},
   run : Nat, ok : BOOLEAN, inserted : Nat]
TaskRecords ==
  [stage : {"new", "top", "code", "batch", "analyze", "report", "done", "gone"},
   iteration : Nat, executed : Nat, calls : Nat, streak : Nat,
   cancel : BOOLEAN, cancelled : BOOLEAN]
RunRecords == [run : Nat, spec : Specs, ok : BOOLEAN]

Busy == {"check", "spec", "claim", "save"}
Executing == {"spec", "claim", "save"}

TypesInv ==
  /\ runs \in SUBSET RunRecords
  /\ claims \in [Specs -> Nat]
  /\ thread \in [Threads -> ThreadRecords]
  /\ task \in [Tasks -> TaskRecords]
  /\ counter \in [runs : Nat, deletes : Nat]
  /\ \A h \in Threads : thread[h].pc \in Busy => thread[h].todo # <<>>

-----------------------------------------------------------------------------
(* Runs and claims                                                         *)

(* Runs are numbered as they are executed: a run in progress is nobody     *)
(* else's, and is not stored yet.                                          *)
RunsAreNumbered ==
  /\ \A r \in runs : r.run \in 1..counter.runs
  /\ \A h \in Threads : thread[h].pc \in Executing => thread[h].run \in 1..counter.runs
  /\ \A r, q \in runs : r.run = q.run => r = q
  /\ \A h \in Threads : thread[h].pc \in Executing => \A r \in runs : r.run # thread[h].run
  /\ \A g, h \in Threads :
       thread[g].pc \in Executing /\ thread[h].pc \in Executing /\ thread[g].run = thread[h].run
         => g = h

(* Only a deletion can take a claim away from the run that made it, and it *)
(* leaves its mark.                                                        *)
DeletionsAreMarked == deletion.pc # "idle" => deletion.spec \in touched

(* A completed run, stored or about to be, holds the claim of its spec.    *)
SavedHoldClaims ==
  \A r \in runs : r.ok /\ r.spec \notin touched => claims[r.spec] = r.run
SavingHoldClaims ==
  \A h \in Threads :
    thread[h].pc = "save" /\ thread[h].ok /\ Current(h) \notin touched
      => claims[Current(h)] = thread[h].run

ClaimInv ==
  TypesInv /\ RunsAreNumbered /\ DeletionsAreMarked /\ SavedHoldClaims /\ SavingHoldClaims

-----------------------------------------------------------------------------
(* The budget                                                              *)

(* What a batch has stored and what it may still store.                    *)
BatchesFit == \A t \in Tasks : thread[t].inserted + Len(thread[t].todo) < MaxSpecs

(* No batch of a task is at work while the task prepares the next, and the *)
(* task has counted what the earlier ones stored.                          *)
LoopCounts ==
  \A t \in Tasks :
    /\ task[t].stage = "new" => thread[t] = Idle /\ task[t].executed = 0
    /\ task[t].stage \in {"top", "code", "analyze"} => thread[t].pc \in {"idle", "ended"}
    /\ task[t].stage \in {"top", "code"} => thread[t].inserted = task[t].executed

BudgetInv == TypesInv /\ BatchesFit /\ LoopCounts
-----------------------------------------------------------------------------
(* Types are kept                                                          *)

LEMMA IdleIsThread == Idle \in ThreadRecords /\ Idle.pc = "idle" /\ Idle.todo = <<>>
  BY DEF Idle, ThreadRecords

(* A thread that goes on to its next spec.                                 *)
LEMMA OnwardsEffect ==
  ASSUME TypesInv, NEW h \in Threads, thread[h].pc \in Busy, NEW n \in {0, 1}, Onwards(h, n)
  PROVE  /\ thread' = [thread EXCEPT ![h] = thread'[h]]
         /\ thread'[h] \in ThreadRecords
         /\ thread'[h].pc \in {"check", "ended"}
         /\ thread'[h].pc = "check" => thread'[h].todo # <<>>
         /\ thread'[h].inserted = thread[h].inserted + n
         /\ Len(thread'[h].todo) = Len(thread[h].todo) - 1
<1> DEFINE rest == Tail(thread[h].todo)
<1>1. thread[h] \in ThreadRecords /\ thread[h].todo # <<>>
  BY DEF TypesInv, Busy
<1>2. thread[h].todo \in Seq(Specs) /\ thread[h].inserted \in Nat
  BY <1>1 DEF ThreadRecords
<1>3. rest \in Seq(Specs) /\ Len(rest) = Len(thread[h].todo) - 1
  BY <1>1, <1>2
<1> DEFINE pc == IF rest = <<>> THEN "ended" ELSE "check"
           new == [Idle EXCEPT !.todo = rest, !.inserted = thread[h].inserted + n, !.pc = pc]
<1>4. thread' = [thread EXCEPT ![h] = new]
  BY Zenon DEF Onwards
<1>5. thread \in [Threads -> ThreadRecords] /\ pc \in {"check", "ended"}
      /\ thread[h].inserted + n \in Nat
  BY <1>2 DEF TypesInv
<1>6. /\ new \in ThreadRecords
      /\ new.todo = rest /\ new.inserted = thread[h].inserted + n /\ new.pc = pc
  <2> HIDE DEF rest, pc
  <2> QED
    BY <1>3, <1>5, IdleIsThread DEF ThreadRecords
<1> HIDE DEF rest, new
<1>7. thread'[h] = new /\ thread' = [thread EXCEPT ![h] = thread'[h]]
  BY <1>4, <1>5
<1> QED
  BY <1>3, <1>5, <1>6, <1>7

(* The spec a busy thread is at.                                           *)
LEMMA CurrentIsSpec ==
  ASSUME TypesInv, NEW h \in Threads, thread[h].pc \in Busy
  PROVE  Current(h) \in Specs
<1>1. thread[h].todo \in Seq(Specs) /\ thread[h].todo # <<>>
  BY DEF TypesInv, ThreadRecords
<1> QED
  BY <1>1 DEF Current

LEMMA TypesStart == ResearchInit => TypesInv
<1> SUFFICES ASSUME ResearchInit PROVE TypesInv
  OBVIOUS
<1>1. /\ runs = {} /\ claims = [s \in Specs |-> 0]
      /\ thread = [h \in Threads |-> Idle]
      /\ task = [t \in Tasks |-> NoTask]
      /\ counter = [runs |-> 0, deletes |-> 0]
  BY Zenon DEF ResearchInit
<1>2. Idle \in ThreadRecords /\ Idle.pc \notin Busy
  BY DEF Idle, ThreadRecords, Busy
<1>3. NoTask \in TaskRecords
  BY DEF NoTask, TaskRecords
<1> QED
  BY <1>1, <1>2, <1>3 DEF TypesInv

LEMMA ThreadTypes ==
  ASSUME TypesInv, NEW h \in Threads, ThreadStep(h)
  PROVE  TypesInv'
<1> USE DEF TypesInv, Busy
<1>0. thread[h] \in ThreadRecords /\ thread \in [Threads -> ThreadRecords]
  OBVIOUS
<1>1. ASSUME NEW s \in Specs, Submit(h, s) PROVE TypesInv'
  <2>1. thread' = [thread EXCEPT ![h] = [thread[h] EXCEPT !.todo = <<s>>, !.pc = "check"]]
        /\ UNCHANGED <<runs, claims, task, counter>>
    BY <1>1 DEF Submit, At, storeVars
  <2>2. [thread[h] EXCEPT !.todo = <<s>>, !.pc = "check"] \in ThreadRecords
    <3>1. <<s>> \in Seq(Specs)
      OBVIOUS
    <3> QED
      BY <1>0, <3>1 DEF ThreadRecords
  <2>3. [thread[h] EXCEPT !.todo = <<s>>, !.pc = "check"].todo = <<s>>
    BY <1>0 DEF ThreadRecords
  <2> QED
    BY <1>0, <2>1, <2>2, <2>3
<1>2. CASE CheckDuplicate(h)
  <2>1. Onwards(h, 0) /\ thread[h].pc = "check" /\ UNCHANGED <<runs, claims, task, counter>>
    BY <1>2 DEF CheckDuplicate, At, storeVars
  <2> QED
    BY <1>0, <2>1, OnwardsEffect
<1>3. ASSUME NEW ok \in BOOLEAN, Execute(h, ok) PROVE TypesInv'
  <2> DEFINE new == [thread[h] EXCEPT !.pc = "spec", !.run = counter'.runs, !.ok = ok]
  <2>1. thread' = [thread EXCEPT ![h] = new] /\ UNCHANGED <<runs, claims, task>>
        /\ thread[h].pc = "check" /\ counter' = [counter EXCEPT !.runs = counter.runs + 1]
    BY <1>3 DEF Execute, At, storeVars
  <2>2. counter' \in [runs : Nat, deletes : Nat] /\ counter'.runs \in Nat
    BY <2>1
  <2>3. new \in ThreadRecords /\ new.todo = thread[h].todo
    BY <1>0, <2>2 DEF ThreadRecords
  <2> HIDE DEF new
  <2> QED
    BY <1>0, <2>1, <2>2, <2>3
<1>4. CASE SaveSpec(h)
  <2> DEFINE new == [thread[h] EXCEPT !.pc = IF thread[h].ok THEN "claim" ELSE "save"]
  <2>1. thread' = [thread EXCEPT ![h] = new] /\ UNCHANGED <<runs, claims, task, counter>>
        /\ thread[h].pc = "spec"
    BY <1>4 DEF SaveSpec, At
  <2>2. new \in ThreadRecords /\ new.todo = thread[h].todo
    BY <1>0 DEF ThreadRecords
  <2> HIDE DEF new
  <2> QED
    BY <1>0, <2>1, <2>2
<1>5. CASE Claim(h)
  <2>1. thread[h].pc = "claim" /\ UNCHANGED <<runs, task, counter>>
    BY <1>5 DEF Claim, At
  <2>2. CASE Onwards(h, 0) /\ UNCHANGED claims
    BY <1>0, <2>1, <2>2, OnwardsEffect
  <2>3. CASE /\ claims' = [claims EXCEPT ![Current(h)] = thread[h].run]
             /\ thread' = [thread EXCEPT ![h].pc = "save"]
    <3> DEFINE new == [thread[h] EXCEPT !.pc = "save"]
    <3>1. thread' = [thread EXCEPT ![h] = new]
      BY <2>3
    <3>2. new \in ThreadRecords /\ new.todo = thread[h].todo
      BY <1>0 DEF ThreadRecords
    <3>3. claims' \in [Specs -> Nat]
      BY <1>0, <2>3 DEF ThreadRecords
    <3> HIDE DEF new
    <3> QED
      BY <1>0, <2>1, <3>1, <3>2, <3>3
  <2> QED
    BY <1>5, <2>2, <2>3 DEF Claim
<1>6. CASE SaveRun(h)
  <2>1. Onwards(h, 1) /\ thread[h].pc = "save" /\ UNCHANGED <<claims, task, counter>>
    BY <1>6 DEF SaveRun, At
  <2>2. runs' = runs \cup {[run |-> thread[h].run, spec |-> Current(h), ok |-> thread[h].ok]}
    BY <1>6 DEF SaveRun
  <2>3. Current(h) \in Specs
    BY <2>1, CurrentIsSpec
  <2>4. runs' \in SUBSET RunRecords
    BY <1>0, <2>2, <2>3 DEF RunRecords, ThreadRecords
  <2> QED
    BY <1>0, <2>1, <2>4, OnwardsEffect
<1>7. CASE SaveRunFails(h)
  <2> DEFINE new == [thread[h] EXCEPT !.todo = <<>>, !.pc = "raised"]
  <2>1. thread' = [thread EXCEPT ![h] = new] /\ UNCHANGED <<runs, task, counter>>
        /\ claims' = IF thread[h].ok THEN [claims EXCEPT ![Current(h)] = 0] ELSE claims
    BY <1>7 DEF SaveRunFails, At
  <2>2. new \in ThreadRecords /\ new.pc = "raised"
    <3>1. <<>> \in Seq(Specs)
      OBVIOUS
    <3> QED
      BY <1>0, <3>1 DEF ThreadRecords
  <2>3. claims' \in [Specs -> Nat]
    BY <2>1
  <2> HIDE DEF new
  <2> QED
    BY <1>0, <2>1, <2>2, <2>3
<1> QED
  BY <1>1, <1>2, <1>3, <1>4, <1>5, <1>6, <1>7 DEF ThreadStep

(* What the steps of a task's loop leave alone.                            *)
LEMMA TaskFrame ==
  ASSUME NEW t \in Tasks, TaskStep(t)
  PROVE  UNCHANGED <<specs, runs, claims, deletion, counter, touched>>
  BY Zenon DEF TaskStep, StartTask, CancelTask, TurnOfLoop, CodeCancelled, CodeEnds, BatchEnds,
    BatchTimesOut, Update, Report, TaskFails, Step, storeVars

(* They touch no thread, except that a batch may be handed to the one of   *)
(* the task.                                                               *)
LEMMA TaskThreads ==
  ASSUME TypesInv, NEW t \in Tasks, TaskStep(t)
  PROVE  \/ UNCHANGED thread
         \/ /\ task[t].stage = "code" /\ task' = [task EXCEPT ![t] = [task[t] EXCEPT !.stage = "batch"]]
            /\ thread' = [thread EXCEPT ![t] = thread'[t]]
            /\ thread'[t] \in ThreadRecords /\ thread'[t].pc \in {"check", "ended"}
            /\ thread'[t].pc = "check" => thread'[t].todo # <<>>
            /\ thread'[t].inserted = thread[t].inserted
            /\ task[t].executed + Len(thread'[t].todo) < MaxSpecs
<1>1. ASSUME NEW names \in Batches, CodeEnds(t, names), ~UNCHANGED thread
      PROVE  /\ task[t].stage = "code" /\ task' = [task EXCEPT ![t] = [task[t] EXCEPT !.stage = "batch"]]
             /\ thread' = [thread EXCEPT ![t] = thread'[t]]
             /\ thread'[t] \in ThreadRecords /\ thread'[t].pc \in {"check", "ended"}
             /\ thread'[t].pc = "check" => thread'[t].todo # <<>>
             /\ thread'[t].inserted = thread[t].inserted
             /\ task[t].executed + Len(thread'[t].todo) < MaxSpecs
  <2> DEFINE pc == IF names = <<>> THEN "ended" ELSE "check"
             new == [Idle EXCEPT !.todo = names, !.inserted = thread[t].inserted, !.pc = pc]
  <2>1. ShouldContinue(Preview(t, names)) /\ thread' = [thread EXCEPT ![t] = new]
        /\ task[t].stage = "code" /\ task' = [task EXCEPT ![t] = [task[t] EXCEPT !.stage = "batch"]]
    BY <1>1, Zenon DEF CodeEnds, Step
  <2>2. names \in Seq(Specs) /\ pc \in {"check", "ended"}
    BY ResearchAssumption
  <2>3. t \in Threads /\ thread \in [Threads -> ThreadRecords] /\ thread[t].inserted \in Nat
        /\ task[t] \in TaskRecords
    BY DEF Threads, TypesInv, ThreadRecords
  <2>4. new \in ThreadRecords /\ new.todo = names /\ new.inserted = thread[t].inserted
        /\ new.pc = pc
    <3> HIDE DEF pc
    <3> QED
      BY <2>2, <2>3, IdleIsThread DEF ThreadRecords
  <2>5. Preview(t, names).executed = task[t].executed + Len(names)
    BY <2>2, <2>3, ResearchAssumption DEF Preview, TaskRecords
  <2>6. task[t].executed + Len(names) < MaxSpecs
    BY <2>1, <2>5, Zenon DEF ShouldContinue
  <2> HIDE DEF new
  <2>7. thread'[t] = new /\ thread' = [thread EXCEPT ![t] = thread'[t]]
    BY <2>1, <2>3
  <2> QED
    BY <2>1, <2>2, <2>4, <2>6, <2>7
<1>2. ASSUME \A names \in Batches : ~CodeEnds(t, names) PROVE UNCHANGED thread
  BY <1>2, Zenon DEF TaskStep, StartTask, CancelTask, TurnOfLoop, CodeCancelled, BatchEnds,
    BatchTimesOut, Update, Report, TaskFails, storeVars
<1> QED
  BY <1>1, <1>2

(* One step of a task changes the record of that task only.                *)
LEMMA TaskRecord ==
  ASSUME TypesInv, NEW t \in Tasks, TaskStep(t)
  PROVE  task' = [task EXCEPT ![t] = task'[t]] /\ task'[t] \in TaskRecords
<1>0. task[t] \in TaskRecords /\ task \in [Tasks -> TaskRecords]
  BY DEF TypesInv
<1>1. ASSUME NEW with \in TaskRecords, task' = [task EXCEPT ![t] = with]
      PROVE  task' = [task EXCEPT ![t] = task'[t]] /\ task'[t] \in TaskRecords
  BY <1>0, <1>1
<1>2. Checked(t) \in TaskRecords
  BY <1>0 DEF Checked, TaskRecords
<1>3. CASE StartTask(t)
  BY <1>0, <1>3 DEF StartTask, TaskRecords
<1>4. CASE CancelTask(t)
  BY <1>0, <1>4 DEF CancelTask, TaskRecords
<1>5. CASE TurnOfLoop(t)
  <2>1. ASSUME NEW s \in {"code", "report"} PROVE [Checked(t) EXCEPT !.stage = s] \in TaskRecords
    BY <1>2 DEF TaskRecords
  <2>2. PICK s \in {"code", "report"} : task' = [task EXCEPT ![t] = [Checked(t) EXCEPT !.stage = s]]
    BY <1>5, Zenon DEF TurnOfLoop, Step
  <2> QED
    BY <1>1, <2>1, <2>2
<1>6. CASE CodeCancelled(t)
  <2>1. task' = [task EXCEPT ![t] = [Checked(t) EXCEPT !.stage = "report"]]
    BY <1>6, Zenon DEF CodeCancelled, Step
  <2>2. [Checked(t) EXCEPT !.stage = "report"] \in TaskRecords
    BY <1>2 DEF TaskRecords
  <2> QED
    BY <1>1, <2>1, <2>2
<1>7. ASSUME NEW names \in Batches, CodeEnds(t, names)
      PROVE  task' = [task EXCEPT ![t] = task'[t]] /\ task'[t] \in TaskRecords
  <2>1. PICK s \in {"batch", "report"} : task' = [task EXCEPT ![t] = [task[t] EXCEPT !.stage = s]]
    BY <1>7, Zenon DEF CodeEnds, Step
  <2>2. [task[t] EXCEPT !.stage = s] \in TaskRecords
    BY <1>0 DEF TaskRecords
  <2> QED
    BY <1>1, <2>1, <2>2
<1>8. CASE BatchEnds(t)
  <2>1. PICK s \in {"report", "analyze"} :
          task' = [task EXCEPT ![t] = [Checked(t) EXCEPT !.stage = s]]
    BY <1>8, Zenon DEF BatchEnds, Step
  <2>2. [Checked(t) EXCEPT !.stage = s] \in TaskRecords
    BY <1>2 DEF TaskRecords
  <2> QED
    BY <1>1, <2>1, <2>2
<1>9. CASE BatchTimesOut(t)
  <2>1. task' = [task EXCEPT ![t] = [task[t] EXCEPT !.stage = "report"]]
    BY <1>9, Zenon DEF BatchTimesOut, Step
  <2>2. [task[t] EXCEPT !.stage = "report"] \in TaskRecords
    BY <1>0 DEF TaskRecords
  <2> QED
    BY <1>1, <2>1, <2>2
<1>10. ASSUME NEW passed \in BOOLEAN, Update(t, passed)
       PROVE  task' = [task EXCEPT ![t] = task'[t]] /\ task'[t] \in TaskRecords
  <2>1. ASSUME NEW i \in Nat, NEW e \in Nat, NEW c \in Nat, NEW k \in Nat
        PROVE  [task[t] EXCEPT !.stage = "top", !.iteration = i, !.executed = e, !.calls = c,
                               !.streak = k] \in TaskRecords
    BY <1>0 DEF TaskRecords
  <2> DEFINE i == task[t].iteration + 1
             c == task[t].calls + 2 + 2 * Hypotheses
             k == IF passed THEN 0 ELSE task[t].streak + 1
             e == thread[t].inserted
  <2>2. i \in Nat /\ c \in Nat /\ k \in Nat /\ e \in Nat
    <3>1. task[t].iteration \in Nat /\ task[t].calls \in Nat /\ task[t].streak \in Nat
      BY <1>0 DEF TaskRecords
    <3>2. thread[t].inserted \in Nat
      BY DEF TypesInv, ThreadRecords, Threads
    <3>3. Hypotheses \in Nat
      BY ResearchAssumption
    <3> QED
      BY <3>1, <3>2, <3>3
  <2>3. task' = [task EXCEPT ![t] = [task[t] EXCEPT !.stage = "top", !.iteration = i,
                                       !.executed = e, !.calls = c, !.streak = k]]
    BY <1>10, Zenon DEF Update, Step
  <2> HIDE DEF i, c, k, e
  <2> QED
    BY <1>1, <2>1, <2>2, <2>3
<1>11. CASE Report(t)
  BY <1>0, <1>11 DEF Report, TaskRecords
<1>12. CASE TaskFails(t)
  BY <1>0, <1>12 DEF TaskFails, TaskRecords
<1> QED
  BY <1>3, <1>4, <1>5, <1>6, <1>7, <1>8, <1>9, <1>10, <1>11, <1>12 DEF TaskStep

LEMMA TaskTypes ==
  ASSUME TypesInv, NEW t \in Tasks, TaskStep(t)
  PROVE  TypesInv'
<1>1. t \in Threads /\ UNCHANGED <<runs, claims, counter>>
  BY TaskFrame DEF Threads
<1>2. task' \in [Tasks -> TaskRecords]
  BY TaskRecord DEF TypesInv
<1> QED
  BY <1>1, <1>2, TaskThreads DEF TypesInv, Busy

(* A claim that a restart makes again is that of a completed run.          *)
LEMMA RestartTypes ==
  ASSUME TypesInv, Restart
  PROVE  /\ TypesInv'
         /\ \A h \in Threads : /\ thread'[h].pc \in {"idle", "ended"} /\ thread'[h].todo = <<>>
                               /\ thread[h].pc = "idle" => thread'[h] = Idle
                               /\ thread[h].pc # "idle" => thread'[h].inserted = thread[h].inserted
         /\ \A t \in Tasks : task'[t] = IF Running(t) THEN [task[t] EXCEPT !.stage = "gone"]
                                        ELSE task[t]
<1>1. /\ thread' = [h \in Threads |->
           IF thread[h].pc = "idle" THEN Idle
           ELSE [Idle EXCEPT !.pc = "ended", !.inserted = thread[h].inserted]]
      /\ task' = [t \in Tasks |-> IF Running(t) THEN [task[t] EXCEPT !.stage = "gone"] ELSE task[t]]
      /\ UNCHANGED <<runs, counter>>
  BY DEF Restart
<1>2. ASSUME NEW h \in Threads
      PROVE  /\ thread'[h] \in ThreadRecords
             /\ thread'[h].pc \in {"idle", "ended"} /\ thread'[h].todo = <<>>
             /\ thread[h].pc = "idle" => thread'[h] = Idle
             /\ thread[h].pc # "idle" => thread'[h].inserted = thread[h].inserted
  <2> DEFINE new == [Idle EXCEPT !.pc = "ended", !.inserted = thread[h].inserted]
  <2>1. thread[h] \in ThreadRecords
    BY DEF TypesInv
  <2>2. new \in ThreadRecords /\ new.pc = "ended" /\ new.todo = <<>>
        /\ new.inserted = thread[h].inserted
    BY <2>1, IdleIsThread DEF ThreadRecords
  <2>3. thread'[h] = IF thread[h].pc = "idle" THEN Idle ELSE new
    BY <1>1
  <2> HIDE DEF new
  <2> QED
    BY <2>2, <2>3, IdleIsThread
<1>3. ASSUME NEW t \in Tasks
      PROVE  /\ task'[t] \in TaskRecords
             /\ task'[t] = IF Running(t) THEN [task[t] EXCEPT !.stage = "gone"] ELSE task[t]
  <2>1. task[t] \in TaskRecords
    BY DEF TypesInv
  <2>2. [task[t] EXCEPT !.stage = "gone"] \in TaskRecords
    BY <2>1 DEF TaskRecords
  <2> QED
    BY <1>1, <2>1, <2>2
<1>4. claims' \in [Specs -> Nat]
  <2>1. CASE UNCHANGED claims
    BY <2>1 DEF TypesInv
  <2>2. CASE claims' \in [Specs -> {r.run : r \in runs} \cup {0}]
    <3>1. {r.run : r \in runs} \cup {0} \in SUBSET Nat
      BY DEF TypesInv, RunRecords
    <3> QED
      BY <2>2, <3>1
  <2> QED
    BY <2>1, <2>2, Zenon DEF Restart
<1>5. thread' \in [Threads -> ThreadRecords] /\ task' \in [Tasks -> TaskRecords]
  BY <1>1, <1>2, <1>3, Zenon
<1> QED
  BY <1>1, <1>2, <1>3, <1>4, <1>5 DEF TypesInv, Busy

LEMMA TypesSteps == TypesInv /\ [ResearchNext]_researchVars => TypesInv'
<1> SUFFICES ASSUME TypesInv, [ResearchNext]_researchVars PROVE TypesInv'
  OBVIOUS
<1>1. ASSUME NEW r \in runs, DeleteBegin(r) PROVE TypesInv'
  <2>1. UNCHANGED <<runs, claims, thread, task>>
        /\ counter' = [counter EXCEPT !.deletes = counter.deletes + 1]
    BY <1>1 DEF DeleteBegin, storeVars
  <2> QED
    BY <2>1 DEF TypesInv
<1>2. CASE DeleteRun
  <2>1. UNCHANGED <<claims, thread, task, counter>> /\ runs' \in SUBSET runs
    BY <1>2 DEF DeleteRun, Deletes
  <2> QED
    BY <2>1 DEF TypesInv
<1>3. CASE DeleteCount \/ DeleteSpec
  <2>1. UNCHANGED <<runs, claims, thread, task, counter>>
    BY <1>3 DEF DeleteCount, DeleteSpec, Deletes, storeVars
  <2> QED
    BY <2>1 DEF TypesInv
<1>4. CASE DeleteClaim
  <2>1. UNCHANGED <<runs, thread, task, counter>>
        /\ claims' = [claims EXCEPT ![deletion.spec] = 0]
    BY <1>4 DEF DeleteClaim, Deletes
  <2> QED
    BY <2>1 DEF TypesInv
<1>5. CASE UNCHANGED researchVars
  BY <1>5 DEF TypesInv, researchVars
<1> QED
  BY <1>1, <1>2, <1>3, <1>4, <1>5, ThreadTypes, TaskTypes, RestartTypes DEF ResearchNext

-----------------------------------------------------------------------------
(* Claims are kept                                                         *)

(* Threads that leave their run, or carry it on without claiming.          *)
Calm ==
  \A h \in Threads :
    \/ thread'[h] = thread[h]
    \/ thread'[h].pc \notin Executing
    \/ /\ thread[h].pc \in Executing /\ thread'[h].run = thread[h].run
       /\ thread'[h].pc = "save" => ~thread'[h].ok

(* What most steps do to the store: no new run, and no claim lost that is  *)
(* not marked.                                                             *)
LEMMA CalmStep ==
  ASSUME ClaimInv, TypesInv', Calm, runs' \in SUBSET runs, counter'.runs = counter.runs,
         touched \in SUBSET touched', \A s \in Specs \ touched' : claims'[s] = claims[s],
         deletion'.pc # "idle" => deletion'.spec \in touched'
  PROVE  ClaimInv'
<1> USE DEF ClaimInv
<1>1. RunsAreNumbered'
  <2>1. \A r \in runs' : r.run \in 1..counter'.runs
    BY DEF RunsAreNumbered
  <2>2. \A r, q \in runs' : r.run = q.run => r = q
    BY DEF RunsAreNumbered
  <2>3. \A h \in Threads : thread'[h].pc \in Executing
          => thread[h].pc \in Executing /\ thread'[h].run = thread[h].run
    BY Zenon DEF Calm
  <2>4. \A h \in Threads : thread'[h].pc \in Executing => thread'[h].run \in 1..counter'.runs
    BY <2>3 DEF RunsAreNumbered
  <2>5. \A h \in Threads : thread'[h].pc \in Executing => \A r \in runs' : r.run # thread'[h].run
    BY <2>3 DEF RunsAreNumbered
  <2>6. \A g, h \in Threads :
          thread'[g].pc \in Executing /\ thread'[h].pc \in Executing /\ thread'[g].run = thread'[h].run
            => g = h
    BY <2>3, Zenon DEF RunsAreNumbered
  <2> QED
    BY <2>1, <2>2, <2>4, <2>5, <2>6 DEF RunsAreNumbered
<1>2. SavedHoldClaims'
  <2>1. \A r \in runs' : r.spec \in Specs
    BY DEF TypesInv, RunRecords
  <2> QED
    BY <2>1 DEF SavedHoldClaims
<1>3. SavingHoldClaims'
  <2> SUFFICES ASSUME NEW h \in Threads, thread'[h].pc = "save", thread'[h].ok,
                      Head(thread'[h].todo) \notin touched'
               PROVE  claims'[Head(thread'[h].todo)] = thread'[h].run
    BY Zenon DEF SavingHoldClaims, Current
  <2>1. thread'[h] = thread[h]
    BY Zenon DEF Calm, Executing
  <2>2. Current(h) \in Specs
    BY <2>1, CurrentIsSpec, Zenon DEF Busy
  <2>3. Head(thread'[h].todo) = Current(h)
    BY <2>1 DEF Current
  <2>4. claims[Current(h)] = thread[h].run
    BY <2>1, <2>3, Zenon DEF SavingHoldClaims
  <2> QED
    BY <2>1, <2>2, <2>3, <2>4
<1> QED
  BY <1>1, <1>2, <1>3 DEF DeletionsAreMarked

LEMMA ClaimStarts == ResearchInit => ClaimInv
<1> SUFFICES ASSUME ResearchInit PROVE ClaimInv
  OBVIOUS
<1>1. /\ runs = {} /\ thread = [h \in Threads |-> Idle] /\ deletion.pc = "idle"
  BY DEF ResearchInit, NoDeletion
<1>2. \A h \in Threads : thread[h].pc = "idle"
  BY <1>1, IdleIsThread
<1> QED
  BY <1>1, <1>2, TypesStart DEF ClaimInv, RunsAreNumbered, DeletionsAreMarked, SavedHoldClaims,
    SavingHoldClaims, Executing

(* A thread's step: its own record changes, and no other.                  *)
LEMMA ThreadFrame ==
  ASSUME TypesInv, NEW h \in Threads, ThreadStep(h)
  PROVE  /\ \A g \in Threads \ {h} : thread'[g] = thread[g]
         /\ UNCHANGED <<deletion, task, record, touched>>
<1>1. \E new : thread' = [thread EXCEPT ![h] = new]
  BY Zenon DEF ThreadStep, Submit, CheckDuplicate, Execute, SaveSpec, Claim, SaveRun,
    SaveRunFails, Onwards
<1>2. UNCHANGED <<deletion, task, record, touched>>
  BY Zenon DEF ThreadStep, Submit, CheckDuplicate, Execute, SaveSpec, Claim, SaveRun,
    SaveRunFails, At
<1> QED
  BY <1>1, <1>2 DEF TypesInv

LEMMA ThreadClaims ==
  ASSUME ClaimInv, NEW h \in Threads, ThreadStep(h)
  PROVE  ClaimInv'
<1> USE DEF ClaimInv
<1>0. /\ TypesInv' /\ thread \in [Threads -> ThreadRecords] /\ thread[h] \in ThreadRecords
      /\ \A g \in Threads \ {h} : thread'[g] = thread[g]
      /\ UNCHANGED <<deletion, touched>>
  BY ThreadTypes, ThreadFrame DEF TypesInv
<1>t. TypesInv' /\ DeletionsAreMarked'
  BY <1>0 DEF DeletionsAreMarked
<1>1. ASSUME UNCHANGED <<runs, claims, counter>>,
             \/ thread'[h].pc \notin Executing
             \/ /\ thread[h].pc \in Executing /\ thread'[h].run = thread[h].run
                /\ thread'[h].pc = "save" => ~thread'[h].ok
      PROVE  ClaimInv'
  <2>1. Calm
    BY <1>0, <1>1, Zenon DEF Calm
  <2> QED
    BY <1>0, <1>1, <2>1, CalmStep DEF DeletionsAreMarked
<1>2. ASSUME NEW s \in Specs, Submit(h, s) PROVE ClaimInv'
  <2>1. UNCHANGED <<runs, claims, counter>> /\ thread'[h].pc = "check"
    BY <1>0, <1>2 DEF Submit, storeVars, ThreadRecords
  <2> QED
    BY <1>1, <2>1 DEF Executing
<1>3. CASE CheckDuplicate(h)
  <2>1. UNCHANGED <<runs, claims, counter>> /\ thread[h].pc = "check" /\ Onwards(h, 0)
    BY <1>3 DEF CheckDuplicate, storeVars, At
  <2>2. thread'[h].pc \in {"check", "ended"}
    BY <2>1, OnwardsEffect DEF Busy
  <2> QED
    BY <1>1, <2>1, <2>2 DEF Executing
<1>4. ASSUME NEW ok \in BOOLEAN, Execute(h, ok) PROVE ClaimInv'
  <2>1. /\ UNCHANGED <<runs, claims>> /\ counter'.runs = counter.runs + 1
        /\ thread'[h].pc = "spec" /\ thread'[h].run = counter'.runs
        /\ counter.runs \in Nat
    BY <1>0, <1>4 DEF Execute, storeVars, ThreadRecords, TypesInv
  <2>2. \A g \in Threads \ {h} : thread'[g].pc \in Executing => thread'[g].run \in 1..counter.runs
    BY <1>0, Zenon DEF RunsAreNumbered
  <2>3. \A r \in runs : r.run \in 1..counter.runs
    BY Zenon DEF RunsAreNumbered
  <2>4. RunsAreNumbered'
    <3>1. \A i \in 1..counter.runs : i \in 1..counter'.runs /\ i # counter'.runs
      BY <2>1
    <3>2. counter'.runs \in 1..counter'.runs
      BY <2>1
    <3>3. \A g \in Threads : thread'[g].pc \in Executing => thread'[g].run \in 1..counter'.runs
      BY <2>1, <2>2, <3>1, <3>2, Zenon
    <3>4. \A g \in Threads : thread'[g].pc \in Executing => \A r \in runs : r.run # thread'[g].run
      BY <1>0, <2>1, <2>3, <3>1, Zenon DEF RunsAreNumbered
    <3>5. \A f, g \in Threads :
            thread'[f].pc \in Executing /\ thread'[g].pc \in Executing
              /\ thread'[f].run = thread'[g].run => f = g
      BY <1>0, <2>1, <2>2, <3>1, Zenon DEF RunsAreNumbered
    <3>6. (\A r \in runs : r.run \in 1..counter'.runs)
          /\ (\A r, q \in runs : r.run = q.run => r = q)
      BY <2>3, <3>1, Zenon DEF RunsAreNumbered
    <3> QED
      BY <2>1, <3>3, <3>4, <3>5, <3>6, Zenon DEF RunsAreNumbered
  <2>5. SavedHoldClaims'
    BY <1>0, <2>1, Zenon DEF SavedHoldClaims
  <2>6. SavingHoldClaims'
    BY <1>0, <2>1, Zenon DEF SavingHoldClaims, Current
  <2> QED
    BY <1>t, <2>4, <2>5, <2>6
<1>5. CASE SaveSpec(h)
  <2>1. UNCHANGED <<runs, claims, counter>> /\ thread[h].pc = "spec"
        /\ thread'[h].run = thread[h].run /\ thread'[h].ok = thread[h].ok
        /\ thread'[h].pc = IF thread[h].ok THEN "claim" ELSE "save"
    BY <1>0, <1>5 DEF SaveSpec, At, ThreadRecords
  <2> QED
    BY <1>1, <2>1, Zenon DEF Executing
<1>6. CASE Claim(h)
  <2>1. UNCHANGED <<runs, counter>> /\ thread[h].pc = "claim"
    BY <1>6 DEF Claim, At
  <2>2. CASE claims[Current(h)] # 0
    <3>1. Onwards(h, 0) /\ UNCHANGED claims
      BY <1>6, <2>2 DEF Claim
    <3>2. thread'[h].pc \in {"check", "ended"}
      BY <2>1, <3>1, OnwardsEffect DEF Busy
    <3> QED
      BY <1>1, <2>1, <3>1, <3>2 DEF Executing
  <2>3. CASE claims[Current(h)] = 0
    <3> DEFINE s == Current(h)
    <3>1. /\ claims' = [claims EXCEPT ![s] = thread[h].run]
          /\ thread'[h] = [thread[h] EXCEPT !.pc = "save"]
      BY <1>0, <1>6, <2>3 DEF Claim
    <3>2. /\ thread'[h].pc = "save" /\ thread'[h].run = thread[h].run
          /\ thread'[h].todo = thread[h].todo /\ thread'[h].ok = thread[h].ok
      BY <1>0, <3>1 DEF ThreadRecords
    <3>3. s \in Specs /\ claims'[s] = thread[h].run
          /\ \A q \in Specs : q # s => claims'[q] = claims[q]
      BY <2>1, <3>1, CurrentIsSpec DEF Busy, TypesInv
    <3>4. RunsAreNumbered'
      <4>1. \A g \in Threads : thread'[g].pc \in Executing =>
              thread[g].pc \in Executing /\ thread'[g].run = thread[g].run
        BY <1>0, <2>1, <3>2, Zenon DEF Executing
      <4>2. runs' = runs /\ counter' = counter
        BY <2>1
      <4> QED
        BY <4>1, <4>2, Zenon DEF RunsAreNumbered
    <3>5. SavedHoldClaims'
      <4> SUFFICES ASSUME NEW r \in runs, r.ok, r.spec \notin touched
                   PROVE  claims'[r.spec] = r.run
        BY <1>0, <2>1, Zenon DEF SavedHoldClaims
      <4>1. claims[r.spec] = r.run /\ r.run # 0 /\ r.spec \in Specs
        BY DEF SavedHoldClaims, RunsAreNumbered, TypesInv, RunRecords
      <4> QED
        BY <2>3, <3>3, <4>1
    <3>6. SavingHoldClaims'
      <4> SUFFICES ASSUME NEW g \in Threads, thread'[g].pc = "save", thread'[g].ok,
                          Head(thread'[g].todo) \notin touched
                   PROVE  claims'[Head(thread'[g].todo)] = thread'[g].run
        BY <1>0, Zenon DEF SavingHoldClaims, Current
      <4>1. CASE g = h
        BY <3>2, <3>3, <4>1 DEF Current
      <4>2. CASE g # h
        <5>1. thread'[g] = thread[g] /\ Head(thread'[g].todo) = Current(g)
          BY <1>0, <4>2 DEF Current
        <5>2. claims[Current(g)] = thread[g].run
          BY <5>1, Zenon DEF SavingHoldClaims
        <5>3. thread[g].run # 0 /\ Current(g) \in Specs
          BY <5>1, CurrentIsSpec DEF RunsAreNumbered, Busy, Executing
        <5> QED
          BY <2>3, <3>3, <5>1, <5>2, <5>3
      <4> QED
        BY <4>1, <4>2
    <3> QED
      BY <1>t, <3>4, <3>5, <3>6
  <2> QED
    BY <2>2, <2>3
<1>7. CASE SaveRun(h)
  <2> DEFINE new == [run |-> thread[h].run, spec |-> Current(h), ok |-> thread[h].ok]
  <2>1. /\ Onwards(h, 1) /\ thread[h].pc = "save" /\ UNCHANGED <<claims, counter>>
        /\ runs' = runs \cup {new}
    BY <1>7 DEF SaveRun, At
  <2>2. thread'[h].pc \in {"check", "ended"}
    BY <2>1, OnwardsEffect DEF Busy
  <2>3. new.run = thread[h].run /\ new.spec = Current(h) /\ new.ok = thread[h].ok
    OBVIOUS
  <2> HIDE DEF new
  <2>4. RunsAreNumbered'
    <3>1. thread[h].run \in 1..counter.runs /\ \A r \in runs : r.run # thread[h].run
      BY <2>1, Zenon DEF RunsAreNumbered, Executing
    <3>2. \A g \in Threads : thread'[g].pc \in Executing =>
            /\ g # h /\ thread'[g] = thread[g] /\ thread[g].run # thread[h].run
      BY <1>0, <2>1, <2>2, Zenon DEF RunsAreNumbered, Executing
    <3>3. \A r \in runs' : r \in runs \/ r = new
      BY <2>1
    <3>4. \A r \in runs' : r.run \in 1..counter.runs
      BY <2>3, <3>1, <3>3, Zenon DEF RunsAreNumbered
    <3>5. \A r, q \in runs' : r.run = q.run => r = q
      BY <2>3, <3>1, <3>3, Zenon DEF RunsAreNumbered
    <3>6. \A g \in Threads : thread'[g].pc \in Executing =>
            /\ thread'[g].run \in 1..counter.runs
            /\ \A r \in runs' : r.run # thread'[g].run
      BY <2>3, <3>2, <3>3, Zenon DEF RunsAreNumbered
    <3>7. \A f, g \in Threads :
            thread'[f].pc \in Executing /\ thread'[g].pc \in Executing
              /\ thread'[f].run = thread'[g].run => f = g
      BY <3>2, Zenon DEF RunsAreNumbered
    <3> QED
      BY <2>1, <3>4, <3>5, <3>6, <3>7, Zenon DEF RunsAreNumbered
  <2>5. SavedHoldClaims'
    <3>1. thread[h].ok /\ Current(h) \notin touched => claims[Current(h)] = thread[h].run
      BY <2>1, Zenon DEF SavingHoldClaims
    <3>2. \A r \in runs' : r \in runs \/ r = new
      BY <2>1
    <3> QED
      BY <1>0, <2>1, <2>3, <3>1, <3>2, Zenon DEF SavedHoldClaims
  <2>6. SavingHoldClaims'
    BY <1>0, <2>1, <2>2, Zenon DEF SavingHoldClaims, Current
  <2> QED
    BY <1>t, <2>4, <2>5, <2>6
<1>8. CASE SaveRunFails(h)
  <2> DEFINE s == Current(h)
  <2>1. /\ UNCHANGED <<runs, counter>> /\ thread[h].pc = "save" /\ thread'[h].pc = "raised"
        /\ claims' = IF thread[h].ok THEN [claims EXCEPT ![s] = 0] ELSE claims
    BY <1>0, <1>8 DEF SaveRunFails, At, ThreadRecords
  <2>2. CASE ~thread[h].ok
    BY <1>1, <2>1, <2>2 DEF Executing
  <2>3. CASE thread[h].ok
    <3>1. s \in Specs /\ \A q \in Specs : q # s => claims'[q] = claims[q]
      BY <2>1, <2>3, CurrentIsSpec DEF Busy, TypesInv
    <3>2. s \notin touched => claims[s] = thread[h].run
      BY <2>1, <2>3, Zenon DEF SavingHoldClaims
    <3>3. RunsAreNumbered'
      <4>1. \A g \in Threads : thread'[g].pc \in Executing =>
              thread[g].pc \in Executing /\ thread'[g].run = thread[g].run
        BY <1>0, <2>1, Zenon DEF Executing
      <4>2. runs' = runs /\ counter' = counter
        BY <2>1
      <4> QED
        BY <4>1, <4>2, Zenon DEF RunsAreNumbered
    <3>4. SavedHoldClaims'
      <4> SUFFICES ASSUME NEW r \in runs, r.ok, r.spec \notin touched
                   PROVE  claims'[r.spec] = r.run
        BY <1>0, <2>1, Zenon DEF SavedHoldClaims
      <4>1. claims[r.spec] = r.run /\ r.run # thread[h].run /\ r.spec \in Specs
        BY <2>1 DEF SavedHoldClaims, RunsAreNumbered, TypesInv, RunRecords, Executing
      <4> QED
        BY <3>1, <3>2, <4>1
    <3>5. SavingHoldClaims'
      <4> SUFFICES ASSUME NEW g \in Threads, thread'[g].pc = "save", thread'[g].ok,
                          Head(thread'[g].todo) \notin touched
                   PROVE  claims'[Head(thread'[g].todo)] = thread'[g].run
        BY <1>0, Zenon DEF SavingHoldClaims, Current
      <4>1. g # h
        BY <2>1
      <4>2. thread'[g] = thread[g] /\ Head(thread'[g].todo) = Current(g)
        BY <1>0, <4>1 DEF Current
      <4>3. claims[Current(g)] = thread[g].run
        BY <4>2, Zenon DEF SavingHoldClaims
      <4>4. thread[g].run # thread[h].run /\ Current(g) \in Specs
        BY <2>1, <4>1, <4>2, CurrentIsSpec DEF RunsAreNumbered, Busy, Executing
      <4> QED
        BY <3>1, <3>2, <4>2, <4>3, <4>4
    <3> QED
      BY <1>t, <3>3, <3>4, <3>5
  <2> QED
    BY <2>2, <2>3
<1> QED
  BY <1>2, <1>3, <1>4, <1>5, <1>6, <1>7, <1>8 DEF ThreadStep

LEMMA ClaimSteps == ClaimInv /\ [ResearchNext]_researchVars => ClaimInv'
<1> SUFFICES ASSUME ClaimInv, [ResearchNext]_researchVars PROVE ClaimInv'
  OBVIOUS
<1> USE DEF ClaimInv
<1>t. TypesInv'
  BY TypesSteps
<1>c. ASSUME UNCHANGED <<thread, touched, claims>>, counter'.runs = counter.runs,
             runs' \in SUBSET runs, deletion'.pc # "idle" => deletion'.spec \in touched
      PROVE  ClaimInv'
  BY <1>t, <1>c, CalmStep DEF Calm
<1>1. ASSUME NEW t \in Tasks, TaskStep(t) PROVE ClaimInv'
  <2>1. UNCHANGED <<runs, claims, deletion, counter, touched>>
    BY <1>1, TaskFrame
  <2>2. Calm
    <3>1. t \in Threads /\ thread \in [Threads -> ThreadRecords]
      BY DEF Threads, TypesInv
    <3>2. \A h \in Threads : thread'[h] = thread[h] \/ thread'[h].pc \in {"check", "ended"}
      BY <1>1, <3>1, TaskThreads
    <3> QED
      BY <3>2 DEF Calm, Executing
  <2> QED
    BY <1>t, <2>1, <2>2, CalmStep DEF DeletionsAreMarked
<1>2. ASSUME NEW r \in runs, DeleteBegin(r) PROVE ClaimInv'
  <2>1. /\ UNCHANGED <<runs, claims, thread>> /\ touched' = touched \cup {r.spec}
        /\ deletion' = [pc |-> "run", run |-> r.run, spec |-> r.spec]
        /\ counter' = [counter EXCEPT !.deletes = counter.deletes + 1]
    BY <1>2 DEF DeleteBegin, storeVars
  <2>2. counter'.runs = counter.runs /\ deletion'.spec \in touched'
    BY <2>1 DEF TypesInv
  <2>3. Calm
    BY <2>1 DEF Calm
  <2> QED
    BY <1>t, <2>1, <2>2, <2>3, CalmStep
<1>d. ASSUME NEW from, NEW to, Deletes(from, to), from # "idle", UNCHANGED touched
      PROVE  deletion.spec \in touched /\ (deletion'.pc # "idle" => deletion'.spec \in touched)
  <2>1. deletion.pc # "idle" /\ deletion' = [deletion EXCEPT !.pc = to]
    BY <1>d DEF Deletes
  <2>2. deletion.spec \in touched /\ deletion'.spec = deletion.spec
    BY <2>1 DEF DeletionsAreMarked
  <2> QED
    BY <2>2
<1>3. CASE DeleteRun
  BY <1>3, <1>c, <1>d DEF DeleteRun, Deletes
<1>4. CASE DeleteCount
  <2>1. PICK to : Deletes("count", to)
    BY <1>4, Zenon DEF DeleteCount
  <2>2. UNCHANGED <<runs, claims, counter, touched, thread>>
    BY <1>4, Zenon DEF DeleteCount, storeVars, Deletes
  <2> QED
    BY <2>1, <2>2, <1>c, <1>d
<1>5. CASE DeleteClaim
  <2>1. /\ Deletes("claim", "spec") /\ UNCHANGED <<runs, counter, touched, thread>>
        /\ claims' = [claims EXCEPT ![deletion.spec] = 0]
    BY <1>5 DEF DeleteClaim, Deletes
  <2>2. deletion.spec \in touched /\ (deletion'.pc # "idle" => deletion'.spec \in touched)
    BY <2>1, <1>d
  <2>3. \A s \in Specs \ touched : claims'[s] = claims[s]
    BY <2>1, <2>2 DEF TypesInv
  <2>4. Calm
    BY <2>1 DEF Calm
  <2> QED
    BY <1>t, <2>1, <2>2, <2>3, <2>4, CalmStep
<1>6. CASE DeleteSpec
  BY <1>6, <1>c, <1>d DEF DeleteSpec, Deletes
<1>7. CASE Restart
  <2>1. /\ \A h \in Threads : thread'[h].pc \notin Executing
        /\ UNCHANGED <<runs, counter, touched>>
    BY <1>7, RestartTypes DEF Restart, Executing
  <2>2. deletion'.pc = "idle"
    BY <1>7 DEF Restart, NoDeletion
  <2>3. CASE \E s \in Specs : claims[s] # 0
    <3>1. UNCHANGED claims
      BY <1>7, <2>3, Zenon DEF Restart
    <3>2. Calm
      BY <2>1 DEF Calm
    <3> QED
      BY <1>t, <2>1, <2>2, <3>1, <3>2, CalmStep
  <2>4. CASE \A s \in Specs : claims[s] = 0
    <3>1. \A r \in runs : r.ok => r.spec \in touched
      <4> SUFFICES ASSUME NEW r \in runs, r.ok, r.spec \notin touched PROVE FALSE
        OBVIOUS
      <4>1. claims[r.spec] = r.run /\ r.spec \in Specs /\ r.run \in 1..counter.runs
        BY DEF SavedHoldClaims, RunsAreNumbered, TypesInv, RunRecords
      <4> QED
        BY <2>4, <4>1
    <3>2. RunsAreNumbered'
      BY <2>1, Zenon DEF RunsAreNumbered
    <3>3. SavedHoldClaims'
      BY <2>1, <3>1 DEF SavedHoldClaims
    <3>4. SavingHoldClaims'
      BY <2>1 DEF SavingHoldClaims, Executing
    <3> QED
      BY <1>t, <2>2, <3>2, <3>3, <3>4 DEF DeletionsAreMarked
  <2> QED
    BY <2>3, <2>4
<1>8. CASE UNCHANGED researchVars
  BY <1>8, <1>c DEF researchVars, DeletionsAreMarked
<1> QED
  BY <1>1, <1>2, <1>3, <1>4, <1>5, <1>6, <1>7, <1>8, ThreadClaims DEF ResearchNext

(* A spec none of whose runs was deleted is completed once: submissions,   *)
(* batches and the batches tasks abandoned all race for its claim, and a   *)
(* restart makes no claim twice.                                           *)
THEOREM SpecsCompleteOnce == ResearchSpec => []CompletedOncePerSpec
<1>1. ClaimInv => CompletedOncePerSpec
  <2> SUFFICES ASSUME ClaimInv, NEW s \in Specs \ touched
               PROVE  Cardinality({r \in RunsOf(s) : r.ok}) <= 1
    BY DEF CompletedOncePerSpec
  <2> DEFINE done == {r \in RunsOf(s) : r.ok}
  <2>1. \A r, q \in done : r = q
    <3> SUFFICES ASSUME NEW r \in done, NEW q \in done PROVE r = q
      OBVIOUS
    <3>1. /\ r \in runs /\ r.spec = s /\ r.ok /\ q \in runs /\ q.spec = s /\ q.ok
          /\ s \notin touched
      BY DEF RunsOf
    <3>2. r.run = claims[s] /\ q.run = claims[s]
      BY <3>1 DEF ClaimInv, SavedHoldClaims
    <3> QED
      BY <3>1, <3>2 DEF ClaimInv, RunsAreNumbered
  <2> HIDE DEF done
  <2>2. CASE done = {}
    BY <2>2, FS_EmptySet DEF done
  <2>3. ASSUME NEW r \in done PROVE Cardinality(done) <= 1
    <3>1. done = {r}
      BY <2>1, <2>3
    <3> QED
      BY <3>1, FS_Singleton
  <2> QED
    BY <2>2, <2>3 DEF done
<1> QED
  BY ClaimStarts, ClaimSteps, <1>1, PTL DEF ResearchSpec

-----------------------------------------------------------------------------
(* Budgets are kept                                                        *)

LEMMA BudgetStarts == ResearchInit => BudgetInv
<1> SUFFICES ASSUME ResearchInit PROVE BudgetInv
  OBVIOUS
<1>1. \A t \in Tasks : thread[t] = Idle /\ task[t] = NoTask
  BY DEF ResearchInit, Threads
<1>2. Idle.inserted = 0 /\ Idle.todo = <<>> /\ Len(<<>>) = 0 /\ Idle.pc = "idle"
  BY DEF Idle
<1>3. NoTask.stage = "new" /\ NoTask.executed = 0
  BY DEF NoTask
<1>4. BatchesFit
  BY <1>1, <1>2, ResearchAssumption DEF BatchesFit
<1> QED
  BY <1>1, <1>3, <1>4, TypesStart DEF BudgetInv, LoopCounts

(* What a thread has stored and may store does not grow, and a thread that *)
(* is not busy stays as it is, unless it is a request.                     *)
LEMMA ThreadStores ==
  ASSUME TypesInv, NEW h \in Threads \ Requests, ThreadStep(h)
  PROVE  /\ thread[h].pc \in Busy
         /\ thread'[h].inserted + Len(thread'[h].todo) <= thread[h].inserted + Len(thread[h].todo)
<1>0. /\ thread \in [Threads -> ThreadRecords] /\ thread[h] \in ThreadRecords
      /\ thread[h].inserted \in Nat /\ thread[h].todo \in Seq(Specs)
      /\ Len(thread[h].todo) \in Nat
  BY DEF TypesInv, ThreadRecords
<1>1. ASSUME NEW n \in {0, 1}, Onwards(h, n), thread[h].pc \in Busy
      PROVE  thread'[h].inserted + Len(thread'[h].todo)
               <= thread[h].inserted + Len(thread[h].todo)
  <2>1. /\ thread'[h].inserted = thread[h].inserted + n
        /\ Len(thread'[h].todo) = Len(thread[h].todo) - 1
    BY <1>1, OnwardsEffect
  <2> QED
    BY <1>0, <2>1
<1>2. ASSUME thread'[h].inserted = thread[h].inserted, thread'[h].todo = thread[h].todo
      PROVE  thread'[h].inserted + Len(thread'[h].todo)
               <= thread[h].inserted + Len(thread[h].todo)
  BY <1>0, <1>2
<1>3. ASSUME NEW s \in Specs, Submit(h, s) PROVE FALSE
  BY <1>3 DEF Submit
<1>4. CASE CheckDuplicate(h)
  BY <1>1, <1>4 DEF CheckDuplicate, At, Busy
<1>5. ASSUME NEW ok \in BOOLEAN, Execute(h, ok)
      PROVE  /\ thread[h].pc \in Busy
             /\ thread'[h].inserted = thread[h].inserted /\ thread'[h].todo = thread[h].todo
  BY <1>0, <1>5 DEF Execute, At, Busy, ThreadRecords
<1>6. CASE SaveSpec(h)
  <2>1. /\ thread[h].pc \in Busy
        /\ thread'[h].inserted = thread[h].inserted /\ thread'[h].todo = thread[h].todo
    BY <1>0, <1>6 DEF SaveSpec, At, Busy, ThreadRecords
  <2> QED
    BY <1>2, <2>1
<1>7. CASE Claim(h)
  <2>1. thread[h].pc \in Busy
    BY <1>7 DEF Claim, At, Busy
  <2>2. CASE Onwards(h, 0)
    BY <1>1, <2>1, <2>2
  <2>3. CASE thread' = [thread EXCEPT ![h].pc = "save"]
    <3>1. thread'[h].inserted = thread[h].inserted /\ thread'[h].todo = thread[h].todo
      BY <1>0, <2>3 DEF ThreadRecords
    <3> QED
      BY <1>2, <2>1, <3>1
  <2> QED
    BY <1>7, <2>2, <2>3 DEF Claim
<1>8. CASE SaveRun(h)
  BY <1>1, <1>8 DEF SaveRun, At, Busy
<1>9. CASE SaveRunFails(h)
  <2>1. /\ thread[h].pc \in Busy
        /\ thread'[h].inserted = thread[h].inserted /\ thread'[h].todo = <<>>
    BY <1>0, <1>9 DEF SaveRunFails, At, Busy, ThreadRecords
  <2>2. Len(<<>>) = 0
    OBVIOUS
  <2> QED
    BY <1>0, <2>1, <2>2
<1> QED
  BY <1>2, <1>3, <1>4, <1>5, <1>6, <1>7, <1>8, <1>9 DEF ThreadStep

LEMMA TaskBudget ==
  ASSUME BudgetInv, NEW t \in Tasks, TaskStep(t)
  PROVE  BudgetInv'
<1> USE DEF BudgetInv
<1>0. /\ t \in Threads /\ thread \in [Threads -> ThreadRecords] /\ task \in [Tasks -> TaskRecords]
      /\ thread[t] \in ThreadRecords /\ task[t] \in TaskRecords
      /\ \A u \in Tasks : u \in Threads
  BY DEF Threads, TypesInv
<1>1. TypesInv'
  BY TaskTypes
<1>2. /\ \A u \in Tasks \ {t} : task'[u] = task[u] /\ thread'[u] = thread[u]
      /\ task'[t] \in TaskRecords
  BY <1>0, TaskRecord, TaskThreads
<1>3. BatchesFit'
  <2>1. thread'[t].inserted + Len(thread'[t].todo) < MaxSpecs
    <3>1. CASE thread' = thread
      BY <3>1 DEF BatchesFit
    <3>2. CASE thread' # thread
      <4>1. /\ task[t].stage = "code" /\ thread'[t].inserted = thread[t].inserted
            /\ task[t].executed + Len(thread'[t].todo) < MaxSpecs
        BY <3>2, TaskThreads
      <4>2. thread[t].inserted = task[t].executed
        BY <4>1 DEF LoopCounts
      <4> QED
        BY <4>1, <4>2
    <3> QED
      BY <3>1, <3>2
  <2> QED
    BY <1>2, <2>1 DEF BatchesFit
<1> DEFINE Counted ==
      /\ task'[t].stage = "new" => thread'[t] = Idle /\ task'[t].executed = 0
      /\ task'[t].stage \in {"top", "code", "analyze"} => thread'[t].pc \in {"idle", "ended"}
      /\ task'[t].stage \in {"top", "code"} => thread'[t].inserted = task'[t].executed
<1>4. Counted
  <2>1. CASE thread' # thread
    <3>1. /\ task[t].stage = "code" /\ thread'[t].inserted = thread[t].inserted
          /\ task' = [task EXCEPT ![t] = [task[t] EXCEPT !.stage = "batch"]]
      BY <2>1, TaskThreads
    <3>2. task'[t].stage = "batch"
      BY <1>0, <3>1 DEF TaskRecords
    <3> QED
      BY <3>2
  <2>2. CASE thread' = thread
    <3>1. /\ Checked(t) \in TaskRecords
          /\ Checked(t).stage = task[t].stage /\ Checked(t).executed = task[t].executed
      BY <1>0 DEF Checked, TaskRecords
    <3>2. ASSUME task'[t].stage \in {"batch", "report", "done"} PROVE Counted
      BY <3>2
    <3>3. CASE StartTask(t)
      <4>1. task[t].stage = "new" /\ task'[t].stage = "top" /\ task'[t].executed = task[t].executed
        BY <1>0, <3>3 DEF StartTask, TaskRecords
      <4>2. thread[t] = Idle /\ task[t].executed = 0
        BY <4>1 DEF LoopCounts
      <4>3. Idle.pc = "idle" /\ Idle.inserted = 0
        BY DEF Idle
      <4> QED
        BY <2>2, <4>1, <4>2, <4>3
    <3>4. CASE CancelTask(t)
      <4>1. task'[t].stage = task[t].stage /\ task'[t].executed = task[t].executed
        BY <1>0, <3>4 DEF CancelTask, TaskRecords
      <4> QED
        BY <2>2, <4>1 DEF LoopCounts
    <3>5. CASE TurnOfLoop(t)
      <4>1. /\ task[t].stage = "top"
            /\ \E s \in {"code", "report"} :
                 task' = [task EXCEPT ![t] = [Checked(t) EXCEPT !.stage = s]]
        BY <3>5, Zenon DEF TurnOfLoop, Step
      <4>2. task'[t].stage \in {"code", "report"} /\ task'[t].executed = task[t].executed
        BY <1>0, <3>1, <4>1 DEF TaskRecords
      <4> QED
        BY <2>2, <4>1, <4>2 DEF LoopCounts
    <3>6. CASE CodeCancelled(t)
      <4>1. task' = [task EXCEPT ![t] = [Checked(t) EXCEPT !.stage = "report"]]
        BY <3>6, Zenon DEF CodeCancelled, Step
      <4>2. task'[t].stage = "report"
        BY <1>0, <3>1, <4>1 DEF TaskRecords
      <4> QED
        BY <3>2, <4>2
    <3>7. ASSUME NEW names \in Batches, CodeEnds(t, names) PROVE Counted
      <4>1. PICK s \in {"batch", "report"} :
              task' = [task EXCEPT ![t] = [task[t] EXCEPT !.stage = s]]
        BY <3>7, Zenon DEF CodeEnds, Step
      <4>2. task'[t].stage = s
        BY <1>0, <4>1 DEF TaskRecords
      <4> QED
        BY <3>2, <4>2
    <3>8. CASE BatchEnds(t)
      <4>1. /\ thread[t].pc = "ended"
            /\ \E s \in {"report", "analyze"} :
                 task' = [task EXCEPT ![t] = [Checked(t) EXCEPT !.stage = s]]
        BY <3>8, Zenon DEF BatchEnds, Step
      <4>2. task'[t].stage \in {"report", "analyze"}
        BY <1>0, <3>1, <4>1 DEF TaskRecords
      <4> QED
        BY <2>2, <4>1, <4>2
    <3>9. CASE BatchTimesOut(t)
      <4>1. task'[t].stage = "report"
        BY <1>0, <3>9 DEF BatchTimesOut, Step, TaskRecords
      <4> QED
        BY <3>2, <4>1
    <3>10. ASSUME NEW passed \in BOOLEAN, Update(t, passed) PROVE Counted
      <4>1. /\ task[t].stage = "analyze" /\ task'[t].stage = "top"
            /\ task'[t].executed = thread[t].inserted
        BY <1>0, <3>10 DEF Update, Step, TaskRecords
      <4>2. thread[t].pc \in {"idle", "ended"}
        BY <4>1 DEF LoopCounts
      <4> QED
        BY <2>2, <4>1, <4>2
    <3>11. CASE Report(t) \/ TaskFails(t)
      <4>1. task'[t].stage = "done"
        BY <1>0, <3>11 DEF Report, TaskFails, TaskRecords
      <4> QED
        BY <3>2, <4>1
    <3> HIDE DEF Counted
    <3> QED
      BY <3>3, <3>4, <3>5, <3>6, <3>7, <3>8, <3>9, <3>10, <3>11 DEF TaskStep
  <2> QED
    BY <2>1, <2>2
<1>5. LoopCounts'
  BY <1>2, <1>4 DEF LoopCounts
<1> QED
  BY <1>1, <1>3, <1>5

LEMMA BudgetSteps == BudgetInv /\ [ResearchNext]_researchVars => BudgetInv'
<1> SUFFICES ASSUME BudgetInv, [ResearchNext]_researchVars PROVE BudgetInv'
  OBVIOUS
<1> USE DEF BudgetInv
<1>0. TypesInv' /\ \A t \in Tasks : t \in Threads \ Requests
  BY TypesSteps, ResearchAssumption DEF Threads
<1>1. ASSUME NEW h \in Threads, ThreadStep(h) PROVE BudgetInv'
  <2>1. UNCHANGED task /\ \A g \in Threads \ {h} : thread'[g] = thread[g]
    BY <1>1, ThreadFrame
  <2>2. CASE h \notin Tasks
    <3>1. \A t \in Tasks : thread'[t] = thread[t]
      BY <1>0, <2>1, <2>2
    <3> QED
      BY <1>0, <2>1, <3>1 DEF BatchesFit, LoopCounts
  <2>3. CASE h \in Tasks
    <3>1. /\ thread[h].pc \in Busy
          /\ thread'[h].inserted + Len(thread'[h].todo)
               <= thread[h].inserted + Len(thread[h].todo)
      BY <1>0, <1>1, <2>3, ThreadStores
    <3>2. task[h].stage \notin {"new", "top", "code", "analyze"}
      BY <2>3, <3>1, IdleIsThread DEF LoopCounts, Busy
    <3>3. LoopCounts'
      BY <1>0, <2>1, <3>2 DEF LoopCounts
    <3>4. /\ thread'[h] \in ThreadRecords /\ thread[h] \in ThreadRecords
          /\ MaxSpecs \in Nat
      BY <1>0, <1>1, ResearchAssumption DEF TypesInv
    <3>5. /\ thread'[h].inserted \in Nat /\ Len(thread'[h].todo) \in Nat
          /\ thread[h].inserted \in Nat /\ Len(thread[h].todo) \in Nat
      BY <3>4 DEF ThreadRecords
    <3>6. thread'[h].inserted + Len(thread'[h].todo) < MaxSpecs
      <4> DEFINE n == thread[h].inserted + Len(thread[h].todo)
                 m == thread'[h].inserted + Len(thread'[h].todo)
      <4>1. n < MaxSpecs
        BY <2>3 DEF BatchesFit
      <4>2. n \in Nat /\ m \in Nat /\ m <= n
        BY <3>1, <3>5
      <4> HIDE DEF n, m
      <4>3. m < MaxSpecs
        BY <3>4, <4>1, <4>2
      <4> QED
        BY <4>3 DEF m
    <3>7. BatchesFit'
      BY <1>0, <2>1, <3>6 DEF BatchesFit
    <3> QED
      BY <1>0, <3>3, <3>7
  <2> QED
    BY <2>2, <2>3
<1>2. CASE Restart
  <2>1. ASSUME NEW t \in Tasks
        PROVE  /\ thread'[t].inserted + Len(thread'[t].todo) < MaxSpecs
               /\ task'[t].stage \in {"new", "done", "gone"}
               /\ task'[t].stage = "new" => thread'[t] = Idle /\ task'[t].executed = 0
    <3>1. /\ thread'[t].todo = <<>>
          /\ thread[t].pc = "idle" => thread'[t] = Idle
          /\ thread[t].pc # "idle" => thread'[t].inserted = thread[t].inserted
          /\ task'[t] = IF Running(t) THEN [task[t] EXCEPT !.stage = "gone"] ELSE task[t]
      BY <1>0, <1>2, RestartTypes
    <3>2. thread[t] \in ThreadRecords /\ task[t] \in TaskRecords
      BY <1>0 DEF TypesInv
    <3>3. thread[t].inserted \in Nat /\ Len(thread[t].todo) \in Nat
      BY <3>2 DEF ThreadRecords
    <3>4. thread[t].inserted + Len(thread[t].todo) < MaxSpecs /\ MaxSpecs \in Nat \ {0}
      BY ResearchAssumption DEF BatchesFit
    <3>5. Len(<<>>) = 0 /\ Idle.inserted = 0 /\ Idle.pc = "idle"
      BY DEF Idle
    <3>6. thread'[t].inserted + Len(thread'[t].todo) < MaxSpecs
      BY <3>1, <3>3, <3>4, <3>5
    <3>7. task'[t].stage \in {"new", "done", "gone"}
          /\ (task'[t].stage = "new" => task[t].stage = "new" /\ task'[t] = task[t])
      BY <3>1, <3>2 DEF Running, TaskRecords
    <3>8. task[t].stage = "new" => thread[t] = Idle /\ task[t].executed = 0
      BY DEF LoopCounts
    <3> QED
      BY <3>1, <3>5, <3>6, <3>7, <3>8
  <2> QED
    BY <1>0, <2>1 DEF BatchesFit, LoopCounts
<1>3. ASSUME UNCHANGED <<thread, task>> PROVE BudgetInv'
  BY <1>0, <1>3 DEF BatchesFit, LoopCounts
<1>4. ASSUME NEW r \in runs, DeleteBegin(r) PROVE UNCHANGED <<thread, task>>
  BY <1>4 DEF DeleteBegin
<1>5. CASE DeleteRun \/ DeleteCount \/ DeleteClaim \/ DeleteSpec
  BY <1>5, <1>3, Zenon DEF DeleteRun, DeleteCount, DeleteClaim, DeleteSpec, Deletes
<1>6. CASE UNCHANGED researchVars
  BY <1>6, <1>3 DEF researchVars
<1> QED
  BY <1>1, <1>2, <1>3, <1>4, <1>5, <1>6, TaskBudget DEF ResearchNext

(* A task stores fewer runs than its budget: the next batch is counted     *)
(* before it is run, no other is at work meanwhile, and an iteration that  *)
(* times out is the last.                                                  *)
THEOREM TasksKeepTheirBudget == ResearchSpec => []BudgetIsKept
<1>1. BudgetInv => BudgetIsKept
  <2> SUFFICES ASSUME BudgetInv, NEW t \in Tasks PROVE thread[t].inserted < MaxSpecs
    BY DEF BudgetIsKept
  <2>1. thread[t] \in ThreadRecords
    BY DEF BudgetInv, TypesInv, Threads
  <2>2. thread[t].inserted \in Nat /\ Len(thread[t].todo) \in Nat
    BY <2>1 DEF ThreadRecords
  <2> QED
    BY <2>2, ResearchAssumption DEF BudgetInv, BatchesFit
<1> QED
  BY BudgetStarts, BudgetSteps, <1>1, PTL DEF ResearchSpec


-----------------------------------------------------------------------------
(* The saving of user code                                                 *)

SaveFields == {"at", "version", "backup", "wasLive"}

SandboxShapes ==
  /\ DOMAIN disk = Files /\ DOMAIN live = Files
  /\ DOMAIN save = Files /\ DOMAIN outcome = Files
  /\ \A f \in Files : DOMAIN save[f] = SaveFields

(* A registered class is one that could be loaded.                         *)
LoadedOnce(v) == v = NoVersion \/ Loads(v)
LiveIsLoaded == \A f \in Files : LoadedOnce(live[f]) /\ LoadedOnce(save[f].wasLive)

(* Before its load a save has not touched the registries, nor could anyone *)
(* else: a deletion and a refresh wait for it.                             *)
Untouched(f) ==
  \/ save[f].at = "test"
  \/ kind[f] = "strategy" /\ save[f].at \in {"guard", "guarded", "undo"}
SavesWait == \A f \in Files : Untouched(f) => live[f] = save[f].wasLive

SandboxInv == SandboxShapes /\ LiveIsLoaded /\ SavesWait

LEMMA NoSaveIsIdle == NoSave.at = "idle" /\ NoSave.wasLive = NoVersion /\ DOMAIN NoSave = SaveFields
  BY DEF NoSave, SaveFields

LEMMA SandboxStarts == SandboxInit => SandboxInv
  BY NoSaveIsIdle
  DEF SandboxInit, SandboxInv, SandboxShapes, LiveIsLoaded, LoadedOnce, SavesWait, Untouched

(* A save that goes on: its place changes, and the registered class only   *)
(* where the code of its kind loads it.                                    *)
LEMMA SaveGoesOn ==
  ASSUME SandboxInv, NEW f \in Files, NEW place, Goto(f, place), kind' = kind,
         DOMAIN disk' = Files, DOMAIN live' = Files, DOMAIN outcome' = Files,
         \A g \in Files : LoadedOnce(live'[g]) /\ (g # f => live'[g] = live[g]),
         \/ place \notin {"test", "guard", "guarded", "undo"}
         \/ place \in {"guard", "guarded", "undo"} /\ kind[f] # "strategy"
         \/ Untouched(f) /\ live'[f] = live[f]
  PROVE  SandboxInv'
<1>1. save' = [save EXCEPT ![f].at = place]
  BY DEF Goto
<1>2. /\ DOMAIN save' = Files /\ save'[f] = [save[f] EXCEPT !.at = place]
      /\ \A g \in Files : g # f => save'[g] = save[g]
  BY <1>1 DEF SandboxInv, SandboxShapes
<1>3. DOMAIN save[f] = SaveFields
  BY DEF SandboxInv, SandboxShapes
<1>4. /\ DOMAIN save'[f] = SaveFields /\ save'[f].at = place
      /\ save'[f].wasLive = save[f].wasLive
  BY <1>2, <1>3 DEF SaveFields
<1>5. SandboxShapes'
  BY <1>2, <1>4 DEF SandboxInv, SandboxShapes
<1>6. LiveIsLoaded'
  BY <1>2, <1>4 DEF SandboxInv, LiveIsLoaded, LoadedOnce
<1>7. SavesWait'
  BY <1>2, <1>4 DEF SandboxInv, SavesWait, Untouched
<1> QED
  BY <1>5, <1>6, <1>7 DEF SandboxInv

(* A save that ends, however it does.                                      *)
LEMMA SaveEnds ==
  ASSUME SandboxInv, NEW f \in Files, NEW what, Answer(f, what), kind' = kind,
         DOMAIN disk' = Files, DOMAIN live' = Files,
         \A g \in Files : LoadedOnce(live'[g]) /\ (g # f => live'[g] = live[g])
  PROVE  SandboxInv'
<1>1. /\ DOMAIN save' = Files /\ save'[f] = NoSave /\ DOMAIN outcome' = Files
      /\ \A g \in Files : g # f => save'[g] = save[g]
  BY DEF Answer, SandboxInv, SandboxShapes
<1> QED
  BY <1>1, NoSaveIsIdle
  DEF SandboxInv, SandboxShapes, LiveIsLoaded, LoadedOnce, SavesWait, Untouched

(* Registered classes change without a save.                               *)
LEMMA LiveChanges ==
  ASSUME SandboxInv, NEW f \in Files, save[f] = NoSave, UNCHANGED <<kind, save, outcome>>,
         DOMAIN disk' = Files, DOMAIN live' = Files,
         \A g \in Files : LoadedOnce(live'[g]) /\ (g # f => live'[g] = live[g])
  PROVE  SandboxInv'
BY NoSaveIsIdle
   DEF SandboxInv, SandboxShapes, LiveIsLoaded, LoadedOnce, SavesWait, Untouched

(* Loading a version, or none.                                             *)
LEMMA ReloadRegisters ==
  ASSUME SandboxInv, NEW f \in Files, NEW v, Reload(f, v)
  PROVE  /\ DOMAIN live' = Files
         /\ \A g \in Files : LoadedOnce(live'[g]) /\ (g # f => live'[g] = live[g])
         /\ LoadedOnce(v) => live'[f] = v
BY DEF SandboxInv, SandboxShapes, LiveIsLoaded, LoadedOnce, Reload, Unregister

LEMMA LoadersRegister ==
  ASSUME NEW loaded, LoadAll(loaded)
  PROVE  DOMAIN live' = Files /\ \A g \in Files : LoadedOnce(live'[g])
<1> DEFINE ok == {f \in {f \in Files \ loaded : disk[f] # NoVersion} : Loads(disk[f])}
<1>1. live' = [f \in Files |-> IF f \in ok THEN disk[f] ELSE NoVersion]
  BY DEF LoadAll
<1> QED
  BY <1>1 DEF LoadedOnce

LEMMA SandboxSteps == SandboxInv /\ [SandboxNext]_sandboxVars => SandboxInv'
<1> SUFFICES ASSUME SandboxInv, [SandboxNext]_sandboxVars PROVE SandboxInv'
  OBVIOUS
<1>0. /\ SandboxShapes /\ LiveIsLoaded /\ SavesWait
      /\ \A f \in Files : LoadedOnce(live[f])
  BY DEF SandboxInv, LiveIsLoaded
<1>1. ASSUME NEW f \in Files, TestPasses(f) PROVE SandboxInv'
  <2>1. AfterTest(f) \in {"guard", "load"} /\ (AfterTest(f) = "guard" => kind[f] = "strategy")
    BY DEF AfterTest
  <2>2. Untouched(f) /\ Goto(f, AfterTest(f)) /\ UNCHANGED <<kind, disk, live, outcome>>
    BY <1>1 DEF TestPasses, Untouched, Registries
  <2> QED
    BY <1>0, <2>1, <2>2, SaveGoesOn DEF SandboxShapes
<1>2. ASSUME NEW f \in Files, TestFails(f) PROVE SandboxInv'
  <2>1. CASE kind[f] = "factor"
    <3>1. /\ Reload(f, save[f].backup) /\ Answer(f, "refused") /\ kind' = kind
          /\ disk' = [disk EXCEPT ![f] = save[f].backup]
      BY <1>2, <2>1 DEF TestFails, RollBack
    <3> QED
      BY <1>0, <3>1, ReloadRegisters, SaveEnds DEF SandboxShapes
  <2>2. CASE kind[f] # "factor"
    <3>1. /\ Answer(f, "refused") /\ UNCHANGED <<kind, live>>
          /\ disk' = [disk EXCEPT ![f] = save[f].backup]
      BY <1>2, <2>2 DEF TestFails, Registries
    <3> QED
      BY <1>0, <3>1, SaveEnds DEF SandboxShapes
  <2> QED
    BY <2>1, <2>2
<1>3. ASSUME NEW f \in Files, Load(f) PROVE SandboxInv'
  <2>1. kind' = kind
    BY <1>3 DEF Load
  <2>2. CASE Loads(disk[f]) \/ kind[f] # "factor"
    <3>1. Reload(f, disk[f]) /\ disk' = disk
      BY <1>3, <2>2 DEF Load
    <3>2. \/ \E what \in {"not loaded", "saved"} : Answer(f, what)
          \/ kind[f] # "strategy" /\ Goto(f, "guard") /\ outcome' = outcome
      BY <1>3, <2>2 DEF Load
    <3>3. CASE \E what \in {"not loaded", "saved"} : Answer(f, what)
      BY <1>0, <2>1, <3>1, <3>3, ReloadRegisters, SaveEnds DEF SandboxShapes
    <3>4. CASE kind[f] # "strategy" /\ Goto(f, "guard") /\ outcome' = outcome
      BY <1>0, <2>1, <3>1, <3>4, ReloadRegisters, SaveGoesOn DEF SandboxShapes
    <3> QED
      BY <3>2, <3>3, <3>4
  <2>3. CASE ~(Loads(disk[f]) \/ kind[f] # "factor")
    <3>1. /\ Reload(f, save[f].backup) /\ Answer(f, "refused")
          /\ disk' = [disk EXCEPT ![f] = save[f].backup]
      BY <1>3, <2>3 DEF Load, RollBack
    <3> QED
      BY <1>0, <2>1, <3>1, ReloadRegisters, SaveEnds DEF SandboxShapes
  <2> QED
    BY <2>2, <2>3
<1>4. ASSUME NEW f \in Files, StartGuards(f) PROVE SandboxInv'
  <2>1. Goto(f, "guarded") /\ UNCHANGED <<kind, disk, live, outcome>> /\ save[f].at = "guard"
    BY <1>4 DEF StartGuards
  <2> QED
    BY <1>0, <2>1, SaveGoesOn DEF SandboxShapes, Untouched
<1>5. ASSUME NEW f \in Files, EndGuards(f) PROVE SandboxInv'
  <2>1. UNCHANGED <<kind, live>> /\ DOMAIN disk' = Files
    BY <1>0, <1>5 DEF EndGuards, SandboxShapes
  <2>2. \/ \E place \in {"load", "undo"} : Goto(f, place) /\ outcome' = outcome
        \/ Answer(f, "saved")
    BY <1>5 DEF EndGuards
  <2>3. CASE \E place \in {"load", "undo"} : Goto(f, place) /\ outcome' = outcome
    <3>1. kind[f] = "strategy" => Untouched(f)
      BY <1>5 DEF EndGuards, Untouched
    <3> QED
      BY <1>0, <2>1, <2>3, <3>1, SaveGoesOn DEF SandboxShapes
  <2>4. CASE Answer(f, "saved")
    BY <1>0, <2>1, <2>4, SaveEnds DEF SandboxShapes
  <2> QED
    BY <2>2, <2>3, <2>4
<1>6. ASSUME NEW f \in Files, UndoBlocked(f) PROVE SandboxInv'
  <2>1. /\ kind' = kind /\ disk' = [disk EXCEPT ![f] = save[f].backup]
        /\ \E what \in {"not loaded", "refused"} : Answer(f, what)
        /\ live' = live \/ Reload(f, save[f].backup)
    BY <1>6 DEF UndoBlocked, Registries
  <2>2. /\ DOMAIN live' = Files
        /\ \A g \in Files : LoadedOnce(live'[g]) /\ (g # f => live'[g] = live[g])
    BY <1>0, <2>1, ReloadRegisters DEF SandboxShapes
  <2> QED
    BY <1>0, <2>1, <2>2, SaveEnds DEF SandboxShapes
<1>7. ASSUME NEW f \in Files, Delete(f) PROVE SandboxInv'
  <2>1. DOMAIN live' = Files /\ \A g \in Files : LoadedOnce(live'[g]) /\ (g # f => live'[g] = live[g])
    BY <1>0, <1>7 DEF Delete, Unregister, SandboxShapes, LoadedOnce
  <2> QED
    BY <1>0, <1>7, <2>1, LiveChanges DEF Delete, SandboxShapes
<1>8. ASSUME NEW f \in Files, NEW v, Edit(f, v) PROVE SandboxInv'
  BY <1>0, <1>8, LiveChanges DEF Edit, Registries, SandboxShapes
<1>9. ASSUME NEW f \in Files, NEW v, NEW overwrite, Write(f, v, overwrite) PROVE SandboxInv'
  <2> DEFINE begun == [at |-> "test", version |-> v, backup |-> disk[f], wasLive |-> live[f]]
  <2>1. /\ save' = [save EXCEPT ![f] = begun] /\ UNCHANGED <<kind, live>>
        /\ disk' = [disk EXCEPT ![f] = v] /\ outcome' = [outcome EXCEPT ![f] = NoVersion]
    BY <1>9 DEF Write, Registries
  <2>2. begun.wasLive = live[f] /\ DOMAIN begun = SaveFields
    BY DEF SaveFields
  <2> HIDE DEF begun
  <2>3. /\ DOMAIN save' = Files /\ save'[f] = begun
        /\ \A g \in Files : g # f => save'[g] = save[g]
    BY <1>0, <2>1 DEF SandboxShapes
  <2>4. SandboxShapes'
    BY <1>0, <2>1, <2>2, <2>3 DEF SandboxShapes
  <2> QED
    BY <1>0, <2>1, <2>2, <2>3, <2>4 DEF SandboxInv, LiveIsLoaded, SavesWait, Untouched, LoadedOnce
<1>10. CASE Refresh
  <2>1. /\ \A f \in Files : save[f] = NoSave
        /\ UNCHANGED <<kind, disk, save, outcome>>
        /\ DOMAIN live' = Files /\ \A g \in Files : LoadedOnce(live'[g])
    BY <1>10, LoadersRegister DEF Refresh
  <2> QED
    BY <1>0, <2>1, NoSaveIsIdle
    DEF SandboxInv, SandboxShapes, LiveIsLoaded, LoadedOnce, SavesWait, Untouched
<1>11. CASE SandboxRestart
  <2>1. /\ save' = [f \in Files |-> NoSave] /\ outcome' = [f \in Files |-> NoVersion]
        /\ disk' = disk
        /\ DOMAIN live' = Files /\ \A g \in Files : LoadedOnce(live'[g])
    BY <1>11, LoadersRegister DEF SandboxRestart
  <2> QED
    BY <1>0, <2>1, NoSaveIsIdle
    DEF SandboxInv, SandboxShapes, LiveIsLoaded, LoadedOnce, SavesWait, Untouched
<1>12. CASE UNCHANGED sandboxVars
  BY <1>0, <1>12
  DEF sandboxVars, SandboxInv, SandboxShapes, LiveIsLoaded, LoadedOnce, SavesWait, Untouched
<1>13. ASSUME NEW f \in Files, TestRaises(f) PROVE SandboxInv'
  BY <1>0, <1>13, SaveEnds DEF TestRaises, SandboxShapes, Registries
<1>14. ASSUME NEW f \in Files, RollBackFails(f) PROVE SandboxInv'
  <2>1. /\ Answer(f, "not undone") /\ kind' = kind /\ DOMAIN disk' = Files
        /\ live' = live \/ Unregister(f)
    BY <1>0, <1>14 DEF RollBackFails, SandboxShapes, Registries
  <2>2. /\ DOMAIN live' = Files
        /\ \A g \in Files : LoadedOnce(live'[g]) /\ (g # f => live'[g] = live[g])
    BY <1>0, <2>1 DEF Unregister, SandboxShapes, LoadedOnce
  <2> QED
    BY <2>1, <2>2, SaveEnds
<1> QED
  BY <1>1, <1>2, <1>3, <1>4, <1>5, <1>6, <1>7, <1>8, <1>9, <1>10, <1>11, <1>12, <1>13, <1>14
  DEF SandboxNext

(* A save answers for its own file only.                                   *)
LEMMA OneAnswers ==
  ASSUME SandboxInv, NEW f \in Files, NEW what, Answer(f, what),
         what = "refused" => LeavesNoTrace(f)
  PROVE  \A g \in Files : LeavesNoTrace(g)
BY DEF SandboxInv, SandboxShapes, Answer, LeavesNoTrace

LEMMA NoneAnswers ==
  ASSUME SandboxInv,
         \/ outcome' = outcome
         \/ \E f \in Files : outcome' = [outcome EXCEPT ![f] = NoVersion]
         \/ outcome' = [f \in Files |-> NoVersion]
  PROVE  \A g \in Files : LeavesNoTrace(g)
BY SandboxAssumption DEF SandboxInv, SandboxShapes, LeavesNoTrace

(* The file is restored and the class is registered again.                 *)
LEMMA RollBackLeavesNoTrace ==
  ASSUME SandboxInv, NEW f \in Files, Reload(f, save[f].backup),
         disk' = [disk EXCEPT ![f] = save[f].backup]
  PROVE  LeavesNoTrace(f)
BY ReloadRegisters DEF SandboxInv, SandboxShapes, LiveIsLoaded, LeavesNoTrace

(* Or nothing but the file was touched.                                    *)
LEMMA UntouchedLeavesNoTrace ==
  ASSUME SandboxInv, NEW f \in Files, Untouched(f), live' = live,
         disk' = [disk EXCEPT ![f] = save[f].backup]
  PROVE  LeavesNoTrace(f)
BY DEF SandboxInv, SandboxShapes, SavesWait, LeavesNoTrace

LEMMA RefusalsLeaveNoTrace ==
  SandboxInv /\ [SandboxNext]_sandboxVars => \A f \in Files : LeavesNoTrace(f)
<1> SUFFICES ASSUME SandboxInv, [SandboxNext]_sandboxVars
             PROVE  \A f \in Files : LeavesNoTrace(f)
  OBVIOUS
<1> DEFINE NoTrace == \A f \in Files : LeavesNoTrace(f)
<1>1. ASSUME NEW f \in Files, TestFails(f) PROVE NoTrace
  <2>1. CASE kind[f] = "factor"
    <3>1. /\ Reload(f, save[f].backup) /\ Answer(f, "refused")
          /\ disk' = [disk EXCEPT ![f] = save[f].backup]
      BY <1>1, <2>1 DEF TestFails, RollBack
    <3> QED
      BY <3>1, RollBackLeavesNoTrace, OneAnswers
  <2>2. CASE kind[f] # "factor"
    <3>1. /\ Answer(f, "refused") /\ live' = live /\ Untouched(f)
          /\ disk' = [disk EXCEPT ![f] = save[f].backup]
      BY <1>1, <2>2 DEF TestFails, Registries, Untouched
    <3> QED
      BY <3>1, UntouchedLeavesNoTrace, OneAnswers
  <2> QED
    BY <2>1, <2>2
<1>2. ASSUME NEW f \in Files, Load(f) PROVE NoTrace
  <2>1. CASE Loads(disk[f]) \/ kind[f] # "factor"
    <3>1. \/ Answer(f, "not loaded")
          \/ Answer(f, "saved")
          \/ outcome' = outcome
      BY <1>2, <2>1 DEF Load
    <3> QED
      BY <3>1, OneAnswers, NoneAnswers
  <2>2. CASE ~(Loads(disk[f]) \/ kind[f] # "factor")
    <3>1. /\ Reload(f, save[f].backup) /\ Answer(f, "refused")
          /\ disk' = [disk EXCEPT ![f] = save[f].backup]
      BY <1>2, <2>2 DEF Load, RollBack
    <3> QED
      BY <3>1, RollBackLeavesNoTrace, OneAnswers
  <2> QED
    BY <2>1, <2>2
<1>3. ASSUME NEW f \in Files, EndGuards(f) PROVE NoTrace
  <2>1. outcome' = outcome \/ Answer(f, "saved")
    BY <1>3 DEF EndGuards
  <2> QED
    BY <2>1, OneAnswers, NoneAnswers
<1>4. ASSUME NEW f \in Files, UndoBlocked(f) PROVE NoTrace
  <2>1. /\ disk' = [disk EXCEPT ![f] = save[f].backup]
        /\ \E what \in {"not loaded", "refused"} : Answer(f, what)
        /\ Reload(f, save[f].backup) \/ (live' = live /\ Untouched(f))
    BY <1>4 DEF UndoBlocked, Registries, Untouched
  <2>2. LeavesNoTrace(f)
    BY <2>1, RollBackLeavesNoTrace, UntouchedLeavesNoTrace
  <2> QED
    BY <2>1, <2>2, OneAnswers
<1>5. ASSUME NEW f \in Files, TestPasses(f) \/ StartGuards(f) \/ Delete(f) PROVE NoTrace
  BY <1>5, NoneAnswers DEF TestPasses, StartGuards, Delete
<1>6. ASSUME NEW f \in Files, NEW v,
             Edit(f, v) \/ \E overwrite \in BOOLEAN : Write(f, v, overwrite)
      PROVE  NoTrace
  BY <1>6, NoneAnswers DEF Edit, Write
<1>7. CASE Refresh \/ SandboxRestart \/ UNCHANGED sandboxVars
  BY <1>7, NoneAnswers DEF Refresh, SandboxRestart, sandboxVars
<1>8. ASSUME NEW f \in Files, TestRaises(f) \/ RollBackFails(f) PROVE NoTrace
  BY <1>8, OneAnswers DEF TestRaises, RollBackFails
<1> QED
  BY <1>1, <1>2, <1>3, <1>4, <1>5, <1>6, <1>7, <1>8 DEF SandboxNext

(* A save that ends as refused, by the verdict of its test or its guards   *)
(* or, for a factor, by its load, leaves the file and the class that were  *)
(* there, whatever is saved, deleted, loaded or restarted beside it.  The  *)
(* saves that the code does not undo end with another answer.              *)
THEOREM RefusalsAreUndone == SandboxSpec => RefusedSavesLeaveNoTrace
<1> DEFINE Undone == \A f \in Files : LeavesNoTrace(f)
<1>1. SandboxInv /\ [SandboxNext]_sandboxVars => [Undone]_sandboxVars
  BY RefusalsLeaveNoTrace
<1> QED
  BY <1>1, SandboxStarts, SandboxSteps, PTL DEF SandboxSpec, RefusedSavesLeaveNoTrace

-----------------------------------------------------------------------------
(* The names of user code                                                  *)

(* Taking an entry out of a registry leaves its last one there, unless it  *)
(* is that one.                                                            *)
LEMMA LastStays ==
  ASSUME NEW S, NEW list \in Seq(S), NEW e
  PROVE  /\ RemoveFirst(list, e) \in Seq(S)
         /\ list # <<>> /\ Last(list) # e =>
              RemoveFirst(list, e) # <<>> /\ Last(RemoveFirst(list, e)) = Last(list)
<1> DEFINE n == Len(list)
           I == {i \in 1..n : list[i] = e}
<1>1. n \in Nat /\ (list # <<>> => n > 0)
  OBVIOUS
<1>2. CASE I = {}
  <2>1. RemoveFirst(list, e) = list
    BY <1>2 DEF RemoveFirst
  <2> QED
    BY <2>1
<1>3. CASE I # {}
  <2>1. PICK m \in I : \A k \in I : m <= k
    <3>1. I \in SUBSET Nat
      OBVIOUS
    <3> HIDE DEF I
    <3> QED
      BY <1>3, <3>1, LeastExists
  <2>2. Min(I) \in I
    <3> HIDE DEF I
    <3> QED
      BY <2>1, Zenon DEF Min
  <2>3. PICK i \in 1..n : i = Min(I) /\ list[i] = e
    BY <2>2
  <2>4. SelectInSeq(list, LAMBDA v : v = e) = Min(I)
    BY <1>3 DEF SelectInSeq
  <2>5. RemoveFirst(list, e) = SubSeq(list, 1, i - 1) \o SubSeq(list, i + 1, n)
    BY <1>3, <2>3, <2>4 DEF RemoveFirst, RemoveAt
  <2> DEFINE a == SubSeq(list, 1, i - 1)
             b == SubSeq(list, i + 1, n)
  <2>6. a \in Seq(S) /\ b \in Seq(S) /\ Len(b) = n - i
    BY <1>1
  <2>7. i # n => b[n - i] = list[n]
    BY <1>1
  <2> HIDE DEF a, b
  <2>8. a \o b \in Seq(S)
    BY <2>6
  <2>9. ASSUME i # n PROVE a \o b # <<>> /\ (a \o b)[Len(a \o b)] = list[n]
    <3>1. Len(a) \in Nat /\ Len(b) \in Nat \ {0} /\ Len(a \o b) = Len(a) + Len(b)
      BY <1>1, <2>6, <2>9
    <3>2. (a \o b)[Len(a) + Len(b)] = b[Len(b)]
      BY <2>6, <3>1
    <3>3. a \o b # <<>>
      BY <2>6, <2>8, <3>1
    <3> QED
      BY <2>6, <2>7, <2>9, <3>1, <3>2, <3>3
  <2>10. Last(list) # e => i # n
    BY <2>3 DEF Last
  <2> QED
    BY <2>5, <2>8, <2>9, <2>10 DEF a, b, Last
<1> QED
  BY <1>2, <1>3

RegistryTypes ==
  /\ kind \in [Files -> Kinds]
  /\ registered \in [Kinds -> Seq(Files)]
  /\ byName \in [Kinds -> Files \cup {NoVersion, Probe}]
  /\ probing \in Files \cup {NoVersion}

(* Even while a probe has the name of another kind, or after the class     *)
(* before the probe was deleted: a name that stands for a file stands for  *)
(* the last one registered.                                                *)
NamesAreLast ==
  \A k \in Kinds : byName[k] \in Files => registered[k] # <<>> /\ byName[k] = Last(registered[k])

(* Guards run for one file at a time, and only they register probes.       *)
ProbesAreGuarded ==
  /\ \A f \in Files : save[f].at = "guarded" => probing = f
  /\ \A k \in Kinds : byName[k] = Probe => probing \in Files /\ kind[probing] = k

NamesInv == RegistryTypes /\ NamesAreLast /\ ProbesAreGuarded

LEMMA NoFileIsNothing == NoVersion \notin Files /\ Probe \notin Files /\ NoVersion # Probe
  BY SandboxAssumption DEF Probe

(* What the registries may do in a step: names that are given are those of *)
(* the last class, and no probe comes.                                     *)
RegistriesKeep ==
  /\ registered' \in [Kinds -> Seq(Files)]
  /\ byName' \in [Kinds -> Files \cup {NoVersion, Probe}]
  /\ NamesAreLast'
  /\ \A k \in Kinds : byName'[k] = Probe => byName[k] = Probe

LEMMA WithoutKeeps ==
  ASSUME NamesInv, NEW f \in Files, registered' = Without(f), byName' = NamesWithout(f)
  PROVE  RegistriesKeep
<1> DEFINE c == kind[f]
<1>1. c \in Kinds /\ registered \in [Kinds -> Seq(Files)]
      /\ byName \in [Kinds -> Files \cup {NoVersion, Probe}]
  BY DEF NamesInv, RegistryTypes
<1>2. /\ registered' = [registered EXCEPT ![c] = RemoveFirst(registered[c], f)]
      /\ byName' = [byName EXCEPT ![c] = IF byName[c] = f THEN NoVersion ELSE byName[c]]
  BY <1>1 DEF Without, NamesWithout
<1> HIDE DEF c
<1>3. registered[c] \in Seq(Files)
  BY <1>1
<1>4. /\ RemoveFirst(registered[c], f) \in Seq(Files)
      /\ registered[c] # <<>> /\ Last(registered[c]) # f =>
           /\ RemoveFirst(registered[c], f) # <<>>
           /\ Last(RemoveFirst(registered[c], f)) = Last(registered[c])
  BY <1>3, LastStays
<1>5. /\ registered' \in [Kinds -> Seq(Files)]
      /\ byName' \in [Kinds -> Files \cup {NoVersion, Probe}]
  BY <1>1, <1>2, <1>4
<1>6. ASSUME NEW k \in Kinds
      PROVE  /\ byName'[k] \in Files =>
                  registered'[k] # <<>> /\ byName'[k] = Last(registered'[k])
             /\ byName'[k] = Probe => byName[k] = Probe
  <2>1. byName[k] \in Files => registered[k] # <<>> /\ byName[k] = Last(registered[k])
    BY DEF NamesInv, NamesAreLast
  <2>2. CASE k # c
    <3>1. byName'[k] = byName[k] /\ registered'[k] = registered[k]
      BY <1>1, <1>2, <2>2
    <3> QED
      BY <2>1, <3>1
  <2>3. CASE k = c
    <3>1. /\ registered'[k] = RemoveFirst(registered[c], f)
          /\ byName'[k] = IF byName[c] = f THEN NoVersion ELSE byName[c]
      BY <1>1, <1>2, <2>3
    <3> QED
      BY <1>4, <2>1, <2>3, <3>1, NoFileIsNothing
  <2> QED
    BY <2>2, <2>3
<1> QED
  BY <1>5, <1>6 DEF RegistriesKeep, NamesAreLast

LEMMA ReloadKeeps ==
  ASSUME NamesInv, NEW f \in Files, NEW v, Reload(f, v)
  PROVE  RegistriesKeep
<1>1. CASE v = NoVersion \/ ~Loads(v)
  <2>1. registered' = Without(f) /\ byName' = NamesWithout(f)
    BY <1>1 DEF Reload, Unregister
  <2> QED
    BY <2>1, WithoutKeeps
<1>2. CASE v # NoVersion /\ Loads(v)
  <2> DEFINE c == kind[f]
             rest == RemoveFirst(registered[c], f)
  <2>1. /\ c \in Kinds /\ registered \in [Kinds -> Seq(Files)]
        /\ byName \in [Kinds -> Files \cup {NoVersion, Probe}]
    BY DEF NamesInv, RegistryTypes
  <2>2. rest \in Seq(Files)
    <3>1. registered[c] \in Seq(Files)
      BY <2>1
    <3> QED
      BY <3>1, LastStays
  <2>3. byName' = [byName EXCEPT ![c] = f]
    BY <1>2 DEF Reload
  <2>4. Without(f) = [registered EXCEPT ![c] = rest]
    BY <2>1 DEF Without
  <2>5. registered' = [Without(f) EXCEPT ![c] = Append(Without(f)[c], f)]
    BY <1>2 DEF Reload
  <2> HIDE DEF c, rest
  <2>6. registered' = [registered EXCEPT ![c] = Append(rest, f)]
    BY <2>1, <2>4, <2>5
  <2>7. /\ Append(rest, f) \in Seq(Files) /\ Append(rest, f) # <<>>
        /\ Last(Append(rest, f)) = f
    BY <2>2 DEF Last
  <2>8. /\ registered' \in [Kinds -> Seq(Files)]
        /\ byName' \in [Kinds -> Files \cup {NoVersion, Probe}]
    BY <2>1, <2>3, <2>6, <2>7
  <2>9. ASSUME NEW k \in Kinds
        PROVE  /\ byName'[k] \in Files =>
                    registered'[k] # <<>> /\ byName'[k] = Last(registered'[k])
               /\ byName'[k] = Probe => byName[k] = Probe
    <3>1. byName[k] \in Files => registered[k] # <<>> /\ byName[k] = Last(registered[k])
      BY DEF NamesInv, NamesAreLast
    <3>2. CASE k # c
      <4>1. byName'[k] = byName[k] /\ registered'[k] = registered[k]
        BY <2>1, <2>3, <2>6, <3>2
      <4> QED
        BY <3>1, <4>1
    <3>3. CASE k = c
      <4>1. byName'[k] = f /\ registered'[k] = Append(rest, f)
        BY <2>1, <2>3, <2>6, <3>3
      <4> QED
        BY <2>7, <4>1, NoFileIsNothing
    <3> QED
      BY <3>2, <3>3
  <2> QED
    BY <2>8, <2>9 DEF RegistriesKeep, NamesAreLast
<1> QED
  BY <1>1, <1>2

(* The loaders register files in some order, and no probe.                 *)
LEMMA LoadAllNames ==
  ASSUME NEW loaded, LoadAll(loaded)
  PROVE  RegistriesKeep /\ \A k \in Kinds : byName'[k] # Probe
<1> DEFINE ok == {f \in {f \in Files \ loaded : disk[f] # NoVersion} : Loads(disk[f])}
           Orders(k) == SetToSeqs({f \in ok : kind[f] = k})
<1>1. /\ registered' \in [Kinds -> UNION {Orders(k) : k \in Kinds}]
      /\ byName' = [k \in Kinds |-> IF registered'[k] = <<>> THEN NoVersion
                                    ELSE Last(registered'[k])]
  BY DEF LoadAll
<1>2. ASSUME NEW k \in Kinds, NEW list \in Orders(k) PROVE list \in Seq(Files)
  <2> DEFINE S == {f \in ok : kind[f] = k}
  <2>1. S \in SUBSET Files
    OBVIOUS
  <2>2. IsFiniteSet(S)
    BY <2>1, SandboxAssumption, FS_Subset
  <2>3. Cardinality(S) \in Nat
    BY <2>2, FS_CardinalityType
  <2>4. list \in [1..Cardinality(S) -> S]
    BY DEF SetToSeqs
  <2> HIDE DEF S
  <2>5. PICK n \in Nat : list \in [1..n -> S]
    BY <2>3, <2>4
  <2>6. list \in [1..n -> Files]
    BY <2>1, <2>5
  <2> QED
    BY <2>6
<1> HIDE DEF Orders
<1> HIDE DEF ok
<1>3. registered' \in [Kinds -> Seq(Files)]
  BY <1>1, <1>2
<1>4. \A k \in Kinds : registered'[k] # <<>> => Last(registered'[k]) \in Files
  BY <1>3 DEF Last
<1>5. /\ byName' \in [Kinds -> Files \cup {NoVersion, Probe}]
      /\ \A k \in Kinds : byName'[k] # Probe
  BY <1>1, <1>4, NoFileIsNothing
<1>6. NamesAreLast'
  BY <1>1, NoFileIsNothing DEF NamesAreLast
<1> QED
  BY <1>3, <1>5, <1>6 DEF RegistriesKeep

(* A save goes on or ends without guards, its own or those of another.     *)
LEMMA NamesKept ==
  ASSUME SandboxShapes, NamesInv, NEW f \in Files, NEW s, save' = [save EXCEPT ![f] = s],
         s.at # "guarded", kind' = kind, probing' = probing,
         RegistriesKeep
  PROVE  NamesInv'
<1>1. \A g \in Files : save'[g].at = "guarded" => save[g].at = "guarded"
  BY DEF SandboxShapes
<1> QED
  BY <1>1 DEF NamesInv, RegistryTypes, ProbesAreGuarded, RegistriesKeep

LEMMA UnchangedKeep ==
  ASSUME NamesInv, registered' = registered, byName' = byName
  PROVE  RegistriesKeep
BY DEF NamesInv, RegistryTypes, NamesAreLast, RegistriesKeep

LEMMA GotoIsSave ==
  ASSUME SandboxShapes, NEW f \in Files, NEW place, Goto(f, place)
  PROVE  \E s : save' = [save EXCEPT ![f] = s] /\ s.at = place
<1> DEFINE s == [save[f] EXCEPT !.at = place]
<1>1. save' = [save EXCEPT ![f] = s] /\ s.at = place
  BY DEF Goto, SandboxShapes, SaveFields
<1> QED
  BY <1>1

LEMMA NamesSteps == SandboxInv /\ NamesInv /\ [SandboxNext]_sandboxVars => NamesInv'
<1> SUFFICES ASSUME SandboxInv, NamesInv, [SandboxNext]_sandboxVars PROVE NamesInv'
  OBVIOUS
<1>0. SandboxShapes /\ NoSave.at # "guarded"
  BY NoSaveIsIdle DEF SandboxInv
<1>1. ASSUME NEW f \in Files, TestPasses(f) PROVE NamesInv'
  <2>1. RegistriesKeep /\ kind' = kind /\ probing' = probing
    BY <1>1, UnchangedKeep DEF TestPasses, Registries
  <2>2. PICK s : save' = [save EXCEPT ![f] = s] /\ s.at = AfterTest(f)
    BY <1>0, <1>1, GotoIsSave DEF TestPasses
  <2>3. s.at # "guarded"
    BY <2>2 DEF AfterTest
  <2> QED
    BY <1>0, <2>1, <2>2, <2>3, NamesKept
<1>2. ASSUME NEW f \in Files, NEW what, Answer(f, what), RegistriesKeep, kind' = kind,
             probing' = probing
      PROVE  NamesInv'
  BY <1>0, <1>2, NamesKept DEF Answer
<1>3. ASSUME NEW f \in Files, TestFails(f) PROVE NamesInv'
  <2>1. RegistriesKeep
    BY <1>3, UnchangedKeep, ReloadKeeps DEF TestFails, RollBack, Registries
  <2> QED
    BY <1>2, <1>3, <2>1 DEF TestFails, RollBack
<1>4. ASSUME NEW f \in Files, Load(f) PROVE NamesInv'
  <2>1. RegistriesKeep /\ kind' = kind /\ probing' = probing
    BY <1>4, ReloadKeeps DEF Load, RollBack
  <2>2. (\E what : Answer(f, what)) \/ Goto(f, "guard")
    BY <1>4 DEF Load, RollBack
  <2>3. CASE Goto(f, "guard")
    <3>1. PICK s : save' = [save EXCEPT ![f] = s] /\ s.at = "guard"
      BY <1>0, <2>3, GotoIsSave
    <3>2. s.at # "guarded"
      BY <3>1
    <3> QED
      BY <1>0, <2>1, <3>1, <3>2, NamesKept
  <2> QED
    BY <1>2, <2>1, <2>2, <2>3
<1>5. ASSUME NEW f \in Files, UndoBlocked(f) PROVE NamesInv'
  <2>1. RegistriesKeep
    BY <1>5, ReloadKeeps, UnchangedKeep DEF UndoBlocked, Registries
  <2> QED
    BY <1>2, <1>5, <2>1 DEF UndoBlocked
<1>6. ASSUME NEW f \in Files, NEW v, NEW overwrite, Write(f, v, overwrite) PROVE NamesInv'
  <2> DEFINE s == [at |-> "test", version |-> v, backup |-> disk[f], wasLive |-> live[f]]
  <2>1. RegistriesKeep /\ kind' = kind /\ probing' = probing
    BY <1>6, UnchangedKeep DEF Write, Registries
  <2>2. save' = [save EXCEPT ![f] = s] /\ s.at # "guarded"
    BY <1>6 DEF Write
  <2> QED
    BY <1>0, <2>1, <2>2, NamesKept
<1>7. ASSUME NEW f \in Files, Delete(f) PROVE NamesInv'
  <2>1. RegistriesKeep
    BY <1>7, WithoutKeeps DEF Delete, Unregister
  <2> QED
    BY <1>7, <2>1 DEF Delete, NamesInv, RegistryTypes, ProbesAreGuarded, RegistriesKeep
<1>8. ASSUME NEW f \in Files, StartGuards(f) PROVE NamesInv'
  <2>1. /\ probing = NoVersion /\ probing' = f /\ kind' = kind /\ registered' = registered
        /\ kind[f] \in Kinds /\ byName \in [Kinds -> Files \cup {NoVersion, Probe}]
        /\ \/ byName' = byName
           \/ byName' = [byName EXCEPT ![kind[f]] = Probe]
    BY <1>8 DEF StartGuards, NamesInv, RegistryTypes
  <2>2. /\ \A g \in Files : save[g].at # "guarded"
        /\ \A k \in Kinds : byName[k] # Probe
    BY <2>1, NoFileIsNothing DEF NamesInv, ProbesAreGuarded
  <2>3. \A g \in Files : g # f => save'[g] = save[g]
    BY <1>0, <1>8 DEF StartGuards, Goto, SandboxShapes
  <2>4. RegistryTypes'
    BY <2>1 DEF NamesInv, RegistryTypes
  <2>5. \A k \in Kinds : \/ byName'[k] = byName[k]
                         \/ byName'[k] = Probe /\ k = kind[f]
    BY <2>1
  <2>6. NamesAreLast'
    BY <2>1, <2>5, NoFileIsNothing DEF NamesInv, NamesAreLast
  <2>7. ProbesAreGuarded'
    BY <2>1, <2>2, <2>3, <2>5 DEF ProbesAreGuarded
  <2> QED
    BY <2>4, <2>6, <2>7 DEF NamesInv
<1>9. ASSUME NEW f \in Files, EndGuards(f) PROVE NamesInv'
  <2> DEFINE c == kind[f]
  <2>1. /\ save[f].at = "guarded" /\ probing' = NoVersion /\ kind' = kind
        /\ registered' = registered
        /\ byName' = [byName EXCEPT ![c] = RestoredName(c)]
    BY <1>9 DEF EndGuards
  <2>2. /\ c \in Kinds /\ byName \in [Kinds -> Files \cup {NoVersion, Probe}]
        /\ registered \in [Kinds -> Seq(Files)] /\ kind \in [Files -> Kinds]
    BY DEF NamesInv, RegistryTypes
  <2>3. probing = f
    BY <2>1 DEF NamesInv, ProbesAreGuarded
  <2> HIDE DEF c
  <2>4. /\ RestoredName(c) \in Files \cup {NoVersion}
        /\ RestoredName(c) \in Files =>
             registered[c] # <<>> /\ RestoredName(c) = Last(registered[c])
    <3>1. registered[c] # <<>> => Last(registered[c]) \in Files
      BY <2>2 DEF Last
    <3>2. byName[c] \in Files => registered[c] # <<>> /\ byName[c] = Last(registered[c])
      BY <2>2 DEF NamesInv, NamesAreLast
    <3> QED
      BY <3>1, <3>2, NoFileIsNothing DEF RestoredName
  <2>5. /\ byName'[c] = RestoredName(c)
        /\ \A k \in Kinds : k # c => byName'[k] = byName[k]
    BY <2>1, <2>2
  <2>6. RegistryTypes'
    BY <2>1, <2>2, <2>4 DEF RegistryTypes
  <2>7. NamesAreLast'
    BY <2>1, <2>2, <2>4, <2>5 DEF NamesInv, NamesAreLast
  <2>8. \A k \in Kinds : byName'[k] # Probe
    <3>1. \A k \in Kinds : byName[k] = Probe => k = c
      BY <2>3 DEF NamesInv, ProbesAreGuarded, c
    <3> QED
      BY <2>2, <2>4, <2>5, <3>1, NoFileIsNothing
  <2>9. \A g \in Files : save'[g].at # "guarded"
    <3>1. \A g \in Files : g # f => save[g].at # "guarded"
      BY <2>3 DEF NamesInv, ProbesAreGuarded
    <3>2. (\E what : Answer(f, what)) \/ Goto(f, "load") \/ Goto(f, "undo")
      BY <1>9 DEF EndGuards
    <3>3. \A g \in Files : g # f => save'[g] = save[g]
      BY <1>0, <3>2 DEF Answer, Goto, SandboxShapes
    <3>4. save'[f].at # "guarded"
      BY <1>0, <3>2 DEF Answer, Goto, SandboxShapes, SaveFields
    <3> QED
      BY <3>1, <3>3, <3>4
  <2>10. ProbesAreGuarded'
    BY <2>8, <2>9 DEF ProbesAreGuarded
  <2> QED
    BY <2>6, <2>7, <2>10 DEF NamesInv
<1>10. ASSUME NEW f \in Files, NEW v, Edit(f, v) PROVE NamesInv'
  BY <1>10 DEF Edit, Registries, NamesInv, RegistryTypes, NamesAreLast, ProbesAreGuarded
<1>11. CASE Refresh
  <2>1. RegistriesKeep /\ \A k \in Kinds : byName'[k] # Probe
    BY <1>11, LoadAllNames DEF Refresh
  <2>2. \A f \in Files : save'[f].at # "guarded"
    BY <1>0, <1>11 DEF Refresh
  <2>3. kind' = kind /\ probing' = probing
    BY <1>11 DEF Refresh
  <2> QED
    BY <2>1, <2>2, <2>3 DEF NamesInv, RegistryTypes, ProbesAreGuarded, RegistriesKeep
<1>12. CASE SandboxRestart
  <2>1. RegistriesKeep /\ \A k \in Kinds : byName'[k] # Probe
    BY <1>12, LoadAllNames DEF SandboxRestart
  <2>2. \A f \in Files : save'[f].at # "guarded"
    BY <1>0, <1>12 DEF SandboxRestart
  <2>3. kind' = kind /\ probing' \in Files \cup {NoVersion}
    BY <1>12 DEF SandboxRestart
  <2> QED
    BY <2>1, <2>2, <2>3 DEF NamesInv, RegistryTypes, ProbesAreGuarded, RegistriesKeep
<1>13. CASE UNCHANGED sandboxVars
  BY <1>13 DEF sandboxVars, NamesInv, RegistryTypes, NamesAreLast, ProbesAreGuarded
<1>14. ASSUME NEW f \in Files, TestRaises(f) PROVE NamesInv'
  <2>1. RegistriesKeep
    BY <1>14, UnchangedKeep DEF TestRaises, Registries
  <2> QED
    BY <1>2, <1>14, <2>1 DEF TestRaises
<1>15. ASSUME NEW f \in Files, RollBackFails(f) PROVE NamesInv'
  <2>1. RegistriesKeep
    BY <1>15, UnchangedKeep, WithoutKeeps DEF RollBackFails, Registries, Unregister
  <2> QED
    BY <1>2, <1>15, <2>1 DEF RollBackFails
<1> QED
  BY <1>1, <1>3, <1>4, <1>5, <1>6, <1>7, <1>8, <1>9, <1>10, <1>11, <1>12, <1>13, <1>14, <1>15
  DEF SandboxNext

LEMMA NamesStart == SandboxInit => NamesInv
BY NoSaveIsIdle, NoFileIsNothing
   DEF SandboxInit, NamesInv, RegistryTypes, NamesAreLast, ProbesAreGuarded

(* A name stands for the class that was loaded last, for any number of     *)
(* files of a kind, whatever is saved, refused, deleted, edited and        *)
(* refreshed while the guards of another file run.                         *)
THEOREM NamesAlwaysResolve == SandboxSpec => []NamesResolveToLatest
<1>1. NamesInv => NamesResolveToLatest
  <2> SUFFICES ASSUME NamesInv, probing = NoVersion, NEW k \in Kinds, byName[k] # NoVersion
               PROVE  registered[k] # <<>> /\ byName[k] = Last(registered[k])
    BY DEF NamesResolveToLatest
  <2>1. byName[k] \in Files \cup {NoVersion, Probe} /\ byName[k] # Probe
    BY NoFileIsNothing DEF NamesInv, RegistryTypes, ProbesAreGuarded
  <2> QED
    BY <2>1 DEF NamesInv, NamesAreLast
<1> QED
  BY <1>1, SandboxStarts, NamesStart, SandboxSteps, NamesSteps, PTL DEF SandboxSpec

-----------------------------------------------------------------------------
(* Days in order                                                           *)

(* Of any n days, or more, there is one that is the n-th.                  *)
LEMMA NthExists ==
  ASSUME NEW D \in SUBSET Nat, IsFiniteSet(D),
         NEW n \in Nat \ {0}, n <= Cardinality(D)
  PROVE  \E b \in D : Cardinality({x \in D : x <= b}) = n
<1> DEFINE Nth(k) == \E b \in D : Cardinality({x \in D : x <= b}) = k
           Lacking == {k \in Nat \ {0} : k <= Cardinality(D) /\ ~Nth(k)}
<1>1. Cardinality(D) \in Nat
  BY FS_CardinalityType
<1>2. ASSUME Lacking # {} PROVE FALSE
  <2>1. PICK k \in Lacking : \A m \in Lacking : k <= m
    <3>1. Lacking \in SUBSET Nat
      OBVIOUS
    <3> HIDE DEF Lacking
    <3> QED
      BY <1>2, <3>1, LeastExists
  <2>2. \E Low \in SUBSET D :
          /\ Cardinality(Low) = k - 1
          /\ \A x \in Low, y \in D \ Low : x < y
    <3>1. CASE k = 1
      <4>1. Cardinality({}) = k - 1
        BY <3>1, FS_EmptySet
      <4> QED
        BY <4>1
    <3>2. CASE k # 1
      <4>1. k - 1 \in Nat \ {0} /\ k - 1 <= Cardinality(D) /\ ~(k <= k - 1)
        BY <1>1, <3>2
      <4>2. Nth(k - 1)
        BY <2>1, <4>1
      <4>3. PICK b \in D : Cardinality({x \in D : x <= b}) = k - 1
        BY <4>2
      <4>4. \A x \in {z \in D : z <= b}, y \in D \ {z \in D : z <= b} : x < y
        OBVIOUS
      <4>5. {x \in D : x <= b} \in SUBSET D
        OBVIOUS
      <4> QED
        BY <4>3, <4>4, <4>5
    <3> QED
      BY <3>1, <3>2
  <2>3. PICK Low \in SUBSET D :
          /\ Cardinality(Low) = k - 1
          /\ \A x \in Low, y \in D \ Low : x < y
    BY <2>2
  <2>4. IsFiniteSet(Low)
    BY FS_Subset
  <2>5. D \ Low # {} /\ D \ Low \in SUBSET Nat
    <3>1. Low # D
      BY <1>1, <2>1, <2>3
    <3> QED
      BY <3>1
  <2>6. PICK b \in D \ Low : \A y \in D \ Low : b <= y
    BY <2>5, LeastExists
  <2>7. {x \in D : x <= b} = Low \cup {b}
    <3>1. \A x \in Low : x \in D /\ x <= b
      BY <2>3, <2>6
    <3>2. \A x \in D : x <= b => x \in Low \/ x = b
      BY <2>6
    <3>3. b \in D /\ b <= b
      BY <2>6
    <3> QED
      BY <3>1, <3>2, <3>3
  <2>8. Cardinality(Low \cup {b}) = k
    <3>1. Cardinality(Low \cup {b}) = Cardinality(Low) + 1
      BY <2>4, <2>6, FS_AddElement
    <3> QED
      BY <2>1, <2>3, <3>1
  <2>9. Cardinality({x \in D : x <= b}) = k
    BY <2>7, <2>8
  <2> QED
    BY <2>1, <2>6, <2>9
<1>3. n \notin Lacking
  BY <1>2
<1> QED
  BY <1>3

-----------------------------------------------------------------------------
(* Scores out of sample                                                    *)

ModelRecords == [at : Nat, reach : [Symbols -> Nat]]
ScoreRecords == [date : Nat, tag : Nat, by : Nat, of : SUBSET Symbols]

AlphaTypes ==
  /\ history \in [Symbols -> Histories]
  /\ date \in Nat
  /\ alpha \in [model : Nat, last : Nat, count : Nat]
  /\ models \in Seq(ModelRecords)
  /\ scores \in Seq(ScoreRecords)
  /\ trainings \in Seq(Nat)

LEMMA ElementTypes ==
  ASSUME AlphaTypes
  PROVE  /\ DOMAIN models = 1..Len(models) /\ Len(models) \in Nat
         /\ DOMAIN scores = 1..Len(scores) /\ Len(scores) \in Nat
         /\ DOMAIN trainings = 1..Len(trainings)
         /\ \A k \in 1..Len(models) :
              models[k].at \in Nat /\ \A s \in Symbols : models[k].reach[s] \in Nat
         /\ \A i \in 1..Len(scores) :
              scores[i].date \in Nat /\ scores[i].by \in Nat /\ scores[i].of \in SUBSET Symbols
<1>1. \A k \in 1..Len(models) : models[k] \in ModelRecords
  BY DEF AlphaTypes
<1>2. \A i \in 1..Len(scores) : scores[i] \in ScoreRecords
  BY DEF AlphaTypes
<1>3. /\ DOMAIN models = 1..Len(models) /\ Len(models) \in Nat
      /\ DOMAIN scores = 1..Len(scores) /\ Len(scores) \in Nat
      /\ DOMAIN trainings = 1..Len(trainings)
  BY DEF AlphaTypes
<1>4. \A m \in ModelRecords : m.at \in Nat /\ \A s \in Symbols : m.reach[s] \in Nat
  BY DEF ModelRecords
<1>5. \A c \in ScoreRecords : c.date \in Nat /\ c.by \in Nat /\ c.of \in SUBSET Symbols
  BY DEF ScoreRecords
<1> QED
  BY <1>1, <1>2, <1>3, <1>4, <1>5

(* The label of a row that is trained on lies on a bar before the date: as *)
(* many bars as are purged lie between the two.                            *)
LEMMA LabelsEnd ==
  ASSUME AlphaAssumption, history \in [Symbols -> Histories],
         NEW s \in Symbols, NEW d \in Nat, NEW r \in PanelRows(s, d)
  PROVE  /\ LabelDay(s, r, d) \in history[s].bars
         /\ LabelDay(s, r, d) < d
<1> DEFINE Later == LaterBars(s, r, d)
           Earlier == {b \in Data(s, d) : b < d}
           Kept == RowsAfter(r, Earlier)
<1>1. /\ history[s].bars \in SUBSET (1..HistoryEnd)
      /\ HistoryEnd \in Nat
      /\ Horizon \in Nat \ {0} /\ PurgeBars \in Nat /\ Horizon <= PurgeBars
  BY DEF AlphaAssumption
<1>2. Data(s, d) \in SUBSET history[s].bars
  BY DEF Data
<1>3. r \in Purged(Earlier, d) /\ HasLabel(s, r, d)
  BY DEF PanelRows
<1>4. r \in Earlier /\ Cardinality(Kept) >= PurgeBars
  BY <1>3 DEF Purged
<1>5. /\ Later \in SUBSET history[s].bars /\ Later \in SUBSET Nat /\ IsFiniteSet(Later)
      /\ Cardinality(Later) \in Nat
  <2>1. Later \in SUBSET history[s].bars /\ Later \in SUBSET (1..HistoryEnd)
    BY <1>1, <1>2 DEF LaterBars
  <2>2. IsFiniteSet(1..HistoryEnd)
    BY <1>1, FS_Interval
  <2>3. IsFiniteSet(Later)
    BY <2>1, <2>2, FS_Subset
  <2> QED
    BY <2>1, <2>3, FS_CardinalityType
<1>6. Horizon <= Cardinality(Later)
  BY <1>1, <1>3, <1>5 DEF HasLabel
<1>7. \E b \in Later : Cardinality({x \in Later : x <= b}) = Horizon
  <2> HIDE DEF Later
  <2> QED
    BY <1>1, <1>5, <1>6, NthExists
<1> DEFINE l == LabelDay(s, r, d)
<1>8. l \in Later /\ Cardinality({x \in Later : x <= l}) = Horizon
  BY <1>7, Zenon DEF LabelDay
<1>9. ASSUME l >= d PROVE FALSE
  <2> DEFINE Upto == {x \in Later : x <= l}
  <2>1. l \in Nat /\ l \notin Kept /\ Kept \in SUBSET Upto /\ l \in Upto /\ Upto \in SUBSET Later
    <3>1. l \in Nat
      BY <1>5, <1>8
    <3>2. Kept \in SUBSET Later
      BY DEF RowsAfter, LaterBars
    <3>3. \A x \in Kept : x < d
      BY DEF RowsAfter
    <3>4. \A x \in Kept : x < l
      BY <1>5, <1>9, <3>1, <3>2, <3>3
    <3>5. l \notin Kept
      BY <3>1, <3>4
    <3>6. Kept \in SUBSET Upto
      <4>1. \A x \in Kept : x \in Later /\ x <= l
        BY <1>5, <3>1, <3>2, <3>4
      <4> HIDE DEF Kept, Later, l
      <4> QED
        BY <4>1
    <3>7. l \in Upto /\ Upto \in SUBSET Later
      <4> HIDE DEF Later, l
      <4> QED
        BY <1>8, <3>1
    <3> QED
      BY <3>1, <3>5, <3>6, <3>7
  <2>2. IsFiniteSet(Upto) /\ IsFiniteSet(Kept) /\ Kept \cup {l} \in SUBSET Upto
    <3>1. Kept \in SUBSET Later
      BY <2>1
    <3> QED
      BY <1>5, <2>1, <3>1, FS_Subset
  <2> HIDE DEF Upto, Kept, l
  <2>3. Cardinality(Kept \cup {l}) = Cardinality(Kept) + 1
    BY <2>1, <2>2, FS_AddElement
  <2>4. Cardinality(Kept \cup {l}) <= Cardinality(Upto)
    BY <2>2, FS_Subset
  <2>5. Cardinality(Upto) = Horizon
    BY <1>8 DEF Upto
  <2>6. Cardinality(Kept) \in Nat
    BY <2>2, FS_CardinalityType
  <2> QED
    BY <1>1, <1>4, <2>3, <2>4, <2>5, <2>6
<1>10. l \in history[s].bars /\ l < d
  BY <1>1, <1>5, <1>8, <1>9
<1> QED
  BY <1>10

(* So do all that a model learns from.                                     *)
LEMMA ReachEnds ==
  ASSUME AlphaAssumption, history \in [Symbols -> Histories],
         NEW s \in Symbols, NEW d \in Nat \ {0}
  PROVE  /\ Reach(s, d) \in Nat /\ Reach(s, d) < d
         /\ Reach(s, d) = 0 \/ Reach(s, d) \in history[s].bars
<1> DEFINE Labels == {LabelDay(s, r, d) : r \in PanelRows(s, d)}
<1>1. \A l \in Labels : l \in history[s].bars /\ l < d
  BY LabelsEnd
<1>2. history[s].bars \in SUBSET Nat
  BY DEF AlphaAssumption
<1>3. Reach(s, d) = Max({0} \cup Labels)
  BY DEF Reach
<1> HIDE DEF Labels
<1>4. {0} \cup Labels \in SUBSET (0..d) /\ {0} \cup Labels # {}
  BY <1>1, <1>2
<1>5. Max({0} \cup Labels) \in {0} \cup Labels
  BY <1>4, LargestIn
<1> QED
  BY <1>1, <1>2, <1>3, <1>5

(* Models are counted as they are made, and none learned from a label that *)
(* ends on its day or later.                                               *)
ModelsLookBack ==
  /\ alpha.model = Len(models) /\ alpha.count = Len(models)
  /\ \A k \in 1..Len(models) :
       /\ models[k].at <= date
       /\ \A s \in Symbols :
            /\ models[k].reach[s] < models[k].at
            /\ models[k].reach[s] = 0 \/ models[k].reach[s] \in history[s].bars

(* Scores are noted with the model that gave them, which was there already *)
(* on their date, and are of symbols that were traded before.              *)
ScoresAreOfTheirModel ==
  \A i \in 1..Len(scores) :
    /\ scores[i].tag = scores[i].by /\ scores[i].by \in 0..Len(models)
    /\ scores[i].by # 0 => models[scores[i].by].at <= scores[i].date
    /\ \A s \in scores[i].of : \E b \in history[s].bars : b < scores[i].date

AlphaInv == AlphaTypes /\ ModelsLookBack /\ ScoresAreOfTheirModel

LEMMA AlphaStarts == AlphaInit => AlphaInv
<1> SUFFICES ASSUME AlphaInit PROVE AlphaInv
  OBVIOUS
<1>1. Len(models) = 0 /\ Len(scores) = 0
  BY DEF AlphaInit
<1>2. AlphaTypes
  BY DEF AlphaInit, AlphaTypes
<1> QED
  BY <1>1, <1>2 DEF AlphaInit, AlphaInv, ModelsLookBack, ScoresAreOfTheirModel

LEMMA ComputeKeeps ==
  ASSUME AlphaAssumption, AlphaInv, NEW d \in Dates, NEW fits \in BOOLEAN, Compute(d, fits)
  PROVE  AlphaInv'
<1>1. d \in Nat \ {0} /\ d > date /\ date \in Nat /\ date' = d /\ history' = history
  BY DEF AlphaAssumption, AlphaInv, AlphaTypes, Compute
<1> DEFINE n == Len(models)
           new == [at |-> d, reach |-> [s \in Symbols |-> Reach(s, d)]]
           score == [date |-> d, tag |-> Tag(alpha'), by |-> alpha'.model,
                     of |-> IF alpha'.model = 0 THEN {} ELSE {s \in Symbols : Predicts(s, d)}]
<1>2. /\ history \in [Symbols -> Histories]
      /\ alpha \in [model : Nat, last : Nat, count : Nat]
      /\ models \in Seq(ModelRecords)
      /\ scores \in Seq(ScoreRecords)
      /\ trainings \in Seq(Nat)
      /\ alpha.model = n /\ alpha.count = n /\ n \in Nat
  BY DEF AlphaInv, AlphaTypes, ModelsLookBack
<1>3. /\ new \in ModelRecords /\ new.at = d
      /\ \A s \in Symbols : /\ new.reach[s] < d
                            /\ new.reach[s] = 0 \/ new.reach[s] \in history[s].bars
  <2>1. \A s \in Symbols : /\ Reach(s, d) \in Nat /\ Reach(s, d) < d
                           /\ Reach(s, d) = 0 \/ Reach(s, d) \in history[s].bars
    BY <1>1, <1>2, ReachEnds
  <2> QED
    BY <1>1, <2>1 DEF ModelRecords
<1>4. \/ alpha' = alpha /\ models' = models
      \/ /\ alpha' = [model |-> n + 1, last |-> d, count |-> n + 1]
         /\ models' = Append(models, new)
  <2>1. CASE alpha' = alpha
    <3>1. ~(alpha'.count > alpha.count)
      BY <1>2, <2>1
    <3> QED
      BY <2>1, <3>1 DEF Compute
  <2>2. CASE alpha' = [model |-> n + 1, last |-> d, count |-> n + 1]
    <3>1. alpha'.count > alpha.count
      BY <1>2, <2>2
    <3> QED
      BY <2>2, <3>1 DEF Compute
  <2>3. alpha' = alpha \/ alpha' = [model |-> n + 1, last |-> d, count |-> n + 1]
    BY <1>2 DEF Compute, Retrained
  <2> QED
    BY <2>1, <2>2, <2>3
<1>5. scores' = Append(scores, score)
  BY DEF Compute
<1> HIDE DEF new
<1>6. /\ alpha' \in [model : Nat, last : Nat, count : Nat]
      /\ models' \in Seq(ModelRecords)
      /\ alpha'.model = Len(models') /\ alpha'.count = Len(models')
      /\ Len(models') >= n
      /\ \A k \in 1..n : models'[k] = models[k]
      /\ \A k \in 1..Len(models') : k \in 1..n \/ models'[k] = new
  <2>1. CASE alpha' = alpha /\ models' = models
    BY <1>2, <2>1
  <2>2. CASE /\ alpha' = [model |-> n + 1, last |-> d, count |-> n + 1]
             /\ models' = Append(models, new)
    <3>1. /\ models' \in Seq(ModelRecords)
          /\ Len(models') = n + 1 /\ models'[n + 1] = new
          /\ \A k \in 1..n : models'[k] = models[k]
      BY <1>2, <1>3, <2>2
    <3>2. alpha' \in [model : Nat, last : Nat, count : Nat]
          /\ alpha'.model = n + 1 /\ alpha'.count = n + 1
      BY <1>1, <1>2, <2>2
    <3>3. \A k \in 1..(n + 1) : k \in 1..n \/ k = n + 1
      BY <1>2
    <3>4. n + 1 >= n
      BY <1>2
    <3> QED
      BY <3>1, <3>2, <3>3, <3>4
  <2> QED
    BY <1>4, <2>1, <2>2
<1>7. \A k \in 1..Len(models') :
        /\ models'[k].at <= d
        /\ \A s \in Symbols :
             /\ models'[k].reach[s] < models'[k].at
             /\ models'[k].reach[s] = 0 \/ models'[k].reach[s] \in history[s].bars
  <2> TAKE k \in 1..Len(models')
  <2>1. CASE k \in 1..n
    <3>1. /\ models[k].at <= date /\ models[k].at \in Nat
          /\ \A s \in Symbols :
               /\ models[k].reach[s] < models[k].at
               /\ models[k].reach[s] = 0 \/ models[k].reach[s] \in history[s].bars
      BY <2>1, ElementTypes DEF AlphaInv, ModelsLookBack
    <3>2. models[k].at <= d
      BY <1>1, <3>1
    <3> QED
      BY <1>6, <2>1, <3>1, <3>2
  <2>2. CASE models'[k] = new
    BY <1>1, <1>3, <2>2
  <2> QED
    BY <1>6, <2>1, <2>2
<1>8. ModelsLookBack'
  BY <1>1, <1>6, <1>7 DEF ModelsLookBack
<1>9. /\ score \in ScoreRecords
      /\ score.date = d /\ score.tag = score.by /\ score.by = Len(models')
  BY <1>1, <1>6 DEF Tag, ScoreRecords
<1>10. \A s \in score.of : \E b \in history[s].bars : b < d
  <2> TAKE s \in score.of
  <2>1. s \in Symbols /\ Predicts(s, d)
    BY DEF Tag
  <2>2. {b \in Data(s, d) : b < d} # {}
    BY <2>1 DEF Predicts
  <2>3. \A b \in Data(s, d) : b \in history[s].bars
    BY DEF Data
  <2> QED
    BY <2>2, <2>3
<1> HIDE DEF score
<1>11. /\ scores' \in Seq(ScoreRecords)
       /\ \A i \in 1..Len(scores') :
            \/ i \in 1..Len(scores) /\ scores'[i] = scores[i]
            \/ scores'[i] = score
  BY <1>2, <1>5, <1>9
<1>12. ScoresAreOfTheirModel'
  <2> SUFFICES ASSUME NEW i \in 1..Len(scores')
               PROVE  /\ scores'[i].tag = scores'[i].by
                      /\ scores'[i].by \in 0..Len(models')
                      /\ scores'[i].by # 0 => models'[scores'[i].by].at <= scores'[i].date
                      /\ \A s \in scores'[i].of :
                           \E b \in history[s].bars : b < scores'[i].date
    BY <1>1 DEF ScoresAreOfTheirModel
  <2>1. CASE i \in 1..Len(scores) /\ scores'[i] = scores[i]
    <3>1. /\ scores[i].tag = scores[i].by /\ scores[i].by \in 0..n
          /\ scores[i].by # 0 => models[scores[i].by].at <= scores[i].date
          /\ \A s \in scores[i].of : \E b \in history[s].bars : b < scores[i].date
      BY <2>1 DEF AlphaInv, ScoresAreOfTheirModel
    <3>2. Len(models') \in Nat
      BY <1>6
    <3>3. scores[i].by \in 0..Len(models') /\ (scores[i].by # 0 => scores[i].by \in 1..n)
      <4> DEFINE j == scores[i].by
      <4>1. j \in 0..n /\ Len(models') >= n /\ n \in Nat
        BY <1>2, <1>6, <3>1
      <4> HIDE DEF j, n
      <4>2. j \in 0..Len(models') /\ (j # 0 => j \in 1..n)
        BY <3>2, <4>1
      <4> QED
        BY <4>2 DEF j
    <3>4. scores[i].by # 0 => models'[scores[i].by] = models[scores[i].by]
      BY <1>6, <3>3
    <3> QED
      BY <2>1, <3>1, <3>3, <3>4
  <2>2. CASE scores'[i] = score
    <3>1. Len(models') \in Nat
      BY <1>6
    <3>2. score.by # 0 => models'[score.by].at <= d
      BY <1>7, <1>9, <3>1
    <3> QED
      BY <1>9, <1>10, <2>2, <3>1, <3>2
  <2> QED
    BY <1>11, <2>1, <2>2
<1>13. trainings' \in Seq(Nat)
  <2>1. alpha'.last \in Nat
    BY <1>6
  <2> QED
    BY <1>2, <2>1 DEF Compute, Noted
<1>14. AlphaTypes'
  BY <1>1, <1>2, <1>6, <1>11, <1>13 DEF AlphaTypes
<1> QED
  BY <1>8, <1>12, <1>14 DEF AlphaInv

LEMMA AlphaSteps == AlphaAssumption /\ AlphaInv /\ [AlphaNext]_alphaVars => AlphaInv'
<1> SUFFICES ASSUME AlphaAssumption, AlphaInv, [AlphaNext]_alphaVars PROVE AlphaInv'
  OBVIOUS
<1>1. CASE \E d \in Dates : Unsupported(d) \/ UNCHANGED alphaVars
  BY <1>1 DEF AlphaInv, AlphaTypes, ModelsLookBack, ScoresAreOfTheirModel, Unsupported, alphaVars
<1>2. CASE UNCHANGED alphaVars
  BY <1>2 DEF AlphaInv, AlphaTypes, ModelsLookBack, ScoresAreOfTheirModel, alphaVars
<1>3. ASSUME NEW d \in Dates, NEW fits \in BOOLEAN, Compute(d, fits) PROVE AlphaInv'
  BY <1>3, ComputeKeeps
<1> QED
  BY <1>1, <1>2, <1>3 DEF AlphaNext

LEMMA AlphaInvHoldsOut == AlphaAssumption /\ AlphaInv => ScoresAreOutOfSample
<1> SUFFICES ASSUME AlphaAssumption, AlphaInv PROVE ScoresAreOutOfSample
  OBVIOUS
<1>1. /\ history \in [Symbols -> Histories]
      /\ models \in Seq(ModelRecords)
      /\ scores \in Seq(ScoreRecords)
      /\ DOMAIN scores = 1..Len(scores) /\ AlphaTypes
  BY DEF AlphaInv, AlphaTypes
<1>2. ASSUME NEW i \in DOMAIN scores, NEW s \in Symbols, scores[i].by # 0
      PROVE  models[scores[i].by].reach[s] < scores[i].date
  <2> DEFINE k == scores[i].by
  <2>1. /\ k \in 0..Len(models) /\ k # 0 /\ Len(models) \in Nat
        /\ models[k].at <= scores[i].date
    BY <1>1, <1>2, ElementTypes DEF AlphaInv, ScoresAreOfTheirModel
  <2>2. /\ models[k].reach[s] < models[k].at
        /\ models[k].reach[s] \in Nat /\ models[k].at \in Nat /\ scores[i].date \in Nat
    <3>1. k \in 1..Len(models)
      BY <2>1
    <3> HIDE DEF k
    <3>2. models[k].reach[s] < models[k].at
      BY <3>1 DEF AlphaInv, ModelsLookBack
    <3> QED
      BY <1>1, <1>2, <3>1, <3>2, ElementTypes
  <2> QED
    BY <2>1, <2>2
<1>3. ASSUME NEW k \in DOMAIN trainings, NEW i \in OosScores(k)
      PROVE  scores[i].by = k
  BY <1>1 DEF OosScores, AlphaInv, ScoresAreOfTheirModel
<1>4. ASSUME NEW i \in DOMAIN scores, NEW s \in scores[i].of, scores[i].by # 0
      PROVE  models[scores[i].by].reach[s] <= ReturnFrom(s, scores[i].date)
  <2> DEFINE k == scores[i].by
             e == scores[i].date
             Upto == {b \in history[s].bars : b <= e}
  <2>1. s \in Symbols /\ e \in Nat
    BY <1>1, ElementTypes
  <2>2. k \in 1..Len(models)
    <3>1. k \in 0..Len(models) /\ k # 0 /\ Len(models) \in Nat
      BY <1>1, <1>4, ElementTypes DEF AlphaInv, ScoresAreOfTheirModel
    <3> QED
      BY <3>1
  <2>3. /\ models[k].reach[s] = 0 \/ models[k].reach[s] \in history[s].bars
        /\ models[k].reach[s] < e /\ models[k].reach[s] \in Nat
    <3>1. models[k].reach[s] < e
      BY <1>2, <1>4, <2>1
    <3> HIDE DEF k
    <3> QED
      BY <1>1, <2>1, <2>2, <3>1, ElementTypes DEF AlphaInv, ModelsLookBack
  <2>4. \E b \in history[s].bars : b < e
    BY <1>1 DEF AlphaInv, ScoresAreOfTheirModel
  <2>5. history[s].bars \in SUBSET Nat
    BY <1>1, <2>1 DEF AlphaAssumption
  <2>6. Upto \in SUBSET (0..e) /\ Upto # {}
    BY <2>1, <2>4, <2>5
  <2>7. ReturnFrom(s, e) = Max(Upto)
    BY DEF ReturnFrom
  <2>8. models[k].reach[s] = 0 \/ models[k].reach[s] \in Upto
    BY <2>1, <2>3, <2>5
  <2> DEFINE reached == models[k].reach[s]
  <2> HIDE DEF Upto
  <2>9. Max(Upto) \in Upto /\ \A t \in Upto : t <= Max(Upto)
    BY <2>1, <2>6, LargestIn
  <2>10. Max(Upto) \in Nat
    <3>1. Max(Upto) \in 0..e
      BY <2>6, <2>9
    <3> HIDE DEF e
    <3> QED
      BY <2>1, <3>1
  <2>11. reached <= Max(Upto)
    <3> HIDE DEF reached
    <3>1. reached = 0 \/ reached \in Upto
      BY <2>8 DEF reached
    <3> QED
      BY <2>9, <2>10, <3>1
  <2> QED
    BY <2>7, <2>11
<1>5. ASSUME NEW k \in DOMAIN trainings, NEW i \in OosScores(k), NEW s \in scores[i].of
      PROVE  models[k].reach[s] <= ReturnFrom(s, scores[i].date)
  <2>1. i \in DOMAIN scores /\ scores[i].by = k
    BY <1>3 DEF OosScores
  <2>2. k # 0
    BY <1>1, ElementTypes
  <2> QED
    BY <1>4, <2>1, <2>2
<1> QED
  BY <1>2, <1>3, <1>5 DEF ScoresAreOutOfSample

(* No score looks ahead: whatever bars a symbol lacks, whenever training   *)
(* is due and however often it fails, a model has learned from nothing on  *)
(* or after a day it gives scores for, and no training is judged by the    *)
(* scores of another or against returns it has seen the beginning of.      *)
THEOREM ScoresStayOutOfSample == AlphaSpec => []ScoresAreOutOfSample
<1>1. AlphaInv /\ [AlphaNext]_alphaVars => AlphaInv'
  BY AlphaAssumption, AlphaSteps
<1>2. AlphaInv => ScoresAreOutOfSample
  BY AlphaAssumption, AlphaInvHoldsOut
<1> QED
  BY <1>1, <1>2, AlphaStarts, PTL DEF AlphaSpec

-----------------------------------------------------------------------------
(* Division into folds                                                     *)

LEMMA JobTypes ==
  ASSUME WalkAssumption, job \in Jobs
  PROVE  /\ job.kind \in {"portfolio", "single", "weights", "nested"}
         /\ job.rows \in Nat /\ job.splits \in Nat \ {0} /\ job.ratio \in 0..Scale
         /\ job.train[1] \in Int /\ job.train[2] \in Int
         /\ job.test[1] \in Int /\ job.test[2] \in Int
         /\ job.kind = "nested" => job.splits = 1
         /\ Scale \in Nat \ {0} /\ MinTest \in Nat \ {0} /\ Warmup \in Nat /\ MinBars \in Nat
BY DEF WalkAssumption

(* The starts of the folds go from the first row to the one after the      *)
(* last, and each fold has as many rows as the division gives, or more.    *)
LEMMA Starts ==
  ASSUME WalkAssumption, job \in Jobs
  PROVE  /\ Start(0) = 0 /\ Start(job.splits) = job.rows
         /\ job.rows \div job.splits \in Nat
         /\ \A i \in 0..job.splits : Start(i) \in Nat /\ Start(i) <= job.rows
         /\ \A i \in 0..(job.splits - 1) : Start(i) + (job.rows \div job.splits) <= Start(i + 1)
<1> DEFINE n == job.rows
           b == job.splits
           q == n \div b
<1>1. n \in Nat /\ b \in Nat \ {0}
  BY JobTypes
<1>2. \A i : Start(i) = (i * n) \div b
  BY DEF Start
<1> HIDE DEF n, b
<1>3. q \in Nat /\ b * q <= n
  BY <1>1, DivBounds
<1> HIDE DEF q
<1>4. ASSUME NEW i \in 0..b PROVE (i * n) \div b \in Nat /\ (i * n) \div b <= n
  <2>1. i \in Nat /\ i * n \in Nat /\ i * n <= b * n /\ b * n < b * n + b
    BY <1>1, Z3
  <2>2. i * n < b * n + b
    BY <1>1, <2>1, Z3
  <2> DEFINE a == i * n
  <2>3. a \in Nat /\ a < b * n + b
    BY <2>1, <2>2
  <2> HIDE DEF a
  <2>4. a \div b \in Nat
    BY <1>1, <2>3, DivBounds
  <2>5. n \in Int /\ a \div b <= n
    BY <1>1, <2>3, DivAtMost
  <2> QED
    BY <2>4, <2>5 DEF a
<1>5. ASSUME NEW i \in 0..(b - 1)
      PROVE  (i * n) \div b + q <= ((i + 1) * n) \div b
  <2> DEFINE d == (i * n) \div b
  <2>1. i * n \in Nat /\ (i + 1) * n \in Nat /\ (i + 1) * n = i * n + n
    BY <1>1, Z3
  <2>2. d \in Nat /\ b * d <= i * n
    BY <1>1, <2>1, DivBounds
  <2> HIDE DEF d
  <2>3. b * (d + q) = b * d + b * q
    BY <1>1, <1>3, <2>2, Z3
  <2>4. b * (d + q) <= (i + 1) * n
    BY <1>1, <1>3, <2>1, <2>2, <2>3, Z3
  <2>5. d + q <= ((i + 1) * n) \div b
    <3> DEFINE a == (i + 1) * n
    <3>1. a \in Nat /\ b * (d + q) <= a /\ d + q \in Int
      BY <1>3, <2>1, <2>2, <2>4
    <3> HIDE DEF a
    <3>2. d + q <= a \div b
      BY <1>1, <3>1, DivAtLeast
    <3> QED
      BY <3>2 DEF a
  <2> QED
    BY <2>5 DEF d
<1>6. (0 * n) \div b = 0 /\ (b * n) \div b = n
  <2>1. 0 * n = 0 /\ 0 \in Nat /\ 0 < b * 0 + b /\ b * n \in Nat /\ b * n <= b * n
    BY <1>1, Z3
  <2>2. 0 \div b <= 0 /\ 0 \div b \in Nat
    BY <1>1, <2>1, DivBounds, DivAtMost
  <2>3. n <= (b * n) \div b /\ (b * n) \div b <= n /\ (b * n) \div b \in Nat
    <3>1. n <= (b * n) \div b
      BY <1>1, <2>1, DivAtLeast
    <3>2. b \in 0..b
      BY <1>1
    <3> QED
      BY <1>4, <3>1, <3>2
  <2> QED
    BY <1>1, <2>1, <2>2, <2>3
<1> QED
  BY <1>2, <1>3, <1>4, <1>5, <1>6 DEF n, b, q

(* Of a larger fold, as many rows or more are left for the test.           *)
LEMMA Shares ==
  ASSUME WalkAssumption, job \in Jobs, NEW q \in Nat, NEW size \in Nat, q <= size
  PROVE  /\ Share(size) \in 0..size
         /\ q - Share(q) <= size - Share(size)
<1> DEFINE r == job.ratio
           d == (q * r) \div Scale
           e == (size * r) \div Scale
<1>1. r \in Nat /\ r <= Scale /\ Scale \in Nat \ {0}
  BY JobTypes
<1>2. Share(q) = d /\ Share(size) = e
  BY DEF Share
<1> HIDE DEF r
<1>3. q * r \in Nat /\ size * r \in Nat /\ size * r <= size * Scale
  BY <1>1, Z3
<1>4. d \in Nat /\ q * r < Scale * d + Scale /\ e \in Nat
  BY <1>1, <1>3, DivBounds
<1>5. e <= size
  <2>1. size * r < Scale * size + Scale
    BY <1>1, <1>3, Z3
  <2> QED
    BY <1>1, <1>3, <2>1, DivAtMost
<1>6. e <= d + (size - q)
  <2> HIDE DEF d, e
  <2> DEFINE g == size - q
  <2>1. g \in Nat /\ size = q + g
    OBVIOUS
  <2> HIDE DEF g
  <2>2. (q + g) * r = q * r + g * r /\ g * r <= g * Scale
    BY <1>1, <2>1, Z3
  <2>3. Scale * (d + g) + Scale = Scale * d + g * Scale + Scale
    BY <1>1, <1>4, <2>1, Z3
  <2>4. size * r < Scale * (d + g) + Scale
    BY <1>1, <1>3, <1>4, <2>1, <2>2, <2>3, Z3
  <2>5. d + g \in Int
    BY <1>4, <2>1
  <2>6. (size * r) \div Scale <= d + g
    BY <1>1, <1>3, <2>4, <2>5, DivAtMost
  <2> QED
    BY <2>6 DEF e, g
<1> HIDE DEF d, e
<1> QED
  BY <1>2, <1>4, <1>5, <1>6

LEMMA MaxOfTwo ==
  ASSUME NEW a \in Int, NEW b \in Int
  PROVE  Max({a, b}) \in {a, b} /\ a <= Max({a, b}) /\ b <= Max({a, b})
<1>1. \E x \in {a, b} : \A y \in {a, b} : x >= y
  <2>1. CASE a >= b
    BY <2>1
  <2>2. CASE b >= a
    BY <2>2
  <2> QED
    BY <2>1, <2>2
<1>2. Max({a, b}) \in {a, b} /\ \A y \in {a, b} : Max({a, b}) >= y
  BY <1>1, Zenon DEF Max
<1> DEFINE m == Max({a, b})
<1>3. m \in {a, b} /\ m >= a /\ m >= b
  BY <1>2
<1> HIDE DEF m
<1>4. m \in {a, b} /\ a <= m /\ b <= m
  BY <1>3
<1> QED
  BY <1>4 DEF m

-----------------------------------------------------------------------------
(* The rows of a fold                                                      *)

Promised ==
  CASE job.kind = "portfolio" -> MinTest
    [] job.kind = "single" -> Warmup + MinBars
    [] OTHER -> 2
Walks == job.kind \in {"portfolio", "single"}

(* Where a walk's fold begins, where its training ends and where it ends.  *)
LEMMA FoldOfWalk ==
  ASSUME WalkAssumption, job \in Jobs, ~Refused, Walks, NEW i \in 0..(job.splits - 1)
  PROVE  /\ Start(i) \in Nat /\ TrainEnd(i) \in Nat /\ Start(i + 1) \in Nat
         /\ Start(i) <= TrainEnd(i) /\ TrainEnd(i) <= Start(i + 1) /\ Start(i + 1) <= job.rows
         /\ Start(i + 1) - TrainEnd(i) >= Promised
<1> DEFINE q == job.rows \div job.splits
<1>1. job.splits \in Nat \ {0} /\ i \in 0..job.splits /\ i + 1 \in 0..job.splits
  BY JobTypes
<1>2. /\ Start(i) \in Nat /\ Start(i + 1) \in Nat /\ Start(i + 1) <= job.rows
      /\ q \in Nat /\ Start(i) + q <= Start(i + 1)
  BY <1>1, Starts
<1>3. Size(i) \in Nat /\ q <= Size(i) /\ Size(i) = Start(i + 1) - Start(i)
  BY <1>2 DEF Size
<1>4. Share(Size(i)) \in 0..Size(i) /\ q - Share(q) <= Size(i) - Share(Size(i))
  BY <1>2, <1>3, Shares
<1>5. TrainEnd(i) = Start(i) + Share(Size(i))
  BY DEF TrainEnd, Walks
<1>6. q - Share(q) >= Promised /\ Promised \in Nat
      /\ (job.kind = "portfolio" => Promised \in Nat \ {0})
  <2>1. Share(q) \in 0..q
    BY <1>2, Shares
  <2>2. SmallestTest = q - Share(q)
    BY DEF SmallestTest
  <2> HIDE DEF q
  <2>3. CASE job.kind = "portfolio"
    BY <1>2, <2>1, <2>2, <2>3, JobTypes DEF Refused, Promised
  <2>4. CASE job.kind = "single"
    BY <1>2, <2>1, <2>2, <2>4, JobTypes DEF Refused, Promised
  <2> QED
    BY <2>3, <2>4 DEF Walks
<1>7. Share(q) \in 0..q
  BY <1>2, Shares
<1> HIDE DEF q
<1>8. Start(i) <= TrainEnd(i) /\ TrainEnd(i) <= Start(i + 1) /\ TrainEnd(i) \in Nat
  BY <1>2, <1>3, <1>4, <1>5
<1>9. Start(i + 1) - TrainEnd(i) >= Promised
  BY <1>2, <1>3, <1>4, <1>5, <1>6, <1>7
<1> QED
  BY <1>2, <1>8, <1>9

(* An optimisation's fold keeps its training behind its start.             *)
LEMMA FoldOfWeights ==
  ASSUME WalkAssumption, job \in Jobs, job.kind = "weights", NEW i \in 0..(job.splits - 1)
  PROVE  Start(i) \in Nat /\ Start(i + 1) \in Nat /\ TrainEnd(i) \in Int
         /\ Start(i) <= TrainEnd(i)
<1>1. job.splits \in Nat \ {0} /\ i \in 0..job.splits /\ i + 1 \in 0..job.splits
  BY JobTypes
<1>2. /\ Start(i) \in Nat /\ Start(i + 1) \in Nat
      /\ job.rows \div job.splits \in Nat
      /\ Start(i) + (job.rows \div job.splits) <= Start(i + 1)
  BY <1>1, Starts
<1>3. Size(i) \in Nat
  BY <1>2 DEF Size
<1>4. Share(Size(i)) \in Int
  BY <1>3, Shares
<1> DEFINE m == Max({2, Share(Size(i))})
           k == Max({Start(i) + 2, Start(i + 1) - 2})
<1>5. m \in Int /\ 2 <= m
  <2>1. 2 \in Int
    OBVIOUS
  <2>2. m \in {2, Share(Size(i))} /\ 2 <= m
    BY <1>4, <2>1, MaxOfTwo
  <2> QED
    BY <1>4, <2>2
<1>6. k \in Int /\ Start(i) + 2 <= k
  <2>1. Start(i) + 2 \in Int /\ Start(i + 1) - 2 \in Int
    BY <1>2
  <2> QED
    BY <2>1, MaxOfTwo
<1>7. TrainEnd(i) = Start(i) + m \/ TrainEnd(i) = k
  BY DEF TrainEnd, TrainEndOfWeights
<1> HIDE DEF m, k
<1> QED
  BY <1>2, <1>5, <1>6, <1>7

(* Of a fold that is in the result: its tests are of its rows and as long  *)
(* as promised, the rows it was trained on come before, and a walk leaves  *)
(* no row of the fold out.                                                 *)
LEMMA RowsOfFold ==
  ASSUME WalkAssumption, job \in Jobs, ~Refused, NEW i \in 0..(job.splits - 1)
  PROVE  /\ Test(i) \in SUBSET (Start(i)..(Start(i + 1) - 1))
         /\ Train(i) \in SUBSET Int
         /\ \A r \in Train(i), t \in Test(i) :
              r < t \/ (job.kind = "portfolio" /\ 0 \in Test(i))
         /\ Walks \/ ~TooShort(i) => Cardinality(Test(i)) >= Promised
         /\ Walks => /\ ~TooShort(i)
                     /\ Start(i)..(Start(i + 1) - 1) \in SUBSET (Train(i) \cup Test(i))
                     /\ Train(i) \cup Test(i) \in SUBSET (0..(job.rows - 1))
<1>1. CASE Walks
  <2>1. /\ Start(i) \in Nat /\ TrainEnd(i) \in Nat /\ Start(i + 1) \in Nat
        /\ Start(i) <= TrainEnd(i) /\ TrainEnd(i) <= Start(i + 1) /\ Start(i + 1) <= job.rows
        /\ Start(i + 1) - TrainEnd(i) >= Promised
    BY <1>1, FoldOfWalk
  <2>2. job.kind \in {"portfolio", "single"} /\ job.kind # "nested" /\ job.rows \in Nat
    BY <1>1, JobTypes DEF Walks
  <2>3. Test(i) = TrainEnd(i)..(Start(i + 1) - 1)
    BY <2>2 DEF Test
  <2>4. \/ Train(i) = Start(i)..(TrainEnd(i) - 1)
        \/ /\ Train(i) = 0..(job.rows - 1)
           /\ job.kind = "portfolio" /\ TrainEnd(i) = 0
    BY <2>1, <2>2 DEF Train
  <2>5. Cardinality(Test(i)) = Start(i + 1) - TrainEnd(i)
    <3>1. Start(i + 1) - 1 \in Int /\ TrainEnd(i) \in Int
      BY <2>1
    <3>2. Cardinality(Test(i)) =
            IF TrainEnd(i) > Start(i + 1) - 1 THEN 0 ELSE (Start(i + 1) - 1) - TrainEnd(i) + 1
      BY <2>3, <3>1, FS_Interval
    <3> QED
      BY <2>1, <3>2
  <2>6. Cardinality(Test(i)) >= Promised
    BY <2>1, <2>5
  <2>7. ~TooShort(i)
    <3>1. CASE job.kind = "portfolio"
      BY <3>1 DEF TooShort
    <3>2. CASE job.kind = "single"
      <4>1. Promised = Warmup + MinBars /\ Warmup \in Nat /\ MinBars \in Nat
        BY <3>2, JobTypes DEF Promised
      <4>2. ~(Cardinality(Test(i)) < MinBars)
        BY <2>1, <2>5, <2>6, <4>1
      <4> QED
        BY <3>2, <4>2 DEF TooShort
    <3> QED
      BY <2>2, <3>1, <3>2
  <2>8. Test(i) \in SUBSET (Start(i)..(Start(i + 1) - 1))
    BY <2>1, <2>3
  <2>9. Train(i) \in SUBSET (0..(job.rows - 1)) /\ Test(i) \in SUBSET (0..(job.rows - 1))
    <3>1. Start(i)..(TrainEnd(i) - 1) \in SUBSET (0..(job.rows - 1))
      BY <2>1, <2>2
    <3>2. TrainEnd(i)..(Start(i + 1) - 1) \in SUBSET (0..(job.rows - 1))
      BY <2>1, <2>2
    <3> QED
      BY <2>3, <2>4, <3>1, <3>2
  <2>10. Start(i)..(Start(i + 1) - 1) \in SUBSET (Train(i) \cup Test(i))
    <3>1. ASSUME NEW r \in Start(i)..(Start(i + 1) - 1), r \notin Test(i) PROVE r \in Train(i)
      <4>1. r \in Int /\ Start(i) <= r /\ r <= Start(i + 1) - 1
        BY <2>1
      <4>2. r <= TrainEnd(i) - 1
        BY <2>1, <2>3, <3>1, <4>1
      <4>3. r \in Start(i)..(TrainEnd(i) - 1) /\ r \in 0..(job.rows - 1)
        BY <2>1, <2>2, <4>1, <4>2
      <4> QED
        BY <2>4, <4>3
    <3> QED
      BY <3>1
  <2>11. \A r \in Train(i), t \in Test(i) :
           r < t \/ (job.kind = "portfolio" /\ 0 \in Test(i))
    <3>1. ASSUME Train(i) = Start(i)..(TrainEnd(i) - 1), NEW r \in Train(i), NEW t \in Test(i)
          PROVE  r < t
      <4>1. r \in Int /\ r <= TrainEnd(i) - 1 /\ t \in Int /\ TrainEnd(i) <= t
        BY <2>1, <2>3, <3>1
      <4> QED
        BY <2>1, <4>1
    <3>2. ASSUME TrainEnd(i) = 0, NEW t \in Test(i) PROVE 0 \in Test(i)
      BY <2>1, <2>3, <3>2
    <3> QED
      BY <2>4, <3>1, <3>2
  <2> QED
    BY <1>1, <2>6, <2>7, <2>8, <2>9, <2>10, <2>11
<1>2. CASE job.kind = "weights"
  <2>1. /\ Start(i) \in Nat /\ Start(i + 1) \in Nat /\ TrainEnd(i) \in Int
        /\ Start(i) <= TrainEnd(i)
    BY <1>2, FoldOfWeights
  <2>2. Test(i) = TrainEnd(i)..(Start(i + 1) - 1) /\ Train(i) = Start(i)..(TrainEnd(i) - 1)
    BY <1>2 DEF Test, Train
  <2>3. Test(i) \in SUBSET (Start(i)..(Start(i + 1) - 1)) /\ Train(i) \in SUBSET Int
    BY <2>1, <2>2
  <2>4. ASSUME NEW r \in Train(i), NEW t \in Test(i) PROVE r < t
    <3>1. r \in Int /\ r <= TrainEnd(i) - 1 /\ t \in Int /\ TrainEnd(i) <= t
      BY <2>1, <2>2
    <3> QED
      BY <2>1, <3>1
  <2>5. ~TooShort(i) => Cardinality(Test(i)) >= Promised
    <3>1. Promised = 2
      BY <1>2 DEF Promised
    <3>2. IsFiniteSet(Test(i))
      <4>1. Start(i + 1) - 1 \in Int
        BY <2>1
      <4> QED
        BY <2>1, <2>2, <4>1, FS_Interval
    <3>3. Cardinality(Test(i)) \in Nat
      BY <3>2, FS_CardinalityType
    <3>4. ~TooShort(i) => ~(Cardinality(Test(i)) < 2)
      BY <1>2 DEF TooShort
    <3> QED
      BY <3>1, <3>3, <3>4
  <2>6. ~Walks
    BY <1>2 DEF Walks
  <2> QED
    BY <2>3, <2>4, <2>5, <2>6
<1>3. CASE job.kind = "nested"
  <2>1. job.splits = 1 /\ i = 0 /\ job.rows \in Nat
    BY <1>3, JobTypes
  <2>2. Start(0) = 0 /\ Start(0 + 1) = job.rows
    BY <2>1, Starts
  <2>3. Test(i) = Slice(job.test) /\ Train(i) = Slice(job.train)
    BY <1>3 DEF Test, Train
  <2>4. /\ ~(job.test[1] <= job.train[2])
        /\ ~(Cardinality(Slice(job.test)) < 2)
    BY <1>3 DEF Refused
  <2>5. Test(i) \in SUBSET (0..(job.rows - 1)) /\ Train(i) \in SUBSET (0..(job.rows - 1))
    BY <2>3 DEF Slice
  <2>6. \A r \in Train(i), t \in Test(i) : r < t
    <3>1. \A r \in Train(i) : r <= job.train[2] /\ r \in Int
      BY <2>3 DEF Slice
    <3>2. \A t \in Test(i) : job.test[1] <= t /\ t \in Int
      BY <2>3 DEF Slice
    <3>3. job.train[2] \in Int /\ job.test[1] \in Int
      BY JobTypes
    <3> QED
      BY <2>4, <3>1, <3>2, <3>3
  <2>7. Cardinality(Test(i)) >= 2
    <3>1. IsFiniteSet(0..(job.rows - 1))
      <4>1. 0 \in Int /\ job.rows - 1 \in Int
        BY <2>1
      <4> QED
        BY <4>1, FS_Interval
    <3>2. Cardinality(Test(i)) \in Nat
      BY <2>5, <3>1, FS_Subset, FS_CardinalityType
    <3> QED
      BY <2>3, <2>4, <3>2
  <2>8. Promised = 2 /\ ~Walks
    BY <1>3 DEF Promised, Walks
  <2>9. Test(i) \in SUBSET (Start(i)..(Start(i + 1) - 1))
    BY <2>1, <2>2, <2>5
  <2> QED
    BY <2>5, <2>6, <2>7, <2>8, <2>9
<1> QED
  BY <1>1, <1>2, <1>3, JobTypes DEF Walks

-----------------------------------------------------------------------------
(* Judged out of sample                                                    *)

FoldRecords == [train : SUBSET Int, test : SUBSET Int, found : BOOLEAN]
CurveParts == [fold : Nat, rows : SUBSET Int]

WalkTypes ==
  /\ job \in Jobs /\ next \in 0..job.splits
  /\ phase \in {"asked", "refused", "folds", "failed", "judged"}
  /\ folds \in Seq(FoldRecords)
  /\ curve \in SUBSET CurveParts

(* Before the first fold nothing is in the result, and there is none when  *)
(* the smallest window is too short; at the judgement all folds are over.  *)
Phases ==
  /\ phase = "asked" => next = 0 /\ folds = <<>> /\ curve = {}
  /\ phase \in {"folds", "judged"} => ~Refused
  /\ phase = "judged" =>
       /\ next = job.splits
       /\ job.kind \in {"weights", "nested"} => reference = Baseline

(* Each fold of the result is one of the division.                         *)
FoldsAreDivided ==
  phase \in {"folds", "judged"} =>
    \A k \in 1..Len(folds) : \E i \in 0..(job.splits - 1) :
      folds[k].train = Train(i) /\ folds[k].test = Test(i) /\ (Walks \/ ~TooShort(i))

(* What is in the curve comes before the fold to come, in order.           *)
CurveInOrder ==
  phase \in {"folds", "judged"} =>
    /\ \A c \in curve : c.fold \in 1..Len(folds) /\ \A r \in c.rows : r < Start(next)
    /\ \A c, e \in curve :
         /\ c.fold = e.fold => c = e
         /\ c.fold < e.fold => \A r \in c.rows, t \in e.rows : r < t

RowsOf(k) == folds[k].train \cup folds[k].test

(* A walk has left no row behind.                                          *)
WalkIsComplete ==
  phase \in {"folds", "judged"} /\ Walks =>
    /\ \A r \in 0..(Start(next) - 1) : \E k \in 1..Len(folds) : r \in RowsOf(k)
    /\ \A k \in 1..Len(folds) : RowsOf(k) \in SUBSET (0..(job.rows - 1))

CurveIsBaseline ==
  phase \in {"folds", "judged"} /\ job.kind \in {"weights", "nested"} => curve = Baseline

WalkInv ==
  /\ WalkTypes /\ Phases /\ FoldsAreDivided /\ CurveInOrder /\ WalkIsComplete
  /\ CurveIsBaseline

LEMMA WalkStarts == WalkInit => WalkInv
<1> SUFFICES ASSUME WalkInit PROVE WalkInv
  OBVIOUS
<1>1. job \in Jobs /\ phase = "asked" /\ next = 0 /\ folds = <<>> /\ curve = {}
  BY DEF WalkInit
<1>2. job.splits \in Nat \ {0}
  BY <1>1, WalkAssumption, JobTypes
<1> QED
  BY <1>1, <1>2 DEF WalkInv, WalkTypes, Phases, FoldsAreDivided, CurveInOrder, WalkIsComplete,
    CurveIsBaseline

(* All that a step may ask about the division stays as it is.              *)
LEMMA DivisionStays ==
  ASSUME job' = job
  PROVE  /\ (Refused <=> Refused') /\ (Walks <=> Walks')
         /\ \A i : Start(i)' = Start(i)
         /\ \A i : Train(i)' = Train(i) /\ Test(i)' = Test(i) /\ (TooShort(i)' <=> TooShort(i))
BY DEF Refused, SmallestTest, Share, Slice, Walks, Start, Train, Test, TooShort, TrainEnd,
  TrainEndOfWeights, Size

LEMMA ReturnsAreTested ==
  ASSUME NEW i
  PROVE  /\ \A r \in Returns(i) : r \in Test(i)
         /\ job.kind \in {"weights", "nested"} => Returns(i) = Test(i)
BY DEF Returns

LEMMA FoldKeeps ==
  ASSUME WalkAssumption, WalkInv, NEW found \in BOOLEAN, Fold(found)
  PROVE  WalkInv'
<1> DEFINE n == Len(folds)
           new == [train |-> Train(next), test |-> Test(next), found |-> found]
           part == [fold |-> n + 1, rows |-> Returns(next)]
<1>1. /\ job \in Jobs /\ phase = "folds" /\ phase' = phase /\ job' = job
      /\ next' = next + 1 /\ next < job.splits /\ next \in 0..job.splits
      /\ folds \in Seq(FoldRecords) /\ curve \in SUBSET CurveParts /\ ~Refused /\ n \in Nat
      /\ found \/ job.kind = "weights"
  BY DEF WalkInv, WalkTypes, Phases, Fold
<1>2. next \in 0..(job.splits - 1) /\ next + 1 \in 0..job.splits /\ job.splits \in Nat \ {0}
  BY <1>1, JobTypes
<1>3. /\ Start(next) \in Nat /\ Start(next + 1) \in Nat /\ Start(next) <= Start(next + 1)
      /\ Start(next + 1) <= job.rows
  <2>1. /\ Start(next) \in Nat /\ Start(next + 1) \in Nat
        /\ job.rows \div job.splits \in Nat /\ Start(next + 1) <= job.rows
        /\ Start(next) + (job.rows \div job.splits) <= Start(next + 1)
    BY <1>1, <1>2, Starts
  <2> QED
    BY <2>1
<1>4. /\ Test(next) \in SUBSET (Start(next)..(Start(next + 1) - 1))
      /\ Train(next) \in SUBSET Int
      /\ Walks => /\ ~TooShort(next)
                  /\ Start(next)..(Start(next + 1) - 1) \in SUBSET (Train(next) \cup Test(next))
                  /\ Train(next) \cup Test(next) \in SUBSET (0..(job.rows - 1))
  BY <1>1, <1>2, RowsOfFold
<1>5. /\ ~Refused' /\ (Walks <=> Walks') /\ \A i : Start(i)' = Start(i)
      /\ \A i : Train(i)' = Train(i) /\ Test(i)' = Test(i) /\ (TooShort(i)' <=> TooShort(i))
  BY <1>1, DivisionStays
<1>6. Start(next)' = Start(next + 1)
  BY <1>1 DEF Start
<1>7. /\ \A c \in curve : c.fold \in 1..n /\ \A r \in c.rows : r < Start(next)
      /\ \A c, e \in curve :
           /\ c.fold = e.fold => c = e
           /\ c.fold < e.fold => \A r \in c.rows, t \in e.rows : r < t
  BY <1>1 DEF WalkInv, CurveInOrder
<1>8. \A c \in curve : c.rows \in SUBSET Int /\ \A r \in c.rows : r < Start(next + 1)
  <2>1. \A c \in curve : c.rows \in SUBSET Int
    BY <1>1 DEF CurveParts
  <2> QED
    BY <1>3, <1>7, <2>1
<1>9. CASE TooShort(next)
  <2>1. folds' = folds /\ curve' = curve /\ ~Walks
    BY <1>4, <1>9 DEF Fold
  <2>2. WalkTypes'
    BY <1>1, <1>2, <2>1 DEF WalkTypes
  <2>3. Phases'
    BY <1>1, <1>5 DEF Phases
  <2>4. FoldsAreDivided'
    BY <1>1, <1>5, <2>1 DEF WalkInv, FoldsAreDivided
  <2>5. CurveInOrder'
    BY <1>6, <1>7, <1>8, <2>1 DEF CurveInOrder
  <2>6. WalkIsComplete'
    BY <1>5, <2>1 DEF WalkIsComplete
  <2>7. CurveIsBaseline'
    BY <1>1, <2>1 DEF WalkInv, CurveIsBaseline, Baseline, Tests
  <2> QED
    BY <2>2, <2>3, <2>4, <2>5, <2>6, <2>7 DEF WalkInv
<1>10. CASE ~TooShort(next)
  <2>1. folds' = Append(folds, new) /\ curve' = IF found THEN curve \cup {part} ELSE curve
    BY <1>10 DEF Fold
  <2>2. new \in FoldRecords /\ new.train = Train(next) /\ new.test = Test(next)
        /\ new.found = found
    BY <1>3, <1>4 DEF FoldRecords
  <2>3. /\ part \in CurveParts /\ part.fold = n + 1 /\ part.rows = Returns(next)
        /\ \A r \in part.rows : r \in Int /\ Start(next) <= r /\ r < Start(next + 1)
    <3>1. \A r \in Returns(next) : r \in Int /\ Start(next) <= r /\ r < Start(next + 1)
      BY <1>3, <1>4, ReturnsAreTested
    <3> QED
      BY <1>1, <3>1 DEF CurveParts
  <2> HIDE DEF new, part
  <2>4. /\ folds' \in Seq(FoldRecords) /\ Len(folds') = n + 1 /\ folds'[n + 1] = new
        /\ \A k \in 1..n : folds'[k] = folds[k]
    BY <1>1, <2>1, <2>2
  <2>5. \A k \in 1..(n + 1) : k \in 1..n \/ k = n + 1
    BY <1>1
  <2>6. WalkTypes'
    BY <1>1, <1>2, <2>1, <2>3, <2>4 DEF WalkTypes
  <2>7. Phases'
    BY <1>1, <1>5 DEF Phases
  <2>8. FoldsAreDivided'
    <3>1. ASSUME NEW k \in 1..n
          PROVE  \E i \in 0..(job.splits - 1) :
                   /\ folds[k].train = Train(i) /\ folds[k].test = Test(i)
                   /\ Walks \/ ~TooShort(i)
      BY <1>1 DEF WalkInv, FoldsAreDivided
    <3>2. ASSUME NEW k \in 1..(n + 1)
          PROVE  \E i \in 0..(job.splits - 1) :
                   /\ folds'[k].train = Train(i) /\ folds'[k].test = Test(i)
                   /\ Walks \/ ~TooShort(i)
      <4>1. CASE k \in 1..n
        BY <2>4, <3>1, <4>1
      <4>2. CASE k = n + 1
        BY <1>2, <1>10, <2>2, <2>4, <4>2
      <4> QED
        BY <2>5, <4>1, <4>2
    <3> QED
      BY <1>1, <1>5, <2>4, <3>2 DEF FoldsAreDivided
  <2>9. CurveInOrder'
    <3>1. \A c \in curve' : c \in curve \/ c = part
      BY <2>1
    <3>2. \A c \in curve' : c.fold \in 1..(n + 1) /\ \A r \in c.rows : r < Start(next + 1)
      <4>1. \A c \in curve : c.fold \in 1..(n + 1)
        BY <1>1, <1>7
      <4>2. part.fold \in 1..(n + 1)
        BY <1>1, <2>3
      <4> QED
        BY <1>8, <2>3, <3>1, <4>1, <4>2
    <3>3. ASSUME NEW c \in curve', NEW e \in curve'
          PROVE  /\ c.fold = e.fold => c = e
                 /\ c.fold < e.fold => \A r \in c.rows, t \in e.rows : r < t
      <4>1. CASE c \in curve /\ e \in curve
        BY <1>7, <4>1
      <4>2. CASE c \in curve /\ e = part
        <5>1. c.fold \in 1..n /\ e.fold = n + 1
          BY <1>7, <2>3, <4>2
        <5>2. c.fold # e.fold
          BY <1>1, <5>1
        <5>3. \A r \in c.rows, t \in e.rows : r < t
          BY <1>3, <1>7, <1>8, <2>3, <4>2
        <5> QED
          BY <5>2, <5>3
      <4>3. CASE c = part /\ e \in curve
        <5>1. e.fold \in 1..n /\ c.fold = n + 1
          BY <1>7, <2>3, <4>3
        <5>2. c.fold # e.fold /\ ~(c.fold < e.fold)
          BY <1>1, <5>1
        <5> QED
          BY <5>2
      <4>4. CASE c = part /\ e = part
        <5>1. c.fold = n + 1 /\ e.fold = n + 1
          BY <2>3, <4>4
        <5>2. ~(c.fold < e.fold)
          BY <1>1, <5>1
        <5> QED
          BY <4>4, <5>2
      <4> QED
        BY <3>1, <4>1, <4>2, <4>3, <4>4
    <3> QED
      BY <1>6, <2>4, <3>2, <3>3 DEF CurveInOrder
  <2>10. WalkIsComplete'
    <3>1. SUFFICES ASSUME Walks
                   PROVE  /\ \A r \in 0..(Start(next + 1) - 1) :
                               \E k \in 1..(n + 1) : r \in RowsOf(k)'
                          /\ \A k \in 1..(n + 1) : RowsOf(k)' \in SUBSET (0..(job.rows - 1))
      BY <1>1, <1>5, <1>6, <2>4 DEF WalkIsComplete
    <3>2. /\ \A r \in 0..(Start(next) - 1) : \E k \in 1..n : r \in RowsOf(k)
          /\ \A k \in 1..n : RowsOf(k) \in SUBSET (0..(job.rows - 1))
      BY <1>1, <3>1 DEF WalkInv, WalkIsComplete
    <3>3. \A k \in 1..n : RowsOf(k)' = RowsOf(k) /\ k \in 1..(n + 1)
      BY <1>1, <2>4 DEF RowsOf
    <3>4. PICK m \in 1..(n + 1) : m = n + 1
      BY <1>1
    <3>5. RowsOf(m)' = Train(next) \cup Test(next)
      <4>1. folds'[m].train = Train(next) /\ folds'[m].test = Test(next)
        BY <2>2, <2>4, <3>4
      <4> QED
        BY <4>1 DEF RowsOf
    <3>6. ASSUME NEW r \in 0..(Start(next + 1) - 1)
          PROVE  \E k \in 1..(n + 1) : r \in RowsOf(k)'
      <4>1. r \in 0..(Start(next) - 1) \/ r \in Start(next)..(Start(next + 1) - 1)
        BY <1>3
      <4>2. CASE r \in 0..(Start(next) - 1)
        BY <3>2, <3>3, <4>2
      <4>3. CASE r \in Start(next)..(Start(next + 1) - 1)
        <5>1. r \in RowsOf(m)'
          BY <1>4, <3>1, <3>5, <4>3
        <5> QED
          BY <5>1
      <4> QED
        BY <4>1, <4>2, <4>3
    <3>7. ASSUME NEW k \in 1..(n + 1) PROVE RowsOf(k)' \in SUBSET (0..(job.rows - 1))
      <4>1. CASE k \in 1..n
        BY <3>2, <3>3, <4>1
      <4>2. CASE k = m
        BY <1>4, <3>1, <3>5, <4>2
      <4> QED
        BY <2>5, <3>4, <4>1, <4>2
    <3> QED
      BY <3>6, <3>7
  <2>11. CurveIsBaseline'
    <3>1. SUFFICES ASSUME job.kind \in {"weights", "nested"} PROVE curve' = Baseline'
      BY <1>1 DEF CurveIsBaseline
    <3>2. curve = Baseline
      BY <1>1, <3>1 DEF WalkInv, CurveIsBaseline
    <3>3. part = [fold |-> n + 1, rows |-> Test(next)]
      BY <3>1, ReturnsAreTested DEF part
    <3>4. DOMAIN folds = 1..n /\ DOMAIN folds' = 1..(n + 1) /\ 1..n \in SUBSET (1..(n + 1))
      BY <1>1, <2>4
    <3>5. Baseline = {[fold |-> k, rows |-> folds[k].test] : k \in {j \in 1..n : folds[j].found}}
      BY <3>4 DEF Baseline, Tests
    <3>6. Baseline' = {[fold |-> k, rows |-> folds'[k].test] :
                         k \in {j \in 1..(n + 1) : folds'[j].found}}
      BY <3>4 DEF Baseline, Tests
    <3>7. \A c \in curve' : c \in Baseline'
      <4>1. ASSUME NEW c \in Baseline PROVE c \in Baseline'
        <5>1. PICK k \in 1..n : folds[k].found /\ c = [fold |-> k, rows |-> folds[k].test]
          BY <3>5
        <5>2. folds'[k] = folds[k] /\ k \in 1..(n + 1)
          BY <2>4, <3>4
        <5> QED
          BY <3>6, <5>1, <5>2
      <4>2. found => part \in Baseline'
        <5>1. PICK m \in 1..(n + 1) : m = n + 1
          BY <1>1
        <5>2. folds'[m].found = found /\ part = [fold |-> m, rows |-> folds'[m].test]
          BY <2>2, <2>4, <3>3, <5>1
        <5> QED
          BY <3>6, <5>2
      <4> QED
        BY <2>1, <3>2, <4>1, <4>2
    <3>8. ASSUME NEW c \in Baseline' PROVE c \in curve'
      <4>1. PICK k \in 1..(n + 1) : folds'[k].found /\ c = [fold |-> k, rows |-> folds'[k].test]
        BY <3>6
      <4>2. CASE k \in 1..n
        <5>1. c \in Baseline
          BY <2>4, <3>5, <4>1, <4>2
        <5> QED
          BY <2>1, <3>2, <5>1
      <4>3. CASE k = n + 1
        <5>1. found /\ c = part
          BY <2>2, <2>4, <3>3, <4>1, <4>3
        <5> QED
          BY <2>1, <5>1
      <4> QED
        BY <2>5, <4>2, <4>3
    <3> QED
      BY <3>7, <3>8
  <2> QED
    BY <2>6, <2>7, <2>8, <2>9, <2>10, <2>11 DEF WalkInv
<1> QED
  BY <1>9, <1>10

LEMMA WalkSteps == WalkAssumption /\ WalkInv /\ [WalkNext]_walkVars => WalkInv'
<1> SUFFICES ASSUME WalkAssumption, WalkInv, [WalkNext]_walkVars PROVE WalkInv'
  OBVIOUS
<1>1. ASSUME NEW found \in BOOLEAN, Fold(found) PROVE WalkInv'
  BY <1>1, FoldKeeps
<1>2. CASE Begin
  <2>1. /\ job' = job /\ next' = next /\ folds' = folds /\ curve' = curve
        /\ next = 0 /\ folds = <<>> /\ curve = {}
        /\ phase' \in {"refused", "folds"} /\ (phase' = "folds" => ~Refused)
    BY <1>2 DEF Begin, WalkInv, Phases
  <2>2. (Refused <=> Refused') /\ Start(0)' = Start(0) /\ Start(0) = 0
    BY <2>1, DivisionStays, Starts DEF WalkInv, WalkTypes
  <2>3. WalkTypes' /\ Phases'
    BY <2>1, <2>2 DEF WalkInv, WalkTypes, Phases
  <2>4. FoldsAreDivided' /\ CurveInOrder' /\ CurveIsBaseline'
    BY <2>1 DEF FoldsAreDivided, CurveInOrder, CurveIsBaseline, Baseline, Tests
  <2>5. WalkIsComplete'
    <3>1. Start(next)' = 0
      BY <2>1, <2>2 DEF Start
    <3> QED
      BY <2>1, <3>1 DEF WalkIsComplete
  <2> QED
    BY <2>3, <2>4, <2>5 DEF WalkInv
<1>3. CASE FoldFails
  <2>1. /\ phase = "folds" /\ job' = job /\ next' = next + 1 /\ folds' = folds /\ curve' = curve
        /\ next \in 0..job.splits /\ next < job.splits /\ job \in Jobs
        /\ job.kind \in {"weights", "nested"} /\ phase' \in {"folds", "failed"}
        /\ curve \in SUBSET CurveParts
    BY <1>3 DEF FoldFails, WalkInv, WalkTypes
  <2>2. /\ (Refused <=> Refused') /\ ~Walks /\ ~Walks'
        /\ \A i : Train(i)' = Train(i) /\ Test(i)' = Test(i) /\ (TooShort(i)' <=> TooShort(i))
    <3>1. ~Walks
      BY <2>1 DEF Walks
    <3> QED
      BY <2>1, <3>1, DivisionStays
  <2>3. next + 1 \in 0..job.splits /\ next \in 0..(job.splits - 1)
    BY <2>1, JobTypes
  <2>4. /\ Start(next) \in Nat /\ Start(next + 1) \in Nat /\ Start(next) <= Start(next + 1)
        /\ Start(next)' = Start(next + 1)
    <3>1. /\ Start(next) \in Nat /\ Start(next + 1) \in Nat
          /\ job.rows \div job.splits \in Nat
          /\ Start(next) + (job.rows \div job.splits) <= Start(next + 1)
      BY <2>1, <2>3, Starts
    <3>2. Start(next)' = Start(next + 1)
      BY <2>1 DEF Start
    <3> QED
      BY <3>1, <3>2
  <2>5. WalkTypes' /\ Phases'
    BY <2>1, <2>2, <2>3 DEF WalkInv, WalkTypes, Phases
  <2>6. FoldsAreDivided'
    BY <2>1, <2>2 DEF WalkInv, FoldsAreDivided
  <2>7. CurveInOrder'
    <3>1. \A c \in curve : c.rows \in SUBSET Int /\ c.fold \in 1..Len(folds)
                           /\ \A r \in c.rows : r < Start(next)
      BY <2>1 DEF WalkInv, CurveInOrder, CurveParts
    <3>2. \A c \in curve : \A r \in c.rows : r < Start(next + 1)
      BY <2>4, <3>1
    <3> QED
      BY <2>1, <2>4, <3>1, <3>2 DEF WalkInv, CurveInOrder
  <2>8. WalkIsComplete' /\ CurveIsBaseline'
    BY <2>1, <2>2 DEF WalkInv, WalkIsComplete, CurveIsBaseline, Baseline, Tests
  <2> QED
    BY <2>5, <2>6, <2>7, <2>8 DEF WalkInv
<1>4. CASE Finish \/ UNCHANGED walkVars
  <2>1. /\ job' = job /\ next' = next /\ folds' = folds /\ curve' = curve
        /\ \/ phase' = phase /\ reference' = reference
           \/ /\ phase = "folds" /\ next = job.splits /\ phase' \in {"judged", "failed"}
              /\ job.kind \in {"weights", "nested"} => reference' = Baseline
    BY <1>4 DEF Finish, walkVars
  <2>2. /\ (Refused <=> Refused') /\ (Walks <=> Walks') /\ \A i : Start(i)' = Start(i)
        /\ \A i : Train(i)' = Train(i) /\ Test(i)' = Test(i) /\ (TooShort(i)' <=> TooShort(i))
    BY <2>1, DivisionStays
  <2>3. Start(next)' = Start(next) /\ Baseline' = Baseline
    BY <2>1 DEF Start, Baseline, Tests
  <2>4. WalkTypes' /\ Phases'
    BY <2>1, <2>2, <2>3 DEF WalkInv, WalkTypes, Phases
  <2>5. FoldsAreDivided'
    BY <2>1, <2>2 DEF WalkInv, FoldsAreDivided
  <2>6. CurveInOrder' /\ CurveIsBaseline'
    BY <2>1, <2>3 DEF WalkInv, CurveInOrder, CurveIsBaseline
  <2>7. WalkIsComplete'
    <3>1. \A k : RowsOf(k)' = RowsOf(k)
      BY <2>1 DEF RowsOf
    <3> QED
      BY <2>1, <2>2, <2>3, <3>1 DEF WalkInv, WalkIsComplete
  <2> QED
    BY <2>4, <2>5, <2>6, <2>7 DEF WalkInv
<1> QED
  BY <1>1, <1>2, <1>3, <1>4 DEF WalkNext

LEMMA WalkInvJudges == WalkAssumption /\ WalkInv => JudgedOutOfSample
<1> SUFFICES ASSUME WalkAssumption, WalkInv, phase = "judged"
             PROVE  /\ \A i \in DOMAIN folds : \A r \in folds[i].train, t \in folds[i].test :
                         r < t \/ (job.kind = "portfolio" /\ 0 \in folds[i].test)
                    /\ \A c, e \in curve :
                         /\ c.fold = e.fold => c = e
                         /\ c.fold < e.fold => \A r \in c.rows, t \in e.rows : r < t
                    /\ \A i \in DOMAIN folds : Cardinality(folds[i].test) >= Promised
                    /\ job.kind \in {"portfolio", "single"} =>
                         UNION {folds[i].train \cup folds[i].test : i \in DOMAIN folds}
                           = 0..job.rows - 1
                    /\ job.kind \in {"weights", "nested"} => reference = curve
  BY DEF JudgedOutOfSample, Promised
<1>1. /\ job \in Jobs /\ ~Refused /\ next = job.splits /\ DOMAIN folds = 1..Len(folds)
      /\ job.kind \in {"weights", "nested"} => reference = Baseline /\ curve = Baseline
  BY DEF WalkInv, WalkTypes, Phases, CurveIsBaseline
<1>2. ASSUME NEW k \in DOMAIN folds
      PROVE  /\ \A r \in folds[k].train, t \in folds[k].test :
                  r < t \/ (job.kind = "portfolio" /\ 0 \in folds[k].test)
             /\ Cardinality(folds[k].test) >= Promised
  <2>1. PICK i \in 0..(job.splits - 1) :
          folds[k].train = Train(i) /\ folds[k].test = Test(i) /\ (Walks \/ ~TooShort(i))
    BY <1>1 DEF WalkInv, FoldsAreDivided
  <2> QED
    BY <1>1, <2>1, RowsOfFold
<1>3. \A c, e \in curve :
        /\ c.fold = e.fold => c = e
        /\ c.fold < e.fold => \A r \in c.rows, t \in e.rows : r < t
  BY DEF WalkInv, CurveInOrder
<1>4. ASSUME Walks
      PROVE  UNION {folds[i].train \cup folds[i].test : i \in DOMAIN folds} = 0..job.rows - 1
  <2>1. Start(next) = job.rows
    BY <1>1, Starts
  <2>2. /\ \A r \in 0..(job.rows - 1) : \E k \in 1..Len(folds) : r \in RowsOf(k)
        /\ \A k \in 1..Len(folds) : RowsOf(k) \in SUBSET (0..(job.rows - 1))
    BY <1>4, <2>1 DEF WalkInv, WalkIsComplete
  <2> QED
    BY <1>1, <2>2 DEF RowsOf
<1> QED
  BY <1>1, <1>2, <1>3, <1>4 DEF Walks

(* A strategy is judged out of sample: for every length of the sample,     *)
(* every number of folds and every share of training, whatever remains of  *)
(* the division and whichever folds of an optimisation fail.  Excepted is  *)
(* the first fold of a portfolio whose share rounds to no row at all: it   *)
(* is trained on the whole range, its test included.                       *)
THEOREM JudgementsAreOutOfSample == WalkSpec => []JudgedOutOfSample
<1>1. WalkInv /\ [WalkNext]_walkVars => WalkInv'
  BY WalkAssumption, WalkSteps
<1>2. WalkInv => JudgedOutOfSample
  BY WalkAssumption, WalkInvJudges
<1> QED
  BY <1>1, <1>2, WalkStarts, PTL DEF WalkSpec

-----------------------------------------------------------------------------
(* Files of bars                                                           *)

FileRecords == [days : SUBSET Int, end : Int]
ManifestRecords == [end : Int, periods : SUBSET Periods]
BuildRecords ==
  [end : Int, reach : Int, periods : SUBSET Periods, left : SUBSET Periods, days : SUBSET Int]

CacheTypes ==
  /\ today \in Int /\ listed \in SUBSET Int /\ rows \in SUBSET Int
  /\ files \in [Periods -> FileRecords]
  /\ manifest \in ManifestRecords
  /\ build \in BuildRecords

(* What a build is about to write reaches as far as what it replaces.      *)
BuildsGoOn ==
  /\ manifest.end <= today
  /\ build # NoBuild => manifest.end <= build.end /\ build.end <= today /\ build.reach = build.end

(* The files that the manifest names reach to its end, and the files that  *)
(* a build has written to the end of the build.                            *)
NamedFilesReach == \A p \in manifest.periods : manifest.end <= files[p].end
WrittenFilesReach ==
  build # NoBuild => \A p \in build.periods \ build.left : files[p].end = build.end

CacheInv ==
  /\ CacheTypes /\ BuildsGoOn /\ NamedFilesReach /\ WrittenFilesReach
  /\ rows \subseteq listed

LEMMA CacheStarts == CacheInit => CacheInv
<1> SUFFICES ASSUME CacheInit PROVE CacheInv
  OBVIOUS
<1>1. today \in Int /\ listed \in SUBSET Int /\ rows \in SUBSET Int
  BY CacheAssumption DEF CacheInit
<1>2. files \in [Periods -> FileRecords] /\ manifest \in ManifestRecords
  BY CacheAssumption, <1>1 DEF CacheInit, FileRecords, ManifestRecords
<1>3. build \in BuildRecords /\ build = NoBuild
  BY DEF CacheInit, BuildRecords, NoBuild
<1>4. BuildsGoOn /\ NamedFilesReach /\ WrittenFilesReach /\ rows \subseteq listed
  BY <1>3, CacheAssumption
     DEF CacheInit, BuildsGoOn, NamedFilesReach, WrittenFilesReach
<1> QED
  BY <1>1, <1>2, <1>3, <1>4 DEF CacheInv, CacheTypes

(* What is kept of an answer are bars that the source has.                 *)
LEMMA KeptAreListed ==
  ASSUME today \in Int, NEW a \in Answers, NEW r \in Ranges
  PROVE  PastBars(a, r) \subseteq listed
  BY DEF PastBars, Bars, Answers, Within

LEMMA CacheSteps ==
  ASSUME AnyEnd = FALSE, CacheInv, [CacheNext]_cacheVars
  PROVE  CacheInv'
<1> USE DEF CacheInv
<1>0. today \in Int /\ manifest.end \in Int /\ build.end \in Int
  BY DEF CacheTypes, ManifestRecords, BuildRecords
<1>1. CASE Tomorrow
  BY <1>0, <1>1 DEF Tomorrow, CacheTypes, BuildsGoOn, NamedFilesReach, WrittenFilesReach
<1>2. ASSUME NEW d \in Days, List(d)
      PROVE  CacheInv'
  <2>1. d \in Int
    BY CacheAssumption DEF Days
  <2> QED
    BY <1>2, <2>1 DEF List, CacheTypes, BuildsGoOn, NamedFilesReach, WrittenFilesReach
<1>3. ASSUME NEW r \in Ranges, GetKline(r)
      PROVE  CacheInv'
  <2>1. PICK answers \in [1 .. Providers -> {PastBars(a, r) : a \in Answers}] : Fetch(r, answers)
    BY <1>3 DEF GetKline
  <2>2. \A i \in 1 .. Providers : answers[i] \subseteq listed
    BY KeptAreListed DEF CacheTypes
  <2>3. rows' \subseteq listed
    BY <2>1, <2>2 DEF Fetch
  <2>4. UNCHANGED <<today, listed, files, manifest, build>>
    BY <2>1 DEF Fetch
  <2> QED
    BY <2>3, <2>4 DEF CacheTypes, BuildsGoOn, NamedFilesReach, WrittenFilesReach
<1>4. CASE ForgetSparse
  BY <1>4 DEF ForgetSparse, CacheTypes, BuildsGoOn, NamedFilesReach, WrittenFilesReach
<1>5. ASSUME NEW periods \in SUBSET Periods, NEW end \in Days, Download(periods, end)
      PROVE  CacheInv'
  <2>1. end \in Int /\ manifest.end <= end /\ end <= today
    BY <1>0, <1>5, CacheAssumption DEF Download, Days
  <2>2. Within(listed, [from |-> 1, to |-> end]) \in SUBSET Int
    BY DEF CacheTypes, Within
  <2>3. build' \in BuildRecords
    BY <1>0, <1>5, <2>1, <2>2 DEF Download, BuildRecords
  <2>4. build'.end = end /\ build'.reach = end /\ build'.left = build'.periods
    BY <1>5, <2>1 DEF Download
  <2>5. UNCHANGED <<today, listed, rows, sparse, files, manifest>>
    BY <1>5 DEF Download
  <2> QED
    BY <1>0, <2>1, <2>3, <2>4, <2>5
       DEF CacheTypes, BuildsGoOn, NamedFilesReach, WrittenFilesReach
<1>6. ASSUME NEW p \in Periods, WriteParquet(p)
      PROVE  CacheInv'
  <2>1. /\ build # NoBuild /\ p \in build.left
        /\ files' = [files EXCEPT ![p] = [days |-> build.days, end |-> build.reach]]
        /\ build' = [build EXCEPT !.left = @ \ {p}]
        /\ UNCHANGED <<today, listed, rows, sparse, manifest>>
    BY <1>6 DEF WriteParquet, NoBuild
  <2>2. /\ build' \in BuildRecords /\ build'.end = build.end /\ build'.reach = build.reach
        /\ build'.periods = build.periods /\ build'.left = build.left \ {p}
        /\ build.reach = build.end /\ build.end \in Int /\ build.days \in SUBSET Int
    BY <2>1 DEF CacheTypes, BuildRecords, BuildsGoOn
  <2>3. files' \in [Periods -> FileRecords]
    BY <2>1, <2>2 DEF CacheTypes, FileRecords
  <2>4. files'[p].end = build.end /\ \A q \in Periods \ {p} : files'[q] = files[q]
    BY <2>1, <2>2 DEF CacheTypes
  <2>5. manifest.periods \subseteq Periods /\ build.periods \subseteq Periods
    BY DEF CacheTypes, ManifestRecords, BuildRecords
  <2>6. BuildsGoOn'
    BY <2>1, <2>2 DEF BuildsGoOn
  <2>7. NamedFilesReach'
    BY <2>1, <2>4, <2>5 DEF NamedFilesReach, BuildsGoOn
  <2>8. WrittenFilesReach'
    BY <2>1, <2>2, <2>4, <2>5 DEF WrittenFilesReach
  <2> QED
    BY <2>1, <2>2, <2>3, <2>6, <2>7, <2>8 DEF CacheTypes
<1>7. CASE WriteManifest
  <2>1. /\ build # NoBuild /\ build.left = {}
        /\ manifest' = [end |-> build.end, periods |-> build.periods]
        /\ build' = NoBuild
        /\ UNCHANGED <<today, listed, rows, sparse, files>>
    BY <1>7 DEF WriteManifest, ManifestIsDue
  <2>2. build' \in BuildRecords
    BY <2>1 DEF NoBuild, BuildRecords
  <2>3. manifest' \in ManifestRecords /\ build.end \in Int
    BY <2>1 DEF CacheTypes, BuildRecords, ManifestRecords
  <2>4. \A p \in manifest'.periods : files'[p].end = manifest'.end
    BY <2>1 DEF WrittenFilesReach
  <2>5. manifest'.end <= today
    BY <2>1 DEF BuildsGoOn
  <2> QED
    BY <2>1, <2>2, <2>3, <2>4, <2>5
       DEF CacheTypes, BuildsGoOn, NamedFilesReach, WrittenFilesReach
<1>8. CASE BuildFails
  <2>1. build' \in BuildRecords /\ build' = NoBuild
    BY <1>8 DEF BuildFails, NoBuild, BuildRecords
  <2> QED
    BY <1>8, <2>1
       DEF BuildFails, CacheTypes, BuildsGoOn, NamedFilesReach, WrittenFilesReach
<1>9. CASE UNCHANGED cacheVars
  BY <1>9 DEF cacheVars, CacheTypes, BuildsGoOn, NamedFilesReach, WrittenFilesReach
<1> QED
  BY <1>1, <1>2, <1>3, <1>4, <1>5, <1>6, <1>7, <1>8, <1>9 DEF CacheNext

(* As long as builds are given ends that neither go back nor lie ahead, a  *)
(* request is never served from a file that ends before the request, and   *)
(* what the database serves are bars the source has: for any calendar, any *)
(* thresholds and any number of providers and periods, wherever a build    *)
(* stops.                                                                  *)
THEOREM FilesAlwaysReach ==
  ASSUME AnyEnd = FALSE
  PROVE  CacheSpec => []FilesReachTheRequest
<1>1. CacheInv => FilesReachTheRequest
  <2> SUFFICES ASSUME CacheInv, NEW p \in manifest.periods, NEW r \in Ranges, UsesParquet(p, r)
               PROVE  r.to <= files[p].end
    BY DEF FilesReachTheRequest, CacheInv
  <2>1. p \in Periods /\ manifest.end \in Int /\ files[p].end \in Int
    BY DEF CacheInv, CacheTypes, ManifestRecords, FileRecords
  <2>2. r.to <= manifest.end /\ r.to \in Int
    BY CacheAssumption DEF UsesParquet, Ranges, Days
  <2>3. manifest.end <= files[p].end
    BY DEF CacheInv, NamedFilesReach
  <2> QED
    BY <2>1, <2>2, <2>3
<1>2. CacheInv /\ [CacheNext]_cacheVars => CacheInv'
  BY CacheSteps
<1> QED
  BY <1>1, <1>2, CacheStarts, CacheAssumption, PTL DEF CacheSpec
===============================================================================
