---------------------------- MODULE ResearchRuns -----------------------------
(***************************************************************************)
(* Research tasks, the batches they run on worker threads, submissions of  *)
(* single experiments, and the store they share: one connection, statement *)
(* by statement, without transactions.  A batch that takes too long is     *)
(* left to itself and goes on writing.                                     *)
(***************************************************************************)
EXTENDS Naturals, Sequences, FiniteSets

CONSTANTS
  Specs,            \* what a run is identified by
  Batches,          \* sequences of specs the model writes in one iteration
  Requests,         \* submissions by the route, one spec each
  Tasks,            \* in the order they may be started
  None,
  MaxIterations, MaxSpecs, MaxCalls, NoImproveLimit,
  Hypotheses,       \* of one iteration
  MaxRuns,          \* bound: runs ever executed
  MaxDeletes        \* bound: runs ever deleted

(* A task is no request, and a budget of no runs at all is out of scope.   *)
ASSUME ResearchAssumption ==
  /\ \A names \in Batches : names \in Seq(Specs)
  /\ Requests \cap Tasks = {}
  /\ MaxSpecs \in Nat \ {0} /\ Hypotheses \in Nat

VARIABLES
  specs,      \* rows of experiment_specs
  runs,       \* rows of experiment_runs
  claims,     \* rows of completed_specs: the run that completed each spec
  thread,     \* the requests and the batches of the tasks
  deletion,   \* a run that is being deleted
  task,       \* research tasks in memory
  record,     \* the status of their rows
  counter,    \* runs executed and deleted so far
  touched     \* history: specs one of whose runs was deleted

storeVars == <<specs, runs, claims>>
researchVars ==
  <<specs, runs, claims, thread, deletion, task, record, counter, touched>>

Threads == Requests \cup Tasks
Idle == [todo |-> <<>>, pc |-> "idle", run |-> 0, ok |-> FALSE, inserted |-> 0]
NoTask ==
  [stage |-> "new", iteration |-> 0, executed |-> 0, calls |-> 0, streak |-> 0,
   cancel |-> FALSE, cancelled |-> FALSE]
NoDeletion == [pc |-> "idle", run |-> 0, spec |-> None]

ResearchInit ==
  /\ specs = {} /\ runs = {}
  /\ claims = [s \in Specs |-> 0]
  /\ thread = [h \in Threads |-> Idle]
  /\ deletion = NoDeletion
  /\ task = [t \in Tasks |-> NoTask]
  /\ record = [t \in Tasks |-> "none"]
  /\ counter = [runs |-> 0, deletes |-> 0]
  /\ touched = {}

Current(h) == Head(thread[h].todo)
RunsOf(s) == {r \in runs : r.spec = s}

(* The thread turns to its next spec; a request has only one.              *)
Onwards(h, inserted) ==
  LET rest == Tail(thread[h].todo) IN
  thread' = [thread EXCEPT
    ![h] = [Idle EXCEPT !.todo = rest, !.inserted = thread[h].inserted + inserted,
                        !.pc = IF rest = <<>> THEN "ended" ELSE "check"]]

At(h, pc) == thread[h].pc = pc /\ UNCHANGED <<deletion, task, record, touched>>

(* submit_experiment()                                                     *)
Submit(h, s) ==
  /\ h \in Requests /\ At(h, "idle")
  /\ thread' = [thread EXCEPT ![h].todo = <<s>>, ![h].pc = "check"]
  /\ UNCHANGED <<storeVars, counter>>

(* A spec that is claimed is skipped, any other is run; the run fails or   *)
(* completes.                                                              *)
CheckDuplicate(h) ==
  /\ At(h, "check") /\ claims[Current(h)] # 0
  /\ Onwards(h, 0)
  /\ UNCHANGED <<storeVars, counter>>

Execute(h, ok) ==
  /\ At(h, "check") /\ claims[Current(h)] = 0 /\ counter.runs < MaxRuns
  /\ counter' = [counter EXCEPT !.runs = @ + 1]
  /\ thread' = [thread EXCEPT ![h].pc = "spec", ![h].run = counter'.runs, ![h].ok = ok]
  /\ UNCHANGED storeVars

(* save_spec()                                                             *)
SaveSpec(h) ==
  /\ At(h, "spec")
  /\ specs' = specs \cup {Current(h)}
  /\ thread' = [thread EXCEPT ![h].pc = IF thread[h].ok THEN "claim" ELSE "save"]
  /\ UNCHANGED <<runs, claims, counter>>

(* Mutant: the claim overwrites the one that is there.                     *)
ClaimAnyway(h) ==
  /\ At(h, "claim")
  /\ claims' = [claims EXCEPT ![Current(h)] = thread[h].run]
  /\ thread' = [thread EXCEPT ![h].pc = "save"]
  /\ UNCHANGED <<specs, runs, counter>>

(* The primary key of completed_specs turns the second run away.           *)
Claim(h) ==
  /\ At(h, "claim")
  /\ IF claims[Current(h)] # 0 THEN Onwards(h, 0) /\ UNCHANGED claims
     ELSE /\ claims' = [claims EXCEPT ![Current(h)] = thread[h].run]
          /\ thread' = [thread EXCEPT ![h].pc = "save"]
  /\ UNCHANGED <<specs, runs, counter>>

(* save_run(): a row needs that of its spec.                               *)
SaveRun(h) ==
  /\ At(h, "save") /\ Current(h) \in specs
  /\ runs' = runs \cup {[run |-> thread[h].run, spec |-> Current(h), ok |-> thread[h].ok]}
  /\ Onwards(h, 1)
  /\ UNCHANGED <<specs, claims, counter>>

(* Any other error of the store, too, takes the claim back and ends the    *)
(* thread.  The deletion of the claim is assumed not to fail in turn.      *)
SaveRunFails(h) ==
  /\ At(h, "save")
  /\ claims' = IF thread[h].ok THEN [claims EXCEPT ![Current(h)] = 0] ELSE claims
  /\ thread' = [thread EXCEPT ![h].todo = <<>>, ![h].pc = "raised"]
  /\ UNCHANGED <<specs, runs, counter>>

(* delete_run(), which cleanup_old_runs() calls as well: the run, the count*)
(* of those that remain, and, when there is none, the claim and the spec.  *)
Deletes(from, to) ==
  /\ deletion.pc = from /\ deletion' = [deletion EXCEPT !.pc = to]
  /\ UNCHANGED <<thread, task, record>>

DeleteBegin(r) ==
  /\ deletion.pc = "idle" /\ counter.deletes < MaxDeletes
  /\ counter' = [counter EXCEPT !.deletes = @ + 1]
  /\ deletion' = [pc |-> "run", run |-> r.run, spec |-> r.spec]
  /\ touched' = touched \cup {r.spec}
  /\ UNCHANGED <<storeVars, thread, task, record>>

DeleteRun ==
  /\ Deletes("run", "count")
  /\ runs' = {r \in runs : r.run # deletion.run}
  /\ UNCHANGED <<specs, claims, counter, touched>>

DeleteCount ==
  /\ Deletes("count", IF RunsOf(deletion.spec) = {} THEN "claim" ELSE "idle")
  /\ UNCHANGED <<storeVars, counter, touched>>

DeleteClaim ==
  /\ Deletes("claim", "spec")
  /\ claims' = [claims EXCEPT ![deletion.spec] = 0]
  /\ UNCHANGED <<specs, runs, counter, touched>>

(* Refused when a run has come in the meantime.                            *)
DeleteSpec ==
  /\ Deletes("spec", "idle")
  /\ specs' = IF RunsOf(deletion.spec) = {} THEN specs \ {deletion.spec} ELSE specs
  /\ UNCHANGED <<runs, claims, counter, touched>>

Running(t) == task[t].stage \notin {"new", "done", "gone"}

(* start_research() under its lock.                                        *)
StartTask(t) ==
  /\ task[t].stage = "new" /\ \A u \in Tasks : ~Running(u)
  /\ task' = [task EXCEPT ![t].stage = "top"]
  /\ record' = [record EXCEPT ![t] = "running"]
  /\ UNCHANGED <<storeVars, thread, deletion, counter, touched>>

CancelTask(t) ==
  /\ Running(t) /\ ~task[t].cancel
  /\ task' = [task EXCEPT ![t].cancel = TRUE]
  /\ UNCHANGED <<storeVars, thread, deletion, record, counter, touched>>

(* LoopController.should_continue()                                        *)
ShouldContinue(t) ==
  /\ ~t.cancelled /\ t.iteration < MaxIterations /\ t.executed < MaxSpecs
  /\ t.calls < MaxCalls /\ (t.streak < NoImproveLimit \/ t.iteration = 0)

Step(t, stage, with) ==
  /\ task[t].stage = stage /\ task' = [task EXCEPT ![t] = with]
  /\ UNCHANGED <<storeVars, deletion, record, counter, touched>>

Checked(t) == [task[t] EXCEPT !.cancelled = @ \/ task[t].cancel]

TurnOfLoop(t) ==
  /\ Step(t, "top", [Checked(t) EXCEPT
       !.stage = IF ShouldContinue(Checked(t)) THEN "code" ELSE "report"])
  /\ UNCHANGED thread

(* Hypotheses and code.  A cancellation is seen between two of them; one   *)
(* that comes during the last is seen after the batch.                     *)
CodeCancelled(t) ==
  /\ task[t].cancel /\ Step(t, "code", [Checked(t) EXCEPT !.stage = "report"])
  /\ UNCHANGED thread

(* Mutant: the batch is not counted before it is run.                      *)
PreviewOmitted(t, names) == task[t]

Preview(t, names) ==
  [task[t] EXCEPT !.executed = @ + Len(names), !.calls = @ + 1 + 2 * Hypotheses]

CodeEnds(t, names) ==
  IF ShouldContinue(Preview(t, names))
  THEN /\ Step(t, "code", [task[t] EXCEPT !.stage = "batch"])
       /\ thread' = [thread EXCEPT
            ![t] = [Idle EXCEPT !.todo = names, !.inserted = thread[t].inserted,
                                !.pc = IF names = <<>> THEN "ended" ELSE "check"]]
  ELSE /\ Step(t, "code", [task[t] EXCEPT !.stage = "report"])
       /\ UNCHANGED thread

BatchEnds(t) ==
  /\ thread[t].pc = "ended"
  /\ Step(t, "batch",
          [Checked(t) EXCEPT !.stage = IF task[t].cancel THEN "report" ELSE "analyze"])
  /\ UNCHANGED thread

BatchTimesOut(t) ==
  /\ thread[t].pc \notin {"ended", "raised"}
  /\ Step(t, "batch", [task[t] EXCEPT !.stage = "report"])
  /\ UNCHANGED thread

(* Analysis and LoopController.update(); passed is whether a run got       *)
(* through the gates.                                                      *)
Update(t, passed) ==
  /\ passed => thread[t].inserted > task[t].executed
  /\ Step(t, "analyze", [task[t] EXCEPT
       !.stage = "top", !.iteration = @ + 1, !.executed = thread[t].inserted,
       !.calls = @ + 2 + 2 * Hypotheses, !.streak = IF passed THEN 0 ELSE @ + 1])
  /\ UNCHANGED thread

Report(t) ==
  /\ task[t].stage = "report"
  /\ task' = [task EXCEPT ![t].stage = "done"]
  /\ record' = [record EXCEPT ![t] = IF task[t].cancelled THEN "cancelled" ELSE "completed"]
  /\ UNCHANGED <<storeVars, thread, deletion, counter, touched>>

(* The model, the data or the store raises, or the batch did.              *)
TaskFails(t) ==
  /\ Running(t) /\ (task[t].stage = "batch" => thread[t].pc = "raised")
  /\ task' = [task EXCEPT ![t].stage = "done"]
  /\ record' = [record EXCEPT ![t] = "failed"]
  /\ UNCHANGED <<storeVars, thread, deletion, counter, touched>>

(* The process dies; tasks and threads are forgotten, the store is not.    *)
(* With no claim left the next start claims the completed runs again.      *)
Restart ==
  /\ thread' = [h \in Threads |->
       IF thread[h].pc = "idle" THEN Idle
       ELSE [Idle EXCEPT !.pc = "ended", !.inserted = thread[h].inserted]]
  /\ deletion' = NoDeletion
  /\ task' = [t \in Tasks |-> IF Running(t) THEN [task[t] EXCEPT !.stage = "gone"] ELSE task[t]]
  /\ claims' \in
       IF \E s \in Specs : claims[s] # 0 THEN {claims}
       ELSE {c \in [Specs -> {r.run : r \in runs} \cup {0}] : \A s \in Specs :
               LET done == {r.run : r \in {x \in RunsOf(s) : x.ok}} IN
               IF done = {} THEN c[s] = 0 ELSE c[s] \in done}
  /\ UNCHANGED <<specs, runs, record, counter, touched>>

ThreadStep(h) ==
  \/ \E s \in Specs : Submit(h, s)
  \/ CheckDuplicate(h) \/ \E ok \in BOOLEAN : Execute(h, ok)
  \/ SaveSpec(h) \/ Claim(h) \/ SaveRun(h) \/ SaveRunFails(h)

TaskStep(t) ==
  \/ StartTask(t) \/ CancelTask(t) \/ TurnOfLoop(t)
  \/ CodeCancelled(t) \/ \E names \in Batches : CodeEnds(t, names)
  \/ BatchEnds(t) \/ BatchTimesOut(t) \/ \E passed \in BOOLEAN : Update(t, passed)
  \/ Report(t) \/ TaskFails(t)

ResearchNext ==
  \/ \E h \in Threads : ThreadStep(h)
  \/ \E t \in Tasks : TaskStep(t)
  \/ \E r \in runs : DeleteBegin(r)
  \/ DeleteRun \/ DeleteCount \/ DeleteClaim \/ DeleteSpec
  \/ Restart

ResearchSpec == ResearchInit /\ [][ResearchNext]_researchVars

(* A spec none of whose runs was deleted has at most one completed run,    *)
(* however many submissions and abandoned batches run it at the same time. *)
CompletedOncePerSpec ==
  \A s \in Specs \ touched : Cardinality({r \in RunsOf(s) : r.ok}) <= 1

(* A task stores fewer runs than its budget, with the batch it abandoned.  *)
BudgetIsKept == \A t \in Tasks : thread[t].inserted < MaxSpecs
==============================================================================
