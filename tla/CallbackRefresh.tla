---------------------------- MODULE CallbackRefresh ----------------------------
(***************************************************************************)
(* Projection refreshes triggered by broker callbacks.  A callback thread  *)
(* hands the event to the event loop; there it is persisted and a refresh  *)
(* is scheduled: one task per deployment, re-armed by a pending set.  The  *)
(* task pumps the broker state under the scheduler's lock, which ticks,    *)
(* starts and stops take too.  A pump may fail: its flag is gone then, the *)
(* failure is logged, and nothing asks again.  Each action is what runs    *)
(* between two awaits.                                                     *)
(***************************************************************************)
EXTENDS Integers, FiniteSets

CONSTANTS
  Deployments,
  MaxDirty,      \* bound: callbacks per deployment
  Free           \* sentinel: nobody holds the lock

Operator == "operator"
VARIABLES
  engines,     \* deployments with an engine
  inbox,       \* callbacks on their way to the event loop
  pendingSet,  \* _pending_qmt_callback_refreshes
  tasks,       \* _qmt_callback_refresh_tasks: where each task is
  lock,        \* the scheduler's lock
  dirty,       \* deployments with a callback no refresh has read (ghost)
  missed,      \* those whose last pump failed with no other asked for (ghost)
  seen         \* callbacks so far

refreshVars == <<engines, inbox, pendingSet, tasks, lock, dirty, missed, seen>>

Init ==
  /\ engines = {} /\ inbox = [d \in Deployments |-> 0] /\ pendingSet = {}
  /\ tasks = [d \in Deployments |-> "none"]
  /\ lock = Free /\ dirty = {} /\ missed = {}
  /\ seen = [d \in Deployments |-> 0]

(* _handle_qmt_callback_projection_dirty(), on a callback thread.          *)
CallbackArrives(d) ==
  /\ seen[d] < MaxDirty
  /\ seen' = [seen EXCEPT ![d] = @ + 1]
  /\ inbox' = [inbox EXCEPT ![d] = @ + 1]
  /\ UNCHANGED <<engines, pendingSet, tasks, lock, dirty, missed>>

(* Mutant: a callback leaves the work to the task that exists already.     *)
ScheduleUnlessRunning(d) ==
  /\ inbox[d] > 0
  /\ inbox' = [inbox EXCEPT ![d] = @ - 1]
  /\ IF d \in engines
       THEN /\ dirty' = dirty \cup {d} /\ missed' = missed \ {d}
            /\ IF tasks[d] = "none"
                 THEN pendingSet' = pendingSet \cup {d} /\ tasks' = [tasks EXCEPT ![d] = "ready"]
                 ELSE UNCHANGED <<pendingSet, tasks>>
       ELSE UNCHANGED <<pendingSet, dirty, missed, tasks>>
  /\ UNCHANGED <<engines, lock, seen>>

(* _persist_and_schedule_qmt_callback_refresh(), on the event loop.        *)
Schedule(d) ==
  /\ inbox[d] > 0
  /\ inbox' = [inbox EXCEPT ![d] = @ - 1]
  /\ IF d \in engines
       THEN /\ pendingSet' = pendingSet \cup {d}
            /\ dirty' = dirty \cup {d} /\ missed' = missed \ {d}
            /\ tasks' = IF tasks[d] = "none" THEN [tasks EXCEPT ![d] = "ready"] ELSE tasks
       ELSE UNCHANGED <<pendingSet, dirty, missed, tasks>>
  /\ UNCHANGED <<engines, lock, seen>>

(* The end of _run_qmt_callback_projection_refresh(): the finally clause.  *)
Finish(d, pending) ==
  tasks' = [tasks EXCEPT ![d] = IF d \in pending /\ d \in engines THEN "ready" ELSE "none"]

(* From the top of its loop to the wait for the lock.                      *)
TaskTurn(d) ==
  /\ tasks[d] = "ready"
  /\ pendingSet' = pendingSet \ {d}
  /\ IF d \in pendingSet /\ d \in engines
       THEN tasks' = [tasks EXCEPT ![d] = "waiting"]
       ELSE Finish(d, pendingSet')
  /\ UNCHANGED <<engines, inbox, lock, dirty, missed, seen>>

TaskLocks(d) ==
  /\ tasks[d] = "waiting" /\ lock = Free
  /\ lock' = d
  /\ tasks' = [tasks EXCEPT ![d] = "pumping"]
  /\ UNCHANGED <<engines, inbox, pendingSet, dirty, missed, seen>>

(* Mutant: a pump that finds no engine keeps the lock.                     *)
TaskPumpsKeepsLock(d) ==
  /\ tasks[d] = "pumping"
  /\ IF d \in engines
       THEN /\ lock' = Free /\ dirty' = dirty \ {d} /\ missed' = missed \ {d}
            /\ tasks' = [tasks EXCEPT ![d] = "ready"]
       ELSE /\ Finish(d, pendingSet)
            /\ UNCHANGED <<lock, dirty, missed>>
  /\ UNCHANGED <<engines, inbox, pendingSet, seen>>

(* pump_broker_state() that reads the broker; a ValueError when the engine *)
(* is gone ends the task.                                                  *)
TaskPumps(d) ==
  /\ tasks[d] = "pumping"
  /\ lock' = Free
  /\ IF d \in engines
       THEN /\ dirty' = dirty \ {d} /\ missed' = missed \ {d}
            /\ tasks' = [tasks EXCEPT ![d] = "ready"]
       ELSE /\ Finish(d, pendingSet)
            /\ UNCHANGED <<dirty, missed>>
  /\ UNCHANGED <<engines, inbox, pendingSet, seen>>

(* The engine is there and the pump raises: a ValueError (no shadow broker,*)
(* no record) ends the task, anything else is logged and the loop goes on; *)
(* the flag was discarded before and is not set again.                     *)
TaskPumpFails(d) ==
  /\ tasks[d] = "pumping" /\ d \in engines
  /\ lock' = Free
  /\ tasks' = [tasks EXCEPT ![d] = "ready"] \/ Finish(d, pendingSet)
  /\ missed' = IF d \in pendingSet THEN missed ELSE missed \cup {d}
  /\ UNCHANGED <<engines, inbox, pendingSet, dirty, seen>>

(* Starts, stops and ticks of the scheduler, under its lock.  A start      *)
(* synchronises the projection itself.                                     *)
OperatorLocks ==
  /\ lock = Free /\ lock' = Operator
  /\ UNCHANGED <<engines, inbox, pendingSet, tasks, dirty, missed, seen>>

Load(d) ==
  /\ lock = Operator /\ d \notin engines
  /\ engines' = engines \cup {d}
  /\ dirty' = dirty \ {d} /\ missed' = missed \ {d}
  /\ UNCHANGED <<inbox, pendingSet, tasks, lock, seen>>

Unload(d) ==
  /\ lock = Operator /\ d \in engines
  /\ engines' = engines \ {d}
  /\ UNCHANGED <<inbox, pendingSet, tasks, lock, dirty, missed, seen>>

(* A tick of a QMT deployment, or a sync a client asked for, pumps too.    *)
OperatorPumps(d) ==
  /\ lock = Operator /\ d \in engines
  /\ dirty' = dirty \ {d} /\ missed' = missed \ {d}
  /\ UNCHANGED <<engines, inbox, pendingSet, tasks, lock, seen>>

OperatorUnlocks ==
  /\ lock = Operator /\ lock' = Free
  /\ UNCHANGED <<engines, inbox, pendingSet, tasks, dirty, missed, seen>>

Task(d) == TaskTurn(d) \/ TaskLocks(d) \/ TaskPumps(d) \/ TaskPumpFails(d)

Next ==
  \/ OperatorLocks \/ OperatorUnlocks
  \/ \E d \in Deployments :
       \/ CallbackArrives(d) \/ Schedule(d) \/ Task(d)
       \/ Load(d) \/ Unload(d) \/ OperatorPumps(d)

Spec == Init /\ [][Next]_refreshVars

(* The event loop runs what is ready, its lock is fair, and whoever holds  *)
(* it lets it go.                                                          *)
RefreshFairness ==
  /\ WF_refreshVars(OperatorUnlocks)
  /\ \A d \in Deployments :
       /\ WF_refreshVars(Schedule(d)) /\ WF_refreshVars(TaskTurn(d))
       /\ WF_refreshVars(TaskPumps(d) \/ TaskPumpFails(d)) /\ SF_refreshVars(TaskLocks(d))

FairSpec == Spec /\ RefreshFairness

(* A callback of a loaded deployment is refreshed in the end, whatever its *)
(* task was doing when the callback came, or else the last pump asked for  *)
(* it raised.  No callback is lost between a pump, the pending set and the *)
(* end of the task; a failed pump is not repeated (scheduler.py:486), and  *)
(* what it missed waits for the next callback, start or tick.              *)
CallbacksAreRefreshed ==
  \A d \in Deployments :
    d \in dirty ~> (d \notin dirty \/ d \notin engines \/ d \in missed)
=============================================================================
