---------------------------- MODULE LiveScheduler ----------------------------
(***************************************************************************)
(* The paper-trading scheduler of ez/live: deployment records that live in *)
(* DuckDB, engines that live in the process, one asyncio lock around every *)
(* operation on them, a daily tick that trades each engine once, approval  *)
(* requests that run on the web server's worker threads outside that lock, *)
(* and a process that may die between any two writes.                      *)
(*                                                                         *)
(* Covered: deploy, approve, start, pause, resume, stop with and without   *)
(* liquidation, manual and automatic ticks over several markets, the error *)
(* bookkeeping of a failed tick, crash, restart and resume_all.            *)
(*                                                                         *)
(* Abstracted: an account (cash and holdings) is the bag of business days  *)
(* whose trades it contains; entry 0 counts liquidations.  The event log   *)
(* is the account it replays to (module LiveLedger models the replay).     *)
(* Broker gates, callbacks and projections are left to other modules; when *)
(* they raise inside a tick they are the faults "execute" and "after".     *)
(***************************************************************************)
EXTENDS Integers, FiniteSets

CONSTANTS
  Deployments,           \* deployment ids
  Markets,               \* market names
  MarketOf,              \* the market of each deployment's spec
  LastDay,               \* bound: business days are 1..LastDay
  TradingDays,           \* TradingDays[m]: the trading days of market m
  MaxConsecutiveErrors,  \* MAX_CONSECUTIVE_ERRORS
  Approvers,             \* bound: concurrent approval requests per deployment
  MaxCrashes,            \* bound: process deaths
  MaxTrades,             \* bound: how often one day is traded into an account
  Env,                   \* what the environment may do: a subset of EnvEvents
  NoBook, NoDep          \* sentinels: no account, no deployment

(***************************************************************************)
(* Each element allows one kind of trouble, or one kind of request:        *)
(*   build     _start_engine raises                                        *)
(*   execute   something raises before the day's account is saved          *)
(*   save      save_snapshot_with_events raises and is rolled back         *)
(*   after     something raises after that save, within the same try block *)
(*   record    save_error or increment_error_count raises                  *)
(*   detach    the owner detach or the runtime sync of a halt raises       *)
(*   status    update_status raises                                        *)
(*   crash     the process dies                                            *)
(*   liquidate operators stop deployments with liquidate=true              *)
(***************************************************************************)
EnvEvents == {"build", "execute", "save", "after", "record", "detach",
              "status", "crash", "liquidate"}

Days == 1..LastDay
StoreDays == 0..(LastDay + 1)   \* 0: NULL;  LastDay + 1: a host clock ahead

ASSUME ConstantsAssumption ==
  /\ LastDay \in Nat \ {0}
  /\ MarketOf \in [Deployments -> Markets]
  /\ TradingDays \in [Markets -> SUBSET Days]
  /\ MaxConsecutiveErrors \in Nat \ {0}
  /\ Approvers \in Nat \ {0}
  /\ MaxCrashes \in Nat
  /\ MaxTrades \in Nat \ {0}
  /\ Env \subseteq EnvEvents
  /\ NoDep \notin Deployments
  /\ NoBook \notin [0..LastDay -> 0..MaxTrades]

Statuses == {"absent", "pending", "approved", "running", "paused",
             "stopped", "error"}

Liquidation == 0
Books == [0..LastDay -> 0..MaxTrades]
EmptyBook == [x \in 0..LastDay |-> 0]

VARIABLES
  \* deployment_records, deployment_snapshots and deployment_events (durable)
  status,       \* status[d]: the record's status, "absent" before deploy
  lastDate,     \* lastDate[d]: last_processed_date, 0 for NULL
  errors,       \* errors[d]: consecutive_errors
  rows,         \* rows[d][day]: the snapshot row of that date, or NoBook
  ledger,       \* ledger[d]: the account the event log replays to, or NoBook
  \* the process (volatile)
  process,      \* "up", "down" or "resuming" (inside the lifespan handler)
  autoTick,     \* the auto-tick task exists
  engines,      \* DOMAIN of Scheduler._engines
  paused,       \* Scheduler._paused
  book,         \* book[d]: cash and holdings of the engine in memory
  approving,    \* approving[d]: approval requests past their status check
  \* the coroutine that holds Scheduler._lock (volatile)
  stage,        \* what it does next; "idle": the lock is free
  date, batch, todo, cur,
  \* the environment
  today,        \* today[m]: the local date of market m
  crashes

durable == <<status, lastDate, errors, rows, ledger>>
registry == <<process, autoTick, engines, paused, book>>
holder == <<stage, date, batch, todo, cur>>
environment == <<today, crashes>>
vars == <<durable, registry, approving, holder, environment>>

Stages == {"idle", "tick", "after", "record", "count", "escalate",
           "stop", "resume"}

TypeOK ==
  /\ status \in [Deployments -> Statuses]
  /\ lastDate \in [Deployments -> StoreDays]
  /\ errors \in [Deployments -> Nat]
  /\ rows \in [Deployments -> [StoreDays -> Books \cup {NoBook}]]
  /\ ledger \in [Deployments -> Books \cup {NoBook}]
  /\ process \in {"up", "down", "resuming"}
  /\ autoTick \in BOOLEAN
  /\ engines \in SUBSET Deployments
  /\ paused \in SUBSET Deployments
  /\ book \in [Deployments -> Books]
  /\ approving \in [Deployments -> 0..Approvers]
  /\ stage \in Stages
  /\ date \in 0..LastDay
  /\ batch \in SUBSET Deployments
  /\ todo \in SUBSET Deployments
  /\ cur \in Deployments \cup {NoDep}
  /\ today \in [Markets -> Days]
  /\ crashes \in Nat

LockFree == stage = "idle"
Serving == process = "up" /\ LockFree   \* an operation can take the lock

-----------------------------------------------------------------------------
(* Recovery.  The event ledger is authoritative once it holds a snapshot   *)
(* checkpoint; without one the latest snapshot row is restored.            *)

LatestRow(d) ==
  IF \E x \in StoreDays : rows[d][x] # NoBook
  THEN rows[d][CHOOSE x \in StoreDays :
         /\ rows[d][x] # NoBook
         /\ \A y \in StoreDays : rows[d][y] # NoBook => y <= x]
  ELSE NoBook

Recovered(d) ==
  IF ledger[d] # NoBook THEN ledger[d]
  ELSE IF LatestRow(d) # NoBook THEN LatestRow(d) ELSE EmptyBook

Load(d) ==          \* _start_engine succeeds
  /\ engines' = engines \cup {d}
  /\ book' = [book EXCEPT ![d] = Recovered(d)]

Unload(d) ==        \* the engine leaves the registry
  /\ engines' = engines \ {d}
  /\ paused' = paused \ {d}
  /\ book' = [book EXCEPT ![d] = EmptyBook]

ReleaseLock ==
  /\ stage' = "idle"
  /\ date' = 0
  /\ batch' = {}
  /\ todo' = {}
  /\ cur' = NoDep

-----------------------------------------------------------------------------
Init ==
  /\ status = [d \in Deployments |-> "absent"]
  /\ lastDate = [d \in Deployments |-> 0]
  /\ errors = [d \in Deployments |-> 0]
  /\ rows = [d \in Deployments |-> [x \in StoreDays |-> NoBook]]
  /\ ledger = [d \in Deployments |-> NoBook]
  /\ process = "up"
  /\ autoTick = TRUE
  /\ engines = {}
  /\ paused = {}
  /\ book = [d \in Deployments |-> EmptyBook]
  /\ approving = [d \in Deployments |-> 0]
  /\ stage = "idle"
  /\ date = 0
  /\ batch = {}
  /\ todo = {}
  /\ cur = NoDep
  /\ today = [m \in Markets |-> 1]
  /\ crashes = 0

(* Deploy and approve run on worker threads and never take the lock.       *)

Deploy(d) ==
  /\ process = "up"
  /\ status[d] = "absent"
  /\ status' = [status EXCEPT ![d] = "pending"]
  /\ UNCHANGED <<lastDate, errors, rows, ledger, registry, approving, holder,
                 environment>>

(* Mutant: the route forgets to look at the status.                        *)
ApproveCheckAnyStatus(d) ==
  /\ process = "up"
  /\ status[d] # "absent"
  /\ approving[d] < Approvers
  /\ approving' = [approving EXCEPT ![d] = @ + 1]
  /\ UNCHANGED <<durable, registry, holder, environment>>

ApproveCheck(d) ==
  /\ process = "up"
  /\ status[d] = "pending"
  /\ approving[d] < Approvers
  /\ approving' = [approving EXCEPT ![d] = @ + 1]
  /\ UNCHANGED <<durable, registry, holder, environment>>

(* Mutant: the commit is reached without passing the check.                *)
ApproveCommitUnchecked(d, passed) ==
  /\ approving' = [approving EXCEPT ![d] = @ - 1]
  /\ status' = IF passed THEN [status EXCEPT ![d] = "approved"] ELSE status
  /\ UNCHANGED <<lastDate, errors, rows, ledger, registry, holder,
                 environment>>

ApproveCommit(d, passed) ==
  /\ approving[d] > 0
  /\ approving' = [approving EXCEPT ![d] = @ - 1]
  /\ status' = IF passed THEN [status EXCEPT ![d] = "approved"] ELSE status
  /\ UNCHANGED <<lastDate, errors, rows, ledger, registry, holder,
                 environment>>

(* Start, pause and resume hold the lock for their whole body and make at  *)
(* most one write, so each is one step.                                    *)

Start(d) ==
  /\ Serving
  /\ status[d] = "approved"
  /\ Load(d)
  /\ status' = [status EXCEPT ![d] = "running"]
  /\ UNCHANGED <<lastDate, errors, rows, ledger, process, autoTick, paused,
                 approving, holder, environment>>

(* Mutant: the record becomes running before the engine is built.          *)
StartFailsRunning(d) ==
  /\ Env \cap {"build", "status"} # {}
  /\ Serving
  /\ status[d] = "approved"
  /\ status' = [status EXCEPT ![d] = "running"]
  /\ Unload(d)
  /\ UNCHANGED <<lastDate, errors, rows, ledger, process, autoTick, approving,
                 holder, environment>>

(* The engine was attached and is cleaned up again: attaching raised, or   *)
(* the status update did.                                                  *)
StartFails(d) ==
  /\ Env \cap {"build", "status"} # {}
  /\ Serving
  /\ status[d] = "approved"
  /\ Unload(d)
  /\ UNCHANGED <<durable, process, autoTick, approving, holder, environment>>

Pause(d) ==
  /\ Serving
  /\ d \in engines
  /\ status' = [status EXCEPT ![d] = "paused"]
  /\ paused' = paused \cup {d}
  /\ UNCHANGED <<lastDate, errors, rows, ledger, process, autoTick, engines,
                 book, approving, holder, environment>>

(* Mutant: the id stays in Scheduler._paused.                              *)
ResumeStaysPaused(d) ==
  /\ Serving
  /\ status[d] = "paused"
  /\ IF d \in engines THEN UNCHANGED <<engines, book>> ELSE Load(d)
  /\ status' = [status EXCEPT ![d] = "running"]
  /\ UNCHANGED <<lastDate, errors, rows, ledger, process, autoTick, paused,
                 approving, holder, environment>>

Resume(d) ==
  /\ Serving
  /\ status[d] = "paused"
  /\ IF d \in engines THEN UNCHANGED <<engines, book>> ELSE Load(d)
  /\ status' = [status EXCEPT ![d] = "running"]
  /\ paused' = paused \ {d}
  /\ UNCHANGED <<lastDate, errors, rows, ledger, process, autoTick,
                 approving, holder, environment>>

ResumeFails(d) ==
  /\ Env \cap {"build", "status"} # {}
  /\ Serving
  /\ status[d] = "paused"
  /\ d \notin engines
  /\ Unload(d)
  /\ UNCHANGED <<durable, process, autoTick, approving, holder, environment>>

-----------------------------------------------------------------------------
(* Stop.  The liquidation snapshot and the status are two transactions.    *)

StopRequested(d) ==
  /\ Serving
  /\ status[d] \notin {"absent", "stopped", "pending"}
  /\ stage' = "stop"
  /\ cur' = d
  /\ UNCHANGED <<date, batch, todo, status, errors, ledger, process,
                 autoTick, engines, paused, approving, environment>>

(* Not asked to liquidate, no engine, no holdings, or the broker raised.   *)
StopBegin(d) ==
  /\ StopRequested(d)
  /\ UNCHANGED <<lastDate, rows, book>>

(* date.today() of the host: within a day of the market's local date.      *)
HostDays(d) == {today[MarketOf[d]] + k : k \in -1..1} \cap 1..(LastDay + 1)

Liquidated(d) == [book[d] EXCEPT ![Liquidation] = @ + 1]

CanLiquidate(d) ==
  /\ "liquidate" \in Env
  /\ d \in engines
  /\ \E x \in Days : book[d][x] > 0
  /\ book[d][Liquidation] < 1     \* bound: positions are closed once

(* The row and last_processed_date are dated by the host, and the event    *)
(* list of the transaction is empty: the ledger does not move.             *)
StopLiquidate(d) ==
  /\ StopRequested(d)
  /\ CanLiquidate(d)
  /\ book' = [book EXCEPT ![d] = Liquidated(d)]
  /\ \E h \in HostDays(d) :
       /\ rows' = [rows EXCEPT ![d][h] = Liquidated(d)]
       /\ lastDate' = [lastDate EXCEPT ![d] = h]

StopLiquidateUnsaved(d) ==
  /\ "save" \in Env
  /\ StopRequested(d)
  /\ CanLiquidate(d)
  /\ book' = [book EXCEPT ![d] = Liquidated(d)]
  /\ UNCHANGED <<rows, lastDate>>

StopRetire ==
  /\ stage = "stop"
  /\ status' = [status EXCEPT ![cur] = "stopped"]
  /\ Unload(cur)
  /\ ReleaseLock
  /\ UNCHANGED <<lastDate, errors, rows, ledger, process, autoTick, approving,
                 environment>>

StopFails ==
  /\ Env \cap {"detach", "status"} # {}
  /\ stage = "stop"
  /\ ReleaseLock
  /\ UNCHANGED <<durable, registry, approving, environment>>

-----------------------------------------------------------------------------
(* tick(business_date, markets)                                            *)

InScope(M) == {d \in engines : MarketOf[d] \in M}

(* Mutant: no guard against a business date the market has not reached.    *)
TickBeginAnyDate(day, M) ==
  /\ Serving
  /\ InScope(M) # {}
  /\ stage' = "tick"
  /\ date' = day
  /\ batch' = InScope(M)
  /\ todo' = InScope(M)
  /\ UNCHANGED <<durable, registry, approving, cur, environment>>

TickBegin(day, M) ==
  /\ Serving
  /\ InScope(M) # {}
  /\ \A d \in InScope(M) : day <= today[MarketOf[d]]
  /\ stage' = "tick"
  /\ date' = day
  /\ batch' = InScope(M)
  /\ todo' = InScope(M)
  /\ UNCHANGED <<durable, registry, approving, cur, environment>>

ManualTick(day) == TickBegin(day, Markets)

AutoTick(day) ==
  /\ autoTick
  /\ \E d \in engines : today[MarketOf[d]] = day
  /\ TickBegin(day, {m \in Markets : today[m] = day})

(* Mutants: duplicates are not skipped; only the very same date is.        *)
SkipsNoDuplicate(d) ==
  d \in paused \/ date \notin TradingDays[MarketOf[d]]

SkipsSameDateOnly(d) == SkipsNoDuplicate(d) \/ lastDate[d] = date

Skips(d) ==
  \/ d \in paused
  \/ date \notin TradingDays[MarketOf[d]]
  \/ lastDate[d] >= date

TickSkip(d) ==
  /\ stage = "tick"
  /\ d \in todo
  /\ Skips(d)
  /\ todo' = todo \ {d}
  /\ UNCHANGED <<durable, registry, approving, stage, date, batch, cur,
                 environment>>

(* The engine may or may not trade on a day it executes.                   *)
ExecuteDay(d) ==
  \/ UNCHANGED book
  \/ /\ book[d][date] < MaxTrades
     /\ book' = [book EXCEPT ![d][date] = @ + 1]

Executes(d) ==
  /\ stage = "tick"
  /\ d \in todo
  /\ ~Skips(d)
  /\ ExecuteDay(d)
  /\ cur' = d
  /\ UNCHANGED <<status, errors, process, autoTick, engines, paused,
                 approving, date, batch, todo, environment>>

(* Mutant: the account is read before the day is executed.                 *)
TickExecuteStale(d) ==
  /\ Executes(d)
  /\ rows' = [rows EXCEPT ![d][date] = book[d]]
  /\ ledger' = [ledger EXCEPT ![d] = book[d]]
  /\ lastDate' = [lastDate EXCEPT ![d] = date]
  /\ stage' = "after"

(* Events, snapshot row and last_processed_date commit together.           *)
TickExecute(d) ==
  /\ Executes(d)
  /\ rows' = [rows EXCEPT ![d][date] = book'[d]]
  /\ ledger' = [ledger EXCEPT ![d] = book'[d]]
  /\ lastDate' = [lastDate EXCEPT ![d] = date]
  /\ stage' = "after"

(* The transaction rolls back, the engine keeps what it did in memory.     *)
TickExecuteFails(d) ==
  /\ Env \cap {"execute", "save"} # {}
  /\ Executes(d)
  /\ stage' = "record"
  /\ UNCHANGED <<rows, ledger, lastDate>>

(* Mutant: the loop over the batch ends with the first engine.             *)
NextInBatchBreaks ==
  /\ stage' = "tick"
  /\ todo' = {}
  /\ cur' = NoDep
  /\ UNCHANGED <<date, batch>>

NextInBatch ==
  /\ stage' = "tick"
  /\ todo' = todo \ {cur}
  /\ cur' = NoDep
  /\ UNCHANGED <<date, batch>>

TickAfter ==
  /\ stage = "after"
  /\ errors' = [errors EXCEPT ![cur] = 0]
  /\ NextInBatch
  /\ UNCHANGED <<status, lastDate, rows, ledger, registry, approving,
                 environment>>

TickAfterFails ==
  /\ "after" \in Env
  /\ stage = "after"
  /\ stage' = "record"
  /\ UNCHANGED <<durable, registry, approving, date, batch, todo, cur,
                 environment>>

TickRecordError ==
  /\ stage = "record"
  /\ lastDate' = [lastDate EXCEPT ![cur] = date]
  /\ stage' = "count"
  /\ UNCHANGED <<status, errors, rows, ledger, registry, approving, date,
                 batch, todo, cur, environment>>

(* Mutant: one error too many before the engine is removed.                *)
TickCountErrorLate ==
  /\ stage = "count"
  /\ errors' = [errors EXCEPT ![cur] = @ + 1]
  /\ IF errors'[cur] > MaxConsecutiveErrors
     THEN stage' = "escalate" /\ UNCHANGED <<date, batch, todo, cur>>
     ELSE NextInBatch
  /\ UNCHANGED <<status, lastDate, rows, ledger, registry, approving,
                 environment>>

TickCountError ==
  /\ stage = "count"
  /\ errors' = [errors EXCEPT ![cur] = @ + 1]
  /\ IF errors'[cur] >= MaxConsecutiveErrors
     THEN stage' = "escalate" /\ UNCHANGED <<date, batch, todo, cur>>
     ELSE NextInBatch
  /\ UNCHANGED <<status, lastDate, rows, ledger, registry, approving,
                 environment>>

TickEscalate ==
  /\ stage = "escalate"
  /\ status' = [status EXCEPT ![cur] = "error"]
  /\ Unload(cur)
  /\ NextInBatch
  /\ UNCHANGED <<lastDate, errors, rows, ledger, process, autoTick, approving,
                 environment>>

(* The error path is not itself guarded: what raises there ends the tick.  *)
TickAborts ==
  /\ \/ stage \in {"record", "count"} /\ "record" \in Env
     \/ stage = "escalate" /\ Env \cap {"detach", "status"} # {}
  /\ ReleaseLock
  /\ UNCHANGED <<durable, registry, approving, environment>>

(* Mutant: a tick that runs to its end keeps the lock.                     *)
TickEndKeepsLock ==
  /\ stage = "tick"
  /\ todo = {}
  /\ UNCHANGED vars

TickEnd ==
  /\ stage = "tick"
  /\ todo = {}
  /\ ReleaseLock
  /\ UNCHANGED <<durable, registry, approving, environment>>

-----------------------------------------------------------------------------
(* Process death, restart and resume_all                                   *)

Crash ==
  /\ "crash" \in Env
  /\ process # "down"
  /\ crashes < MaxCrashes
  /\ crashes' = crashes + 1
  /\ process' = "down"
  /\ autoTick' = FALSE
  /\ engines' = {}
  /\ paused' = {}
  /\ book' = [d \in Deployments |-> EmptyBook]
  /\ approving' = [d \in Deployments |-> 0]
  /\ ReleaseLock
  /\ UNCHANGED <<durable, today>>

Restart ==
  /\ process = "down"
  /\ process' = "resuming"
  /\ stage' = "resume"
  /\ todo' = {d \in Deployments : status[d] = "running"}
  /\ UNCHANGED <<durable, autoTick, engines, paused, book, approving, date,
                 batch, cur, environment>>

ResumeOne(d) ==
  /\ stage = "resume"
  /\ d \in todo
  /\ Load(d)
  /\ todo' = todo \ {d}
  /\ UNCHANGED <<durable, process, autoTick, paused, approving, stage, date,
                 batch, cur, environment>>

ResumeOneFails(d) ==
  /\ "build" \in Env
  /\ stage = "resume"
  /\ d \in todo
  /\ status' = [status EXCEPT ![d] = "error"]
  /\ todo' = todo \ {d}
  /\ UNCHANGED <<lastDate, errors, rows, ledger, registry, approving, stage,
                 date, batch, cur, environment>>

(* update_status raises while rolling back: resume_all is abandoned, and   *)
(* the lifespan handler serves requests without the auto-tick task.        *)
ResumeAllAborts ==
  /\ {"build", "status"} \subseteq Env
  /\ stage = "resume"
  /\ todo # {}
  /\ process' = "up"
  /\ ReleaseLock
  /\ UNCHANGED <<durable, autoTick, engines, paused, book, approving,
                 environment>>

(* Mutant: the auto-tick task is not started after a restart.              *)
ResumeAllEndsManual ==
  /\ stage = "resume"
  /\ todo = {}
  /\ process' = "up"
  /\ ReleaseLock
  /\ UNCHANGED <<durable, autoTick, engines, paused, book, approving,
                 environment>>

ResumeAllEnds ==
  /\ stage = "resume"
  /\ todo = {}
  /\ process' = "up"
  /\ autoTick' = TRUE
  /\ ReleaseLock
  /\ UNCHANGED <<durable, engines, paused, book, approving, environment>>

-----------------------------------------------------------------------------
(* Local dates advance on their own; markets are never a full day apart.   *)
NewDay(m) ==
  /\ today[m] < LastDay
  /\ \A n \in Markets : today[m] <= today[n]
  /\ today' = [today EXCEPT ![m] = @ + 1]
  /\ UNCHANGED <<durable, registry, approving, holder, crashes>>

Request(d) ==
  \/ Deploy(d)
  \/ ApproveCheck(d)
  \/ ApproveCommit(d, TRUE)
  \/ ApproveCommit(d, FALSE)
  \/ Start(d)
  \/ StartFails(d)
  \/ Pause(d)
  \/ Resume(d)
  \/ ResumeFails(d)
  \/ StopBegin(d)
  \/ StopLiquidate(d)
  \/ StopLiquidateUnsaved(d)

StopStep == StopRetire \/ StopFails

TickStep ==
  \/ \E d \in Deployments : TickSkip(d)
  \/ \E d \in Deployments : TickExecute(d)
  \/ \E d \in Deployments : TickExecuteFails(d)
  \/ TickAfter
  \/ TickAfterFails
  \/ TickRecordError
  \/ TickCountError
  \/ TickEscalate
  \/ TickAborts
  \/ TickEnd

RecoveryStep ==
  \/ Restart
  \/ \E d \in Deployments : ResumeOne(d)
  \/ \E d \in Deployments : ResumeOneFails(d)
  \/ ResumeAllAborts
  \/ ResumeAllEnds

Next ==
  \/ \E d \in Deployments : Request(d)
  \/ \E day \in Days : ManualTick(day)
  \/ \E day \in Days : AutoTick(day)
  \/ StopStep
  \/ TickStep
  \/ RecoveryStep
  \/ Crash
  \/ \E m \in Markets : NewDay(m)

Spec == Init /\ [][Next]_vars

(***************************************************************************)
(* A critical section never awaits anything, so once it holds the lock it  *)
(* runs to its end (weak fairness).  The lock is a FIFO asyncio.Lock and   *)
(* the auto-tick task wakes up for ever, so it gets the lock again and     *)
(* again whatever the operators do (strong fairness).  A supervisor        *)
(* restarts a dead process, and local dates advance.                       *)
(***************************************************************************)
FairSpec ==
  /\ Spec
  /\ WF_vars(StopStep)
  /\ WF_vars(TickStep)
  /\ WF_vars(RecoveryStep)
  /\ \A day \in Days : SF_vars(AutoTick(day))
  /\ \A m \in Markets : WF_vars(NewDay(m))
-----------------------------------------------------------------------------
(* What makes the scheduler correct                                        *)

(* An engine is in memory exactly for deployments whose record says so:    *)
(* running when tick trades it, paused when tick skips it.  Every          *)
(* operation of scheduler.py keeps the registry and the record in step.    *)
EnginesAreLive ==
  /\ paused \subseteq engines
  /\ \A d \in engines :
       status[d] = IF d \in paused THEN "paused" ELSE "running"

(* "Engine init happens BEFORE status update to prevent phantom running":  *)
(* once resume_all has finished, no record is running without an engine.   *)
NoPhantomRunning ==
  process = "up" /\ autoTick =>
    \A d \in Deployments : status[d] = "running" => d \in engines

(* A deployment whose last execution succeeded would restart with exactly  *)
(* the account it has in memory, as long as it was not liquidated.         *)
CleanEngineIsDurable ==
  LockFree =>
    \A d \in engines :
      errors[d] = 0 /\ book[d][Liquidation] = 0 => book[d] = Recovered(d)

(* "Idempotent: per-deployment last_processed_date check skips             *)
(* duplicates": no business day is ever traded twice into an account.      *)
NoDayTradedTwice ==
  \A d \in Deployments : \A x \in Days :
    /\ book[d][x] <= 1
    /\ ledger[d] # NoBook => ledger[d][x] <= 1

(* "Refuse to advance last_processed_date past market-local time": it is   *)
(* never ahead of the market of a deployment that is to be ticked.         *)
ProcessedNotAhead ==
  LockFree =>
    \A d \in engines : lastDate[d] <= today[MarketOf[d]]

(* One failing deployment does not starve the others: when a tick runs to  *)
(* its end, every tradable engine of its batch has its day processed.      *)
TickCoversBatch ==
  stage = "tick" /\ todo = {} =>
    \A d \in batch \cap (engines \ paused) :
      date \in TradingDays[MarketOf[d]] => lastDate[d] >= date

(* "3 consecutive errors -> status error + engine removed".                *)
ErrorsEscalate ==
  LockFree => \A d \in engines : errors[d] < MaxConsecutiveErrors

(* last_processed_date only moves forward.                                 *)
LastDateAdvances ==
  [][\A d \in Deployments : lastDate'[d] >= lastDate[d]]_lastDate

(* "Only pending deployments can be approved" (the approve route's check). *)
ApprovedFromPending ==
  [][\A d \in Deployments :
       status'[d] = "approved" /\ status[d] # "approved"
         => status[d] = "pending"]_status

(* Every trading day that dawns on a running deployment is processed, or   *)
(* the deployment stops running: no lock, failure or crash blocks it.      *)
DaysAreProcessed ==
  \A d \in Deployments : \A x \in TradingDays[MarketOf[d]] :
    (status[d] = "running" /\ today[MarketOf[d]] >= x)
      ~> (status[d] # "running" \/ lastDate[d] >= x)

(* Whoever takes the scheduler lock gives it back.                         *)
LockIsReleased == []<>LockFree
=============================================================================
