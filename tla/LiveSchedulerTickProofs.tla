------------------------ MODULE LiveSchedulerTickProofs ------------------------
(***************************************************************************)
(* Theorems about what a tick of LiveScheduler leaves behind: the days it  *)
(* has processed, the errors it has counted and the accounts it has saved; *)
(* and that the scheduler implements TradingJournal.                       *)
(***************************************************************************)
EXTENDS LiveSchedulerRefinement, LiveSchedulerProofs

(* A tick holds the lock; Busy: it is inside the try block of engine cur.  *)
Busy == {"after", "record", "count", "escalate"}
Ticking == Busy \cup {"tick"}

LEMMA DateTypes ==
  ASSUME TypeOK
  PROVE  /\ lastDate \in [Deployments -> Int]
         /\ date \in Int
         /\ today \in [Markets -> Int]
<1>1. StoreDays \subseteq Int /\ 0..LastDay \subseteq Int /\ Days \subseteq Int
  BY ConstantsAssumption DEF StoreDays, Days
<1>2. QED
  BY <1>1 DEF TypeOK

(* While the lock is held, a request can only deploy or approve.           *)
LEMMA RequestUnderLock ==
  ASSUME NEW d \in Deployments, Request(d), stage # "idle"
  PROVE  UNCHANGED <<lastDate, errors, rows, ledger, registry, holder,
                     environment>>
<1>1. ~Serving
  BY DEF Serving, LockFree
<1>2. \/ Deploy(d) \/ ApproveCheck(d)
      \/ ApproveCommit(d, TRUE) \/ ApproveCommit(d, FALSE)
  BY <1>1 DEF Request, Start, StartFails, Pause, Resume, ResumeFails, StopBegin,
              StopLiquidate, StopLiquidateUnsaved, StopRequested
<1>3. QED
  BY <1>2 DEF Deploy, ApproveCheck, ApproveCommit, durable

LEMMA RequestStage ==
  ASSUME NEW d \in Deployments, Request(d), stage = "idle"
  PROVE  stage' \in {"idle", "stop"}
<1>1. CASE StopBegin(d) \/ StopLiquidate(d) \/ StopLiquidateUnsaved(d)
  <2>1. stage' = "stop"
    BY <1>1, Zenon
       DEF StopBegin, StopLiquidate, StopLiquidateUnsaved, StopRequested
  <2>2. QED
    BY <2>1
<1>2. CASE ~(StopBegin(d) \/ StopLiquidate(d) \/ StopLiquidateUnsaved(d))
  BY <1>2 DEF Request, Deploy, ApproveCheck, ApproveCommit, Start, StartFails,
              Pause, Resume, ResumeFails, holder
<1>3. QED
  BY <1>1, <1>2

(* Whatever is not a step of the tick itself either finds the lock taken   *)
(* and leaves its data alone, or happens outside of any tick.              *)
LEMMA OutsideTick ==
  ASSUME RunningInv, [Next]_vars, ~TickStep, ~Crash,
         ~ \E day \in Days : \E M \in SUBSET Markets : TickBegin(day, M)
  PROVE  \/ /\ UNCHANGED <<lastDate, errors, rows, ledger, registry, holder>>
            /\ UNCHANGED today \/ \E m \in Markets : NewDay(m)
         \/ stage \notin Ticking /\ stage' \notin Ticking
<1> DEFINE Goal ==
       \/ /\ UNCHANGED <<lastDate, errors, rows, ledger, registry, holder>>
          /\ UNCHANGED today \/ \E m \in Markets : NewDay(m)
       \/ stage \notin Ticking /\ stage' \notin Ticking
<1>1. ASSUME NEW d \in Deployments, Request(d) PROVE Goal
  <2>1. CASE stage = "idle"
    BY <1>1, <2>1, RequestStage DEF Ticking, Busy
  <2>2. CASE stage # "idle"
    BY <1>1, <2>2, RequestUnderLock DEF environment
  <2>3. QED
    BY <2>1, <2>2
<1>2. CASE StopStep
  BY <1>2 DEF StopStep, StopRetire, StopFails, ReleaseLock, Ticking, Busy
<1>3. CASE RecoveryStep
  <2>1. stage \in {"resume", "idle"} /\ stage' \in {"resume", "idle"}
    <3>1. CASE Restart
      BY <3>1 DEF Restart, RunningInv
    <3>2. ASSUME NEW d \in Deployments, ResumeOne(d) \/ ResumeOneFails(d)
          PROVE  stage = "resume" /\ stage' = stage
      BY <3>2 DEF ResumeOne, ResumeOneFails
    <3>3. CASE ResumeAllAborts \/ ResumeAllEnds
      <4>1. stage = "resume" /\ stage' = "idle"
        BY <3>3, Zenon DEF ResumeAllAborts, ResumeAllEnds, ReleaseLock
      <4>2. QED
        BY <4>1
    <3>4. QED
      BY <1>3, <3>1, <3>2, <3>3 DEF RecoveryStep
  <2>2. QED
    BY <2>1 DEF Ticking, Busy
<1>4. ASSUME NEW m \in Markets, NewDay(m) PROVE Goal
  BY <1>4 DEF NewDay, durable
<1>5. CASE UNCHANGED vars
  BY <1>5 DEF vars, durable, environment
<1>6. ~ \E day \in Days : ManualTick(day) \/ AutoTick(day)
  BY DEF ManualTick, AutoTick
<1>7. QED
  BY <1>1, <1>2, <1>3, <1>4, <1>5, <1>6 DEF Next
-----------------------------------------------------------------------------
(* What a tick owes to an engine of its batch: it is still on the list, or *)
(* has nothing to process, or its day is recorded.                         *)
Covered(d) ==
  \/ d \in todo
  \/ d \in paused
  \/ d \notin engines
  \/ date \notin TradingDays[MarketOf[d]]
  \/ lastDate[d] >= date

CoverInv ==
  /\ stage \in Busy => cur \in todo /\ cur \notin paused
  /\ stage \in Busy \ {"record"} => lastDate[cur] >= date
  /\ stage \in Ticking => date \in Days /\ \A d \in batch : Covered(d)

LEMMA TickStepCovers ==
  ASSUME TypeOK, CoverInv, TickStep
  PROVE  CoverInv'
<1>1. lastDate \in [Deployments -> Int] /\ date \in Int
  BY DateTypes
<1>2. batch \subseteq Deployments /\ todo \subseteq Deployments
  BY DEF TypeOK
<1> USE DEF CoverInv, Covered, Busy, Ticking
<1>3. ASSUME NEW d \in Deployments, TickSkip(d) PROVE CoverInv'
  BY <1>1, <1>2, <1>3 DEF TickSkip, Skips, durable, registry
<1>4. ASSUME NEW d \in Deployments, TickExecute(d) PROVE CoverInv'
  <2>1. /\ stage = "tick" /\ stage' = "after" /\ d \in todo /\ cur' = d
        /\ d \notin paused
        /\ UNCHANGED <<date, batch, todo, engines, paused>>
        /\ lastDate' = [lastDate EXCEPT ![d] = date]
    BY <1>4, Zenon DEF TickExecute, Executes, Skips
  <2>2. lastDate'[d] = date /\ \A e \in Deployments : e # d => lastDate'[e] = lastDate[e]
    BY <1>1, <2>1
  <2>3. \A e \in batch : Covered(e) => Covered(e)'
    BY <1>1, <1>2, <2>1, <2>2
  <2>4. stage = "tick" => \A e \in batch' : Covered(e)'
    BY <2>1, <2>3
  <2>5. cur' \in todo' /\ cur' \notin paused' /\ lastDate'[cur'] >= date'
    BY <1>1, <2>1, <2>2
  <2>6. QED
    BY <2>1, <2>4, <2>5
<1>5. ASSUME NEW d \in Deployments, TickExecuteFails(d) PROVE CoverInv'
  <2>1. /\ stage = "tick" /\ stage' = "record" /\ d \in todo /\ cur' = d
        /\ d \notin paused
        /\ UNCHANGED <<date, batch, todo, engines, paused, lastDate>>
    BY <1>5, Zenon DEF TickExecuteFails, Executes, Skips
  <2>2. QED
    BY <1>1, <1>2, <2>1
<1>6. CASE TickRecordError
  <2>1. /\ stage = "record" /\ stage' = "count"
        /\ UNCHANGED <<date, batch, todo, cur, engines, paused>>
        /\ lastDate' = [lastDate EXCEPT ![cur] = date]
    BY <1>6, Zenon DEF TickRecordError, registry
  <2>2. cur \in Deployments
    BY <1>2, <2>1
  <2>3. lastDate'[cur] = date /\ \A e \in Deployments : e # cur => lastDate'[e] = lastDate[e]
    BY <1>1, <2>1, <2>2
  <2>4. \A e \in batch' : Covered(e)'
    BY <1>1, <1>2, <2>1, <2>2, <2>3
  <2>5. cur' \in todo' /\ cur' \notin paused' /\ lastDate'[cur'] >= date'
    BY <1>1, <2>1, <2>2, <2>3
  <2>6. QED
    BY <2>1, <2>4, <2>5
<1>7. CASE TickAfterFails
  <2>1. /\ stage = "after" /\ stage' = "record"
        /\ UNCHANGED <<date, batch, todo, cur, engines, paused, lastDate>>
    BY <1>7, Zenon DEF TickAfterFails, registry, durable
  <2>2. QED
    BY <2>1
<1>8. CASE TickAfter \/ TickCountError \/ TickEscalate
  <2>1. /\ stage \in Busy \ {"record"}
        /\ UNCHANGED <<date, batch, lastDate>>
        /\ engines' \subseteq engines /\ engines \ {cur} \subseteq engines'
        /\ paused \ {cur} \subseteq paused' /\ paused' \subseteq paused
        /\ \/ stage' = "escalate" /\ UNCHANGED <<todo, cur>>
           \/ stage' = "tick" /\ todo' = todo \ {cur}
    <3>1. CASE TickAfter
      <4>1. /\ stage = "after" /\ NextInBatch
            /\ UNCHANGED <<lastDate, engines, paused>>
        BY <3>1, Zenon DEF TickAfter, registry
      <4>2. QED
        BY <4>1 DEF NextInBatch
    <3>2. CASE TickCountError
      <4>1. /\ stage = "count"
            /\ UNCHANGED <<lastDate, engines, paused>>
            /\ \/ stage' = "escalate" /\ UNCHANGED <<date, batch, todo, cur>>
               \/ NextInBatch
        BY <3>2, Zenon DEF TickCountError, registry
      <4>2. QED
        BY <4>1 DEF NextInBatch
    <3>3. CASE TickEscalate
      <4>1. /\ stage = "escalate" /\ NextInBatch /\ Unload(cur)
            /\ UNCHANGED lastDate
        BY <3>3, Zenon DEF TickEscalate
      <4>2. QED
        BY <4>1 DEF NextInBatch, Unload
    <3>4. QED
      BY <1>8, <3>1, <3>2, <3>3
  <2>2. lastDate[cur] >= date
    BY <2>1
  <2>3. \A d \in batch : d # cur => (Covered(d) => Covered(d)')
    BY <2>1
  <2>4. lastDate'[cur] >= date'
    BY <2>1, <2>2
  <2>5. \A d \in batch : Covered(d)'
    BY <2>1, <2>3, <2>4
  <2>6. QED
    BY <2>1, <2>4, <2>5
<1>9. CASE TickAborts \/ TickEnd
  <2>1. stage' = "idle"
    BY <1>9, Zenon DEF TickAborts, TickEnd, ReleaseLock
  <2>2. QED
    BY <2>1
<1>10. QED
  BY <1>3, <1>4, <1>5, <1>6, <1>7, <1>8, <1>9 DEF TickStep

LEMMA CoverInvariant == Spec => []CoverInv
<1>1. Init => CoverInv
  BY DEF Init, CoverInv, Busy, Ticking
<1>2. TypeOK /\ RunningInv /\ CoverInv /\ [Next]_vars => CoverInv'
  <2> SUFFICES ASSUME TypeOK, RunningInv, CoverInv, [Next]_vars
               PROVE  CoverInv'
    OBVIOUS
  <2>1. CASE TickStep
    BY <2>1, TickStepCovers
  <2>2. ASSUME NEW day \in Days, NEW M \in SUBSET Markets, TickBegin(day, M)
        PROVE  CoverInv'
    BY <2>2 DEF TickBegin, CoverInv, Covered, Busy, Ticking
  <2>3. CASE Crash
    <3>1. stage' = "idle"
      BY <2>3, Zenon DEF Crash, ReleaseLock
    <3>2. QED
      BY <3>1 DEF CoverInv, Busy, Ticking
  <2>4. CASE UNCHANGED <<lastDate, errors, rows, ledger, registry, holder>>
    BY <2>4 DEF CoverInv, Covered, registry, holder
  <2>5. CASE stage' \notin Ticking
    BY <2>5 DEF CoverInv, Ticking
  <2>6. QED
    BY <2>1, <2>2, <2>3, <2>4, <2>5, OutsideTick
<1>3. QED
  BY <1>1, <1>2, TypeCorrect, RunningInvariant, PTL DEF Spec

(* A tick that runs to its end has recorded the day of every tradable      *)
(* engine of its batch, whatever failed on the way: no engine starves      *)
(* another one.                                                            *)
THEOREM TicksCoverTheirBatch == Spec => []TickCoversBatch
<1>1. CoverInv => TickCoversBatch
  BY DEF CoverInv, Covered, Ticking, TickCoversBatch
<1>2. QED
  BY <1>1, CoverInvariant, PTL
-----------------------------------------------------------------------------
(* How a step may change a status: the life of a deployment, as            *)
(* deployment_records goes through it.                                     *)
Lives == { <<"absent", "pending">>, <<"pending", "approved">>,
           <<"approved", "running">>, <<"running", "paused">>,
           <<"paused", "running">>, <<"running", "error">>,
           <<"approved", "stopped">>, <<"running", "stopped">>,
           <<"paused", "stopped">>, <<"error", "stopped">> }

LiveMove(d, to) ==
  /\ status' = [status EXCEPT ![d] = to]
  /\ status[d] = to \/ <<status[d], to>> \in Lives

LEMMA RequestMovesStatus ==
  ASSUME TypeOK, LiveInv, NEW d \in Deployments, Request(d)
  PROVE  (UNCHANGED status) \/ \E to \in Statuses : LiveMove(d, to)
<1> USE DEF TypeOK, Statuses, durable
<1>1. CASE Deploy(d)
  BY <1>1 DEF Deploy, LiveMove, Lives
<1>2. ASSUME NEW passed \in BOOLEAN, ApproveCommit(d, passed)
      PROVE  (UNCHANGED status) \/ \E to \in Statuses : LiveMove(d, to)
  <2>1. status[d] = "pending"
    BY <1>2 DEF ApproveCommit, LiveInv
  <2>2. status' = status \/ status' = [status EXCEPT ![d] = "approved"]
    BY <1>2, Zenon DEF ApproveCommit
  <2>3. QED
    BY <2>1, <2>2 DEF LiveMove, Lives
<1>3. CASE Start(d) \/ Resume(d)
  <2>1. status' = [status EXCEPT ![d] = "running"]
        /\ status[d] \in {"approved", "paused"}
    BY <1>3 DEF Start, Resume
  <2>2. QED
    BY <2>1 DEF LiveMove, Lives
<1>4. CASE Pause(d)
  <2>1. status' = [status EXCEPT ![d] = "paused"] /\ d \in engines
    BY <1>4 DEF Pause
  <2>2. status[d] \in {"running", "paused"}
    BY <2>1 DEF LiveInv, EnginesAreLive
  <2>3. QED
    BY <2>1, <2>2 DEF LiveMove, Lives
<1>5. CASE \/ ApproveCheck(d) \/ StartFails(d) \/ ResumeFails(d)
           \/ StopBegin(d) \/ StopLiquidate(d) \/ StopLiquidateUnsaved(d)
  BY <1>5 DEF ApproveCheck, StartFails, ResumeFails, StopBegin, StopLiquidate,
              StopLiquidateUnsaved, StopRequested
<1>6. QED
  BY <1>1, <1>2, <1>3, <1>4, <1>5 DEF Request

LEMMA StepMovesStatus ==
  ASSUME TypeOK, LiveInv, CoverInv, [Next]_vars
  PROVE  (UNCHANGED status)
         \/ \E d \in Deployments : \E to \in Statuses : LiveMove(d, to)
<1> DEFINE Goal == (UNCHANGED status)
              \/ \E d \in Deployments : \E to \in Statuses : LiveMove(d, to)
<1> USE DEF durable
<1>1. ASSUME NEW d \in Deployments, Request(d) PROVE Goal
  BY <1>1, RequestMovesStatus
<1>2. CASE StopStep
  <2>1. CASE StopRetire
    <3>1. stage = "stop" /\ status' = [status EXCEPT ![cur] = "stopped"]
      BY <2>1, Zenon DEF StopRetire
    <3>2. cur \in Deployments /\ status[cur] \in Statuses \ {"absent", "pending"}
      BY <3>1 DEF LiveInv, TypeOK
    <3>3. LiveMove(cur, "stopped") /\ "stopped" \in Statuses
      BY <3>1, <3>2 DEF LiveMove, Lives, Statuses
    <3>4. QED
      BY <3>2, <3>3
  <2>2. CASE StopFails
    BY <2>2 DEF StopFails
  <2>3. QED
    BY <1>2, <2>1, <2>2 DEF StopStep
<1>3. CASE TickStep
  <2>1. CASE TickEscalate
    <3>1. stage = "escalate" /\ status' = [status EXCEPT ![cur] = "error"]
      BY <2>1, Zenon DEF TickEscalate
    <3>2. cur \in Deployments /\ status[cur] = "running"
      BY <3>1 DEF LiveInv, EnginesAreLive, CoverInv, Busy, TypeOK
    <3>3. LiveMove(cur, "error") /\ "error" \in Statuses
      BY <3>1, <3>2 DEF LiveMove, Lives, Statuses
    <3>4. QED
      BY <3>2, <3>3
  <2>2. CASE ~TickEscalate
    BY <1>3, <2>2, Zenon
       DEF TickStep, TickSkip, TickExecute, TickExecuteFails, Executes,
           TickAfter, TickAfterFails, TickRecordError, TickCountError,
           TickAborts, TickEnd
  <2>3. QED
    BY <2>1, <2>2
<1>4. CASE RecoveryStep
  <2>1. ASSUME NEW d \in Deployments, ResumeOneFails(d) PROVE Goal
    <3>1. status[d] = "running" /\ status' = [status EXCEPT ![d] = "error"]
      BY <2>1 DEF ResumeOneFails, LiveInv
    <3>2. QED
      BY <3>1 DEF LiveMove, Lives, Statuses
  <2>2. CASE ~ \E d \in Deployments : ResumeOneFails(d)
    BY <1>4, <2>2, Zenon
       DEF RecoveryStep, Restart, ResumeOne, ResumeAllAborts, ResumeAllEnds
  <2>3. QED
    BY <2>1, <2>2
<1>5. CASE \/ \E day \in Days : ManualTick(day) \/ AutoTick(day)
           \/ Crash
           \/ \E m \in Markets : NewDay(m)
  BY <1>5, Zenon DEF ManualTick, AutoTick, TickBegin, Crash, NewDay
<1>6. CASE UNCHANGED vars
  BY <1>6 DEF vars
<1>7. QED
  BY <1>1, <1>2, <1>3, <1>4, <1>5, <1>6 DEF Next

(* A deployment that was stopped stays so, and one in error can only be    *)
(* stopped.                                                                *)
LEMMA HaltedStays ==
  ASSUME TypeOK, LiveInv, CoverInv, [Next]_vars, NEW d \in Deployments
  PROVE  /\ status[d] = "stopped" => status'[d] = "stopped"
         /\ status[d] = "error" => status'[d] \in {"error", "stopped"}
<1>1. CASE UNCHANGED status
  BY <1>1
<1>2. ASSUME NEW e \in Deployments, NEW to \in Statuses, LiveMove(e, to)
      PROVE  /\ status[d] = "stopped" => status'[d] = "stopped"
             /\ status[d] = "error" => status'[d] \in {"error", "stopped"}
  BY <1>2 DEF LiveMove, Lives, Statuses, TypeOK
<1>3. QED
  BY <1>1, <1>2, StepMovesStatus
-----------------------------------------------------------------------------
(* Too many errors: the record says so, or the tick is about to say so.    *)
Halted(d) == status[d] \in {"error", "stopped"}

EscalateInv ==
  \A d \in Deployments :
    errors[d] >= MaxConsecutiveErrors =>
      Halted(d) \/ (stage = "escalate" /\ cur = d)

LEMMA TickStepEscalates ==
  ASSUME Env \cap {"detach", "status"} = {}, TypeOK, LiveInv, CoverInv,
         EscalateInv, TickStep
  PROVE  EscalateInv'
<1>1. errors \in [Deployments -> Nat]
  BY DEF TypeOK
<1>2. \A d \in Deployments : Halted(d) => Halted(d)'
  <2>1. [Next]_vars
    BY DEF Next
  <2>2. QED
    BY <2>1, HaltedStays DEF Halted
<1>3. stage \in Busy => cur \in Deployments
  BY DEF CoverInv, TypeOK
<1>4. CASE TickAfter
  <2>1. stage = "after" /\ errors' = [errors EXCEPT ![cur] = 0]
    BY <1>4, Zenon DEF TickAfter
  <2>2. ASSUME NEW d \in Deployments, errors'[d] >= MaxConsecutiveErrors
        PROVE  errors[d] >= MaxConsecutiveErrors
    BY <1>1, <2>1, <2>2, ConstantsAssumption
  <2>3. QED
    BY <1>2, <2>1, <2>2 DEF EscalateInv, Halted
<1>5. CASE TickCountError
  <2>1. /\ stage = "count" /\ errors' = [errors EXCEPT ![cur] = errors[cur] + 1]
        /\ errors'[cur] >= MaxConsecutiveErrors
             => stage' = "escalate" /\ cur' = cur
    BY <1>5, Zenon DEF TickCountError
  <2>2. ASSUME NEW d \in Deployments, errors'[d] >= MaxConsecutiveErrors
        PROVE  Halted(d)' \/ (stage' = "escalate" /\ cur' = d)
    <3>1. CASE d = cur
      BY <2>1, <2>2, <3>1
    <3>2. CASE d # cur
      <4>1. errors[d] >= MaxConsecutiveErrors
        BY <1>1, <2>1, <2>2, <3>2
      <4>2. QED
        BY <1>2, <2>1, <4>1 DEF EscalateInv
    <3>3. QED
      BY <3>1, <3>2
  <2>3. QED
    BY <2>2 DEF EscalateInv
<1>6. CASE TickEscalate
  <2>1. stage = "escalate" /\ status' = [status EXCEPT ![cur] = "error"]
        /\ errors' = errors
    BY <1>6, Zenon DEF TickEscalate
  <2>2. status'[cur] = "error"
    BY <1>3, <2>1 DEF Busy, TypeOK
  <2>3. QED
    BY <1>2, <2>1, <2>2 DEF EscalateInv, Halted
<1>7. CASE ~(TickAfter \/ TickCountError \/ TickEscalate)
  <2>1. stage # "escalate" /\ errors' = errors
    <3>1. CASE TickAborts
      BY <3>1 DEF TickAborts, durable
    <3>2. CASE ~TickAborts
      BY <1>7, <3>2, Zenon
         DEF TickStep, TickSkip, TickExecute, TickExecuteFails, Executes,
             TickAfterFails, TickRecordError, TickEnd, durable
    <3>3. QED
      BY <3>1, <3>2
  <2>2. QED
    BY <1>2, <2>1 DEF EscalateInv
<1>8. QED
  BY <1>4, <1>5, <1>6, <1>7

LEMMA EscalateInvariant ==
  ASSUME Approvers = 1, Env \cap {"detach", "status", "crash"} = {}
  PROVE  Spec => []EscalateInv
<1>1. Init => EscalateInv
  BY ConstantsAssumption DEF Init, EscalateInv
<1>2. TypeOK /\ RunningInv /\ LiveInv /\ CoverInv /\ EscalateInv /\ [Next]_vars
        => EscalateInv'
  <2> SUFFICES ASSUME TypeOK, RunningInv, LiveInv, CoverInv, EscalateInv,
                      [Next]_vars
               PROVE  EscalateInv'
    OBVIOUS
  <2>1. CASE TickStep
    BY <2>1, TickStepEscalates
  <2>2. CASE ~TickStep
    <3>1. \A d \in Deployments : Halted(d) => Halted(d)'
      BY HaltedStays DEF Halted
    <3>2. UNCHANGED errors
      <4>1. ASSUME NEW d \in Deployments, Request(d) PROVE UNCHANGED errors
        BY <4>1 DEF Request, Deploy, ApproveCheck, ApproveCommit, Start,
                    StartFails, Pause, Resume, ResumeFails, StopBegin,
                    StopLiquidate, StopLiquidateUnsaved, StopRequested, durable
      <4>2. CASE StopStep \/ RecoveryStep \/ Crash
                 \/ (\E day \in Days : ManualTick(day) \/ AutoTick(day))
                 \/ (\E m \in Markets : NewDay(m)) \/ UNCHANGED vars
        BY <4>2, Zenon
           DEF StopStep, StopRetire, StopFails, RecoveryStep, Restart,
               ResumeOne, ResumeOneFails, ResumeAllAborts, ResumeAllEnds, Crash,
               ManualTick, AutoTick, TickBegin, NewDay, vars, durable
      <4>3. QED
        BY <2>2, <4>1, <4>2 DEF Next
    <3>3. stage = "escalate" => stage' = "escalate" /\ cur' = cur
      <4>1. ~Crash
        BY DEF Crash
      <4>2. ASSUME NEW day \in Days, NEW M \in SUBSET Markets,
                   TickBegin(day, M)
            PROVE  stage # "escalate"
        BY <4>2 DEF TickBegin, Serving, LockFree
      <4>3. QED
        BY <2>2, <4>1, <4>2, OutsideTick DEF Ticking, Busy, holder
    <3>4. QED
      BY <3>1, <3>2, <3>3 DEF EscalateInv
  <2>3. QED
    BY <2>1, <2>2
<1>3. Spec => []LiveInv
  BY LiveInvariant
<1>4. QED
  BY <1>1, <1>2, <1>3, TypeCorrect, RunningInvariant, CoverInvariant, PTL
     DEF Spec

(* "3 consecutive errors -> status error + engine removed": no engine with *)
(* that many errors outlives the tick that counted the last one, provided  *)
(* the process survives and the halt itself can be recorded.               *)
THEOREM TooManyErrorsHalt ==
  ASSUME Approvers = 1, Env \cap {"detach", "status", "crash"} = {}
  PROVE  Spec => []ErrorsEscalate
<1>1. TypeOK /\ LiveInv /\ EscalateInv => ErrorsEscalate
  <2> SUFFICES ASSUME TypeOK, LiveInv, EscalateInv, LockFree, NEW d \in engines
               PROVE  errors[d] < MaxConsecutiveErrors
    BY DEF ErrorsEscalate
  <2>1. d \in Deployments /\ errors[d] \in Nat /\ ~Halted(d)
    BY DEF TypeOK, LiveInv, EnginesAreLive, Halted
  <2>2. ~(errors[d] >= MaxConsecutiveErrors)
    BY <2>1 DEF EscalateInv, LockFree
  <2>3. QED
    BY <2>1, <2>2, ConstantsAssumption
<1>2. Spec => []LiveInv /\ []EscalateInv
  BY LiveInvariant, EscalateInvariant
<1>3. QED
  BY <1>1, <1>2, TypeCorrect, PTL
-----------------------------------------------------------------------------
(* A liquidation dates its row by the host clock, which may be a day ahead *)
(* of the market; the deployment it closes is on its way to be stopped.    *)
Closed(d) == status[d] = "stopped" \/ (stage = "stop" /\ cur = d)

AheadInv ==
  /\ stage \in Ticking => \A d \in todo : date <= today[MarketOf[d]]
  /\ \A d \in Deployments :
       \/ lastDate[d] <= today[MarketOf[d]]
       \/ "liquidate" \in Env /\ Closed(d)

(* Either nobody liquidates, or a stop that has begun is carried out.      *)
StopsComplete ==
  \/ "liquidate" \notin Env
  \/ Approvers = 1 /\ Env \cap {"detach", "status", "crash"} = {}

LEMMA ClosedStays ==
  ASSUME Env \cap {"detach", "status", "crash"} = {}, TypeOK, RunningInv,
         LiveInv, CoverInv, [Next]_vars, NEW d \in Deployments, Closed(d)
  PROVE  Closed(d)'
<1>1. CASE status[d] = "stopped"
  BY <1>1, HaltedStays DEF Closed
<1>2. CASE stage = "stop" /\ cur = d
  <2>1. CASE StopStep
    <3>1. StopRetire
      BY <2>1 DEF StopStep, StopFails
    <3>2. status' = [status EXCEPT ![cur] = "stopped"]
      BY <3>1, Zenon DEF StopRetire
    <3>3. QED
      BY <1>2, <3>2 DEF Closed, TypeOK
  <2>2. ASSUME NEW e \in Deployments, Request(e) PROVE Closed(d)'
    BY <1>2, <2>2, RequestUnderLock DEF Closed, holder
  <2>3. CASE UNCHANGED vars \/ \E m \in Markets : NewDay(m)
    BY <1>2, <2>3 DEF vars, NewDay, Closed, holder
  <2>4. ~TickStep
    <3>1. stage \notin {"tick", "after", "record", "count", "escalate"}
      BY <1>2
    <3>2. QED
      BY <1>2, <3>1, Zenon
         DEF TickStep, TickSkip, TickExecute, TickExecuteFails, Executes,
             TickAfter, TickAfterFails, TickRecordError, TickCountError,
             TickEscalate, TickAborts, TickEnd
  <2>5. ~RecoveryStep
    BY <1>2 DEF RecoveryStep, Restart, ResumeOne, ResumeOneFails,
                ResumeAllAborts, ResumeAllEnds, RunningInv
  <2>6. ~Crash /\ ~ \E day \in Days : ManualTick(day) \/ AutoTick(day)
    BY <1>2 DEF Crash, ManualTick, AutoTick, TickBegin, Serving, LockFree
  <2>7. QED
    BY <2>1, <2>2, <2>3, <2>4, <2>5, <2>6 DEF Next
<1>3. QED
  BY <1>1, <1>2 DEF Closed

(* What a step does to last_processed_date: only a tick and a liquidation  *)
(* move it.                                                                *)
LEMMA DateMoves ==
  ASSUME TypeOK, [Next]_vars
  PROVE  \/ UNCHANGED lastDate
         \/ \E d \in todo :
              /\ TickExecute(d) /\ stage = "tick"
              /\ lastDate' = [lastDate EXCEPT ![d] = date]
         \/ /\ TickRecordError
            /\ lastDate' = [lastDate EXCEPT ![cur] = date]
         \/ \E d \in Deployments : StopLiquidate(d)
<1> USE DEF durable
<1>1. ASSUME NEW d \in Deployments, Request(d), ~StopLiquidate(d)
      PROVE  UNCHANGED lastDate
  BY <1>1 DEF Request, Deploy, ApproveCheck, ApproveCommit, Start, StartFails,
              Pause, Resume, ResumeFails, StopBegin, StopLiquidateUnsaved
<1>2. CASE StopStep \/ RecoveryStep \/ Crash
           \/ (\E day \in Days : ManualTick(day) \/ AutoTick(day))
           \/ (\E m \in Markets : NewDay(m)) \/ UNCHANGED vars
  BY <1>2, Zenon
     DEF StopStep, StopRetire, StopFails, RecoveryStep, Restart, ResumeOne,
         ResumeOneFails, ResumeAllAborts, ResumeAllEnds, Crash, ManualTick,
         AutoTick, TickBegin, NewDay, vars
<1>3. ASSUME NEW d \in Deployments, TickExecute(d)
      PROVE  /\ stage = "tick" /\ d \in todo
             /\ lastDate' = [lastDate EXCEPT ![d] = date]
  BY <1>3 DEF TickExecute, Executes
<1>4. CASE TickRecordError
  BY <1>4 DEF TickRecordError
<1>5. CASE \/ \E d \in Deployments : TickSkip(d) \/ TickExecuteFails(d)
           \/ TickAfter \/ TickAfterFails \/ TickCountError \/ TickEscalate
           \/ TickAborts \/ TickEnd
  BY <1>5, Zenon
     DEF TickSkip, TickExecuteFails, TickAfter, TickAfterFails, TickCountError,
         TickEscalate, TickAborts, TickEnd
<1>6. QED
  BY <1>1, <1>2, <1>3, <1>4, <1>5 DEF Next, TickStep

(* What a tick still has to do only shrinks while it runs.                 *)
LEMMA TickKeepsDate ==
  ASSUME TickStep
  PROVE  stage' \in Ticking => todo' \subseteq todo /\ date' = date
<1> SUFFICES ASSUME stage' \in Ticking
             PROVE  todo' \subseteq todo /\ date' = date
  OBVIOUS
<1>1. ~TickAborts /\ ~TickEnd
  BY DEF TickAborts, TickEnd, ReleaseLock, Ticking, Busy
<1>2. CASE TickCountError
  BY <1>2, Zenon DEF TickCountError, NextInBatch
<1>3. CASE TickAfter \/ TickEscalate
  BY <1>3, Zenon DEF TickAfter, TickEscalate, NextInBatch
<1>4. CASE TickAfterFails \/ TickRecordError
  BY <1>4, Zenon DEF TickAfterFails, TickRecordError
<1>5. CASE \E d \in Deployments :
             TickSkip(d) \/ TickExecute(d) \/ TickExecuteFails(d)
  BY <1>5, Zenon DEF TickSkip, TickExecute, TickExecuteFails, Executes
<1>6. QED
  BY <1>1, <1>2, <1>3, <1>4, <1>5 DEF TickStep

LEMMA TodayAdvances ==
  ASSUME TypeOK, [Next]_vars, NEW d \in Deployments
  PROVE  /\ today'[MarketOf[d]] >= today[MarketOf[d]]
         /\ today'[MarketOf[d]] \in Int
<1>1. today \in [Markets -> Int] /\ MarketOf[d] \in Markets
  BY DateTypes, ConstantsAssumption
<1>2. ASSUME NEW m \in Markets, NewDay(m)
      PROVE  /\ today'[MarketOf[d]] >= today[MarketOf[d]]
             /\ today'[MarketOf[d]] \in Int
  <2>1. today' = [today EXCEPT ![m] = today[m] + 1]
    BY <1>2 DEF NewDay
  <2>2. QED
    BY <1>1, <2>1
<1>3. CASE ~ \E m \in Markets : NewDay(m)
  <2>1. today' = today
    <3>1. ASSUME NEW e \in Deployments, Request(e) PROVE UNCHANGED today
      BY <3>1 DEF Request, Deploy, ApproveCheck, ApproveCommit, Start,
                  StartFails, Pause, Resume, ResumeFails, StopBegin,
                  StopLiquidate, StopLiquidateUnsaved, StopRequested,
                  environment
    <3>2. CASE TickStep
      <4>1. CASE TickCountError
        BY <4>1, Zenon DEF TickCountError, environment
      <4>2. CASE ~TickCountError
        BY <3>2, <4>2, Zenon
           DEF TickStep, TickSkip, TickExecute, TickExecuteFails, Executes,
               TickAfter, TickAfterFails, TickRecordError, TickEscalate,
               TickAborts, TickEnd, environment
      <4>3. QED
        BY <4>1, <4>2
    <3>3. CASE StopStep \/ RecoveryStep \/ Crash
               \/ (\E day \in Days : ManualTick(day) \/ AutoTick(day))
               \/ UNCHANGED vars
      BY <3>3, Zenon
         DEF StopStep, StopRetire, StopFails, RecoveryStep, Restart, ResumeOne,
             ResumeOneFails, ResumeAllAborts, ResumeAllEnds, Crash, ManualTick,
             AutoTick, TickBegin, vars, environment
    <3>4. QED
      BY <1>3, <3>1, <3>2, <3>3 DEF Next
  <2>2. QED
    BY <1>1, <2>1
<1>4. QED
  BY <1>2, <1>3

LEMMA AheadInvariant ==
  ASSUME StopsComplete
  PROVE  Spec => []AheadInv
<1>1. Init => AheadInv
  <2>1. \A d \in Deployments : MarketOf[d] \in Markets
    BY ConstantsAssumption
  <2>2. QED
    BY <2>1 DEF Init, AheadInv, Ticking, Busy
<1>2. TypeOK /\ RunningInv /\ CoverInv /\ AheadInv /\ [Next]_vars
      /\ ("liquidate" \in Env => LiveInv)
        => AheadInv'
  <2> SUFFICES ASSUME TypeOK, RunningInv, CoverInv, AheadInv, [Next]_vars,
                      "liquidate" \in Env => LiveInv
               PROVE  AheadInv'
    OBVIOUS
  <2>1. /\ lastDate \in [Deployments -> Int] /\ date \in Int
        /\ today \in [Markets -> Int]
        /\ todo \subseteq Deployments
        /\ \A d \in Deployments : MarketOf[d] \in Markets
    BY DateTypes, ConstantsAssumption DEF TypeOK
  <2>2. \A d \in Deployments : /\ today'[MarketOf[d]] >= today[MarketOf[d]]
                               /\ today'[MarketOf[d]] \in Int
    BY TodayAdvances
  <2>3. \A d \in Deployments :
          "liquidate" \in Env /\ Closed(d) => Closed(d)'
    BY ClosedStays DEF StopsComplete
  <2>4. ASSUME NEW d \in todo, stage \in Ticking
        PROVE  date <= today'[MarketOf[d]]
    <3>1. date <= today[MarketOf[d]] /\ today[MarketOf[d]] \in Int
      BY <2>1, <2>4 DEF AheadInv
    <3>2. QED
      BY <2>1, <2>2, <3>1
  <2>5. stage' \in Ticking => \A d \in todo' : date' <= today'[MarketOf[d]]
    <3>1. CASE TickStep
      <4>1. stage \in Ticking
        BY <3>1, Zenon
           DEF TickStep, TickSkip, TickExecute, TickExecuteFails, Executes,
               TickAfter, TickAfterFails, TickRecordError, TickCountError,
               TickEscalate, TickAborts, TickEnd, Ticking, Busy
      <4>2. QED
        BY <2>4, <3>1, <4>1, TickKeepsDate
    <3>2. ASSUME NEW day \in Days, NEW M \in SUBSET Markets, TickBegin(day, M)
          PROVE  \A d \in todo' : date' <= today'[MarketOf[d]]
      BY <3>2 DEF TickBegin, environment
    <3>3. CASE Crash
      <4>1. stage' = "idle"
        BY <3>3, Zenon DEF Crash, ReleaseLock
      <4>2. QED
        BY <4>1 DEF Ticking, Busy
    <3>4. CASE UNCHANGED holder
      BY <2>4, <3>4 DEF holder
    <3>5. QED
      BY <3>1, <3>2, <3>3, <3>4, OutsideTick
  <2>6. ASSUME NEW d \in Deployments
        PROVE  \/ lastDate'[d] <= today'[MarketOf[d]]
               \/ "liquidate" \in Env /\ Closed(d)'
    <3>1. CASE lastDate'[d] = lastDate[d]
      <4>1. CASE lastDate[d] <= today[MarketOf[d]]
        <5>1. today[MarketOf[d]] \in Int
          BY <2>1
        <5>2. QED
          BY <2>1, <2>2, <3>1, <4>1, <5>1
      <4>2. CASE "liquidate" \in Env /\ Closed(d)
        BY <2>3, <4>2
      <4>3. QED
        BY <4>1, <4>2 DEF AheadInv
    <3>2. ASSUME d \in todo, stage \in Ticking, lastDate'[d] = date
          PROVE  lastDate'[d] <= today'[MarketOf[d]]
      BY <2>4, <3>2
    <3>3. ASSUME stage = "tick", NEW e \in todo,
                 lastDate' = [lastDate EXCEPT ![e] = date]
          PROVE  \/ lastDate'[d] = lastDate[d]
                 \/ d \in todo /\ stage \in Ticking /\ lastDate'[d] = date
      BY <2>1, <3>3 DEF Ticking
    <3>4. ASSUME TickRecordError, lastDate' = [lastDate EXCEPT ![cur] = date]
          PROVE  \/ lastDate'[d] = lastDate[d]
                 \/ d \in todo /\ stage \in Ticking /\ lastDate'[d] = date
      <4>1. stage = "record"
        BY <3>4, Zenon DEF TickRecordError
      <4>2. cur \in todo
        BY <4>1 DEF CoverInv, Busy
      <4>3. QED
        BY <2>1, <3>4, <4>1, <4>2 DEF Ticking, Busy
    <3>5. ASSUME NEW e \in Deployments, StopLiquidate(e), lastDate'[d] # lastDate[d]
          PROVE  "liquidate" \in Env /\ Closed(d)'
      <4>1. /\ "liquidate" \in Env
            /\ \E h \in HostDays(e) : lastDate' = [lastDate EXCEPT ![e] = h]
            /\ stage' = "stop" /\ cur' = e
        BY <3>5, Zenon DEF StopLiquidate, CanLiquidate, StopRequested
      <4>2. d = e
        BY <2>1, <3>5, <4>1
      <4>3. QED
        BY <4>1, <4>2 DEF Closed
    <3>6. QED
      BY <3>1, <3>2, <3>3, <3>4, <3>5, DateMoves
  <2>7. QED
    BY <2>5, <2>6 DEF AheadInv
<1>3. "liquidate" \in Env => (Spec => []LiveInv)
  BY LiveInvariant DEF StopsComplete
<1>4. CASE "liquidate" \in Env
  <2>1. TypeOK /\ RunningInv /\ CoverInv /\ AheadInv /\ LiveInv /\ [Next]_vars
          => AheadInv'
    BY <1>2
  <2>2. Spec => []LiveInv
    BY <1>3, <1>4
  <2>3. QED
    BY <1>1, <2>1, <2>2, TypeCorrect, RunningInvariant, CoverInvariant, PTL
       DEF Spec
<1>5. CASE "liquidate" \notin Env
  <2>1. TypeOK /\ RunningInv /\ CoverInv /\ AheadInv /\ [Next]_vars
          => AheadInv'
    BY <1>2, <1>5
  <2>2. QED
    BY <1>1, <2>1, TypeCorrect, RunningInvariant, CoverInvariant, PTL DEF Spec
<1>6. QED
  BY <1>4, <1>5

(* A liquidation dates the record by the clock of the host                 *)
(* (scheduler.py:2019): while the lock is free, a record ahead of its      *)
(* market is that of a stopped deployment, which is not started again.     *)
OnlyTheStoppedAreAhead ==
  LockFree => \A d \in Deployments : lastDate[d] <= today[MarketOf[d]] \/ status[d] = "stopped"

(* "Refuse to advance last_processed_date past market-local time": while   *)
(* the lock is free, no engine has a recorded date its market has not      *)
(* reached, nor has any record but a stopped one.  Assumed is that nobody  *)
(* liquidates or that a stop, once begun, is carried out: a death between  *)
(* the row of a liquidation and its status leaves a running record ahead.  *)
THEOREM DatesStayBehindTheMarket ==
  ASSUME StopsComplete
  PROVE  Spec => [](ProcessedNotAhead /\ OnlyTheStoppedAreAhead)
<1>1. TypeOK /\ AheadInv /\ ("liquidate" \in Env => LiveInv)
        => ProcessedNotAhead /\ OnlyTheStoppedAreAhead
  <2> SUFFICES ASSUME TypeOK, AheadInv, "liquidate" \in Env => LiveInv, LockFree
               PROVE  /\ \A d \in engines : lastDate[d] <= today[MarketOf[d]]
                      /\ \A d \in Deployments :
                           lastDate[d] <= today[MarketOf[d]] \/ status[d] = "stopped"
    BY DEF ProcessedNotAhead, OnlyTheStoppedAreAhead
  <2>1. engines \subseteq Deployments
    BY DEF TypeOK
  <2>2. ASSUME NEW d \in Deployments
        PROVE  lastDate[d] <= today[MarketOf[d]] \/ ("liquidate" \in Env /\ Closed(d))
    BY <2>2 DEF AheadInv
  <2>3. ASSUME NEW d \in engines PROVE "liquidate" \in Env => ~Closed(d)
    BY <2>3 DEF LiveInv, EnginesAreLive, Closed, LockFree
  <2>4. ASSUME NEW d \in Deployments, Closed(d) PROVE status[d] = "stopped"
    BY <2>4 DEF Closed, LockFree
  <2>5. QED
    BY <2>1, <2>2, <2>3, <2>4
<1>2. CASE "liquidate" \in Env
  <2>1. Spec => []LiveInv
    BY <1>2, LiveInvariant DEF StopsComplete
  <2>2. TypeOK /\ AheadInv /\ LiveInv => ProcessedNotAhead /\ OnlyTheStoppedAreAhead
    BY <1>1
  <2>3. QED
    BY <2>1, <2>2, AheadInvariant, TypeCorrect, PTL
<1>3. CASE "liquidate" \notin Env
  <2>1. TypeOK /\ AheadInv => ProcessedNotAhead /\ OnlyTheStoppedAreAhead
    BY <1>1, <1>3
  <2>2. QED
    BY <2>1, AheadInvariant, TypeCorrect, PTL
<1>4. QED
  BY <1>2, <1>3
-----------------------------------------------------------------------------
(* What a restart recovers depends on the rows and the ledger of the       *)
(* deployment alone.                                                       *)
LatestOf(r) ==
  IF \E x \in StoreDays : r[x] # NoBook
  THEN r[CHOOSE x \in StoreDays :
           /\ r[x] # NoBook
           /\ \A y \in StoreDays : r[y] # NoBook => y <= x]
  ELSE NoBook

RecoveredFrom(l, r) ==
  IF l # NoBook THEN l ELSE IF LatestOf(r) # NoBook THEN LatestOf(r)
                            ELSE EmptyBook

LEMMA SameStore ==
  ASSUME NEW d \in Deployments, rows'[d] = rows[d], ledger'[d] = ledger[d]
  PROVE  Recovered(d)' = Recovered(d)
<1>1. Recovered(d) = RecoveredFrom(ledger[d], rows[d])
  BY DEF Recovered, LatestRow, RecoveredFrom, LatestOf
<1>2. Recovered(d)' = RecoveredFrom(ledger'[d], rows'[d])
  BY DEF Recovered, LatestRow, RecoveredFrom, LatestOf
<1>3. QED
  BY <1>1, <1>2

LEMMA SavedIsRecovered ==
  ASSUME NEW d \in Deployments, ledger'[d] \in Books
  PROVE  Recovered(d)' = ledger'[d]
BY ConstantsAssumption DEF Recovered, Books

(* An engine that has no error to its name and was not liquidated; while   *)
(* the failure of an engine is being recorded it does not count as clean.  *)
Clean(d) ==
  /\ errors[d] = 0
  /\ book[d][Liquidation] = 0
  /\ ~(stage \in {"record", "count"} /\ cur = d)

DurableInv ==
  /\ stage = "after" => ledger[cur] = book[cur]
  /\ \A d \in engines : Clean(d) => book[d] = Recovered(d)

(* Steps that leave the accounts of an engine alone.                       *)
LEMMA DurableFrame ==
  ASSUME TypeOK, DurableInv, NEW d \in Deployments,
         d \in engines' => d \in engines,
         rows'[d] = rows[d], ledger'[d] = ledger[d], book'[d] = book[d],
         Clean(d)' => Clean(d)
  PROVE  d \in engines' /\ Clean(d)' => book'[d] = Recovered(d)'
BY SameStore DEF DurableInv

LEMMA RequestKeepsDurable ==
  ASSUME TypeOK, TypeOK', DurableInv, NEW d \in Deployments, Request(d)
  PROVE  DurableInv'
<1>1. CASE stage # "idle"
  <2>1. UNCHANGED <<errors, rows, ledger, registry, holder>>
    BY <1>1, RequestUnderLock
  <2>2. \A e \in Deployments : Recovered(e)' = Recovered(e)
    BY <2>1, SameStore
  <2>3. engines \subseteq Deployments
    BY DEF TypeOK
  <2>4. QED
    BY <2>1, <2>2, <2>3 DEF DurableInv, Clean, registry, holder
<1>2. CASE stage = "idle"
  <2>1. stage' # "after"
    BY <1>2, RequestStage
  <2>2. UNCHANGED errors
    BY DEF Request, Deploy, ApproveCheck, ApproveCommit, Start, StartFails,
           Pause, Resume, ResumeFails, StopBegin, StopLiquidate,
           StopLiquidateUnsaved, StopRequested, durable
  <2>3. \A e \in Deployments : errors'[e] = 0 /\ book'[e][Liquidation] = 0
                                 /\ book'[e] = book[e] => Clean(e)
    BY <1>2, <2>2 DEF Clean
  <2>4. ASSUME NEW e \in Deployments, e # d
        PROVE  e \in engines' /\ Clean(e)' => book'[e] = Recovered(e)'
    <3>1. /\ rows'[e] = rows[e] /\ ledger'[e] = ledger[e]
          /\ book'[e] = book[e] /\ (e \in engines' => e \in engines)
      <4>1. CASE StopLiquidate(d)
        BY <2>4, <4>1 DEF StopLiquidate, StopRequested, TypeOK
      <4>2. CASE StopBegin(d) \/ StopLiquidateUnsaved(d)
        BY <2>4, <4>2
           DEF StopBegin, StopLiquidateUnsaved, StopRequested, TypeOK
      <4>3. CASE ~(StopLiquidate(d) \/ StopBegin(d) \/ StopLiquidateUnsaved(d))
        BY <2>4, <4>3
           DEF Request, Deploy, ApproveCheck, ApproveCommit, Start, StartFails,
               Pause, Resume, ResumeFails, Load, Unload, durable, registry,
               TypeOK
      <4>4. QED
        BY <4>1, <4>2, <4>3
    <3>2. Clean(e)' => Clean(e)
      BY <2>3, <3>1 DEF Clean
    <3>3. QED
      BY <3>1, <3>2, DurableFrame
  <2>5. d \in engines' /\ Clean(d)' => book'[d] = Recovered(d)'
    <3>1. CASE StopLiquidate(d) \/ StopLiquidateUnsaved(d)
      <4>1. book' = [book EXCEPT ![d] = Liquidated(d)]
        BY <3>1, Zenon DEF StopLiquidate, StopLiquidateUnsaved
      <4>2. book[d] \in [0..LastDay -> 0..MaxTrades] /\ 0 \in 0..LastDay
        BY Bounds DEF TypeOK, Books
      <4>3. book'[d][0] = book[d][0] + 1 /\ book[d][0] \in Nat
        BY <4>1, <4>2, ConstantsAssumption DEF Liquidated, Liquidation, TypeOK
      <4>4. book'[d][Liquidation] # 0
        BY <4>3 DEF Liquidation
      <4>5. QED
        BY <4>4 DEF Clean
    <3>2. CASE ~(StopLiquidate(d) \/ StopLiquidateUnsaved(d))
      <4>1. UNCHANGED <<rows, ledger>>
        BY <3>2 DEF Request, Deploy, ApproveCheck, ApproveCommit, Start,
                    StartFails, Pause, Resume, ResumeFails, StopBegin,
                    StopRequested, durable
      <4>2. \/ book'[d] = book[d] /\ (d \in engines' => d \in engines)
            \/ book'[d] = Recovered(d)
            \/ d \notin engines'
        BY <3>2 DEF Request, Deploy, ApproveCheck, ApproveCommit, Start,
                    StartFails, Pause, Resume, ResumeFails, StopBegin,
                    StopRequested, Load, Unload, registry, TypeOK
      <4>3. CASE book'[d] = book[d] /\ (d \in engines' => d \in engines)
        <5>1. Clean(d)' => Clean(d)
          BY <2>3, <4>3 DEF Clean
        <5>2. QED
          BY <4>1, <4>3, <5>1, DurableFrame
      <4>4. CASE book'[d] = Recovered(d)
        BY <4>1, <4>4, SameStore
      <4>5. QED
        BY <4>2, <4>3, <4>4
    <3>3. QED
      BY <3>1, <3>2
  <2>6. engines' \subseteq Deployments
    BY DEF TypeOK
  <2>7. QED
    BY <2>1, <2>4, <2>5, <2>6 DEF DurableInv
<1>3. QED
  BY <1>1, <1>2

LEMMA TickStepKeepsDurable ==
  ASSUME "record" \notin Env, TypeOK, TypeOK', CoverInv, DurableInv, TickStep
  PROVE  DurableInv'
<1>1. /\ engines \subseteq Deployments /\ engines' \subseteq Deployments
      /\ errors \in [Deployments -> Nat]
      /\ stage \in Busy => cur \in Deployments
  BY DEF TypeOK, CoverInv
<1>2. ASSUME NEW d \in Deployments, TickSkip(d) PROVE DurableInv'
  <2>1. UNCHANGED <<errors, rows, ledger, engines, book, stage, cur>>
    BY <1>2 DEF TickSkip, durable, registry
  <2>2. \A e \in Deployments : Recovered(e)' = Recovered(e)
    BY <2>1, SameStore
  <2>3. QED
    BY <1>1, <2>1, <2>2 DEF DurableInv, Clean
<1>3. ASSUME NEW d \in Deployments, Executes(d)
      PROVE  /\ stage = "tick" /\ UNCHANGED <<errors, engines>> /\ cur' = d
             /\ book'[d] \in Books /\ book'[d] # NoBook
             /\ \A e \in Deployments : e # d => book'[e] = book[e]
  <2>1. book' = book \/ book' = [book EXCEPT ![d][date] = @ + 1]
    BY <1>3, Zenon DEF Executes, ExecuteDay
  <2>2. book' \in [Deployments -> Books]
    BY DEF TypeOK
  <2>3. NoBook \notin Books
    BY ConstantsAssumption DEF Books
  <2>4. QED
    BY <1>3, <2>1, <2>2, <2>3 DEF Executes, TypeOK
<1>4. ASSUME NEW d \in Deployments, TickExecute(d) PROVE DurableInv'
  <2>1. /\ rows' = [rows EXCEPT ![d][date] = book'[d]]
        /\ ledger' = [ledger EXCEPT ![d] = book'[d]]
        /\ stage' = "after" /\ Executes(d)
    BY <1>4 DEF TickExecute
  <2>2. ledger'[d] = book'[d]
    BY <2>1 DEF TypeOK
  <2>3. book'[d] = Recovered(d)'
    BY <1>3, <2>1, <2>2, SavedIsRecovered
  <2>4. ASSUME NEW e \in Deployments, e # d
        PROVE  e \in engines' /\ Clean(e)' => book'[e] = Recovered(e)'
    <3>1. /\ rows'[e] = rows[e] /\ ledger'[e] = ledger[e]
          /\ book'[e] = book[e] /\ engines' = engines /\ errors' = errors
          /\ stage = "tick"
      BY <1>3, <2>1, <2>4 DEF TypeOK
    <3>2. Clean(e)' => Clean(e)
      BY <3>1 DEF Clean
    <3>3. QED
      BY <3>1, <3>2, DurableFrame
  <2>5. ledger'[cur'] = book'[cur']
    BY <1>3, <2>1, <2>2
  <2>6. QED
    BY <1>1, <2>3, <2>4, <2>5 DEF DurableInv
<1>5. ASSUME NEW d \in Deployments, TickExecuteFails(d) PROVE DurableInv'
  <2>1. UNCHANGED <<rows, ledger>> /\ stage' = "record" /\ Executes(d)
    BY <1>5 DEF TickExecuteFails
  <2>2. ~Clean(d)'
    BY <1>3, <2>1 DEF Clean
  <2>3. ASSUME NEW e \in Deployments, e # d
        PROVE  e \in engines' /\ Clean(e)' => book'[e] = Recovered(e)'
    <3>1. /\ rows'[e] = rows[e] /\ ledger'[e] = ledger[e]
          /\ book'[e] = book[e] /\ engines' = engines /\ errors' = errors
          /\ stage = "tick"
      BY <1>3, <2>1, <2>3
    <3>2. Clean(e)' => Clean(e)
      BY <3>1 DEF Clean
    <3>3. QED
      BY <3>1, <3>2, DurableFrame
  <2>4. QED
    BY <1>1, <2>1, <2>2, <2>3 DEF DurableInv
<1>6. CASE TickAfter
  <2>1. /\ stage = "after" /\ stage' = "tick"
        /\ errors' = [errors EXCEPT ![cur] = 0]
        /\ UNCHANGED <<rows, ledger, engines, book>>
    BY <1>6, Zenon DEF TickAfter, NextInBatch, registry
  <2>2. \A e \in Deployments : Recovered(e)' = Recovered(e)
    BY <2>1, SameStore
  <2>3. PICK c \in Deployments : c = cur /\ ledger[c] = book[c]
    BY <1>1, <2>1 DEF Busy, DurableInv
  <2>4. book'[c] = Recovered(c)'
    <3>1. ledger'[c] \in Books
      BY <2>1, <2>3 DEF TypeOK
    <3>2. QED
      BY <2>1, <2>3, <3>1, SavedIsRecovered
  <2>5. ASSUME NEW e \in Deployments, e # c
        PROVE  e \in engines' /\ Clean(e)' => book'[e] = Recovered(e)'
    BY <1>1, <2>1, <2>2, <2>3, <2>5 DEF DurableInv, Clean
  <2>6. QED
    BY <1>1, <2>1, <2>4, <2>5 DEF DurableInv
<1>7. CASE TickCountError
  <2>1. /\ stage = "count" /\ errors' = [errors EXCEPT ![cur] = errors[cur] + 1]
        /\ UNCHANGED <<rows, ledger, engines, book>>
        /\ stage' = "escalate" \/ stage' = "tick"
    BY <1>7, Zenon DEF TickCountError, NextInBatch, registry
  <2>2. \A e \in Deployments : Recovered(e)' = Recovered(e)
    BY <2>1, SameStore
  <2>3. PICK c \in Deployments : c = cur
    BY <1>1, <2>1 DEF Busy
  <2>4. ~Clean(c)'
    BY <1>1, <2>1, <2>3 DEF Clean
  <2>5. ASSUME NEW e \in Deployments, e # c
        PROVE  e \in engines' /\ Clean(e)' => book'[e] = Recovered(e)'
    BY <1>1, <2>1, <2>2, <2>3, <2>5 DEF DurableInv, Clean
  <2>6. QED
    BY <1>1, <2>1, <2>4, <2>5 DEF DurableInv
<1>8. CASE TickEscalate
  <2>1. /\ stage = "escalate" /\ stage' = "tick"
        /\ engines' = engines \ {cur}
        /\ book' = [book EXCEPT ![cur] = EmptyBook]
        /\ UNCHANGED <<errors, rows, ledger>>
    BY <1>8, Zenon DEF TickEscalate, Unload, NextInBatch
  <2>2. ASSUME NEW e \in engines'
        PROVE  Clean(e)' => book'[e] = Recovered(e)'
    <3>1. e # cur /\ e \in engines /\ e \in Deployments
      BY <1>1, <2>1
    <3>2. book'[e] = book[e]
      BY <2>1, <3>1 DEF TypeOK
    <3>3. Clean(e)' => Clean(e)
      BY <2>1, <3>2 DEF Clean
    <3>4. QED
      BY <2>1, <3>1, <3>2, <3>3, DurableFrame
  <2>3. QED
    BY <2>1, <2>2 DEF DurableInv
<1>9. CASE TickAfterFails \/ TickRecordError
  <2>1. /\ UNCHANGED <<errors, rows, ledger, engines, book, cur>>
        /\ \/ stage = "after" /\ stage' = "record"
           \/ stage = "record" /\ stage' = "count"
    BY <1>9, Zenon DEF TickAfterFails, TickRecordError, durable, registry
  <2>2. \A e \in Deployments : Recovered(e)' = Recovered(e)
    BY <2>1, SameStore
  <2>3. \A e \in Deployments : Clean(e)' => Clean(e)
    BY <2>1 DEF Clean
  <2>4. QED
    BY <1>1, <2>1, <2>2, <2>3 DEF DurableInv
<1>10. CASE TickAborts \/ TickEnd
  <2>1. /\ UNCHANGED <<errors, rows, ledger, engines, book>>
        /\ stage' = "idle" /\ stage \in {"tick", "escalate"}
    <3>1. CASE TickAborts
      <4>1. /\ \/ stage \in {"record", "count"} /\ "record" \in Env
               \/ stage = "escalate"
            /\ stage' = "idle" /\ UNCHANGED <<durable, registry>>
        BY <3>1, Zenon DEF TickAborts, ReleaseLock
      <4>2. QED
        BY <4>1 DEF durable, registry
    <3>2. CASE TickEnd
      BY <3>2, Zenon DEF TickEnd, ReleaseLock, durable, registry
    <3>3. QED
      BY <1>10, <3>1, <3>2
  <2>2. \A e \in Deployments : Recovered(e)' = Recovered(e)
    BY <2>1, SameStore
  <2>3. \A e \in Deployments : Clean(e)' => Clean(e)
    BY <2>1 DEF Clean
  <2>4. QED
    BY <1>1, <2>1, <2>2, <2>3 DEF DurableInv
<1>11. QED
  BY <1>2, <1>4, <1>5, <1>6, <1>7, <1>8, <1>9, <1>10 DEF TickStep

LEMMA OtherStepsKeepDurable ==
  ASSUME TypeOK, TypeOK', RunningInv, DurableInv, [Next]_vars, ~TickStep,
         \A d \in Deployments : ~Request(d)
  PROVE  DurableInv'
<1>1. engines \subseteq Deployments /\ engines' \subseteq Deployments
  BY DEF TypeOK
<1>2. CASE UNCHANGED vars \/ \E m \in Markets : NewDay(m)
  <2>1. UNCHANGED <<errors, rows, ledger, engines, book, stage, cur>>
    BY <1>2 DEF NewDay, vars, durable, registry, holder
  <2>2. \A e \in Deployments : Recovered(e)' = Recovered(e)
    BY <2>1, SameStore
  <2>3. QED
    BY <1>1, <2>1, <2>2 DEF DurableInv, Clean
<1>3. CASE \E day \in Days : ManualTick(day) \/ AutoTick(day)
  <2>1. /\ UNCHANGED <<errors, rows, ledger, engines, book>>
        /\ stage = "idle" /\ stage' = "tick"
    BY <1>3 DEF ManualTick, AutoTick, TickBegin, Serving, LockFree, durable,
                registry
  <2>2. \A e \in Deployments : Recovered(e)' = Recovered(e)
    BY <2>1, SameStore
  <2>3. \A e \in Deployments : Clean(e)' => Clean(e)
    BY <2>1 DEF Clean
  <2>4. QED
    BY <1>1, <2>1, <2>2, <2>3 DEF DurableInv
<1>4. CASE StopStep
  <2>1. /\ UNCHANGED <<errors, rows, ledger>>
        /\ stage = "stop" /\ stage' = "idle"
        /\ \/ UNCHANGED <<engines, book>>
           \/ /\ engines' = engines \ {cur}
              /\ book' = [book EXCEPT ![cur] = EmptyBook]
    BY <1>4 DEF StopStep, StopRetire, StopFails, Unload, ReleaseLock, durable,
                registry
  <2>2. ASSUME NEW e \in engines'
        PROVE  Clean(e)' => book'[e] = Recovered(e)'
    <3>1. e \in engines /\ e \in Deployments /\ book'[e] = book[e]
      BY <1>1, <2>1 DEF TypeOK
    <3>2. Clean(e)' => Clean(e)
      BY <2>1, <3>1 DEF Clean
    <3>3. QED
      BY <2>1, <3>1, <3>2, DurableFrame
  <2>3. QED
    BY <2>1, <2>2 DEF DurableInv
<1>5. CASE RecoveryStep
  <2>1. /\ UNCHANGED <<errors, rows, ledger>>
        /\ stage \in {"resume", "idle"} /\ stage' \in {"resume", "idle"}
        /\ \/ UNCHANGED <<engines, book>>
           \/ \E d \in Deployments :
                /\ engines' = engines \cup {d}
                /\ book' = [book EXCEPT ![d] = Recovered(d)]
    <3>1. CASE Restart
      BY <3>1 DEF Restart, RunningInv, durable
    <3>2. ASSUME NEW d \in Deployments, ResumeOne(d)
          PROVE  /\ UNCHANGED <<errors, rows, ledger>>
                 /\ stage = "resume" /\ stage' = "resume"
                 /\ engines' = engines \cup {d}
                 /\ book' = [book EXCEPT ![d] = Recovered(d)]
      BY <3>2 DEF ResumeOne, Load, durable
    <3>3. ASSUME NEW d \in Deployments, ResumeOneFails(d)
          PROVE  /\ UNCHANGED <<errors, rows, ledger, engines, book>>
                 /\ stage = "resume" /\ stage' = "resume"
      BY <3>3 DEF ResumeOneFails, registry
    <3>4. CASE ResumeAllAborts \/ ResumeAllEnds
      <4>1. /\ UNCHANGED <<errors, rows, ledger, engines, book>>
            /\ stage = "resume" /\ stage' = "idle"
        BY <3>4, Zenon DEF ResumeAllAborts, ResumeAllEnds, ReleaseLock, durable
      <4>2. QED
        BY <4>1
    <3>5. QED
      BY <1>5, <3>1, <3>2, <3>3, <3>4 DEF RecoveryStep
  <2>2. ASSUME NEW e \in engines'
        PROVE  Clean(e)' => book'[e] = Recovered(e)'
    <3>1. e \in Deployments /\ Recovered(e)' = Recovered(e)
      BY <1>1, <2>1, SameStore
    <3>2. book'[e] = Recovered(e) \/ (e \in engines /\ book'[e] = book[e])
      BY <2>1, <3>1 DEF TypeOK
    <3>3. book'[e] = book[e] => (Clean(e)' => Clean(e))
      BY <2>1 DEF Clean
    <3>4. QED
      BY <3>1, <3>2, <3>3 DEF DurableInv
  <2>3. QED
    BY <2>1, <2>2 DEF DurableInv
<1>6. CASE Crash
  <2>1. engines' = {} /\ stage' = "idle"
    BY <1>6, Zenon DEF Crash, ReleaseLock
  <2>2. QED
    BY <2>1 DEF DurableInv
<1>7. QED
  BY <1>2, <1>3, <1>4, <1>5, <1>6 DEF Next

LEMMA DurableInvariant ==
  ASSUME "record" \notin Env
  PROVE  Spec => []DurableInv
<1>1. Init => DurableInv
  BY DEF Init, DurableInv
<1>2. TypeOK /\ TypeOK' /\ RunningInv /\ CoverInv /\ DurableInv /\ [Next]_vars
        => DurableInv'
  BY RequestKeepsDurable, TickStepKeepsDurable, OtherStepsKeepDurable
<1>3. QED
  BY <1>1, <1>2, TypeCorrect, RunningInvariant, CoverInvariant, PTL DEF Spec

(* An engine whose last execution succeeded, and that was not liquidated,  *)
(* holds exactly the account a restart would give it, as long as failed    *)
(* executions get recorded: the error counter tells which accounts in      *)
(* memory may be ahead of the store.                                       *)
THEOREM CleanEnginesAreDurable ==
  ASSUME "record" \notin Env
  PROVE  Spec => []CleanEngineIsDurable
<1>1. DurableInv => CleanEngineIsDurable
  BY DEF DurableInv, Clean, CleanEngineIsDurable, LockFree
<1>2. QED
  BY <1>1, DurableInvariant, PTL

-----------------------------------------------------------------------------
(* The refinement: every initial state maps to an initial state of         *)
(* TradingJournal, and every step to a step of the journal or a stutter.   *)

(* What is in memory is never behind what is stored.                       *)
MemoryInv ==
  \A d \in engines : \A x \in Days : Recovered(d)[x] <= book[d][x]

LEMMA BookEntries ==
  ASSUME NEW b \in Books, NEW x \in Days
  PROVE  b[x] \in Nat
BY ConstantsAssumption DEF Books, Days

(* Steps that store nothing: an account in memory is dropped, restored or  *)
(* grows.                                                                  *)
LEMMA MemoryUnsaved ==
  ASSUME TypeOK, TypeOK', MemoryInv, UNCHANGED <<rows, ledger>>,
         \A d \in engines' :
           \/ book'[d] = Recovered(d)
           \/ d \in engines /\ \A x \in Days : book[d][x] <= book'[d][x]
  PROVE  MemoryInv'
<1> SUFFICES ASSUME NEW d \in engines', NEW x \in Days
             PROVE  Recovered(d)'[x] <= book'[d][x]
  BY DEF MemoryInv
<1>1. d \in Deployments /\ Recovered(d)' = Recovered(d)
  BY SameStore DEF TypeOK
<1>2. /\ Recovered(d)[x] \in Nat /\ book[d][x] \in Nat /\ book'[d][x] \in Nat
  BY <1>1, RecoveredType, BookEntries DEF TypeOK
<1>3. QED
  BY <1>1, <1>2 DEF MemoryInv

LEMMA ExecutedGrows ==
  ASSUME TypeOK, TypeOK', NEW d \in Deployments, Executes(d)
  PROVE  \A e \in Deployments : \A x \in Days : book[e][x] <= book'[e][x]
<1> SUFFICES ASSUME NEW e \in Deployments, NEW x \in Days
             PROVE  book[e][x] <= book'[e][x]
  OBVIOUS
<1>1. /\ book[e] \in [0..LastDay -> 0..MaxTrades] /\ x \in 0..LastDay
      /\ book[e][x] \in Nat
  BY Bounds, BookEntries DEF TypeOK, Books
<1>2. book' = book \/ book' = [book EXCEPT ![d][date] = @ + 1]
  BY Zenon DEF Executes, ExecuteDay
<1>3. CASE book' = book
  BY <1>1, <1>3
<1>4. CASE book' = [book EXCEPT ![d][date] = @ + 1]
  <2>1. CASE e = d /\ x = date
    <3>1. book'[e][x] = book[e][x] + 1
      BY <1>1, <1>4, <2>1 DEF TypeOK
    <3>2. QED
      BY <1>1, <3>1
  <2>2. CASE ~(e = d /\ x = date)
    <3>1. book'[e][x] = book[e][x]
      BY <1>1, <1>4, <2>2 DEF TypeOK
    <3>2. QED
      BY <1>1, <3>1
  <2>3. QED
    BY <2>1, <2>2
<1>5. QED
  BY <1>2, <1>3, <1>4

(* Only a saved tick stores an account, when nothing is liquidated.        *)
LEMMA UnsavedUnlessExecuted ==
  ASSUME "liquidate" \notin Env, TypeOK, RunningInv, [Next]_vars,
         \A d \in Deployments : ~TickExecute(d)
  PROVE  /\ UNCHANGED <<rows, ledger>>
         /\ \/ UNCHANGED <<engines, book>>
            \/ \E d \in Deployments :
                 /\ engines' = engines \cup {d}
                 /\ book' = [book EXCEPT ![d] = Recovered(d)]
            \/ \E d \in Deployments :
                 /\ engines' = engines \ {d}
                 /\ book' = [book EXCEPT ![d] = EmptyBook]
            \/ engines' = {}
            \/ engines' = engines /\ \E d \in Deployments : Executes(d)
<1> DEFINE Goal ==
       /\ UNCHANGED <<rows, ledger>>
       /\ \/ UNCHANGED <<engines, book>>
          \/ \E d \in Deployments :
               /\ engines' = engines \cup {d}
               /\ book' = [book EXCEPT ![d] = Recovered(d)]
          \/ \E d \in Deployments :
               /\ engines' = engines \ {d}
               /\ book' = [book EXCEPT ![d] = EmptyBook]
          \/ engines' = {}
          \/ engines' = engines /\ \E d \in Deployments : Executes(d)
<1>1. ASSUME NEW d \in Deployments, Request(d) PROVE Goal
  <2>1. ~StopLiquidate(d) /\ ~StopLiquidateUnsaved(d)
    BY DEF StopLiquidate, StopLiquidateUnsaved, CanLiquidate
  <2>2. QED
    BY <1>1, <2>1
       DEF Request, Deploy, ApproveCheck, ApproveCommit, Start, StartFails,
           Pause, Resume, ResumeFails, StopBegin, StopRequested, Load, Unload,
           durable, registry
<1>2. CASE StopStep
  <2>1. CASE StopRetire
    <3>1. /\ UNCHANGED <<rows, ledger>>
          /\ engines' = engines \ {cur}
          /\ book' = [book EXCEPT ![cur] = EmptyBook]
      BY <2>1, Zenon DEF StopRetire, Unload
    <3>2. cur \notin Deployments => UNCHANGED <<engines, book>>
      BY <3>1 DEF TypeOK
    <3>3. QED
      BY <3>1, <3>2
  <2>2. CASE StopFails
    BY <2>2, Zenon DEF StopFails, durable, registry
  <2>3. QED
    BY <1>2, <2>1, <2>2 DEF StopStep
<1>3. CASE TickStep
  <2>1. CASE TickEscalate
    <3>1. /\ UNCHANGED <<rows, ledger>>
          /\ engines' = engines \ {cur}
          /\ book' = [book EXCEPT ![cur] = EmptyBook]
      BY <2>1, Zenon DEF TickEscalate, Unload
    <3>2. cur \notin Deployments => UNCHANGED <<engines, book>>
      BY <3>1 DEF TypeOK
    <3>3. QED
      BY <3>1, <3>2
  <2>2. ASSUME NEW d \in Deployments, TickExecuteFails(d) PROVE Goal
    <3>1. UNCHANGED <<rows, ledger, engines>> /\ Executes(d)
      BY <2>2, Zenon DEF TickExecuteFails, Executes
    <3>2. QED
      BY <3>1, Zenon
  <2>3. CASE TickCountError
    BY <2>3, Zenon DEF TickCountError, registry
  <2>4. CASE \/ \E d \in Deployments : TickSkip(d)
             \/ TickAfter \/ TickAfterFails \/ TickRecordError \/ TickAborts
             \/ TickEnd
    BY <2>4, Zenon DEF TickSkip, TickAfter, TickAfterFails, TickRecordError,
                       TickAborts, TickEnd, durable, registry
  <2>5. QED
    BY <1>3, <2>1, <2>2, <2>3, <2>4 DEF TickStep
<1>4. CASE RecoveryStep
  <2>1. ASSUME NEW d \in Deployments, ResumeOne(d) PROVE Goal
    BY <2>1 DEF ResumeOne, Load, durable
  <2>2. CASE \/ \E d \in Deployments : ResumeOneFails(d)
             \/ Restart \/ ResumeAllAborts \/ ResumeAllEnds
    BY <2>2, Zenon DEF ResumeOneFails, Restart, ResumeAllAborts, ResumeAllEnds,
                       durable, registry
  <2>3. QED
    BY <1>4, <2>1, <2>2 DEF RecoveryStep
<1>5. CASE Crash
  BY <1>5, Zenon DEF Crash, durable
<1>6. CASE \/ \E day \in Days : ManualTick(day) \/ AutoTick(day)
           \/ \E m \in Markets : NewDay(m)
           \/ UNCHANGED vars
  BY <1>6, Zenon DEF ManualTick, AutoTick, TickBegin, NewDay, vars, durable,
                     registry
<1>7. QED
  BY <1>1, <1>2, <1>3, <1>4, <1>5, <1>6 DEF Next

(* A saved tick: the ledger of the engine becomes its account.             *)
LEMMA ExecutedIsRecovered ==
  ASSUME TypeOK, TypeOK', NEW d \in Deployments, TickExecute(d)
  PROVE  /\ Recovered(d)' = book'[d]
         /\ \A e \in Deployments : e # d => Recovered(e)' = Recovered(e)
         /\ lastDate' = [lastDate EXCEPT ![d] = date]
         /\ UNCHANGED status /\ engines' = engines
         /\ d \in todo /\ stage = "tick" /\ ~Skips(d) /\ Executes(d)
         /\ stage' = "after"
<1>1. /\ rows' = [rows EXCEPT ![d][date] = book'[d]]
      /\ ledger' = [ledger EXCEPT ![d] = book'[d]]
      /\ lastDate' = [lastDate EXCEPT ![d] = date]
      /\ UNCHANGED status /\ engines' = engines
      /\ d \in todo /\ stage = "tick" /\ ~Skips(d) /\ Executes(d)
      /\ stage' = "after"
  BY DEF TickExecute, Executes
<1>2. ledger'[d] = book'[d] /\ ledger'[d] \in Books
  BY <1>1 DEF TypeOK
<1>3. Recovered(d)' = book'[d]
  BY <1>2, SavedIsRecovered
<1>4. ASSUME NEW e \in Deployments, e # d PROVE Recovered(e)' = Recovered(e)
  <2>1. rows'[e] = rows[e] /\ ledger'[e] = ledger[e]
    BY <1>1, <1>4 DEF TypeOK
  <2>2. QED
    BY <2>1, SameStore
<1>5. QED
  BY <1>1, <1>3, <1>4

LEMMA MemoryInvariant ==
  ASSUME "liquidate" \notin Env
  PROVE  Spec => []MemoryInv
<1>1. Init => MemoryInv
  BY DEF Init, MemoryInv
<1>2. TypeOK /\ TypeOK' /\ RunningInv /\ MemoryInv /\ [Next]_vars => MemoryInv'
  <2> SUFFICES ASSUME TypeOK, TypeOK', RunningInv, MemoryInv, [Next]_vars
               PROVE  MemoryInv'
    OBVIOUS
  <2>0. engines \subseteq Deployments /\ engines' \subseteq Deployments
        /\ \A d \in Deployments : \A x \in Days : book[d][x] \in Nat
    BY BookEntries DEF TypeOK
  <2>1. ASSUME NEW d \in Deployments, TickExecute(d) PROVE MemoryInv'
    <3>1. /\ Recovered(d)' = book'[d]
          /\ \A e \in Deployments : e # d => Recovered(e)' = Recovered(e)
          /\ engines' = engines /\ Executes(d)
      BY <2>1, ExecutedIsRecovered
    <3>2. ASSUME NEW e \in engines', NEW x \in Days
          PROVE  Recovered(e)'[x] <= book'[e][x]
      <4>1. e \in Deployments /\ e \in engines
        BY <2>0, <3>1
      <4>2. /\ Recovered(e)[x] \in Nat /\ book[e][x] \in Nat
            /\ book'[e][x] \in Nat
        BY <4>1, RecoveredType, BookEntries DEF TypeOK
      <4>3. Recovered(e)[x] <= book[e][x] /\ book[e][x] <= book'[e][x]
        BY <3>1, <4>1, ExecutedGrows DEF MemoryInv
      <4>4. QED
        BY <3>1, <4>1, <4>2, <4>3
    <3>3. QED
      BY <3>2 DEF MemoryInv
  <2>2. CASE \A d \in Deployments : ~TickExecute(d)
    <3>1. /\ UNCHANGED <<rows, ledger>>
          /\ \/ UNCHANGED <<engines, book>>
             \/ \E d \in Deployments :
                  /\ engines' = engines \cup {d}
                  /\ book' = [book EXCEPT ![d] = Recovered(d)]
             \/ \E d \in Deployments :
                  /\ engines' = engines \ {d}
                  /\ book' = [book EXCEPT ![d] = EmptyBook]
             \/ engines' = {}
             \/ engines' = engines /\ \E d \in Deployments : Executes(d)
      BY <2>2, UnsavedUnlessExecuted
    <3>2. ASSUME NEW e \in engines'
          PROVE  \/ book'[e] = Recovered(e)
                 \/ e \in engines /\ \A x \in Days : book[e][x] <= book'[e][x]
      <4>1. CASE engines' = engines /\ \E d \in Deployments : Executes(d)
        BY <2>0, <4>1, ExecutedGrows
      <4>2. CASE UNCHANGED <<engines, book>>
        BY <2>0, <4>2
      <4>3. ASSUME NEW d \in Deployments, engines' = engines \cup {d},
                   book' = [book EXCEPT ![d] = Recovered(d)]
            PROVE  \/ book'[e] = Recovered(e)
                   \/ e \in engines /\ book'[e] = book[e]
        BY <2>0, <4>3 DEF TypeOK
      <4>4. ASSUME NEW d \in Deployments, engines' = engines \ {d},
                   book' = [book EXCEPT ![d] = EmptyBook]
            PROVE  e \in engines /\ book'[e] = book[e]
        BY <2>0, <4>4 DEF TypeOK
      <4>5. QED
        BY <2>0, <3>1, <4>1, <4>2, <4>3, <4>4
    <3>3. QED
      BY <3>1, <3>2, MemoryUnsaved
  <2>3. QED
    BY <2>1, <2>2
<1>3. QED
  BY <1>1, <1>2, TypeCorrect, RunningInvariant, PTL DEF Spec
-----------------------------------------------------------------------------
(* The journal of the mapping.                                             *)
journal == [d \in Deployments |-> Traded(d)]

LEMMA OnceEntries ==
  ASSUME NEW b \in Books, NEW n \in Int, OnceUpTo(b, n), NEW x \in Days
  PROVE  b[x] \in 0..1 /\ (x > n => b[x] = 0)
<1>1. b[x] \in Nat /\ x \in Int
  BY BookEntries DEF Days
<1>2. QED
  BY <1>1 DEF OnceUpTo

(* A stored account holds each day at most once, and none after the        *)
(* recorded date.                                                          *)
LEMMA TradedOnce ==
  ASSUME TypeOK, TradeInv, NEW d \in Deployments
  PROVE  /\ Traded(d) \in [Days -> 0..1]
         /\ \A x \in Days : x > lastDate[d] => Traded(d)[x] = 0
<1>1. OnceUpTo(Recovered(d), lastDate[d]) /\ lastDate[d] \in Int
  BY RecoveredOnce, ReachType DEF TradeInv
<1>2. \A x \in Days : /\ Recovered(d)[x] \in 0..1
                      /\ x > lastDate[d] => Recovered(d)[x] = 0
  BY <1>1, RecoveredType, OnceEntries
<1>3. QED
  BY <1>2 DEF Traded

LEMMA SameJournal ==
  ASSUME \A d \in Deployments : Recovered(d)' = Recovered(d)
  PROVE  journal' = journal
BY DEF journal, Traded

(* Steps that record no date move at most one status.                      *)
LEMMA UndatedStepMoves ==
  ASSUME TypeOK, LiveInv, CoverInv, [Next]_vars, UNCHANGED lastDate,
         journal' = journal
  PROVE  [Journal!Next]_<<status, lastDate, journal>>
<1>1. CASE UNCHANGED status
  BY <1>1
<1>2. ASSUME NEW d \in Deployments, NEW to \in Statuses, LiveMove(d, to)
      PROVE  [Journal!Next]_<<status, lastDate, journal>>
  <2>1. CASE status[d] = to
    <3>1. status' = status
      BY <1>2, <2>1 DEF LiveMove, TypeOK
    <3>2. QED
      BY <3>1
  <2>2. CASE <<status[d], to>> \in Lives
    <3>1. <<status[d], to>> \in Journal!Moves /\ to \in Journal!Phases
      BY <2>2 DEF Lives, Journal!Moves, Journal!Phases, Statuses
    <3>2. Journal!Move(d, to)
      BY <1>2, <3>1 DEF LiveMove, Journal!Move, journal
    <3>3. QED
      BY <3>1, <3>2 DEF Journal!Next
  <2>3. QED
    BY <1>2, <2>1, <2>2 DEF LiveMove
<1>3. QED
  BY <1>1, <1>2, StepMovesStatus

(* A saved tick settles its date with the account it saved.                *)
LEMMA ExecuteSettles ==
  ASSUME TypeOK, TypeOK', LiveInv, TradeInv, TradeInv', MemoryInv,
         NEW d \in Deployments, TickExecute(d)
  PROVE  Journal!Next
<1>1. /\ Recovered(d)' = book'[d]
      /\ \A e \in Deployments : e # d => Recovered(e)' = Recovered(e)
      /\ lastDate' = [lastDate EXCEPT ![d] = date]
      /\ UNCHANGED status /\ engines' = engines
      /\ d \in todo /\ stage = "tick" /\ ~Skips(d) /\ Executes(d)
      /\ stage' = "after"
  BY ExecutedIsRecovered
<1>2. d \in engines /\ status[d] = "running"
  BY <1>1 DEF LiveInv, EnginesAreLive, Skips
<1>3. date \in Days /\ date > lastDate[d] /\ date \in Int /\ lastDate[d] \in Int
  <2>1. TradingDays[MarketOf[d]] \subseteq Days
    BY ConstantsAssumption
  <2>2. date \in Int /\ lastDate[d] \in Int
    BY DateTypes
  <2>3. QED
    BY <1>1, <2>1, <2>2 DEF Skips
<1> DEFINE J == Traded(d)'
<1>4. J \in [Days -> 0..1] /\ \A x \in Days : x > date => J[x] = 0
  <2>1. lastDate'[d] = date
    BY <1>1 DEF TypeOK
  <2>2. OnceUpTo(book'[d], date) /\ book'[d] \in Books
    BY <1>1, <2>1 DEF TradeInv, InMemory, Reach, OnceUpTo, TypeOK
  <2>3. \A x \in Days : book'[d][x] \in 0..1 /\ (x > date => book'[d][x] = 0)
    BY <1>3, <2>2, OnceEntries
  <2>4. J = [x \in Days |-> book'[d][x]]
    BY <1>1 DEF Traded
  <2>5. QED
    BY <2>3, <2>4
<1>5. ASSUME NEW x \in Days
      PROVE  IF x <= date THEN J[x] >= journal[d][x] ELSE J[x] = journal[d][x]
  <2>1. journal[d][x] = Recovered(d)[x] /\ J[x] = book'[d][x]
    BY <1>1 DEF journal, Traded
  <2>2. CASE x <= date
    <3>1. /\ Recovered(d)[x] \in Nat /\ book[d][x] \in Nat
          /\ book'[d][x] \in Nat
      BY RecoveredType, BookEntries DEF TypeOK
    <3>2. Recovered(d)[x] <= book[d][x] /\ book[d][x] <= book'[d][x]
      BY <1>1, <1>2, ExecutedGrows DEF MemoryInv
    <3>3. QED
      BY <2>1, <2>2, <3>1, <3>2
  <2>3. CASE ~(x <= date)
    <3>1. x \in Int
      BY DEF Days
    <3>2. Traded(d)[x] = 0 /\ J[x] = 0
      BY <1>3, <1>4, <2>3, <3>1, TradedOnce
    <3>3. QED
      BY <2>3, <3>2 DEF journal
  <2>4. QED
    BY <2>2, <2>3
<1>6. journal' = [journal EXCEPT ![d] = J]
  <2>1. \A e \in Deployments : e # d => Traded(e)' = Traded(e)
    BY <1>1 DEF Traded
  <2>2. journal' = [e \in Deployments |-> Traded(e)']
    BY DEF journal
  <2> HIDE DEF J
  <2>3. QED
    BY <2>1, <2>2 DEF journal, J
<1>7. Journal!Settle(d, date)
  <2> HIDE DEF J
  <2>1. \E K \in [Days -> 0..1] :
          /\ \A x \in Days :
               IF x <= date THEN K[x] >= journal[d][x] ELSE K[x] = journal[d][x]
          /\ journal' = [journal EXCEPT ![d] = K]
    BY <1>4, <1>5, <1>6
  <2>2. QED
    BY <1>1, <1>2, <1>3, <2>1 DEF Journal!Settle, Journal!Days, Days, journal
<1>8. QED
  BY <1>3, <1>7 DEF Journal!Next, Journal!Days, Days

(* A recorded failure settles its date with the journal as it is, unless   *)
(* the date was saved before something else raised.                        *)
LEMMA RecordSettles ==
  ASSUME TypeOK, LiveInv, CoverInv, DateInv, TradeInv, TickRecordError
  PROVE  [Journal!Next]_<<status, lastDate, journal>>
<1>1. /\ stage = "record" /\ lastDate' = [lastDate EXCEPT ![cur] = date]
      /\ UNCHANGED <<status, rows, ledger>>
  BY Zenon DEF TickRecordError
<1>2. \A e \in Deployments : Recovered(e)' = Recovered(e)
  BY <1>1, SameStore
<1>3. journal' = journal
  BY <1>2, SameJournal
<1>4. PICK c \in Deployments :
        /\ c = cur /\ status[c] = "running" /\ lastDate[c] <= date
        /\ date \in Days /\ date \in Int /\ lastDate[c] \in Nat
  <2>1. cur \in engines /\ cur \notin paused /\ lastDate[cur] <= date
        /\ engines \subseteq Deployments
    BY <1>1 DEF LiveInv, CoverInv, DateInv, Busy, TypeOK
  <2>2. status[cur] = "running"
    BY <2>1 DEF LiveInv, EnginesAreLive
  <2>3. date \in Days /\ date \in Int
    BY <1>1, DateTypes DEF CoverInv, Ticking, Busy
  <2>4. lastDate[cur] \in Nat
    BY <2>1, ConstantsAssumption DEF TypeOK, StoreDays
  <2>5. QED
    BY <2>1, <2>2, <2>3, <2>4
<1>5. CASE lastDate[c] = date
  <2>1. lastDate' = lastDate
    BY <1>1, <1>4, <1>5 DEF TypeOK
  <2>2. QED
    BY <1>1, <1>3, <2>1
<1>6. CASE lastDate[c] # date
  <2>1. date > lastDate[c]
    BY <1>4, <1>6
  <2>2. /\ Traded(c) \in [Days -> 0..1] /\ journal[c] = Traded(c)
        /\ \A x \in Days : Traded(c)[x] \in Int
    BY TradedOnce DEF journal
  <2>3. journal' = [journal EXCEPT ![c] = Traded(c)]
    BY <1>3, <2>2 DEF journal
  <2>4. \A x \in Days :
          IF x <= date THEN Traded(c)[x] >= journal[c][x]
                       ELSE Traded(c)[x] = journal[c][x]
    BY <2>2
  <2>5. \E J \in [Days -> 0..1] :
          /\ \A x \in Days :
               IF x <= date THEN J[x] >= journal[c][x] ELSE J[x] = journal[c][x]
          /\ journal' = [journal EXCEPT ![c] = J]
    BY <2>2, <2>3, <2>4
  <2>6. Journal!Settle(c, date)
    BY <1>1, <1>4, <2>1, <2>5 DEF Journal!Settle, Journal!Days, Days, journal
  <2>7. QED
    BY <1>4, <2>6 DEF Journal!Next, Journal!Days, Days
<1>7. QED
  BY <1>5, <1>6

LEMMA StepRefines ==
  ASSUME Env \cap {"record", "liquidate"} = {}, TypeOK, TypeOK', RunningInv,
         LiveInv, CoverInv, DateInv, TradeInv, TradeInv', MemoryInv,
         [Next]_vars
  PROVE  [Journal!Next]_<<status, lastDate, journal>>
<1>1. CASE \E d \in Deployments : TickExecute(d)
  BY <1>1, ExecuteSettles
<1>2. CASE TickRecordError
  BY <1>2, RecordSettles
<1>3. CASE ~TickRecordError /\ \A d \in Deployments : ~TickExecute(d)
  <2>1. UNCHANGED <<rows, ledger>>
    BY <1>3, UnsavedUnlessExecuted
  <2>2. journal' = journal
    BY <2>1, SameStore, SameJournal
  <2>3. UNCHANGED lastDate
    <3>1. \A d \in Deployments : ~StopLiquidate(d)
      BY DEF StopLiquidate, CanLiquidate
    <3>2. todo \subseteq Deployments
      BY DEF TypeOK
    <3>3. QED
      BY <1>3, <3>1, <3>2, DateMoves
  <2>4. QED
    BY <2>2, <2>3, UndatedStepMoves
<1>4. QED
  BY <1>1, <1>2, <1>3

(* The durable state of the scheduler moves as the trading journal does:   *)
(* through every interleaving of requests and ticks, every failed          *)
(* transaction, crash and restart, a deployment lives the life the journal *)
(* allows, each business day enters its account at most once and in order, *)
(* and nothing is taken back.                                              *)
THEOREM SchedulerImplementsJournal ==
  ASSUME Approvers = 1, Env \cap {"record", "liquidate"} = {}
  PROVE  Spec => JournalSpec
<1>1. Init => Journal!Init
  <2> SUFFICES ASSUME Init PROVE Journal!Init
    OBVIOUS
  <2>1. ASSUME NEW d \in Deployments PROVE Traded(d) = [x \in Days |-> 0]
    <3>1. ledger[d] = NoBook /\ \A x \in StoreDays : rows[d][x] = NoBook
      BY DEF Init
    <3>2. Recovered(d) = EmptyBook
      BY <3>1 DEF Recovered, LatestRow
    <3>3. \A x \in Days : EmptyBook[x] = 0
      BY ConstantsAssumption DEF EmptyBook, Days
    <3>4. QED
      BY <3>2, <3>3 DEF Traded
  <2>2. QED
    BY <2>1 DEF Init, Journal!Init, Journal!Days, Days
<1>2. TypeOK /\ TypeOK' /\ RunningInv /\ LiveInv /\ CoverInv /\ DateInv
      /\ TradeInv /\ TradeInv' /\ MemoryInv /\ [Next]_vars
        => [Journal!Next]_<<status, lastDate, journal>>
  BY StepRefines
<1>3. Spec => []LiveInv /\ []DateInv /\ []TradeInv /\ []MemoryInv
  BY LiveInvariant, DateInvariant, TradeInvariant, MemoryInvariant
<1>4. QED
  BY <1>1, <1>2, <1>3, TypeCorrect, RunningInvariant, CoverInvariant, PTL
     DEF Spec, JournalSpec, Journal!Spec, journal
=============================================================================
