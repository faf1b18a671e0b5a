------------------------- MODULE LiveSchedulerProofs -------------------------
(***************************************************************************)
(* Theorems about LiveScheduler, for any number of deployments, markets,   *)
(* days, crashes and errors.                                               *)
(***************************************************************************)
EXTENDS LiveScheduler, WellFoundedInduction, TLAPS

(* A set of naturals with an upper bound has a greatest element.           *)
LEMMA GreatestExists ==
  ASSUME NEW n \in Nat, NEW T \in SUBSET (0..n), T # {}
  PROVE  \E m \in T : \A k \in T : k <= m
<1> DEFINE U == {n - k : k \in T}
           Less == OpToRel(<, Nat)
<1>1. U \subseteq Nat /\ U # {}
  <2>1. PICK k \in T : TRUE
    OBVIOUS
  <2>2. n - k \in U
    BY <2>1
  <2>3. \A i \in T : n - i \in Nat
    OBVIOUS
  <2>4. QED
    BY <2>2, <2>3
<1>2. \A x, y \in Nat : y < x => <<y, x>> \in Less
  BY DEF OpToRel
<1>3. PICK x \in U : \A y \in U : ~(<<y, x>> \in Less)
  <2>1. IsWellFoundedOn(Less, Nat)
    BY NatLessThanWellFounded
  <2> HIDE DEF U, Less
  <2>2. QED
    BY <1>1, <2>1, WFMin
<1>4. \A y \in U : x <= y
  <2> HIDE DEF Less, U
  <2> SUFFICES ASSUME NEW y \in U PROVE ~(y < x)
    BY <1>1
  <2>1. x \in Nat /\ y \in Nat
    BY <1>1
  <2>2. y < x => <<y, x>> \in Less
    BY <1>2, <2>1, Zenon
  <2>3. QED
    BY <1>3, <2>2, Zenon
<1>5. PICK m \in T : x = n - m
  BY <1>3
<1>6. \A k \in T : n - m <= n - k
  BY <1>4, <1>5
<1>7. QED
  BY <1>5, <1>6

(* What is restored is the latest row when there is one.                   *)
LEMMA LatestRowIsARow ==
  ASSUME TypeOK, NEW d \in Deployments
  PROVE  LatestRow(d) = NoBook \/ \E x \in StoreDays : LatestRow(d) = rows[d][x]
<1> SUFFICES ASSUME \E x \in StoreDays : rows[d][x] # NoBook
             PROVE  \E x \in StoreDays : LatestRow(d) = rows[d][x]
  BY DEF LatestRow
<1> DEFINE T == {x \in StoreDays : rows[d][x] # NoBook}
<1>1. \E m \in T : \A k \in T : k <= m
  <2>1. T \in SUBSET (0..(LastDay + 1)) /\ T # {} /\ LastDay + 1 \in Nat
    BY ConstantsAssumption DEF StoreDays
  <2>2. QED
    BY <2>1, GreatestExists
<1>2. \E x \in StoreDays : /\ rows[d][x] # NoBook
                           /\ \A y \in StoreDays : rows[d][y] # NoBook => y <= x
  BY <1>1
<1>3. QED
  BY <1>2 DEF LatestRow

LEMMA RecoveredType ==
  ASSUME TypeOK, NEW d \in Deployments
  PROVE  /\ Recovered(d) \in Books
         /\ EmptyBook \in Books
<1>1. EmptyBook \in Books
  BY ConstantsAssumption DEF EmptyBook, Books
<1>2. LatestRow(d) \in Books \cup {NoBook}
  BY LatestRowIsARow DEF TypeOK
<1>3. QED
  BY <1>1, <1>2 DEF Recovered, TypeOK

(* The sets and sums the steps take values from.                           *)
LEMMA Bounds ==
  /\ 0 \in 0..LastDay /\ Days \subseteq 0..LastDay /\ Days \subseteq StoreDays
  /\ 0 \in StoreDays
  /\ 1 \in Days
  /\ 0 \in 0..Approvers
BY ConstantsAssumption DEF Days, StoreDays
-----------------------------------------------------------------------------
LEMMA RequestKeepsType ==
  ASSUME TypeOK, NEW d \in Deployments, Request(d)
  PROVE  TypeOK'
<1> USE DEF durable, registry, holder, environment
<1>1. CASE Deploy(d)
  BY <1>1 DEF TypeOK, Deploy, Statuses
<1>2. CASE ApproveCheck(d)
  BY <1>2, ConstantsAssumption DEF TypeOK, ApproveCheck
<1>3. ASSUME NEW passed \in BOOLEAN, ApproveCommit(d, passed) PROVE TypeOK'
  BY <1>3, ConstantsAssumption DEF TypeOK, ApproveCommit, Statuses
<1>4. CASE Start(d)
  BY <1>4, RecoveredType DEF TypeOK, Start, Load, Statuses
<1>5. CASE StartFails(d)
  BY <1>5, RecoveredType DEF TypeOK, StartFails, Unload
<1>6. CASE Pause(d)
  BY <1>6 DEF TypeOK, Pause, Statuses
<1>7. CASE Resume(d)
  BY <1>7, RecoveredType DEF TypeOK, Resume, Load, Statuses
<1>8. CASE ResumeFails(d)
  BY <1>8, RecoveredType DEF TypeOK, ResumeFails, Unload
<1>9. CASE StopBegin(d)
  BY <1>9 DEF TypeOK, StopBegin, StopRequested, Stages
<1>10. CanLiquidate(d) => Liquidated(d) \in Books
  <2> SUFFICES ASSUME CanLiquidate(d) PROVE Liquidated(d) \in Books
    OBVIOUS
  <2>1. book[d] \in Books /\ book[d][Liquidation] + 1 \in 0..MaxTrades
    <3>1. book[d] \in [0..LastDay -> 0..MaxTrades] /\ 0 \in 0..LastDay
      BY Bounds DEF TypeOK, Books
    <3>2. book[d][0] \in 0..MaxTrades /\ book[d][0] < 1 /\ 1 <= MaxTrades
      BY <3>1, ConstantsAssumption DEF CanLiquidate, Liquidation
    <3>3. book[d][0] + 1 \in 0..MaxTrades
      BY <3>2, ConstantsAssumption
    <3>4. QED
      BY <3>3 DEF TypeOK, Liquidation
  <2>2. QED
    BY <2>1 DEF Liquidated, Books
<1>11. CASE StopLiquidate(d)
  <2>1. HostDays(d) \subseteq StoreDays
    BY ConstantsAssumption DEF HostDays, StoreDays
  <2>2. QED
    BY <1>10, <1>11, <2>1 DEF TypeOK, StopLiquidate, StopRequested, Stages
<1>12. CASE StopLiquidateUnsaved(d)
  BY <1>10, <1>12 DEF TypeOK, StopLiquidateUnsaved, StopRequested, Stages
<1>13. QED
  BY <1>1, <1>2, <1>3, <1>4, <1>5, <1>6, <1>7, <1>8, <1>9, <1>11, <1>12
     DEF Request

LEMMA TickBeginKeepsType ==
  ASSUME TypeOK, NEW day \in Days, NEW M \in SUBSET Markets, TickBegin(day, M)
  PROVE  TypeOK'
BY Bounds DEF TypeOK, TickBegin, InScope, Stages, durable, registry, environment

LEMMA StopStepKeepsType ==
  ASSUME TypeOK, StopStep
  PROVE  TypeOK'
<1> USE Bounds DEF durable, registry, holder, environment, ReleaseLock, Stages
<1>1. CASE StopFails
  BY <1>1 DEF TypeOK, StopFails
<1>2. CASE StopRetire
  <2>1. EmptyBook \in Books
    BY ConstantsAssumption DEF EmptyBook, Books
  <2>2. QED
    BY <1>2, <2>1 DEF TypeOK, StopRetire, Unload, Statuses
<1>3. QED
  BY <1>1, <1>2 DEF StopStep

LEMMA ExecutedBookType ==
  ASSUME TypeOK, NEW d \in Deployments, Executes(d)
  PROVE  /\ book' \in [Deployments -> Books]
         /\ date \in 0..LastDay
         /\ date \in StoreDays
<1>1. date \in 0..LastDay /\ date \in StoreDays
  BY ConstantsAssumption DEF TypeOK, StoreDays
<1>2. CASE UNCHANGED book
  BY <1>1, <1>2 DEF TypeOK
<1>3. CASE /\ book[d][date] < MaxTrades
           /\ book' = [book EXCEPT ![d][date] = @ + 1]
  <2>1. book[d] \in [0..LastDay -> 0..MaxTrades]
    BY DEF TypeOK, Books
  <2>2. book[d][date] + 1 \in 0..MaxTrades
    BY <1>1, <1>3, <2>1, ConstantsAssumption
  <2>3. [book[d] EXCEPT ![date] = @ + 1] \in Books
    BY <1>1, <2>1, <2>2 DEF Books
  <2>4. book' = [book EXCEPT ![d] = [book[d] EXCEPT ![date] = @ + 1]]
    BY <1>3 DEF TypeOK
  <2>5. QED
    BY <1>1, <2>3, <2>4 DEF TypeOK
<1>4. QED
  BY <1>2, <1>3 DEF Executes, ExecuteDay

LEMMA TickStepKeepsType ==
  ASSUME TypeOK, TickStep
  PROVE  TypeOK'
<1> USE Bounds DEF durable, registry, holder, environment, Stages
<1>1. ASSUME NEW d \in Deployments, TickSkip(d) PROVE TypeOK'
  BY <1>1 DEF TypeOK, TickSkip
<1>2. ASSUME NEW d \in Deployments, TickExecute(d) PROVE TypeOK'
  <2>1. book' \in [Deployments -> Books] /\ date \in StoreDays
    BY <1>2, ExecutedBookType DEF TickExecute
  <2>2. book'[d] \in Books
    BY <2>1
  <2>3. QED
    BY <1>2, <2>1, <2>2 DEF TypeOK, TickExecute, Executes
<1>3. ASSUME NEW d \in Deployments, TickExecuteFails(d) PROVE TypeOK'
  <2>1. book' \in [Deployments -> Books]
    BY <1>3, ExecutedBookType DEF TickExecuteFails
  <2>2. QED
    BY <1>3, <2>1 DEF TypeOK, TickExecuteFails, Executes
<1>4. CASE TickAfter
  BY <1>4 DEF TypeOK, TickAfter, NextInBatch
<1>5. CASE TickAfterFails
  BY <1>5 DEF TypeOK, TickAfterFails
<1>6. CASE TickRecordError
  <2>1. date \in StoreDays
    BY ConstantsAssumption DEF TypeOK, StoreDays
  <2>2. QED
    BY <1>6, <2>1 DEF TypeOK, TickRecordError
<1>7. CASE TickCountError
  <2>1. errors' \in [Deployments -> Nat]
    <3>1. errors' = [errors EXCEPT ![cur] = errors[cur] + 1]
      BY <1>7, Zenon DEF TickCountError
    <3>2. ASSUME NEW d \in Deployments PROVE errors'[d] \in Nat
      <4>1. errors \in [Deployments -> Nat] /\ errors[d] \in Nat
        BY DEF TypeOK
      <4>2. CASE d = cur
        BY <3>1, <4>1, <4>2
      <4>3. CASE d # cur
        BY <3>1, <4>1, <4>3
      <4>4. QED
        BY <4>2, <4>3
    <3>3. errors' = [d \in Deployments |-> errors'[d]]
      BY <3>1 DEF TypeOK
    <3>4. QED
      BY <3>2, <3>3
  <2>2. \/ stage' = "escalate" /\ UNCHANGED <<date, batch, todo, cur>>
        \/ NextInBatch
    BY <1>7, Zenon DEF TickCountError
  <2>3. UNCHANGED <<status, lastDate, rows, ledger, registry, approving,
                    environment>>
    BY <1>7, Zenon DEF TickCountError
  <2>4. QED
    BY <2>1, <2>2, <2>3 DEF TypeOK, NextInBatch
<1>8. CASE TickEscalate
  <2>1. EmptyBook \in Books
    BY ConstantsAssumption DEF EmptyBook, Books
  <2>2. QED
    BY <1>8, <2>1 DEF TypeOK, TickEscalate, Unload, NextInBatch, Statuses
<1>9. CASE TickAborts
  BY <1>9 DEF TypeOK, TickAborts, ReleaseLock
<1>10. CASE TickEnd
  BY <1>10 DEF TypeOK, TickEnd, ReleaseLock
<1>11. QED
  BY <1>1, <1>2, <1>3, <1>4, <1>5, <1>6, <1>7, <1>8, <1>9, <1>10 DEF TickStep

LEMMA RecoveryStepKeepsType ==
  ASSUME TypeOK, RecoveryStep
  PROVE  TypeOK'
<1> USE Bounds DEF durable, registry, holder, environment, Stages, ReleaseLock
<1>1. CASE Restart
  BY <1>1 DEF TypeOK, Restart
<1>2. ASSUME NEW d \in Deployments, ResumeOne(d) PROVE TypeOK'
  <2>1. Recovered(d) \in Books
    BY RecoveredType
  <2>2. QED
    BY <1>2, <2>1 DEF TypeOK, ResumeOne, Load
<1>3. ASSUME NEW d \in Deployments, ResumeOneFails(d) PROVE TypeOK'
  BY <1>3 DEF TypeOK, ResumeOneFails, Statuses
<1>4. CASE ResumeAllAborts
  <2>1. /\ process' = "up" /\ ReleaseLock
        /\ UNCHANGED <<durable, autoTick, engines, paused, book, approving,
                       environment>>
    BY <1>4, Zenon DEF ResumeAllAborts
  <2>2. QED
    BY <2>1 DEF TypeOK
<1>5. CASE ResumeAllEnds
  BY <1>5 DEF TypeOK, ResumeAllEnds
<1>6. QED
  BY <1>1, <1>2, <1>3, <1>4, <1>5 DEF RecoveryStep

LEMMA CrashKeepsType ==
  ASSUME TypeOK, Crash
  PROVE  TypeOK'
<1>1. EmptyBook \in Books
  BY ConstantsAssumption DEF EmptyBook, Books
<1>2. /\ crashes' = crashes + 1 /\ process' = "down" /\ autoTick' = FALSE
      /\ engines' = {} /\ paused' = {}
      /\ book' = [d \in Deployments |-> EmptyBook]
      /\ approving' = [d \in Deployments |-> 0]
      /\ ReleaseLock /\ UNCHANGED <<durable, today>>
  BY Zenon DEF Crash
<1>3. /\ book' \in [Deployments -> Books]
      /\ approving' \in [Deployments -> 0..Approvers]
  BY <1>1, <1>2, Bounds
<1>4. UNCHANGED <<status, lastDate, errors, rows, ledger, today>>
  BY <1>2 DEF durable
<1>5. /\ stage' \in Stages /\ date' \in 0..LastDay /\ batch' = {}
      /\ todo' = {} /\ cur' = NoDep /\ crashes' \in Nat
  BY <1>2, Bounds DEF ReleaseLock, Stages, TypeOK
<1>6. QED
  BY <1>2, <1>3, <1>4, <1>5 DEF TypeOK

(* The type invariant: accounts, dates and counters stay in their ranges.  *)
THEOREM TypeCorrect == Spec => []TypeOK
<1>1. Init => TypeOK
  <2>1. EmptyBook \in Books
    BY ConstantsAssumption DEF EmptyBook, Books
  <2>2. QED
    BY <2>1, Bounds DEF Init, TypeOK, Statuses, Stages
<1>2. TypeOK /\ [Next]_vars => TypeOK'
  <2> SUFFICES ASSUME TypeOK, [Next]_vars PROVE TypeOK'
    OBVIOUS
  <2>1. ASSUME NEW d \in Deployments, Request(d) PROVE TypeOK'
    BY <2>1, RequestKeepsType
  <2>2. ASSUME NEW day \in Days, ManualTick(day) \/ AutoTick(day)
        PROVE  TypeOK'
    <3>1. \E M \in SUBSET Markets : TickBegin(day, M)
      BY <2>2 DEF ManualTick, AutoTick
    <3>2. QED
      BY <3>1, TickBeginKeepsType
  <2>3. CASE StopStep \/ TickStep \/ RecoveryStep \/ Crash
    BY <2>3, StopStepKeepsType, TickStepKeepsType, RecoveryStepKeepsType,
       CrashKeepsType
  <2>4. ASSUME NEW m \in Markets, NewDay(m) PROVE TypeOK'
    BY <2>4, ConstantsAssumption
       DEF TypeOK, NewDay, Days, durable, registry, holder
  <2>5. CASE UNCHANGED vars
    BY <2>5 DEF TypeOK, vars, durable, registry, holder, environment
  <2>6. QED
    BY <2>1, <2>2, <2>3, <2>4, <2>5 DEF Next
<1>3. QED
  BY <1>1, <1>2, PTL DEF Spec
-----------------------------------------------------------------------------
(* Running records have engines.  While resume_all is under way the engine *)
(* may still be on its list, and until it has finished there is no         *)
(* auto-tick task.                                                         *)
RunningInv ==
  /\ process = "resuming" <=> stage = "resume"
  /\ process = "down" => stage = "idle"
  /\ autoTick => process = "up"
  /\ autoTick \/ stage = "resume" =>
       \A d \in Deployments :
         status[d] = "running" =>
           d \in engines \/ (stage = "resume" /\ d \in todo)

LEMMA RequestKeepsRunning ==
  ASSUME TypeOK, RunningInv, NEW d \in Deployments, Request(d)
  PROVE  RunningInv'
<1> USE DEF TypeOK, RunningInv, durable, registry, holder, environment
<1>1. CASE Deploy(d)
  BY <1>1 DEF Deploy
<1>2. CASE ApproveCheck(d)
  BY <1>2 DEF ApproveCheck
<1>3. ASSUME NEW passed \in BOOLEAN, ApproveCommit(d, passed)
      PROVE  RunningInv'
  BY <1>3 DEF ApproveCommit
<1>4. CASE Start(d)
  BY <1>4 DEF Start, Load, Serving, LockFree
<1>5. CASE StartFails(d)
  BY <1>5 DEF StartFails, Unload
<1>6. CASE Pause(d)
  BY <1>6 DEF Pause
<1>7. CASE Resume(d)
  BY <1>7 DEF Resume, Load, Serving, LockFree
<1>8. CASE ResumeFails(d)
  BY <1>8 DEF ResumeFails, Unload
<1>9. CASE StopBegin(d) \/ StopLiquidate(d) \/ StopLiquidateUnsaved(d)
  BY <1>9 DEF StopBegin, StopLiquidate, StopLiquidateUnsaved, StopRequested,
              Serving, LockFree
<1>10. QED
  BY <1>1, <1>2, <1>3, <1>4, <1>5, <1>6, <1>7, <1>8, <1>9 DEF Request

LEMMA TickStepKeepsRunning ==
  ASSUME TypeOK, RunningInv, TickStep
  PROVE  RunningInv'
<1> USE DEF TypeOK, RunningInv, durable, registry, holder, environment,
            NextInBatch, ReleaseLock
<1>1. ASSUME NEW d \in Deployments, TickSkip(d) PROVE RunningInv'
  BY <1>1 DEF TickSkip
<1>2. ASSUME NEW d \in Deployments, TickExecute(d) PROVE RunningInv'
  BY <1>2 DEF TickExecute, Executes
<1>3. ASSUME NEW d \in Deployments, TickExecuteFails(d) PROVE RunningInv'
  BY <1>3 DEF TickExecuteFails, Executes
<1>4. CASE TickAfter \/ TickAfterFails \/ TickRecordError
  BY <1>4 DEF TickAfter, TickAfterFails, TickRecordError
<1>5. CASE TickCountError
  <2>1. /\ stage = "count" /\ stage' \in {"escalate", "tick"}
        /\ UNCHANGED <<status, process, autoTick, engines>>
    BY <1>5, Zenon DEF TickCountError
  <2>2. QED
    BY <2>1
<1>6. CASE TickEscalate
  BY <1>6 DEF TickEscalate, Unload
<1>7. CASE TickAborts \/ TickEnd
  <2>1. /\ stage # "resume" /\ stage' = "idle"
        /\ UNCHANGED <<status, process, autoTick, engines>>
    BY <1>7, Zenon DEF TickAborts, TickEnd
  <2>2. QED
    BY <2>1
<1>8. QED
  BY <1>1, <1>2, <1>3, <1>4, <1>5, <1>6, <1>7 DEF TickStep

LEMMA RecoveryStepKeepsRunning ==
  ASSUME TypeOK, RunningInv, RecoveryStep
  PROVE  RunningInv'
<1> USE DEF TypeOK, RunningInv, durable, registry, holder, environment,
            ReleaseLock
<1>1. CASE Restart
  BY <1>1 DEF Restart
<1>2. ASSUME NEW d \in Deployments, ResumeOne(d) PROVE RunningInv'
  BY <1>2 DEF ResumeOne, Load
<1>3. ASSUME NEW d \in Deployments, ResumeOneFails(d) PROVE RunningInv'
  BY <1>3 DEF ResumeOneFails
<1>4. CASE ResumeAllAborts
  <2>1. stage = "resume" /\ stage' = "idle" /\ process' = "up" /\ autoTick' = autoTick
    BY <1>4, Zenon DEF ResumeAllAborts
  <2>2. QED
    BY <2>1
<1>5. CASE ResumeAllEnds
  BY <1>5 DEF ResumeAllEnds
<1>6. QED
  BY <1>1, <1>2, <1>3, <1>4, <1>5 DEF RecoveryStep

LEMMA RunningInvariant == Spec => []RunningInv
<1>1. Init => RunningInv
  BY DEF Init, RunningInv
<1>2. TypeOK /\ RunningInv /\ [Next]_vars => RunningInv'
  <2> SUFFICES ASSUME TypeOK, RunningInv, [Next]_vars PROVE RunningInv'
    OBVIOUS
  <2>1. ASSUME NEW d \in Deployments, Request(d) PROVE RunningInv'
    BY <2>1, RequestKeepsRunning
  <2>2. ASSUME NEW day \in Days, ManualTick(day) \/ AutoTick(day)
        PROVE  RunningInv'
    BY <2>2 DEF ManualTick, AutoTick, TickBegin, Serving, LockFree,
                RunningInv, durable, registry
  <2>3. CASE StopStep
    BY <2>3 DEF StopStep, StopRetire, StopFails, Unload, ReleaseLock, TypeOK,
                RunningInv, durable, registry
  <2>4. CASE TickStep
    BY <2>4, TickStepKeepsRunning
  <2>5. CASE RecoveryStep
    BY <2>5, RecoveryStepKeepsRunning
  <2>6. CASE Crash
    <3>1. process' = "down" /\ autoTick' = FALSE /\ stage' = "idle"
      BY <2>6, Zenon DEF Crash, ReleaseLock
    <3>2. QED
      BY <3>1 DEF RunningInv
  <2>7. ASSUME NEW m \in Markets, NewDay(m) PROVE RunningInv'
    BY <2>7 DEF NewDay, RunningInv, durable, registry, holder
  <2>8. CASE UNCHANGED vars
    BY <2>8 DEF RunningInv, vars, durable, registry, holder
  <2>9. QED
    BY <2>1, <2>2, <2>3, <2>4, <2>5, <2>6, <2>7, <2>8 DEF Next
<1>3. QED
  BY <1>1, <1>2, TypeCorrect, PTL DEF Spec

(* No phantom running: whatever fails, is retried or dies, once resume_all *)
(* has finished every record that says running has an engine in memory.    *)
THEOREM NoPhantoms == Spec => []NoPhantomRunning
<1>1. RunningInv => NoPhantomRunning
  BY DEF RunningInv, NoPhantomRunning
<1>2. QED
  BY <1>1, RunningInvariant, PTL
-----------------------------------------------------------------------------
(* One approval request at a time.  What a request may overwrite is then   *)
(* still pending, and what holds the lock still has its engine.            *)
LiveInv ==
  /\ EnginesAreLive
  /\ process = "resuming" <=> stage = "resume"
  /\ process = "down" => engines = {}
  /\ \A d \in Deployments : approving[d] > 0 => status[d] = "pending"
  /\ stage = "stop" => cur \in Deployments /\ approving[cur] = 0
                       /\ status[cur] \notin {"absent", "pending"}
  /\ stage \in {"tick", "after", "record", "count", "escalate"} =>
       todo \subseteq engines
  /\ stage \in {"after", "record", "count", "escalate"} => cur \in engines
  /\ stage = "resume" =>
       \A d \in todo : status[d] = "running" /\ d \notin engines

LEMMA RequestKeepsLive ==
  ASSUME Approvers = 1, TypeOK, LiveInv, NEW d \in Deployments, Request(d)
  PROVE  LiveInv'
<1> USE DEF TypeOK, LiveInv, EnginesAreLive, durable, registry, holder,
            environment
<1>1. CASE Deploy(d)
  BY <1>1 DEF Deploy
<1>2. CASE ApproveCheck(d)
  BY <1>2 DEF ApproveCheck
<1>3. ASSUME NEW passed \in BOOLEAN, ApproveCommit(d, passed)
      PROVE  LiveInv'
  BY <1>3 DEF ApproveCommit
<1>4. CASE Start(d)
  BY <1>4 DEF Start, Load, Serving, LockFree
<1>5. CASE StartFails(d)
  BY <1>5 DEF StartFails, Unload, Serving, LockFree
<1>6. CASE Pause(d)
  BY <1>6 DEF Pause, Serving, LockFree
<1>7. CASE Resume(d)
  BY <1>7 DEF Resume, Load, Serving, LockFree
<1>8. CASE ResumeFails(d)
  BY <1>8 DEF ResumeFails, Unload, Serving, LockFree
<1>9. CASE StopBegin(d) \/ StopLiquidate(d) \/ StopLiquidateUnsaved(d)
  BY <1>9 DEF StopBegin, StopLiquidate, StopLiquidateUnsaved, StopRequested,
              Serving, LockFree
<1>10. QED
  BY <1>1, <1>2, <1>3, <1>4, <1>5, <1>6, <1>7, <1>8, <1>9 DEF Request

LEMMA TickStepKeepsLive ==
  ASSUME TypeOK, LiveInv, TickStep
  PROVE  LiveInv'
<1> USE DEF TypeOK, LiveInv, EnginesAreLive, durable, registry, holder,
            environment, NextInBatch, ReleaseLock
<1>1. ASSUME NEW d \in Deployments, TickSkip(d) PROVE LiveInv'
  BY <1>1 DEF TickSkip
<1>2. ASSUME NEW d \in Deployments, TickExecute(d) PROVE LiveInv'
  BY <1>2 DEF TickExecute, Executes
<1>3. ASSUME NEW d \in Deployments, TickExecuteFails(d) PROVE LiveInv'
  BY <1>3 DEF TickExecuteFails, Executes
<1>4. CASE TickAfter \/ TickAfterFails \/ TickRecordError
  BY <1>4 DEF TickAfter, TickAfterFails, TickRecordError
<1>5. CASE TickCountError
  <2>1. /\ stage = "count"
        /\ \/ stage' = "escalate" /\ UNCHANGED <<date, batch, todo, cur>>
           \/ NextInBatch
        /\ UNCHANGED <<status, process, autoTick, engines, paused, approving>>
    BY <1>5, Zenon DEF TickCountError
  <2>2. QED
    BY <2>1
<1>6. CASE TickEscalate
  BY <1>6 DEF TickEscalate, Unload
<1>7. CASE TickAborts \/ TickEnd
  <2>1. /\ stage # "resume" /\ stage' = "idle"
        /\ UNCHANGED <<status, process, autoTick, engines, paused, approving>>
    BY <1>7, Zenon DEF TickAborts, TickEnd
  <2>2. QED
    BY <2>1
<1>8. QED
  BY <1>1, <1>2, <1>3, <1>4, <1>5, <1>6, <1>7 DEF TickStep

LEMMA RecoveryStepKeepsLive ==
  ASSUME TypeOK, LiveInv, RecoveryStep
  PROVE  LiveInv'
<1> USE DEF TypeOK, LiveInv, EnginesAreLive, durable, registry, holder,
            environment, ReleaseLock
<1>1. CASE Restart
  BY <1>1 DEF Restart
<1>2. ASSUME NEW d \in Deployments, ResumeOne(d) PROVE LiveInv'
  BY <1>2 DEF ResumeOne, Load
<1>3. ASSUME NEW d \in Deployments, ResumeOneFails(d) PROVE LiveInv'
  BY <1>3 DEF ResumeOneFails
<1>4. CASE ResumeAllAborts \/ ResumeAllEnds
  <2>1. /\ stage' = "idle" /\ process' = "up"
        /\ UNCHANGED <<status, engines, paused, approving>>
    BY <1>4, Zenon DEF ResumeAllAborts, ResumeAllEnds
  <2>2. QED
    BY <2>1
<1>5. QED
  BY <1>1, <1>2, <1>3, <1>4 DEF RecoveryStep

LEMMA LiveInvariant ==
  ASSUME Approvers = 1
  PROVE  Spec => []LiveInv
<1>1. Init => LiveInv
  BY DEF Init, LiveInv, EnginesAreLive
<1>2. TypeOK /\ LiveInv /\ [Next]_vars => LiveInv'
  <2> SUFFICES ASSUME TypeOK, LiveInv, [Next]_vars PROVE LiveInv'
    OBVIOUS
  <2>1. ASSUME NEW d \in Deployments, Request(d) PROVE LiveInv'
    BY <2>1, RequestKeepsLive
  <2>2. ASSUME NEW day \in Days, ManualTick(day) \/ AutoTick(day)
        PROVE  LiveInv'
    BY <2>2 DEF ManualTick, AutoTick, TickBegin, InScope, Serving, LockFree,
                LiveInv, EnginesAreLive, durable, registry
  <2>3. CASE StopStep
    BY <2>3 DEF StopStep, StopRetire, StopFails, Unload, ReleaseLock, TypeOK,
                LiveInv, EnginesAreLive, durable, registry
  <2>4. CASE TickStep
    BY <2>4, TickStepKeepsLive
  <2>5. CASE RecoveryStep
    BY <2>5, RecoveryStepKeepsLive
  <2>6. CASE Crash
    <3>1. /\ process' = "down" /\ stage' = "idle" /\ engines' = {}
          /\ paused' = {} /\ approving' = [d \in Deployments |-> 0]
      BY <2>6, Zenon DEF Crash, ReleaseLock
    <3>2. QED
      BY <3>1 DEF LiveInv, EnginesAreLive
  <2>7. ASSUME NEW m \in Markets, NewDay(m) PROVE LiveInv'
    BY <2>7 DEF NewDay, LiveInv, EnginesAreLive, durable, registry, holder
  <2>8. CASE UNCHANGED vars
    BY <2>8 DEF LiveInv, EnginesAreLive, vars, durable, registry, holder
  <2>9. QED
    BY <2>1, <2>2, <2>3, <2>4, <2>5, <2>6, <2>7, <2>8 DEF Next
<1>3. QED
  BY <1>1, <1>2, TypeCorrect, PTL DEF Spec

(* With one approval request at a time, the registry of engines and the    *)
(* records stay in step through every failure of every operation.          *)
THEOREM RegistryMatchesRecords ==
  ASSUME Approvers = 1
  PROVE  Spec => []EnginesAreLive
<1>1. LiveInv => EnginesAreLive
  BY DEF LiveInv
<1>2. QED
  BY <1>1, LiveInvariant, PTL

(* With one approval request at a time, only a pending record is approved. *)
THEOREM OnlyPendingIsApproved ==
  ASSUME Approvers = 1
  PROVE  Spec => ApprovedFromPending
<1> DEFINE Step == \A d \in Deployments :
             status'[d] = "approved" /\ status[d] # "approved"
               => status[d] = "pending"
<1>1. TypeOK /\ LiveInv /\ [Next]_vars => [Step]_status
  <2> SUFFICES ASSUME TypeOK, LiveInv, Next, status' # status PROVE Step
    BY DEF vars, durable
  <2> USE DEF TypeOK, durable
  <2>1. ASSUME NEW d \in Deployments, Request(d) PROVE Step
    <3>1. CASE \E passed \in BOOLEAN : ApproveCommit(d, passed)
      BY <3>1 DEF ApproveCommit, LiveInv
    <3>2. CASE ~ \E passed \in BOOLEAN : ApproveCommit(d, passed)
      BY <2>1, <3>2
         DEF Request, Deploy, ApproveCheck, Start, StartFails, Pause, Resume,
             ResumeFails, StopBegin, StopLiquidate, StopLiquidateUnsaved,
             StopRequested
    <3>3. QED
      BY <3>1, <3>2
  <2>2. CASE StopStep
    BY <2>2 DEF StopStep, StopRetire, StopFails
  <2>3. CASE TickStep
    <3>1. status' = [status EXCEPT ![cur] = "error"]
      BY <2>3, Zenon
         DEF TickStep, TickSkip, TickExecute, TickExecuteFails, Executes,
             TickAfter, TickAfterFails, TickRecordError, TickCountError,
             TickEscalate, TickAborts, TickEnd
    <3>2. QED
      BY <3>1
  <2>4. CASE RecoveryStep
    <3>1. \E d \in Deployments : status' = [status EXCEPT ![d] = "error"]
      BY <2>4, Zenon
         DEF RecoveryStep, Restart, ResumeOne, ResumeOneFails,
             ResumeAllAborts, ResumeAllEnds
    <3>2. QED
      BY <3>1
  <2>5. CASE \/ \E day \in Days : ManualTick(day) \/ AutoTick(day)
             \/ Crash
             \/ \E m \in Markets : NewDay(m)
    BY <2>5, Zenon DEF ManualTick, AutoTick, TickBegin, Crash, NewDay
  <2>6. QED
    BY <2>1, <2>2, <2>3, <2>4, <2>5 DEF Next
<1>2. QED
  BY <1>1, TypeCorrect, LiveInvariant, PTL DEF Spec, ApprovedFromPending
-----------------------------------------------------------------------------
(* The date a tick is about to record is not before the recorded one.      *)
DateInv ==
  stage \in {"after", "record"} => cur \in Deployments /\ lastDate[cur] <= date

LEMMA TickStepDates ==
  ASSUME TypeOK, DateInv, TickStep
  PROVE  /\ DateInv'
         /\ \A d \in Deployments : lastDate'[d] >= lastDate[d]
<1>1. lastDate \in [Deployments -> Int] /\ date \in Int
  <2>1. StoreDays \subseteq Int /\ 0..LastDay \subseteq Int
    BY ConstantsAssumption DEF StoreDays
  <2>2. QED
    BY <2>1 DEF TypeOK
<1> USE DEF DateInv, durable, registry, holder, NextInBatch, ReleaseLock
<1>2. ASSUME NEW d \in Deployments, TickSkip(d)
      PROVE  DateInv' /\ UNCHANGED lastDate
  BY <1>2 DEF TickSkip
<1>3. ASSUME NEW d \in Deployments, TickExecute(d)
      PROVE  DateInv' /\ \A e \in Deployments : lastDate'[e] >= lastDate[e]
  BY <1>1, <1>3 DEF TickExecute, Executes, Skips
<1>4. ASSUME NEW d \in Deployments, TickExecuteFails(d)
      PROVE  DateInv' /\ UNCHANGED lastDate
  <2>1. Executes(d) /\ stage' = "record" /\ lastDate' = lastDate
    BY <1>4, Zenon DEF TickExecuteFails
  <2>2. QED
    BY <1>1, <2>1 DEF Executes, Skips
<1>5. CASE TickRecordError
  <2>1. cur \in Deployments /\ lastDate[cur] <= date /\ stage' = "count"
        /\ lastDate' = [lastDate EXCEPT ![cur] = date]
    BY <1>5 DEF TickRecordError
  <2>2. ASSUME NEW d \in Deployments PROVE lastDate'[d] >= lastDate[d]
    BY <1>1, <2>1
  <2>3. QED
    BY <2>1, <2>2
<1>6. CASE TickAfter \/ TickAfterFails
  <2>1. stage = "after" /\ UNCHANGED lastDate
        /\ (stage' = "tick" \/ UNCHANGED <<cur, date>>)
    BY <1>6, Zenon DEF TickAfter, TickAfterFails
  <2>2. QED
    BY <1>1, <2>1
<1>7. CASE TickCountError \/ TickEscalate \/ TickAborts \/ TickEnd
  <2>1. stage' \notin {"after", "record"} /\ UNCHANGED lastDate
    <3>1. CASE TickCountError
      <4>1. stage' \in {"escalate", "tick"} /\ UNCHANGED lastDate
        BY <3>1, Zenon DEF TickCountError
      <4>2. QED
        BY <4>1
    <3>2. CASE TickEscalate \/ TickAborts \/ TickEnd
      <4>1. stage' \in {"idle", "tick"} /\ UNCHANGED lastDate
        BY <3>2, Zenon DEF TickEscalate, TickAborts, TickEnd
      <4>2. QED
        BY <4>1
    <3>3. QED
      BY <1>7, <3>1, <3>2
  <2>2. QED
    BY <1>1, <2>1
<1>8. QED
  <2>1. (UNCHANGED lastDate) => \A d \in Deployments : lastDate'[d] >= lastDate[d]
    BY <1>1
  <2>2. QED
    BY <2>1, <1>2, <1>3, <1>4, <1>5, <1>6, <1>7, <1>1 DEF TickStep

(* What is not a tick leaves the dates alone, unless it liquidates.        *)
LEMMA OtherStepsDates ==
  ASSUME "liquidate" \notin Env, TypeOK, DateInv, [Next]_vars, ~TickStep
  PROVE  DateInv' /\ UNCHANGED lastDate
<1> USE DEF DateInv, durable, registry, holder, environment, ReleaseLock
<1>1. ASSUME NEW d \in Deployments, Request(d)
      PROVE  DateInv' /\ UNCHANGED lastDate
  <2>1. ASSUME NEW passed \in BOOLEAN, ApproveCommit(d, passed)
        PROVE  UNCHANGED <<stage, cur, date, lastDate>>
    BY <2>1 DEF ApproveCommit
  <2>2. CASE Deploy(d) \/ ApproveCheck(d) \/ Start(d) \/ StartFails(d)
             \/ Pause(d) \/ Resume(d) \/ ResumeFails(d)
    BY <2>2 DEF Deploy, ApproveCheck, Start, StartFails, Pause, Resume,
                ResumeFails
  <2>3. CASE StopBegin(d)
    BY <2>3 DEF StopBegin, StopRequested
  <2>4. ~StopLiquidate(d) /\ ~StopLiquidateUnsaved(d)
    BY DEF StopLiquidate, StopLiquidateUnsaved, CanLiquidate
  <2>5. QED
    BY <1>1, <2>1, <2>2, <2>3, <2>4 DEF Request
<1>2. CASE \E day \in Days : ManualTick(day) \/ AutoTick(day)
  BY <1>2 DEF ManualTick, AutoTick, TickBegin
<1>3. CASE StopStep
  BY <1>3 DEF StopStep, StopRetire, StopFails
<1>4. CASE RecoveryStep
  <2>1. ASSUME NEW d \in Deployments, ResumeOne(d) \/ ResumeOneFails(d)
        PROVE  stage' = "resume" /\ UNCHANGED lastDate
    BY <2>1 DEF ResumeOne, ResumeOneFails
  <2>2. CASE Restart \/ ResumeAllAborts \/ ResumeAllEnds
    <3>1. stage' \in {"resume", "idle"} /\ UNCHANGED lastDate
      BY <2>2, Zenon DEF Restart, ResumeAllAborts, ResumeAllEnds
    <3>2. QED
      BY <3>1
  <2>3. QED
    BY <1>4, <2>1, <2>2 DEF RecoveryStep
<1>5. CASE Crash
  <2>1. stage' = "idle" /\ UNCHANGED lastDate
    BY <1>5, Zenon DEF Crash
  <2>2. QED
    BY <2>1
<1>6. CASE \E m \in Markets : NewDay(m)
  BY <1>6 DEF NewDay
<1>7. CASE UNCHANGED vars
  BY <1>7 DEF vars
<1>8. QED
  BY <1>1, <1>2, <1>3, <1>4, <1>5, <1>6, <1>7 DEF Next

LEMMA DateInvariant ==
  ASSUME "liquidate" \notin Env
  PROVE  Spec => []DateInv
<1>1. Init => DateInv
  BY DEF Init, DateInv
<1>2. TypeOK /\ DateInv /\ [Next]_vars => DateInv'
  BY TickStepDates, OtherStepsDates
<1>3. QED
  BY <1>1, <1>2, TypeCorrect, PTL DEF Spec

(* Without liquidations last_processed_date never moves back, whatever     *)
(* fails and whichever dates operators tick.                               *)
THEOREM DatesAdvance ==
  ASSUME "liquidate" \notin Env
  PROVE  Spec => LastDateAdvances
<1> DEFINE Step == \A d \in Deployments : lastDate'[d] >= lastDate[d]
<1>1. TypeOK /\ DateInv /\ [Next]_vars => [Step]_lastDate
  BY TickStepDates, OtherStepsDates
<1>2. QED
  BY <1>1, TypeCorrect, DateInvariant, PTL DEF Spec, LastDateAdvances
-----------------------------------------------------------------------------
(* An account that holds each day at most once, and none after day n.      *)
OnceUpTo(b, n) == \A x \in Days : b[x] <= 1 /\ (b[x] > 0 => x <= n)

(* The days in memory reach last_processed_date, or the date whose failure *)
(* the tick is about to record; what is stored never reaches further.      *)
Reach(d) == IF stage = "record" /\ cur = d THEN date ELSE lastDate[d]

InMemory(d) == OnceUpTo(book[d], Reach(d))

Stored(d) ==
  /\ ledger[d] # NoBook => OnceUpTo(ledger[d], lastDate[d])
  /\ \A y \in StoreDays :
       rows[d][y] # NoBook => OnceUpTo(rows[d][y], lastDate[d])

TradeInv == \A d \in Deployments : InMemory(d) /\ Stored(d)

LEMMA EmptyBookOnce ==
  ASSUME NEW n \in Int
  PROVE  OnceUpTo(EmptyBook, n)
BY ConstantsAssumption DEF OnceUpTo, EmptyBook, Days

LEMMA RecoveredOnce ==
  ASSUME TypeOK, NEW d \in Deployments, Stored(d)
  PROVE  OnceUpTo(Recovered(d), lastDate[d])
<1>1. OnceUpTo(EmptyBook, lastDate[d])
  <2>1. lastDate[d] \in Int
    BY ConstantsAssumption DEF TypeOK, StoreDays
  <2>2. QED
    BY <2>1, EmptyBookOnce
<1>2. LatestRow(d) # NoBook => OnceUpTo(LatestRow(d), lastDate[d])
  BY LatestRowIsARow DEF Stored
<1>3. QED
  BY <1>1, <1>2 DEF Recovered, Stored

(* An account that holds nothing after n keeps the property up to a later  *)
(* date, and when that later day is traded once.                           *)
LEMMA OnceLater ==
  ASSUME NEW b \in Books, NEW n \in Int, NEW m \in Int, n <= m, OnceUpTo(b, n)
  PROVE  OnceUpTo(b, m)
BY ConstantsAssumption DEF OnceUpTo, Days

LEMMA OnceTraded ==
  ASSUME NEW b \in Books, NEW n \in Int, NEW m \in 0..LastDay, n < m,
         OnceUpTo(b, n)
  PROVE  OnceUpTo([b EXCEPT ![m] = @ + 1], m)
<1> SUFFICES ASSUME NEW x \in Days
             PROVE  LET c == [b EXCEPT ![m] = @ + 1]
                    IN  c[x] <= 1 /\ (c[x] > 0 => x <= m)
  BY DEF OnceUpTo
<1>1. b \in [0..LastDay -> 0..MaxTrades] /\ x \in 0..LastDay /\ b[x] \in Int
      /\ x \in Int /\ m \in Int
  BY ConstantsAssumption DEF Books, Days
<1>2. b[x] <= 1 /\ (b[x] > 0 => x <= n)
  BY DEF OnceUpTo
<1>3. CASE x = m
  <2>1. b[x] <= 0
    BY <1>1, <1>2, <1>3
  <2>2. QED
    BY <1>1, <1>3, <2>1
<1>4. CASE x # m
  BY <1>1, <1>2, <1>4
<1>5. QED
  BY <1>3, <1>4
LEMMA ReachType ==
  ASSUME TypeOK, NEW d \in Deployments
  PROVE  Reach(d) \in Int /\ lastDate[d] \in Int
BY ConstantsAssumption DEF TypeOK, StoreDays, Reach

(* Steps that write no account to the store: an account in memory is kept, *)
(* dropped or restored.                                                    *)
LEMMA UnsavedStep ==
  ASSUME TypeOK, TypeOK', TradeInv, UNCHANGED <<rows, ledger, lastDate>>,
         \A d \in Deployments :
           \/ book'[d] = book[d] /\ Reach(d) <= Reach(d)'
           \/ book'[d] \in {EmptyBook, Recovered(d)} /\ Reach(d)' = lastDate[d]
  PROVE  TradeInv'
<1> SUFFICES ASSUME NEW d \in Deployments PROVE InMemory(d)' /\ Stored(d)'
  BY DEF TradeInv
<1>1. InMemory(d) /\ Stored(d)
  BY DEF TradeInv
<1>2. Stored(d)'
  BY <1>1 DEF Stored, OnceUpTo
<1>3. CASE book'[d] = book[d] /\ Reach(d) <= Reach(d)'
  <2>1. Reach(d) \in Int /\ Reach(d)' \in Int /\ book[d] \in Books
    BY ReachType, ConstantsAssumption DEF TypeOK, Reach, StoreDays
  <2>2. OnceUpTo(book[d], Reach(d)')
    BY <1>1, <1>3, <2>1, OnceLater DEF InMemory
  <2>3. QED
    BY <1>2, <1>3, <2>2 DEF InMemory, OnceUpTo
<1>4. CASE book'[d] \in {EmptyBook, Recovered(d)} /\ Reach(d)' = lastDate[d]
  <2>1. OnceUpTo(book'[d], lastDate[d])
    BY <1>1, <1>4, RecoveredOnce, EmptyBookOnce, ReachType
  <2>2. QED
    BY <1>2, <1>4, <2>1 DEF InMemory, OnceUpTo
<1>5. QED
  BY <1>3, <1>4

LEMMA RequestKeepsTrades ==
  ASSUME "liquidate" \notin Env, TypeOK, TypeOK', TradeInv,
         NEW d \in Deployments, Request(d)
  PROVE  TradeInv'
<1>1. UNCHANGED <<rows, ledger, lastDate>>
  <2>1. ~StopLiquidate(d) /\ ~StopLiquidateUnsaved(d)
    BY DEF StopLiquidate, StopLiquidateUnsaved, CanLiquidate
  <2>2. CASE StopBegin(d)
    BY <2>2 DEF StopBegin, StopRequested
  <2>3. CASE ~StopBegin(d)
    BY <2>1, <2>3
       DEF Request, Deploy, ApproveCheck, ApproveCommit, Start, StartFails,
           Pause, Resume, ResumeFails, durable
  <2>4. QED
    BY <2>2, <2>3
<1>2. ASSUME NEW e \in Deployments
      PROVE  \/ book'[e] = book[e] /\ Reach(e) <= Reach(e)'
             \/ book'[e] \in {EmptyBook, Recovered(e)} /\ Reach(e)' = lastDate[e]
  <2>1. Reach(e) \in Int
    BY ReachType
  <2> USE DEF durable, registry, holder
  <2>2. CASE Start(d) \/ StartFails(d) \/ Resume(d) \/ ResumeFails(d)
    <3>1. stage = "idle" /\ stage' = stage
          /\ (\/ book' = book
              \/ book' = [book EXCEPT ![d] = EmptyBook]
              \/ book' = [book EXCEPT ![d] = Recovered(d)])
      BY <2>2 DEF Start, StartFails, Resume, ResumeFails, Serving, LockFree,
                  Load, Unload
    <3>2. Reach(e)' = lastDate[e] /\ Reach(e) = lastDate[e]
      BY <1>1, <3>1 DEF Reach
    <3>3. book'[e] \in {book[e], EmptyBook, Recovered(e)}
      BY <3>1 DEF TypeOK
    <3>4. QED
      BY <2>1, <3>2, <3>3
  <2>3. CASE ~(Start(d) \/ StartFails(d) \/ Resume(d) \/ ResumeFails(d))
    <3>1. ~StopLiquidate(d) /\ ~StopLiquidateUnsaved(d)
      BY DEF StopLiquidate, StopLiquidateUnsaved, CanLiquidate
    <3>2. book' = book /\ (UNCHANGED holder \/ (stage = "idle" /\ stage' = "stop"))
      BY <2>3, <3>1
         DEF Request, Deploy, ApproveCheck, ApproveCommit, Pause, StopBegin,
             StopRequested, Serving, LockFree
    <3>3. Reach(e)' = Reach(e)
      BY <1>1, <3>2 DEF Reach
    <3>4. QED
      BY <2>1, <3>2, <3>3
  <2>4. QED
    BY <2>2, <2>3
<1>3. QED
  BY <1>1, <1>2, UnsavedStep

LEMMA TickStepKeepsTrades ==
  ASSUME "record" \notin Env, TypeOK, TypeOK', DateInv, TradeInv, TickStep
  PROVE  TradeInv'
<1> USE DEF durable, registry, holder
<1>1. \A e \in Deployments : Reach(e) \in Int
  BY ReachType
<1>2. ASSUME NEW d \in Deployments, TickSkip(d) PROVE TradeInv'
  <2>1. stage' = stage /\ cur' = cur /\ date' = date /\ book' = book
        /\ UNCHANGED <<rows, ledger, lastDate>>
    BY <1>2 DEF TickSkip
  <2>2. \A e \in Deployments : book'[e] = book[e] /\ Reach(e) <= Reach(e)'
    BY <1>1, <2>1 DEF Reach
  <2>3. QED
    BY <2>1, <2>2, UnsavedStep
<1>3. ASSUME NEW d \in Deployments, Executes(d)
      PROVE  /\ OnceUpTo(book'[d], date) /\ book'[d] \in Books
             /\ \A e \in Deployments : e # d => book'[e] = book[e]
             /\ lastDate[d] < date /\ date \in StoreDays /\ date \in Int
             /\ \A e \in Deployments : OnceUpTo(book[e], lastDate[e])
  <2>1. /\ book' \in [Deployments -> Books] /\ date \in 0..LastDay
        /\ date \in StoreDays
    BY <1>3, ExecutedBookType
  <2>2. lastDate[d] < date /\ stage = "tick" /\ date \in Int
    BY <1>3, <2>1, ReachType, ConstantsAssumption DEF Executes, Skips
  <2>3. \A e \in Deployments : OnceUpTo(book[e], lastDate[e])
    BY <2>2 DEF TradeInv, InMemory, Reach
  <2>4. book[d] \in Books
    BY DEF TypeOK
  <2>5. CASE UNCHANGED book
    BY <2>1, <2>2, <2>3, <2>4, <2>5, OnceLater, ReachType
  <2>6. CASE book' = [book EXCEPT ![d][date] = @ + 1]
    <3>1. book'[d] = [book[d] EXCEPT ![date] = @ + 1]
      BY <2>6 DEF TypeOK
    <3>2. OnceUpTo(book'[d], date)
      BY <2>1, <2>2, <2>3, <2>4, <3>1, OnceTraded, ReachType
    <3>3. \A e \in Deployments : e # d => book'[e] = book[e]
      BY <2>6 DEF TypeOK
    <3>4. QED
      BY <2>1, <2>2, <2>3, <3>2, <3>3
  <2>7. QED
    BY <1>3, <2>5, <2>6 DEF Executes, ExecuteDay
<1>4. ASSUME NEW d \in Deployments, TickExecute(d) PROVE TradeInv'
  <2>1. /\ rows' = [rows EXCEPT ![d][date] = book'[d]]
        /\ ledger' = [ledger EXCEPT ![d] = book'[d]]
        /\ lastDate' = [lastDate EXCEPT ![d] = date]
        /\ stage' = "after"
    BY <1>4 DEF TickExecute
  <2>2. /\ OnceUpTo(book'[d], date) /\ book'[d] \in Books
        /\ \A e \in Deployments : e # d => book'[e] = book[e]
        /\ lastDate[d] < date /\ date \in StoreDays /\ date \in Int
        /\ \A e \in Deployments : OnceUpTo(book[e], lastDate[e])
    BY <1>3, <1>4 DEF TickExecute
  <2>3. ASSUME NEW e \in Deployments, e # d PROVE InMemory(e)' /\ Stored(e)'
    <3>1. /\ rows'[e] = rows[e] /\ ledger'[e] = ledger[e]
          /\ lastDate'[e] = lastDate[e] /\ book'[e] = book[e]
      BY <2>1, <2>2, <2>3 DEF TypeOK
    <3>2. Stored(e)'
      BY <3>1 DEF Stored, TradeInv, OnceUpTo
    <3>3. InMemory(e)'
      BY <2>1, <2>2, <3>1 DEF InMemory, Reach, OnceUpTo
    <3>4. QED
      BY <3>2, <3>3
  <2>4. InMemory(d)' /\ Stored(d)'
    <3>1. lastDate'[d] = date /\ ledger'[d] = book'[d]
      BY <2>1 DEF TypeOK
    <3>2. ASSUME NEW y \in StoreDays, rows'[d][y] # NoBook
          PROVE  OnceUpTo(rows'[d][y], date)
      <4>1. CASE y = date
        <5>1. rows'[d][y] = book'[d]
          BY <2>1, <2>2, <4>1 DEF TypeOK
        <5>2. QED
          BY <2>2, <5>1
      <4>2. CASE y # date
        <5>1. rows'[d][y] = rows[d][y]
          BY <2>1, <2>2, <4>2 DEF TypeOK
        <5>2. rows[d][y] \in Books /\ OnceUpTo(rows[d][y], lastDate[d])
          BY <3>2, <5>1 DEF TypeOK, TradeInv, Stored
        <5>3. QED
          BY <2>2, <5>1, <5>2, OnceLater, ReachType
      <4>3. QED
        BY <4>1, <4>2
    <3>3. QED
      BY <2>1, <2>2, <3>1, <3>2 DEF InMemory, Stored, Reach, OnceUpTo
  <2>5. QED
    BY <2>3, <2>4 DEF TradeInv
<1>5. ASSUME NEW d \in Deployments, TickExecuteFails(d) PROVE TradeInv'
  <2>1. /\ Executes(d) /\ stage' = "record" /\ cur' = d /\ date' = date
        /\ UNCHANGED <<rows, ledger, lastDate>>
    BY <1>5, Zenon DEF TickExecuteFails, Executes
  <2>2. /\ OnceUpTo(book'[d], date)
        /\ \A e \in Deployments : e # d => book'[e] = book[e]
        /\ \A e \in Deployments : OnceUpTo(book[e], lastDate[e])
    BY <1>3, <2>1
  <2>3. ASSUME NEW e \in Deployments PROVE InMemory(e)' /\ Stored(e)'
    <3>1. Stored(e)'
      BY <2>1 DEF Stored, TradeInv, OnceUpTo
    <3>2. CASE e = d
      BY <2>1, <2>2, <3>1, <3>2 DEF InMemory, Reach, OnceUpTo
    <3>3. CASE e # d
      BY <2>1, <2>2, <3>1, <3>3 DEF InMemory, Reach, OnceUpTo
    <3>4. QED
      BY <3>1, <3>2, <3>3
  <2>4. QED
    BY <2>3 DEF TradeInv
<1>6. CASE TickRecordError
  <2>1. /\ stage = "record" /\ stage' = "count" /\ UNCHANGED <<book, rows, ledger>>
        /\ lastDate' = [lastDate EXCEPT ![cur] = date]
        /\ cur \in Deployments /\ lastDate[cur] <= date
    BY <1>6 DEF TickRecordError, DateInv
  <2>2. ASSUME NEW e \in Deployments PROVE InMemory(e)' /\ Stored(e)'
    <3>1. /\ lastDate'[e] = Reach(e) /\ lastDate[e] <= Reach(e)
          /\ Reach(e) \in Int /\ lastDate[e] \in Int
      BY <2>1, ReachType DEF Reach, TypeOK
    <3>2. InMemory(e) /\ Stored(e)
      BY DEF TradeInv
    <3>3. InMemory(e)'
      BY <2>1, <3>1, <3>2 DEF InMemory, Reach, OnceUpTo
    <3>4. ledger[e] # NoBook => OnceUpTo(ledger[e], Reach(e))
      BY <3>1, <3>2, OnceLater DEF Stored, TypeOK
    <3>5. \A y \in StoreDays : rows[e][y] # NoBook => OnceUpTo(rows[e][y], Reach(e))
      BY <3>1, <3>2, OnceLater DEF Stored, TypeOK
    <3>6. Stored(e)'
      BY <2>1, <3>1, <3>4, <3>5 DEF Stored, OnceUpTo
    <3>7. QED
      BY <3>3, <3>6
  <2>3. QED
    BY <2>2 DEF TradeInv
<1>7. CASE TickAfterFails
  <2>1. /\ stage = "after" /\ stage' = "record" /\ UNCHANGED <<cur, date, book>>
        /\ UNCHANGED <<rows, ledger, lastDate>>
    BY <1>7, Zenon DEF TickAfterFails
  <2>2. \A e \in Deployments : book'[e] = book[e] /\ Reach(e) <= Reach(e)'
    <3>1. \A e \in Deployments : lastDate[e] \in Int
      BY ReachType
    <3>2. QED
      BY <2>1, <3>1 DEF Reach, DateInv
  <2>3. QED
    BY <2>1, <2>2, UnsavedStep
<1>8. CASE TickAfter \/ TickCountError \/ TickEscalate \/ TickAborts \/ TickEnd
  <2>1. /\ stage # "record" /\ UNCHANGED <<rows, ledger, lastDate>>
    BY <1>8, Zenon
       DEF TickAfter, TickCountError, TickEscalate, TickAborts, TickEnd
  <2>2. stage' # "record"
    <3>1. stage' \in {"idle", "tick", "escalate"}
      <4>1. CASE TickCountError
        BY <4>1, Zenon DEF TickCountError, NextInBatch
      <4>2. CASE ~TickCountError
        BY <1>8, <4>2, Zenon
           DEF TickAfter, TickEscalate, TickAborts, TickEnd, NextInBatch,
               ReleaseLock
      <4>3. QED
        BY <4>1, <4>2
    <3>2. QED
      BY <3>1
  <2>3. book' = book \/ book' = [book EXCEPT ![cur] = EmptyBook]
    BY <1>8, Zenon
       DEF TickAfter, TickCountError, TickEscalate, TickAborts, TickEnd, Unload
  <2>4. \A e \in Deployments :
          /\ Reach(e) <= Reach(e)' /\ Reach(e)' = lastDate[e]
          /\ book'[e] = book[e] \/ book'[e] = EmptyBook
    BY <1>1, <2>1, <2>2, <2>3 DEF Reach, TypeOK
  <2>5. QED
    BY <2>1, <2>4, UnsavedStep
<1>9. QED
  BY <1>2, <1>4, <1>5, <1>6, <1>7, <1>8 DEF TickStep
LEMMA RecoveryStepKeepsTrades ==
  ASSUME TypeOK, TypeOK', RunningInv, TradeInv, RecoveryStep
  PROVE  TradeInv'
<1> USE DEF durable, registry, holder, ReleaseLock
<1>1. /\ stage # "record" /\ UNCHANGED <<rows, ledger, lastDate>>
      /\ stage' # "record"
  <2>1. CASE Restart
    BY <2>1 DEF Restart, RunningInv
  <2>2. ASSUME NEW d \in Deployments, ResumeOne(d) \/ ResumeOneFails(d)
        PROVE  stage = "resume" /\ stage' = stage
               /\ UNCHANGED <<rows, ledger, lastDate>>
    BY <2>2 DEF ResumeOne, ResumeOneFails
  <2>3. CASE ResumeAllAborts \/ ResumeAllEnds
    <3>1. stage = "resume" /\ stage' = "idle"
          /\ UNCHANGED <<rows, ledger, lastDate>>
      BY <2>3, Zenon DEF ResumeAllAborts, ResumeAllEnds
    <3>2. QED
      BY <3>1
  <2>4. QED
    BY <2>1, <2>2, <2>3 DEF RecoveryStep
<1>2. book' = book \/ \E d \in Deployments : book' = [book EXCEPT ![d] = Recovered(d)]
  BY Zenon DEF RecoveryStep, Restart, ResumeOne, ResumeOneFails,
               ResumeAllAborts, ResumeAllEnds, Load
<1>3. \A e \in Deployments :
        /\ Reach(e) <= Reach(e)' /\ Reach(e)' = lastDate[e]
        /\ book'[e] = book[e] \/ book'[e] = Recovered(e)
  <2>1. \A e \in Deployments : Reach(e) \in Int
    BY ReachType
  <2>2. QED
    BY <1>1, <1>2, <2>1 DEF Reach, TypeOK
<1>4. QED
  BY <1>1, <1>3, UnsavedStep

LEMMA TradeInvariant ==
  ASSUME Env \cap {"record", "liquidate"} = {}
  PROVE  Spec => []TradeInv
<1>1. Init => TradeInv
  <2> SUFFICES ASSUME Init, NEW d \in Deployments PROVE InMemory(d) /\ Stored(d)
    BY DEF TradeInv
  <2>1. book[d] = EmptyBook /\ lastDate[d] = 0 /\ stage = "idle"
        /\ ledger[d] = NoBook /\ \A y \in StoreDays : rows[d][y] = NoBook
    BY DEF Init
  <2>2. OnceUpTo(EmptyBook, 0)
    BY EmptyBookOnce
  <2>3. QED
    BY <2>1, <2>2 DEF InMemory, Stored, Reach
<1>2. TypeOK /\ TypeOK' /\ RunningInv /\ DateInv /\ TradeInv /\ [Next]_vars
        => TradeInv'
  <2> SUFFICES ASSUME TypeOK, TypeOK', RunningInv, DateInv, TradeInv, [Next]_vars
               PROVE  TradeInv'
    OBVIOUS
  <2> USE DEF durable, registry, holder
  <2>0. \A e \in Deployments : Reach(e) \in Int
    BY ReachType
  <2>1. ASSUME NEW d \in Deployments, Request(d) PROVE TradeInv'
    BY <2>1, RequestKeepsTrades
  <2>2. CASE \E day \in Days : ManualTick(day) \/ AutoTick(day)
    <3>1. /\ stage = "idle" /\ stage' = "tick" /\ book' = book
          /\ UNCHANGED <<rows, ledger, lastDate>>
      BY <2>2 DEF ManualTick, AutoTick, TickBegin, Serving, LockFree
    <3>2. \A e \in Deployments : book'[e] = book[e] /\ Reach(e) <= Reach(e)'
      BY <2>0, <3>1 DEF Reach
    <3>3. QED
      BY <3>1, <3>2, UnsavedStep
  <2>3. CASE StopStep
    <3>1. /\ stage = "stop" /\ stage' = "idle"
          /\ book' = book \/ book' = [book EXCEPT ![cur] = EmptyBook]
          /\ UNCHANGED <<rows, ledger, lastDate>>
      BY <2>3 DEF StopStep, StopRetire, StopFails, Unload, ReleaseLock
    <3>2. \A e \in Deployments :
            /\ Reach(e) <= Reach(e)' /\ Reach(e)' = lastDate[e]
            /\ book'[e] = book[e] \/ book'[e] = EmptyBook
      BY <2>0, <3>1 DEF Reach, TypeOK
    <3>3. QED
      BY <3>1, <3>2, UnsavedStep
  <2>4. CASE TickStep
    BY <2>4, TickStepKeepsTrades
  <2>5. CASE RecoveryStep
    BY <2>5, RecoveryStepKeepsTrades
  <2>6. CASE Crash
    <3>1. /\ stage' = "idle" /\ book' = [d \in Deployments |-> EmptyBook]
          /\ UNCHANGED <<rows, ledger, lastDate>>
      BY <2>6, Zenon DEF Crash, ReleaseLock
    <3>2. \A e \in Deployments :
            book'[e] \in {EmptyBook, Recovered(e)} /\ Reach(e)' = lastDate[e]
      BY <3>1 DEF Reach
    <3>3. QED
      BY <3>1, <3>2, UnsavedStep
  <2>7. CASE \E m \in Markets : NewDay(m)
    <3>1. UNCHANGED <<book, rows, ledger, lastDate, stage, cur, date>>
      BY <2>7 DEF NewDay
    <3>2. \A e \in Deployments : book'[e] = book[e] /\ Reach(e) <= Reach(e)'
      BY <2>0, <3>1 DEF Reach
    <3>3. QED
      BY <3>1, <3>2, UnsavedStep
  <2>8. CASE UNCHANGED vars
    <3>1. UNCHANGED <<book, rows, ledger, lastDate, stage, cur, date>>
      BY <2>8 DEF vars
    <3>2. \A e \in Deployments : book'[e] = book[e] /\ Reach(e) <= Reach(e)'
      BY <2>0, <3>1 DEF Reach
    <3>3. QED
      BY <3>1, <3>2, UnsavedStep
  <2>9. QED
    BY <2>1, <2>2, <2>3, <2>4, <2>5, <2>6, <2>7, <2>8 DEF Next
<1>3. Spec => []DateInv
  BY DateInvariant
<1>4. QED
  BY <1>1, <1>2, <1>3, TypeCorrect, RunningInvariant, PTL DEF Spec

(* No account ever holds a business day twice, in memory or in the ledger, *)
(* however ticks fail, are repeated, or die halfway: as long as a failed   *)
(* tick can record its failure, and nothing is liquidated.                 *)
THEOREM DaysTradedOnce ==
  ASSUME Env \cap {"record", "liquidate"} = {}
  PROVE  Spec => []NoDayTradedTwice
<1>1. TradeInv => NoDayTradedTwice
  BY DEF TradeInv, InMemory, Stored, OnceUpTo, NoDayTradedTwice
<1>2. QED
  BY <1>1, TradeInvariant, PTL
=============================================================================
