---------------------------- MODULE QMTRealSubmit ----------------------------
(***************************************************************************)
(* Ticks of a running deployment whose broker is QMT: orders leave for the *)
(* exchange, so each tick first pumps the broker's state into the store,   *)
(* persists the projection with its gates, and submits its orders one by   *)
(* one only when the gates are open.  A pump also runs between ticks.      *)
(*                                                                         *)
(* What a pump observes is free: the session, the four comparisons with    *)
(* the broker, the assets.  Risk events are stored under an id of the day, *)
(* INSERT OR IGNORE, so the first gate of a day is the one that counts.    *)
(***************************************************************************)
EXTENDS QMTGates, Sequences

CONSTANTS
  LastDay,       \* bound: business days are 1..LastDay
  OrdersPerDay,  \* orders of a rebalance
  RecordFails,   \* save_error may fail as well
  MaxCrashes     \* bound: process deaths

ASSUME SubmitAssumption == LastDay \in Nat \ {0} /\ OrdersPerDay \in Nat

VARIABLES
  today,
  terms,       \* the spec's submit policy and the record's gate verdict
  store,       \* latest session, consumer and account events; gates; projection
  lastDate,    \* last_processed_date
  submitGate,  \* QMTRealBroker._submit_gate_open
  placed,      \* how often the broker was given each order
  tick,        \* the tick or pump in progress
  process      \* deaths so far, and whether the process is up

submitVars == <<today, terms, store, lastDate, submitGate, placed, tick, process>>

Days == 1..LastDay
Orders == Days \X (1..OrdersPerDay)
NoTick == [at |-> "idle"]

(* The policies and verdicts of a deployment that runs: its broker was     *)
(* built, and its verdict is written apart from its status.                *)
Policy == [enabled |-> TRUE, accounts |-> {"a"}, maxTotalAsset |-> 10, maxInitialCash |-> 10]
DeploymentCash == 5

(* _build_qmt_real_broker() refuses the others.                            *)
Startable(policy) ==
  /\ policy.enabled
  /\ policy.accounts = {} \/ "a" \in policy.accounts
  /\ policy.maxInitialCash = NoAmount \/ DeploymentCash <= policy.maxInitialCash

Terms ==
  {[policy |-> p, verdict |-> v] :
     p \in {q \in {Policy, [Policy EXCEPT !.accounts = {}], [Policy EXCEPT !.enabled = FALSE],
                   [Policy EXCEPT !.accounts = {"b"}], [Policy EXCEPT !.maxTotalAsset = NoAmount]} :
               Startable(q)},
     v \in {"passed", "failed", None}}

(* What a pump may find: all is well, or one thing is not.                 *)
Good == [session |-> "up",
         consumer |-> [status |-> "running", mode |-> "callback_preferred", asset |-> "fresh"],
         totalAsset |-> 8,
         reconciles |-> [account |-> "ok", order |-> "ok", position |-> "ok", trade |-> "ok"]]
Observations ==
  {Good, [Good EXCEPT !.session = "down"], [Good EXCEPT !.consumer.status = "restart_failed"],
   [Good EXCEPT !.consumer.mode = "query_fallback"], [Good EXCEPT !.totalAsset = 11],
   [Good EXCEPT !.totalAsset = NoAmount],
   [Good EXCEPT !.reconciles = [account |-> "error", order |-> None, position |-> "unavailable",
                                trade |-> "unavailable"]]}
    \cup {[Good EXCEPT !.reconciles[p] = "drift"] : p \in Required \cup Optional}

Sealed == [status |-> "unavailable", canSubmitNow |-> FALSE, preflightOk |-> FALSE]
NoProjection == [submit |-> Sealed, release |-> [status |-> "unavailable", eligible |-> FALSE]]

SubmitInit ==
  /\ today = 1 /\ lastDate = 0
  /\ terms \in Terms
  /\ store = [session |-> None, consumer |-> [status |-> None, mode |-> None, asset |-> None],
              totalAsset |-> NoAmount, gates |-> [d \in Days |-> None],
              projection |-> NoProjection]
  /\ submitGate = FALSE
  /\ placed = [o \in Orders |-> 0]
  /\ tick = NoTick
  /\ process = [up |-> TRUE, deaths |-> 0]

(* Mutant: the gate of the first synchronisation is never written.         *)
StoredUngated(obs) ==
  [store EXCEPT !.session = obs.session, !.consumer = obs.consumer,
                !.totalAsset = obs.totalAsset]

(* _append_real_qmt_owner_events(): the events of the session and the      *)
(* account are new, the gate's id is its day's.                            *)
Stored(obs) ==
  [store EXCEPT !.session = obs.session, !.consumer = obs.consumer,
                !.totalAsset = obs.totalAsset,
                !.gates[today] = IF @ = None THEN HardGate(obs.reconciles) ELSE @]

LatestGate ==
  LET recorded == {d \in Days : store.gates[d] # None} IN
    IF recorded = {} THEN None
    ELSE store.gates[CHOOSE d \in recorded : \A e \in recorded : e <= d]

(* build_qmt_runtime_projection()                                          *)
Projection ==
  LET preflight == PreflightOk(terms.policy, [id |-> "a", totalAsset |-> store.totalAsset,
                                              initialCash |-> DeploymentCash])
      submit == SubmitGate(terms.policy, Ready(store.session, store.consumer), preflight,
                           LatestGate) IN
    [submit |-> submit, release |-> ReleaseGate("running", terms.verdict, submit)]

(* A pump, for a tick or of its own: first the events, then the projection.*)
PumpStores(obs) ==
  /\ process.up /\ tick = NoTick
  /\ \/ tick' = [at |-> "pumping", obs |-> obs]
     \/ lastDate < today /\ tick' = [at |-> "stored", obs |-> obs]
  /\ store' = Stored(obs)
  /\ UNCHANGED <<today, terms, lastDate, submitGate, placed, process>>

PumpProjects ==
  /\ tick.at = "pumping"
  /\ \/ store' = [store EXCEPT !.projection = Projection]
     \/ UNCHANGED store   \* raised before the projection
  /\ tick' = NoTick
  /\ UNCHANGED <<today, terms, lastDate, submitGate, placed, process>>

(* The tick reads the projection back and opens the broker's own gate.     *)
TickProjects ==
  /\ tick.at = "stored"
  /\ \/ store' = [store EXCEPT !.projection = Projection] /\ tick' = [tick EXCEPT !.at = "pumped"]
     \/ UNCHANGED store /\ tick' = [at |-> "failed"]
  /\ UNCHANGED <<today, terms, lastDate, submitGate, placed, process>>

TickOpensGate ==
  /\ tick.at = "pumped"
  /\ IF GateOpen(store.projection)
       THEN submitGate' = TRUE /\ tick' = [at |-> "submitting", obs |-> tick.obs, next |-> 1]
       ELSE tick' = [at |-> "failed"] /\ UNCHANGED submitGate
  /\ UNCHANGED <<today, terms, store, lastDate, placed, process>>

(* execute_target_weights(): each order, under a client order id made of   *)
(* the day and its place; the first that fails raises, and the broker may  *)
(* have taken that one too.                                                *)
Submit ==
  /\ tick.at = "submitting" /\ submitGate
  /\ tick.next <= OrdersPerDay
  /\ \/ /\ placed' = [placed EXCEPT ![<<today, tick.next>>] = @ + 1]
        /\ tick' \in {[tick EXCEPT !.next = @ + 1], [at |-> "failed"]}
     \/ tick' = [at |-> "failed"] /\ UNCHANGED placed
  /\ UNCHANGED <<today, terms, store, lastDate, submitGate, process>>

TickSaves ==
  /\ tick.at = "submitting" /\ tick.next > OrdersPerDay
  /\ \/ lastDate' = today /\ tick' = [at |-> "saved"]
     \/ UNCHANGED lastDate /\ tick' = [at |-> "failed"]
  /\ UNCHANGED <<today, terms, store, submitGate, placed, process>>

(* After the commit the owner's events are appended once more, and the     *)
(* projection follows; then the finally clause seals the broker.           *)
TickAfter(obs) ==
  /\ tick.at = "saved"
  /\ \/ /\ store' = [Stored(obs) EXCEPT !.projection = store.projection]
        /\ tick' = [at |-> "projecting"]
     \/ UNCHANGED store /\ tick' = [at |-> "failed"]
  /\ UNCHANGED <<today, terms, lastDate, submitGate, placed, process>>

TickEnds ==
  /\ tick.at = "projecting"
  /\ \/ /\ store' = [store EXCEPT !.projection = Projection]
        /\ submitGate' = FALSE /\ tick' = NoTick
     \/ tick' = [at |-> "failed"] /\ UNCHANGED <<store, submitGate>>
  /\ UNCHANGED <<today, terms, lastDate, placed, process>>

(* Mutant: a failed day may be tried again.                                *)
TickFailsUnmarked ==
  /\ tick.at = "failed"
  /\ submitGate' = FALSE /\ tick' = NoTick
  /\ UNCHANGED <<today, terms, store, lastDate, placed, process>>

(* The error path marks the day as processed, if the store lets it.        *)
TickFails ==
  /\ tick.at = "failed"
  /\ \/ lastDate' = today
     \/ RecordFails /\ UNCHANGED lastDate
  /\ submitGate' = FALSE /\ tick' = NoTick
  /\ UNCHANGED <<today, terms, store, placed, process>>

NewDay ==
  /\ tick = NoTick /\ today < LastDay
  /\ today' = today + 1
  /\ UNCHANGED <<terms, store, lastDate, submitGate, placed, tick, process>>

ProcessDies ==
  /\ process.up /\ process.deaths < MaxCrashes
  /\ process' = [up |-> FALSE, deaths |-> process.deaths + 1]
  /\ submitGate' = FALSE /\ tick' = NoTick
  /\ UNCHANGED <<today, terms, store, lastDate, placed>>

ProcessRestarts ==
  /\ ~process.up
  /\ process' = [process EXCEPT !.up = TRUE]
  /\ UNCHANGED <<today, terms, store, lastDate, submitGate, placed, tick>>

SubmitNext ==
  \/ \E obs \in Observations : PumpStores(obs) \/ TickAfter(obs)
  \/ PumpProjects \/ TickProjects \/ TickOpensGate \/ Submit \/ TickSaves \/ TickEnds \/ TickFails
  \/ NewDay \/ ProcessDies \/ ProcessRestarts

SubmitSpec == SubmitInit /\ [][SubmitNext]_submitVars

(* While the broker's gate is open, a tick is in progress whose own pump   *)
(* found the session ready and the account within the policy, the spec was *)
(* gated, and the first comparison of the day was clean: no projection of  *)
(* an earlier pump, and no failed or interrupted pump, opens it.           *)
SubmitsBehindGates ==
  submitGate =>
    /\ terms.verdict = "passed" /\ terms.policy.enabled
    /\ store.gates[today] = "open"
    /\ tick.at = "submitting" =>
         /\ Ready(tick.obs.session, tick.obs.consumer)
         /\ PreflightOk(terms.policy, [id |-> "a", totalAsset |-> tick.obs.totalAsset,
                                       initialCash |-> DeploymentCash])
    /\ tick.at \in {"submitting", "saved", "projecting", "failed"}

(* The broker is given an order at most once.                              *)
NoOrderSubmittedTwice == \A o \in Orders : placed[o] <= 1

(* As long as the process lives the broker is given an order at most once, *)
(* whatever step of its tick fails: a failed day is marked as processed.   *)
GivenOncePerProcess == \A o \in Orders : placed[o] <= 1 + process.deaths

(* Both: an open gate rests on the checks of the tick that opened it, and  *)
(* a living process gives the broker an order at most once.                *)
GivenBehindGates == SubmitsBehindGates /\ GivenOncePerProcess
==============================================================================
