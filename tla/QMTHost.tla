------------------------------- MODULE QMTHost -------------------------------
(***************************************************************************)
(* QMTHostService: the long-running owner of one broker session.  start()  *)
(* spawns a supervisor thread that connects, reconnects and watches the    *)
(* callbacks; stop() asks it to exit, waits for it at most five seconds    *)
(* and closes the client it saw.  The client factory and close() run       *)
(* outside the lock, so every one of these calls is several steps.         *)
(*                                                                         *)
(* Times are abstracted to what the code asks of them: whether the last    *)
(* callback is within the grace period and whether the retry interval of a *)
(* supervisor is over.                                                     *)
(***************************************************************************)
EXTENDS Integers, FiniteSets

CONSTANTS
  MaxStarts,     \* bound: supervisor threads ever started
  MaxHostClients \* bound: clients ever built

Health == {"uninitialized", "connecting", "ready", "degraded", "disconnected",
           "stopped"}
Connectable == {"uninitialized", "connecting", "disconnected"}
Supervisors == 1..MaxStarts
NoThread == 0
NoHostClient == 0

VARIABLES
  health, reconnect, stopFlag,   \* _HostState
  hostClient,    \* _client, by order of construction
  built,         \* clients built so far
  closed,        \* clients closed
  thread,        \* _supervisor_thread
  sup,           \* what each supervisor is doing
  waits,         \* supervisors whose retry interval is not over
  fresh,         \* the last callback is within the grace period
  listeners,     \* somebody subscribed
  stopper        \* the stop() call in progress, with the client it captured

hostVars == <<health, reconnect, stopFlag, hostClient, built, closed, thread, sup,
              waits, fresh, listeners, stopper>>

Idle == [at |-> "idle"]

HostInit ==
  /\ health = "uninitialized" /\ reconnect = TRUE /\ stopFlag = FALSE
  /\ hostClient = NoHostClient /\ built = 0 /\ closed = {}
  /\ thread = NoThread
  /\ sup = [s \in Supervisors |-> "unborn"]
  /\ waits = {} /\ fresh = TRUE /\ listeners = FALSE
  /\ stopper = Idle

Alive(s) == s # NoThread /\ sup[s] \notin {"unborn", "dead"}

(* start(): nothing while a supervisor is alive.                           *)
Start ==
  /\ ~Alive(thread)
  /\ \E s \in Supervisors :
       /\ s = Cardinality({r \in Supervisors : sup[r] # "unborn"}) + 1
       /\ thread' = s
       /\ sup' = [sup EXCEPT ![s] = "asleep"]
  /\ health' = "connecting" /\ reconnect' = TRUE /\ stopFlag' = FALSE
  /\ UNCHANGED <<hostClient, built, closed, waits, fresh, listeners, stopper>>

(* stop(): under the lock, then the join (which may time out), then the    *)
(* close outside the lock, then the lock again.                            *)
StopBegin ==
  /\ stopper = Idle
  /\ health # "stopped"
  /\ stopFlag' = TRUE /\ reconnect' = FALSE
  /\ stopper' = [at |-> "joining", thread |-> thread, client |-> hostClient]
  /\ UNCHANGED <<health, hostClient, built, closed, thread, sup, waits, fresh, listeners>>

(* The join ends with the thread; it times out only while the supervisor   *)
(* is inside the client factory, which no flag interrupts.                 *)
StopJoined ==
  /\ stopper.at = "joining"
  /\ Alive(stopper.thread) => sup[stopper.thread] = "connecting"
  /\ closed' = closed \cup ({stopper.client} \ {NoHostClient})
  /\ stopper' = [stopper EXCEPT !.at = "closed"]
  /\ UNCHANGED <<health, reconnect, stopFlag, hostClient, built, thread, sup, waits,
                 fresh, listeners>>

StopEnd ==
  /\ stopper.at = "closed"
  /\ health' = "stopped" /\ hostClient' = NoHostClient /\ thread' = NoThread
  /\ stopper' = Idle
  /\ UNCHANGED <<reconnect, stopFlag, built, closed, sup, waits, fresh, listeners>>

(* One turn of the supervisor loop begins with a snapshot of the state.    *)
Observed(s) ==
  IF stopFlag THEN "dead"
  ELSE IF health \in Connectable /\ reconnect /\ s \notin waits THEN "connecting"
  ELSE IF health = "ready" /\ listeners /\ ~fresh THEN "demoting"
  ELSE IF health = "degraded" /\ fresh /\ hostClient # NoHostClient THEN "promoting"
  ELSE "asleep"

Observe(s) ==
  /\ sup[s] = "asleep"
  /\ Observed(s) # sup[s]
  /\ sup' = [sup EXCEPT ![s] = Observed(s)]
  /\ UNCHANGED <<health, reconnect, stopFlag, hostClient, built, closed, thread, waits,
                 fresh, listeners, stopper>>

Connected(s) ==
  /\ sup[s] = "connecting"
  /\ built < MaxHostClients
  /\ built' = built + 1
  /\ hostClient' = built + 1
  /\ health' = "ready" /\ reconnect' = FALSE /\ fresh' = TRUE
  /\ waits' = waits \ {s}
  /\ sup' = [sup EXCEPT ![s] = "asleep"]
  /\ UNCHANGED <<stopFlag, closed, thread, listeners, stopper>>

(* Mutant: a failed attempt takes back the request to reconnect.           *)
ConnectFailsForGood(s) ==
  /\ sup[s] = "connecting"
  /\ health' = "disconnected" /\ reconnect' = FALSE
  /\ waits' = waits \cup {s}
  /\ sup' = [sup EXCEPT ![s] = "asleep"]
  /\ UNCHANGED <<stopFlag, hostClient, built, closed, thread, fresh, listeners, stopper>>

ConnectFails(s) ==
  /\ sup[s] = "connecting"
  /\ health' = "disconnected" /\ reconnect' = TRUE
  /\ waits' = waits \cup {s}
  /\ sup' = [sup EXCEPT ![s] = "asleep"]
  /\ UNCHANGED <<stopFlag, hostClient, built, closed, thread, fresh, listeners, stopper>>

(* Mutant: the snapshot of the turn is acted on.                           *)
DemoteUnchecked(s) ==
  /\ sup[s] = "demoting"
  /\ health' = "degraded"
  /\ sup' = [sup EXCEPT ![s] = "asleep"]
  /\ UNCHANGED <<reconnect, stopFlag, hostClient, built, closed, thread, waits, fresh,
                 listeners, stopper>>

(* The snapshot may be stale by now: the health is read again.             *)
Demote(s) ==
  /\ sup[s] = "demoting"
  /\ health' = IF health = "ready" THEN "degraded" ELSE health
  /\ sup' = [sup EXCEPT ![s] = "asleep"]
  /\ UNCHANGED <<reconnect, stopFlag, hostClient, built, closed, thread, waits, fresh,
                 listeners, stopper>>

Promote(s) ==
  /\ sup[s] = "promoting"
  /\ health' = IF health = "degraded" THEN "ready" ELSE health
  /\ sup' = [sup EXCEPT ![s] = "asleep"]
  /\ UNCHANGED <<reconnect, stopFlag, hostClient, built, closed, thread, waits, fresh,
                 listeners, stopper>>

RetryDue(s) ==
  /\ s \in waits
  /\ waits' = waits \ {s}
  /\ UNCHANGED <<health, reconnect, stopFlag, hostClient, built, closed, thread, sup,
                 fresh, listeners, stopper>>

(* Callbacks of the broker library, and the passing of time without one.   *)
NotifyDisconnected ==
  /\ built > 0
  /\ health' = "disconnected" /\ reconnect' = TRUE
  /\ UNCHANGED <<stopFlag, hostClient, built, closed, thread, sup, waits, fresh,
                 listeners, stopper>>

CallbackActivity ==
  /\ built > 0
  /\ fresh' \in BOOLEAN
  /\ UNCHANGED <<health, reconnect, stopFlag, hostClient, built, closed, thread, sup,
                 waits, listeners, stopper>>

Subscription ==
  /\ listeners' = ~listeners
  /\ UNCHANGED <<health, reconnect, stopFlag, hostClient, built, closed, thread, sup,
                 waits, fresh, stopper>>

Turn(s) == Observe(s) \/ Connected(s) \/ ConnectFails(s) \/ Demote(s) \/ Promote(s)

HostNext ==
  \/ Start \/ StopBegin \/ StopJoined \/ StopEnd
  \/ NotifyDisconnected \/ CallbackActivity \/ Subscription
  \/ \E s \in Supervisors : Turn(s) \/ RetryDue(s)

HostSpec == HostInit /\ [][HostNext]_hostVars

(* A supervisor that runs keeps running, retry intervals end, a stop()     *)
(* call proceeds, and the factory does not fail for ever.                  *)
HostFairness ==
  /\ \A s \in Supervisors :
       WF_hostVars(Turn(s)) /\ WF_hostVars(RetryDue(s)) /\ SF_hostVars(Connected(s))
  /\ WF_hostVars(StopJoined) /\ WF_hostVars(StopEnd)

HostFairSpec == HostSpec /\ HostFairness

(* A host that says it is ready or degraded holds a client, and outside a  *)
(* stop() call that client is open: whatever was observed before the lock  *)
(* was taken again, whichever thread outlived its stop().                  *)
ReadyClientIsOpen ==
  health \in {"ready", "degraded"} =>
    /\ hostClient # NoHostClient
    /\ stopper = Idle => hostClient \notin closed

(* A disconnect that a running supervisor is asked to repair is repaired,  *)
(* or the host is stopped.                                                 *)
ReconnectHappens ==
  (health = "disconnected" /\ reconnect /\ Alive(thread) /\ built < MaxHostClients)
    ~> (health \in {"ready", "stopped"} \/ stopFlag \/ built = MaxHostClients)
=============================================================================
