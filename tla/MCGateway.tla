------------------------------ MODULE MCGateway ------------------------------
(***************************************************************************)
(* Parts of the gateway, for TLC: the table of broker orders, the host     *)
(* service, the session manager (extended, since the proofs are about      *)
(* their definitions) and the refresh tasks of callbacks; the liveness of  *)
(* the last three rests on threads and tasks of their own.  The parts      *)
(* share no state; each behaviour is one of one part, under that part's    *)
(* fairness.                                                               *)
(***************************************************************************)
EXTENDS BrokerOrderViews, QMTHost, QMTSessions

CONSTANT o1

VARIABLES
  part,
  engines, inbox, pendingSet, tasks, lock, dirty, missed, seen

Refresh == INSTANCE CallbackRefresh WITH MaxDirty <- 2, Free <- "free"

refreshVars == <<engines, inbox, pendingSet, tasks, lock, dirty, missed, seen>>

GatewayInit ==
  /\ part \in {"links", "host", "sessions", "refresh"}
  /\ Init /\ HostInit /\ SessionInit /\ Refresh!Init

LinksStep == part = "links" /\ Next /\ UNCHANGED <<part, hostVars, sessionVars, refreshVars>>
HostStep == part = "host" /\ HostNext /\ UNCHANGED <<part, vars, sessionVars, refreshVars>>
SessionsStep ==
  part = "sessions" /\ SessionNext /\ UNCHANGED <<part, vars, hostVars, refreshVars>>
RefreshStep == part = "refresh" /\ Refresh!Next /\ UNCHANGED <<part, vars, hostVars, sessionVars>>
GatewayNext == LinksStep \/ HostStep \/ SessionsStep \/ RefreshStep
GatewayVars == <<part, vars, hostVars, sessionVars, refreshVars>>

(* HostFairness, SessionFairness and RefreshFairness of the parts, for the *)
(* behaviours of that part.                                                *)
HostPartFairness ==
  /\ \A s \in Supervisors :
       /\ WF_hostVars(part = "host" /\ Turn(s))
       /\ WF_hostVars(part = "host" /\ RetryDue(s))
       /\ SF_hostVars(part = "host" /\ Connected(s))
  /\ WF_hostVars(part = "host" /\ StopJoined)
  /\ WF_hostVars(part = "host" /\ StopEnd)
SessionPartFairness ==
  /\ SF_sessionVars(part = "sessions" /\ Supervise)
  /\ WF_sessionVars(part = "sessions" /\ SuperviseEnds)
  /\ \A o \in Owners : WF_sessionVars(part = "sessions" /\ LastSync(o))
  /\ SF_sessionVars(part = "sessions" /\ SuperviseReconnects /\ Working')
  /\ \A c \in Clients : WF_sessionVars(part = "sessions" /\ RetryIsDue(c))
RefreshPartFairness ==
  /\ WF_refreshVars(part = "refresh" /\ Refresh!OperatorUnlocks)
  /\ \A d \in Deployments :
       /\ WF_refreshVars(part = "refresh" /\ Refresh!Schedule(d))
       /\ WF_refreshVars(part = "refresh" /\ Refresh!TaskTurn(d))
       /\ WF_refreshVars(part = "refresh" /\ (Refresh!TaskPumps(d) \/ Refresh!TaskPumpFails(d)))
       /\ SF_refreshVars(part = "refresh" /\ Refresh!TaskLocks(d))

GatewaySpec ==
  /\ GatewayInit /\ [][GatewayNext]_GatewayVars
  /\ HostPartFairness /\ SessionPartFairness /\ RefreshPartFairness

(* A callback of a loaded deployment is refreshed in the end, unless the   *)
(* last pump asked for it raised: the property of CallbackRefresh, where   *)
(* its comment is.                                                         *)
CallbacksAreRefreshed == Refresh!CallbacksAreRefreshed
==============================================================================
