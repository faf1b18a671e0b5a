---------------------------- MODULE TradingJournal ----------------------------
(***************************************************************************)
(* What the paper-trading scheduler promises about one account, whatever   *)
(* fails and whenever the process dies: a journal of the business days     *)
(* that were traded, written once per day, in order, only while the        *)
(* deployment is running, and never taken back.                            *)
(*                                                                         *)
(* This module is an abstract specification: LiveScheduler implements it   *)
(* under the mapping of module LiveSchedulerRefinement.                    *)
(***************************************************************************)
EXTENDS Integers

CONSTANTS Deployments, LastDay

Phases == {"absent", "pending", "approved", "running", "paused", "stopped",
           "error"}

Days == 1..LastDay

(* How a deployment may move on.  "stopped" is final, an error can only be *)
(* stopped, and only approval leads out of pending.                        *)
Moves == { <<"absent", "pending">>, <<"pending", "approved">>,
           <<"approved", "running">>, <<"running", "paused">>,
           <<"paused", "running">>, <<"running", "error">> }
         \cup {"approved", "running", "paused", "error"} \X {"stopped"}

VARIABLES
  phase,    \* phase[d]: where the deployment is in its life
  done,     \* done[d]: the last business day that was dealt with, 0: none
  journal   \* journal[d][x]: how often day x was traded into the account

Init ==
  /\ phase = [d \in Deployments |-> "absent"]
  /\ done = [d \in Deployments |-> 0]
  /\ journal = [d \in Deployments |-> [x \in Days |-> 0]]

Move(d, to) ==
  /\ <<phase[d], to>> \in Moves
  /\ phase' = [phase EXCEPT ![d] = to]
  /\ UNCHANGED <<done, journal>>

(* A later day is dealt with.  Its trades, and trades of earlier days that *)
(* could not be saved at the time, may enter the journal, each day once.   *)
Settle(d, day) ==
  /\ phase[d] = "running"
  /\ day > done[d]
  /\ done' = [done EXCEPT ![d] = day]
  /\ \E J \in [Days -> 0..1] :
       /\ \A x \in Days :
            IF x <= day THEN J[x] >= journal[d][x] ELSE J[x] = journal[d][x]
       /\ journal' = [journal EXCEPT ![d] = J]
  /\ UNCHANGED phase

Next ==
  \E d \in Deployments :
    \/ \E to \in Phases : Move(d, to)
    \/ \E day \in Days : Settle(d, day)

Spec == Init /\ [][Next]_<<phase, done, journal>>
=============================================================================
