------------------------------- MODULE QMTGates -------------------------------
(***************************************************************************)
(* The gates an order of a real QMT deployment passes: the reconcile hard  *)
(* gate, the readiness of the session, the preflight of the submit policy, *)
(* the submit gate composed of them and the release gate.  Each takes the  *)
(* records it is computed from and returns the decision; the names of the  *)
(* blockers are left out, and None stands for what was not recorded.       *)
(***************************************************************************)
EXTENDS Integers, FiniteSets

None == "none"

(* build_qmt_reconcile_hard_gate(): the account and the order comparison   *)
(* are required, the other two count when they were made.                  *)
Required == {"account", "order"}
Optional == {"position", "trade"}

Drifted(reconciles) ==
  {p \in Required : reconciles[p] # "ok"}
    \cup {p \in Optional : reconciles[p] \notin {None, "ok"}}

HardGate(reconciles) == IF Drifted(reconciles) = {} THEN "open" ELSE "blocked"

(* _evaluate_qmt_real_submit_preflight(): without a whitelist or a cap the *)
(* account, the assets and the cash are not looked at; an amount that is   *)
(* not known passes no cap.                                                *)
NoAmount == -1
Exceeds(amount, cap) == cap # NoAmount /\ (amount = NoAmount \/ amount > cap)

PreflightOk(policy, account) ==
  /\ policy.enabled
  /\ policy.accounts = {} \/ account.id \in policy.accounts
  /\ ~Exceeds(account.totalAsset, policy.maxTotalAsset)
  /\ ~Exceeds(account.initialCash, policy.maxInitialCash)

(* build_qmt_readiness_summary(), of the latest recorded session event and *)
(* the latest recorded consumer event.                                     *)
Ready(session, consumer) ==
  /\ session = "up"
  /\ consumer.status \in {"", "running"}
  /\ consumer.mode = "callback_preferred" /\ consumer.asset = "fresh"

(* build_qmt_submit_gate_decision()                                        *)
SubmitGate(policy, ready, preflightOk, hardGate) ==
  [status |-> CASE hardGate = "blocked" -> "blocked"
                [] hardGate # "blocked" /\ ~policy.enabled -> "shadow_only"
                [] hardGate # "blocked" /\ policy.enabled -> IF ready THEN "open" ELSE "blocked",
   canSubmitNow |-> hardGate # "blocked" /\ policy.enabled /\ ready /\ preflightOk,
   preflightOk |-> preflightOk]

(* build_qmt_release_gate_decision(), as the runtime projection calls it.  *)
Releasable == {"approved", "running", "paused"}

ReleaseGate(status, verdict, submit) ==
  LET candidate == /\ verdict = "passed" /\ status \in Releasable
                   /\ submit.status = "open" /\ submit.preflightOk IN
    [status |-> IF candidate THEN "candidate" ELSE "blocked",
     eligible |-> candidate /\ submit.canSubmitNow]

(* Scheduler._qmt_real_submit_gate_open(), of the persisted projection.    *)
GateOpen(projection) ==
  /\ projection.submit.status = "open" /\ projection.submit.canSubmitNow
  /\ projection.release.status = "candidate" /\ projection.release.eligible
===============================================================================
