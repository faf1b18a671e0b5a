----------------------------- MODULE MCLiveParts -----------------------------
(***************************************************************************)
(* Parts of the live system that share no state, for TLC: each behaviour   *)
(* is one of one part, and the variables of the others keep their initial  *)
(* values.  The parts are the synchronisation of broker callbacks, the     *)
(* views of them, the comparison of orders, the identity of orders, the    *)
(* real submission, the way from a backtest to its engine, and the ticks   *)
(* of an engine with its log; all are extended, since the proofs are about *)
(* their definitions.                                                      *)
(***************************************************************************)
EXTENDS CallbackSync, CallbackViews, Reconcile, OrderIdentity, QMTRealSubmit, DeployChain,
  TickLedger

CONSTANTS o1, r1, r2

NoSequence == -1

VARIABLE part

(* Bodies of POST /run.                                                    *)
Body ==
  [market |-> "cn", rules |-> "unset", optimizer |-> "none", risk_control |-> FALSE,
   max_drawdown |-> 20, max_turnover |-> 50, good |-> TRUE]
Cautious == [Body EXCEPT !.risk_control = TRUE, !.max_drawdown = 10]
FewRequests ==
  {Cautious, [Cautious EXCEPT !.rules = "free"],
   [Body EXCEPT !.market = "us", !.optimizer = "mean_variance"],
   [Body EXCEPT !.good = FALSE]}

Parts == {"ticks", "sync", "views", "orders", "identity", "submission", "deploy"}

PartsInit ==
  /\ part \in Parts
  /\ TickInit /\ SyncInit /\ ViewsInit /\ ReconcileInit /\ IdentityInit /\ ChainInit
  /\ SubmitInit /\ (part # "submission" => terms = CHOOSE t \in Terms : TRUE)

TicksStep ==
  /\ part = "ticks" /\ TickNext
  /\ UNCHANGED <<part, syncVars, viewVars, reconcileVars, identityVars, submitVars, chainVars>>
SyncStep ==
  /\ part = "sync" /\ SyncNext
  /\ UNCHANGED <<part, tickVars, viewVars, reconcileVars, identityVars, submitVars, chainVars>>
ViewsStep ==
  /\ part = "views" /\ ViewsNext
  /\ UNCHANGED <<part, tickVars, syncVars, reconcileVars, identityVars, submitVars, chainVars>>
OrdersStep ==
  /\ part = "orders" /\ ReconcileNext
  /\ UNCHANGED <<part, tickVars, syncVars, viewVars, identityVars, submitVars, chainVars>>
IdentityStep ==
  /\ part = "identity" /\ IdentityNext
  /\ UNCHANGED <<part, tickVars, syncVars, viewVars, reconcileVars, submitVars, chainVars>>
SubmissionStep ==
  /\ part = "submission" /\ SubmitNext
  /\ UNCHANGED <<part, tickVars, syncVars, viewVars, reconcileVars, identityVars, chainVars>>
DeployStep ==
  /\ part = "deploy" /\ ChainNext
  /\ UNCHANGED <<part, tickVars, syncVars, viewVars, reconcileVars, identityVars, submitVars>>

PartsNext ==
  \/ TicksStep \/ SyncStep \/ ViewsStep \/ OrdersStep \/ IdentityStep \/ SubmissionStep
  \/ DeployStep

RunSymmetry == Permutations({r1, r2})

PartsVars ==
  <<part, tickVars, syncVars, viewVars, reconcileVars, identityVars, submitVars, chainVars>>
PartsSpec == PartsInit /\ [][PartsNext]_PartsVars
==============================================================================
