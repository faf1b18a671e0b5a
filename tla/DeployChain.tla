---------------------------- MODULE DeployChain ----------------------------
(***************************************************************************)
(* From a portfolio backtest to the engine that trades it: the stored run, *)
(* the walk-forward evidence written next to it, the deployment built from *)
(* the row, the gate, and the engine that is built from the specification. *)
(* Of a configuration the market, its trading rules (tax, lots, limits),   *)
(* the optimizer and the thresholds of the risk control are told apart.    *)
(* What an engine does once it runs is LiveScheduler's.                    *)
(***************************************************************************)
EXTENDS Naturals

CONSTANTS
  Runs, Deployments,
  Old,            \* a deployment from before the rules went into the row
  Requests        \* bodies of POST /run, and how good their metrics are

VARIABLES
  runs,           \* portfolio_runs
  specs,          \* deployment_specs, by the hash of the content
  deployments,    \* their records; "tested" is what the source run executed
  verdict,        \* of an approval between the gate and its commit
  engines

chainVars == <<runs, specs, deployments, verdict, engines>>

CnRules == "cn"
FreeRules == "free"
Unset == "unset"
DefaultRules(market) == IF market = "cn" THEN CnRules ELSE FreeRules

(* Fields that the body leaves out are filled in by the market.            *)
Rules(req) == IF req.rules = Unset THEN DefaultRules(req.market) ELSE req.rules

(* The risk manager of the backtest.                                       *)
Risk(on, drawdown, turnover) ==
  IF on THEN [on |-> TRUE, drawdown |-> drawdown, turnover |-> turnover]
  ELSE [on |-> FALSE, drawdown |-> 0, turnover |-> 0]

Executed(req) ==
  [market |-> req.market, rules |-> Rules(req), optimizer |-> req.optimizer,
   risk |-> Risk(req.risk_control, req.max_drawdown, req.max_turnover)]

NoRun == [saved |-> FALSE]
NoDeployment == [status |-> "none"]
NoEngine == [runs |-> FALSE]

(* A spec as it was built while the rules were looked for in the wrong     *)
(* place and the Chinese ones taken instead.                               *)
OldExecuted ==
  [market |-> "us", rules |-> FreeRules, optimizer |-> "none", risk |-> Risk(FALSE, 0, 0)]
OldSpec ==
  [market |-> "us", rules |-> CnRules, t_plus_1 |-> TRUE, optimizer |-> "none",
   risk_control |-> FALSE, risk_params |-> [max_drawdown |-> 20, max_turnover |-> 50]]

(* Mutant: the hash leaves the trading rules out.                          *)
SpecIdOfStrategy(spec) ==
  <<spec.market, spec.t_plus_1, spec.optimizer, spec.risk_control, spec.risk_params>>

(* The identity of a spec is the hash of all its fields.                   *)
SpecId(spec) ==
  <<spec.market, spec.rules, spec.t_plus_1, spec.optimizer, spec.risk_control,
    spec.risk_params>>

ChainInit ==
  /\ runs = [r \in Runs |-> NoRun]
  /\ specs = [id \in {SpecId(OldSpec)} |-> OldSpec]
  /\ deployments =
       [d \in Deployments |->
          IF d = Old
          THEN [status |-> "approved", spec_id |-> SpecId(OldSpec), source |-> Old,
                tested |-> OldExecuted]
          ELSE NoDeployment]
  /\ verdict = [d \in Deployments |-> "none"]
  /\ engines = [d \in Deployments |-> NoEngine]

(* The config column holds each group of fields in a bucket of its own.    *)
Config(req) ==
  [market |-> req.market, _cost |-> Rules(req), _optimizer |-> req.optimizer,
   _risk |-> [enabled |-> req.risk_control, max_drawdown |-> req.max_drawdown,
              max_turnover |-> req.max_turnover]]

(* save_run(): INSERT OR IGNORE.                                           *)
Saved(r, row) == IF runs[r].saved THEN runs ELSE [runs EXCEPT ![r] = row]

(* POST /run.  "good" stands for the metrics that the gate will judge.     *)
RunPortfolio(r, req) ==
  /\ ~runs[r].saved
  /\ runs' = Saved(r,
       [saved |-> TRUE, config |-> Config(req), good |-> req.good, wf |-> "none",
        executed |-> Executed(req)])
  /\ UNCHANGED <<specs, deployments, verdict, engines>>

(* update_wf_metrics()                                                     *)
Proven(r, wf) == IF runs[r].saved THEN [runs EXCEPT ![r].wf = wf] ELSE runs

(* POST /walk-forward with the id of a run: what it finds goes to that row.*)
WalkForward(r, passes) ==
  /\ runs' = Proven(r, IF passes THEN "passes" ELSE "fails")
  /\ UNCHANGED <<specs, deployments, verdict, engines>>

DeleteRun(r) ==
  /\ runs[r].saved
  /\ runs' = [runs EXCEPT ![r] = NoRun]
  /\ UNCHANGED <<specs, deployments, verdict, engines>>

(* Mutant: the rules are looked for at the top level of the config.        *)
SpecFromRunTopLevel(run) ==
  [market |-> run.config.market, rules |-> DefaultRules(run.config.market),
   t_plus_1 |-> run.config.market = "cn", optimizer |-> run.config._optimizer,
   risk_control |-> run.config._risk.enabled,
   risk_params |-> [max_drawdown |-> run.config._risk.max_drawdown,
                    max_turnover |-> run.config._risk.max_turnover]]

(* _build_spec_from_run(): the parameters keep the names of the request.   *)
SpecFromRun(run) ==
  [market |-> run.config.market, rules |-> run.config._cost,
   t_plus_1 |-> run.config.market = "cn", optimizer |-> run.config._optimizer,
   risk_control |-> run.config._risk.enabled,
   risk_params |-> [max_drawdown |-> run.config._risk.max_drawdown,
                    max_turnover |-> run.config._risk.max_turnover]]

(* POST /deploy.  A spec that is there already is kept.                    *)
CreateDeployment(d, r) ==
  LET spec == SpecFromRun(runs[r]) IN
  /\ deployments[d].status = "none" /\ runs[r].saved
  /\ specs' = [id \in DOMAIN specs \cup {SpecId(spec)} |->
                IF id \in DOMAIN specs THEN specs[id] ELSE spec]
  /\ deployments' =
       [deployments EXCEPT ![d] =
          [status |-> "pending", spec_id |-> SpecId(spec), source |-> r,
           tested |-> runs[r].executed]]
  /\ UNCHANGED <<runs, verdict, engines>>

(* The gate reads the row of the source run as it is now.                  *)
Passes(run) == run.saved /\ run.good /\ run.wf = "passes"

ApproveEvaluates(d) ==
  /\ deployments[d].status = "pending" /\ verdict[d] = "none"
  /\ verdict' =
       [verdict EXCEPT ![d] = IF Passes(runs[deployments[d].source]) THEN "passed" ELSE "failed"]
  /\ UNCHANGED <<runs, specs, deployments, engines>>

ApproveCommits(d) ==
  /\ verdict[d] # "none"
  /\ verdict' = [verdict EXCEPT ![d] = "none"]
  /\ deployments' =
       IF verdict[d] = "passed" THEN [deployments EXCEPT ![d].status = "approved"]
       ELSE deployments
  /\ UNCHANGED <<runs, specs, engines>>

(* Chinese rules on another market: a spec of the old kind.                *)
Mismatched(spec) == spec.market # "cn" /\ (spec.t_plus_1 \/ spec.rules = CnRules)

ValueOf(params, key, default) == IF key \in DOMAIN params THEN params[key] ELSE default

(* _create_risk_manager(): it asks for other names than the run saved.     *)
RiskManager(spec) ==
  Risk(spec.risk_control, ValueOf(spec.risk_params, "max_drawdown_threshold", 20),
       ValueOf(spec.risk_params, "max_turnover", 50))

Engine(spec) ==
  [runs |-> TRUE, market |-> spec.market, rules |-> spec.rules, t_plus_1 |-> spec.t_plus_1,
   optimizer |-> spec.optimizer, risk |-> RiskManager(spec)]

(* Mutant: any spec is started.                                            *)
StartUnchecked(d) ==
  LET spec == specs[deployments[d].spec_id] IN
  /\ deployments[d].status = "approved" /\ ~engines[d].runs
  /\ engines' = [engines EXCEPT ![d] = Engine(spec)]
  /\ deployments' = [deployments EXCEPT ![d].status = "running"]
  /\ UNCHANGED <<runs, specs, verdict>>

(* _start_engine(), for a start and after a restart of the process alike.  *)
Start(d) ==
  /\ deployments[d].status \in {"approved", "running"} /\ ~engines[d].runs
  /\ LET spec == specs[deployments[d].spec_id] IN
     /\ ~Mismatched(spec)
     /\ engines' = [engines EXCEPT ![d] = Engine(spec)]
  /\ deployments' = [deployments EXCEPT ![d].status = "running"]
  /\ UNCHANGED <<runs, specs, verdict>>

ChainRestart ==
  /\ \E d \in Deployments : engines[d].runs
  /\ engines' = [d \in Deployments |-> NoEngine]
  /\ verdict' = [d \in Deployments |-> "none"]
  /\ UNCHANGED <<runs, specs, deployments>>

ChainNext ==
  \/ \E r \in Runs :
       \/ \E req \in Requests : RunPortfolio(r, req)
       \/ \E passes \in BOOLEAN : WalkForward(r, passes)
       \/ DeleteRun(r)
  \/ \E d \in Deployments :
       \/ \E r \in Runs : CreateDeployment(d, r)
       \/ ApproveEvaluates(d) \/ ApproveCommits(d) \/ Start(d)
  \/ ChainRestart

ChainSpec == ChainInit /\ [][ChainNext]_chainVars

(* An engine trades the market, by the rules and with the optimizer that   *)
(* its source run was tested with, whatever else was deployed under the    *)
(* same hash, deleted, started again or built by an older version.         *)
EngineTradesAsTested ==
  \A d \in Deployments :
    engines[d].runs =>
      LET tested == deployments[d].tested IN
      /\ engines[d].market = tested.market /\ engines[d].rules = tested.rules
      /\ engines[d].t_plus_1 = (tested.market = "cn")
      /\ engines[d].optimizer = tested.optimizer

(* A deployment carries the full configuration of the strategy: its risk   *)
(* control has the thresholds of the backtest that earned the approval.    *)
DeployedRiskIsTested ==
  \A d \in Deployments : engines[d].runs => engines[d].risk = deployments[d].tested.risk
==============================================================================
