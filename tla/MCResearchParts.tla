--------------------------- MODULE MCResearchParts ---------------------------
(***************************************************************************)
(* Parts of the research side and of the trading core that share no state, *)
(* for TLC: each behaviour is one of one part, and the variables of the    *)
(* others keep their initial values.                                       *)
(***************************************************************************)
EXTENDS CodeSandbox, ResearchRuns, AlphaTraining, WalkForward, DataCache,
  SingleBacktest, PortfolioDays, OrderManagement, TLC

CONSTANTS
  Parts,          \* the parts of a run
  f1, f2,         \* two files of user code
  v1

VARIABLE part

TwoStocks == <<"a", "b">>
HalfOrAll == {[a |-> 4, b |-> 4], [a |-> 8, b |-> 0], [a |-> 0, b |-> 8]}
TwoPeriods == <<1, 2, 2, 2>>

Loose == [perDay |-> 99, perSymbol |-> 99, gross |-> 99, allowed |-> {"a", "b"}]
Small == [perDay |-> 8, perSymbol |-> 4, gross |-> 6, allowed |-> {"a", "b"}]
NoPolicy ==
  [enabled |-> FALSE, stage |-> "read_only",
   limits |-> [read_only |-> Loose, paper_sim |-> Loose, small_whitelist |-> Small]]
NoCaps ==
  [mode |-> "pro_rata_cap", maxNames |-> 2, allocation |-> 8, killSwitch |-> FALSE,
   maxNotional |-> 99, turnover |-> 16, maxWeight |-> 8, concentration |-> 8, gross |-> 8,
   capital |-> NoPolicy]
Capped ==
  [NoCaps EXCEPT
     !.mode = "equal_weight_cap", !.turnover = 10, !.concentration = 6, !.gross = 7]
Staged ==
  [NoCaps EXCEPT
     !.gross = 6, !.capital.enabled = TRUE, !.capital.stage = "small_whitelist"]

CappedOrStaged == {Capped, Staged}
AllOrSome == {[a |-> 8, b |-> 0], [a |-> 2, b |-> 6]}
OneAccount == {[cash |-> 4, shares |-> [a |-> 3, b |-> 1]]}

(* What the model writes in one iteration of a research task.              *)
SmallBatches == {<<"s1", "s2">>, <<"s1">>, <<"s1", "s2", "s1">>}

Gaps == {{}, {4}, {4, 5}, {6, 7}}
NoFeatures == {{}, {5, 7}}
AlphaHistories ==
  {[bars |-> (1..9) \ gap, usable |-> (3..9) \ bad] : gap \in Gaps, bad \in NoFeatures}

Split(kind_, n, k, ratio) ==
  [kind |-> kind_, rows |-> n, splits |-> k, ratio |-> ratio, train |-> <<0, 0>>, test |-> <<0, 0>>]
WalkJobs ==
  {Split(kind_, n, k, ratio) : kind_ \in {"portfolio", "single", "weights"},
                               n \in {8, 13, 17, 20}, k \in 2..4, ratio \in {1, 5, 7, 9}}
  \cup {[Split("nested", 8, 1, 0) EXCEPT !.train = w, !.test = x] :
          w \in {<<0, 3>>, <<2, 4>>}, x \in {<<4, 6>>, <<5, 9>>}}

(* A part that is not the one of the behaviour starts in one state only.   *)
Init ==
  /\ part \in Parts
  /\ part = "sandbox" \/ kind = [f \in {f1, f2} |-> "strategy"]
  /\ part = "orders" \/ config = Capped
  /\ part = "backtest" \/ (matcher = "rules" /\ tape = [price |-> 1000, ratio |-> 2])
  /\ \/ part = "alpha"
     \/ caller = "engine" /\ history = [s \in {"a", "b"} |-> [bars |-> 1..9, usable |-> 3..9]]
  /\ part = "walk" \/ job = Split("single", 8, 2, 5)
  /\ SandboxInit /\ PortfolioInit /\ CacheInit /\ OrdersInit /\ ResearchInit /\ BacktestInit
  /\ AlphaInit /\ WalkInit
  /\ part # "portfolio" => quote.price = [s \in {"a", "b"} |-> 100000] /\ mode = "running"

SandboxStep ==
  /\ part = "sandbox" /\ SandboxNext
  /\ UNCHANGED <<part, portfolioVars, cacheVars, orderVars, researchVars,
                 backtestVars, alphaVars, walkVars>>
PortfolioStep ==
  /\ part = "portfolio" /\ PortfolioNext
  /\ UNCHANGED <<part, sandboxVars, cacheVars, orderVars, researchVars,
                 backtestVars, alphaVars, walkVars>>
CacheStep ==
  /\ part = "cache" /\ CacheNext
  /\ UNCHANGED <<part, sandboxVars, portfolioVars, orderVars, researchVars,
                 backtestVars, alphaVars, walkVars>>
OrdersStep ==
  /\ part = "orders" /\ OrdersNext
  /\ UNCHANGED <<part, sandboxVars, portfolioVars, cacheVars, researchVars,
                 backtestVars, alphaVars, walkVars>>
ResearchStep ==
  /\ part = "research" /\ ResearchNext
  /\ UNCHANGED <<part, sandboxVars, portfolioVars, cacheVars, orderVars,
                 backtestVars, alphaVars, walkVars>>
BacktestStep ==
  /\ part = "backtest" /\ BacktestNext
  /\ UNCHANGED <<part, sandboxVars, portfolioVars, cacheVars, orderVars,
                 researchVars, alphaVars, walkVars>>
AlphaStep ==
  /\ part = "alpha" /\ AlphaNext
  /\ UNCHANGED <<part, sandboxVars, portfolioVars, cacheVars, orderVars,
                 researchVars, backtestVars, walkVars>>
WalkStep ==
  /\ part = "walk" /\ WalkNext
  /\ UNCHANGED <<part, sandboxVars, portfolioVars, cacheVars, orderVars,
                 researchVars, backtestVars, alphaVars>>

Next ==
  \/ SandboxStep \/ PortfolioStep \/ CacheStep \/ OrdersStep \/ ResearchStep \/ BacktestStep
  \/ AlphaStep \/ WalkStep

Symmetry == Permutations({f1, f2})

vars ==
  <<part, sandboxVars, portfolioVars, cacheVars, orderVars, researchVars, backtestVars,
    alphaVars, walkVars>>
Spec == Init /\ [][Next]_vars

==============================================================================
