--------------------------- MODULE OrderManagement ---------------------------
(***************************************************************************)
(* The orders of a rebalance in the paper OMS: runtime allocation, desired *)
(* orders, capital policy and pre-trade rules, the execution of what they  *)
(* accept, and the fills the OMS books.  Weights and caps are in eighths   *)
(* of equity, a lot is a share, and there are no costs.                    *)
(***************************************************************************)
EXTENDS Integers, Sequences, SequencesExt, FiniteSets, FiniteSetsExt, Functions

CONSTANTS
  Basket,            \* the symbols, in order of their names
  MarketPrices,
  Wishes,            \* target weights
  StartingAccounts,  \* what a deployment can hold before its first rebalance
  RiskConfigs,       \* risk parameters and capital policy
  MaxRebalances,     \* a bound
  Broker             \* "paper" or "qmt"

VARIABLES
  config,
  kill,           \* the environment variable of the kill switch
  holdings,       \* cash and shares
  marketPrice,
  last,           \* the last rebalance, for the properties
  rebalances      \* how many there were

orderVars == <<config, kill, holdings, marketPrice, last, rebalances>>

Stocks == Range(Basket)

ASSUME OrdersAssumption ==
  /\ Basket \in Seq(Stocks) /\ IsInjective(Basket)
  /\ MarketPrices \subseteq Nat \ {0} /\ MarketPrices # {}
  /\ Wishes \subseteq [Stocks -> Nat]
  /\ StartingAccounts \subseteq [cash : Nat, shares : [Stocks -> Nat]]
  /\ \A c \in RiskConfigs : {c.allocation, c.turnover, c.concentration, c.gross} \subseteq Int

(* A sum over some of the symbols.                                         *)
SumOver(f, names) == FoldLeft(LAMBDA v, s : IF s \in names THEN v + f[s] ELSE v, 0, Basket)

Worth(shares) == SumOver([s \in Stocks |-> shares[s] * marketPrice[s]], Stocks)
NetWorth == holdings.cash + Worth(holdings.shares)

NoRebalance == [accepted |-> <<>>, fills |-> {}]

OrdersInit ==
  /\ config \in RiskConfigs /\ kill = FALSE
  /\ holdings \in StartingAccounts
  /\ marketPrice = [s \in Stocks |-> Min(MarketPrices)]
  /\ last = NoRebalance /\ rebalances = 0

(* Bound: one symbol is blocked, and one is rounded down.                  *)
Few == {{}} \cup {{s} : s \in Stocks}

KillSwitch == kill' = ~kill /\ UNCHANGED <<config, holdings, marketPrice, last, rebalances>>
PriceMoves(s, p) ==
  /\ marketPrice' = [marketPrice EXCEPT ![s] = p] /\ last' = NoRebalance
  /\ UNCHANGED <<config, kill, holdings, rebalances>>

(* RuntimeAllocator: the largest weights, up to a number of names, share   *)
(* the budget.  The modes that weigh by risk are left out.                 *)
Place(s) == CHOOSE i \in DOMAIN Basket : Basket[i] = s
Ahead(w, s) == {u \in Stocks : w[u] > w[s] \/ (w[u] = w[s] /\ Place(u) < Place(s))}
Selected(w) == {s \in Stocks : w[s] > 0 /\ Cardinality(Ahead(w, s)) < config.maxNames}
Budget(w) == Min({SumOver(w, Stocks), config.allocation})
ProRata(w, names) ==
  [s \in Stocks |-> IF s \in names THEN (w[s] * Budget(w)) \div SumOver(w, names) ELSE 0]
EqualWeight(w, names) ==
  [s \in Stocks |-> IF s \in names THEN Budget(w) \div Cardinality(names) ELSE 0]
Allocated(w) ==
  IF config.mode = "equal_weight_cap" THEN EqualWeight(w, Selected(w)) ELSE ProRata(w, Selected(w))

(* _build_desired_orders()                                                 *)
Goal(w) == [s \in Stocks |-> (NetWorth * w[s]) \div (8 * marketPrice[s])]
Desired(w) ==
  LET goal == Goal(w) IN
  [i \in 1 .. Len(Basket) |->
     LET s == Basket[i] IN
     [symbol |-> s, side |-> IF goal[s] > holdings.shares[s] THEN "buy" ELSE "sell",
      shares |-> Max({goal[s] - holdings.shares[s], holdings.shares[s] - goal[s]})]]

AfterOrder(shares, o) ==
  [shares EXCEPT ![o.symbol] = IF o.side = "buy" THEN @ + o.shares ELSE @ - o.shares]

EffectiveStage ==
  IF kill /\ config.capital.stage # "read_only" THEN "paper_sim" ELSE config.capital.stage

(* check_order() of the capital policy: the stage, then its limits.        *)
StageAllows ==
  /\ ~(kill /\ Broker # "paper")
  /\ EffectiveStage # "read_only"
  /\ ~(EffectiveStage = "paper_sim" /\ Broker # "paper")

LimitsAllow(o, shares, notional) ==
  LET limits == config.capital.limits[EffectiveStage]
      amount == o.shares * marketPrice[o.symbol]
  IN /\ o.symbol \in limits.allowed
     /\ notional + amount <= limits.perDay
     /\ o.side = "buy" =>
          /\ shares[o.symbol] * marketPrice[o.symbol] + amount <= limits.perSymbol
          /\ Worth(shares) + amount <= limits.gross

CapitalAllows(o, shares, notional) ==
  config.capital.enabled => StageAllows /\ LimitsAllow(o, shares, notional)

Weight8(shares, s) == 8 * shares[s] * marketPrice[s]

(* _reject_failure() of the pre-trade rules.                               *)
RulesAllow(o, shares, notional) ==
  LET amount == o.shares * marketPrice[o.symbol]
      after == AfterOrder(shares, o)
  IN /\ ~config.killSwitch
     /\ amount <= config.maxNotional
     /\ 8 * (notional + amount) <= NetWorth * config.turnover
     /\ o.side = "buy" => Weight8(after, o.symbol) <= config.maxWeight * NetWorth
     /\ \A s \in Stocks : Weight8(after, s) <= config.concentration * NetWorth
     /\ o.side = "buy" => 8 * Worth(after) <= config.gross * NetWorth

(* Mutant: the next order is judged by what is held, not by what the       *)
(* orders before it will leave.                                            *)
TakenAlone(c, o) ==
  [shares |-> c.shares,
   notional |-> c.notional + o.shares * marketPrice[o.symbol],
   accepted |-> Append(c.accepted, o)]

Taken(c, o) ==
  [shares |-> AfterOrder(c.shares, o),
   notional |-> c.notional + o.shares * marketPrice[o.symbol],
   accepted |-> Append(c.accepted, o)]

(* evaluate_orders(): one order after the other.                           *)
NothingTaken == [shares |-> holdings.shares, notional |-> 0, accepted |-> <<>>]
Considered(c, o) ==
  IF /\ o.shares > 0
     /\ CapitalAllows(o, c.shares, c.notional)
     /\ RulesAllow(o, c.shares, c.notional)
  THEN Taken(c, o) ELSE c
Judged(orders) == FoldLeft(Considered, NothingTaken, orders)
Evaluated(orders) == Judged(orders).accepted

(* The execution of a target, sales first; what is blocked stays, and the  *)
(* purchases go as far as the cash.                                        *)
Sell(b, s, goal) ==
  [cash |-> b.cash + (b.shares[s] - goal) * marketPrice[s], shares |-> [b.shares EXCEPT ![s] = goal]]
Buy(b, s, goal) ==
  LET n == Min({goal - b.shares[s], b.cash \div marketPrice[s]}) IN
  [cash |-> b.cash - n * marketPrice[s], shares |-> [b.shares EXCEPT ![s] = @ + n]]

SellAll(b, goal, sales) ==
  FoldLeft(LAMBDA c, s : IF s \in sales THEN Sell(c, s, goal[s]) ELSE c, b, Basket)
BuyAll(b, goal, purchases) ==
  FoldLeft(LAMBDA c, s : IF s \in purchases THEN Buy(c, s, goal[s]) ELSE c, b, Basket)

Executed(a, goal, blocked) ==
  BuyAll(SellAll(a, goal, {s \in Stocks \ blocked : goal[s] < a.shares[s]}),
         goal, {s \in Stocks \ blocked : goal[s] > a.shares[s]})

LeftBy(orders) == FoldLeft(AfterOrder, holdings.shares, orders)

(* _accepted_target_weights() turns the accepted orders into weights, and  *)
(* the execution turns these back into shares, in floating point: of what  *)
(* should come out unchanged, the symbols in low come out a lot short.     *)
Requantized(orders, low) ==
  LET after == LeftBy(orders) IN
  [s \in Stocks |-> IF s \in low /\ after[s] > 0 THEN after[s] - 1 ELSE after[s]]

(* The reports: a change of the account belongs to the accepted order of   *)
(* its symbol and side; there is no report for a change without an order.  *)
Fills(orders, before, after) ==
  LET Filled(o) == IF o.side = "buy" THEN after[o.symbol] - before[o.symbol]
                                     ELSE before[o.symbol] - after[o.symbol]
  IN {[o EXCEPT !.shares = Filled(o)] : o \in {x \in Range(orders) : Filled(x) > 0}}

(* execute_rebalance()                                                     *)
Rebalance(w, blocked, low) ==
  LET orders == Evaluated(Desired(Allocated(w)))
      after == IF orders = <<>> THEN holdings
               ELSE Executed(holdings, Requantized(orders, low), blocked)
  IN /\ rebalances < MaxRebalances /\ rebalances' = rebalances + 1
     /\ holdings' = after
     /\ last' = [accepted |-> orders,
                 fills |-> Fills(orders, holdings.shares, after.shares)]
     /\ UNCHANGED <<config, kill, marketPrice>>

OrdersNext ==
  \/ KillSwitch
  \/ \E s \in Stocks : \E p \in MarketPrices \ {marketPrice[s]} : PriceMoves(s, p)
  \/ \E w \in Wishes, blocked, low \in Few : Rebalance(w, blocked, low)

OrdersSpec == OrdersInit /\ [][OrdersNext]_orderVars

SalesAreFilled ==
  \A i \in DOMAIN last.accepted :
    last.accepted[i].side = "sell" =>
      \E f \in last.fills :
        f.symbol = last.accepted[i].symbol /\ f.shares >= last.accepted[i].shares

(* What the orders come to in cash.                                        *)
Traded(orders, prices) ==
  FoldLeft(LAMBDA n, o : n + o.shares * prices[o.symbol], 0, orders)

(* Orders are judged one by one, against what those before them will       *)
(* leave.  Once they are carried out, with every sale filled, the account   *)
(* as a whole keeps the caps: turnover, concentration and, if something    *)
(* was bought, exposure.                                                   *)
AccountKeepsTheCaps ==
  LET a == last.accepted IN
  a # <<>> /\ SalesAreFilled =>
    /\ 8 * Traded(a, marketPrice) <= config.turnover * NetWorth
    /\ \A s \in Stocks : Weight8(holdings.shares, s) <= config.concentration * NetWorth
    /\ (\E i \in DOMAIN a : a[i].side = "buy") =>
         8 * Worth(holdings.shares) <= config.gross * NetWorth
==============================================================================
