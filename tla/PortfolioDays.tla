---------------------------- MODULE PortfolioDays ----------------------------
(***************************************************************************)
(* The days of a portfolio with whole lots, costs, price limits and a      *)
(* drawdown breaker, in the backtest and in the paper engine, which share  *)
(* the execution.  Weights are in eighths; a lot is a share; a price is a  *)
(* multiple of 10000, so that slippage, commission and tax of one percent  *)
(* are exact.  Adjusted and raw prices are the same.                       *)
(***************************************************************************)
EXTENDS Integers, Sequences, SequencesExt, FiniteSetsExt, Functions

CONSTANTS
  Universe,        \* in order of their names
  StockPrices,
  TargetWeights,        \* what strategy, optimizer and turnover limit come to
  Hold,           \* the strategy gives no weights
  InitialCash,
  MinFee,
  PeriodOf,       \* the rebalance period of each day: a bound on the days
  Engines         \* "running", a backtest's loop, or "live", the paper engine

VARIABLES
  day,
  quote,          \* today's prices, yesterday's, and who has a bar today
  account,        \* cash, shares and the list of trades
  breaker,        \* the drawdown state machine of the risk manager
  equityCurve,          \* equity at the end of each day
  mode           \* the engine, or how the backtest ended: failed or done

portfolioVars == <<day, quote, account, breaker, equityCurve, mode>>

Paper == mode = "live"
Names == Range(Universe)
FinalDay == Len(PeriodOf)

(* What a sale gets for a share, after slippage.                           *)
Received(price) == price - price \div 100

(* A share is sold for no less than the sale costs.                        *)
ASSUME PortfolioAssumption ==
  /\ Universe \in Seq(Names) /\ PeriodOf \in Seq(Nat)
  /\ InitialCash \in Nat /\ MinFee \in Nat
  /\ StockPrices \subseteq Nat \ {0} /\ TargetWeights \subseteq [Names -> Nat]
  /\ \A p \in StockPrices : MinFee + Received(p) \div 100 <= Received(p)

(* rebalance_dates(): the last trading day of each period, and of all.     *)
RebalanceDays == {d \in DOMAIN PeriodOf : d = FinalDay \/ PeriodOf[d + 1] # PeriodOf[d]}

Value(a, q) ==
  FoldLeft(LAMBDA v, s : v + a.shares[s] * q.price[s], a.cash, Universe)

FreshAccount == [cash |-> InitialCash, shares |-> [s \in Names |-> 0], trades |-> <<>>]
FreshBreaker == [peak |-> 0, breached |-> FALSE, event |-> FALSE]

PortfolioInit ==
  /\ day = 0
  /\ \E p \in [Names -> StockPrices] : quote = [price |-> p, prev |-> p, bars |-> Names]
  /\ account = FreshAccount
  /\ breaker = FreshBreaker
  /\ equityCurve = <<>>
  /\ mode \in Engines

(* What a day can quote.  Bound: one symbol moves or has no bar.           *)
Quotes ==
  {[price |-> [quote.price EXCEPT ![s] = p], prev |-> quote.price, bars |-> Names] :
     s \in Names, p \in StockPrices}
  \cup {[price |-> quote.price, prev |-> quote.price, bars |-> Names \ {s}] : s \in Names}

Fee(amount) == IF amount = 0 THEN 0 ELSE Max({amount \div 100, MinFee})

TradeResult(d, s, side, n, price, cost) ==
  [day |-> d, symbol |-> s, side |-> side, shares |-> n, price |-> price, cost |-> cost]

(* A sale down to goal, whether it may take place or not.                  *)
SellTo(a, q, d, s, goal) ==
  LET n == a.shares[s] - goal
      price == Received(q.price[s])
      cost == Fee(n * price) + (n * price) \div 100
  IN [cash |-> a.cash + n * price - cost,
      shares |-> [a.shares EXCEPT ![s] = goal],
      trades |-> Append(a.trades, TradeResult(d, s, "sell", n, price, cost))]

(* A purchase up to goal, or as far as the cash goes.                      *)
BuyUpTo(a, q, d, s, goal) ==
  LET price == q.price[s] + q.price[s] \div 100
      Paid(n) == n * price + Fee(n * price)
      wanted == goal - a.shares[s]
      affordable == ((a.cash - MinFee) * 100) \div (price * 101)
      n == IF Paid(wanted) <= a.cash THEN wanted ELSE affordable
  IN IF n <= 0 \/ Paid(n) > a.cash THEN a
     ELSE [cash |-> a.cash - Paid(n),
           shares |-> [a.shares EXCEPT ![s] = @ + n],
           trades |-> Append(a.trades, TradeResult(d, s, "buy", n, price, Fee(n * price)))]

LimitUp(q, s) == 10 * (q.price[s] - q.prev[s]) >= q.prev[s]
LimitDown(q, s) == 10 * (q.prev[s] - q.price[s]) >= q.prev[s]
Sellable(q, s) == s \in q.bars /\ ~LimitDown(q, s)
Buyable(q, s) == s \in q.bars /\ ~LimitUp(q, s)

(* One pass over the symbols: those in sales are sold down to their goals, *)
(* or those in purchases bought up to theirs.                              *)
Sales(a, q, d, goal, sales) ==
  FoldLeft(LAMBDA b, s : IF s \in sales THEN SellTo(b, q, d, s, goal[s]) ELSE b, a, Universe)
Purchases(a, q, d, goal, purchases) ==
  FoldLeft(LAMBDA b, s : IF s \in purchases THEN BuyUpTo(b, q, d, s, goal[s]) ELSE b, a, Universe)

(* execute_portfolio_trades(): the sales, then the purchases.  A symbol is *)
(* in one of the two, so that the guard against buying what was just sold  *)
(* has nothing to do.                                                      *)
Goals(a, q, weights) ==
  [s \in Names |-> (Value(a, q) * weights[s]) \div (8 * q.price[s])]
Rebalanced(a, q, d, weights) ==
  LET goal == Goals(a, q, weights)
      sales == {s \in Names : goal[s] < a.shares[s] /\ Sellable(q, s)}
      purchases == {s \in Names : goal[s] > a.shares[s] /\ Buyable(q, s)}
  IN Purchases(Sales(a, q, d, goal, sales), q, d, goal, purchases)

(* The emergency sale of half of everything that can be sold.              *)
Halved(a, q, d) ==
  Sales(a, q, d, [s \in Names |-> a.shares[s] \div 2],
        {s \in Names : a.shares[s] > 0 /\ Sellable(q, s)})

(* check_drawdown(): breached beyond a tenth, recovered below a twentieth. *)
CheckDrawdown(b, equity) ==
  LET peak == Max({b.peak, equity})
      breaches == ~b.breached /\ (peak - equity) * 10 > peak
      recovers == b.breached /\ (peak - equity) * 20 < peak
  IN [peak |-> peak,
      breached |-> IF b.breached THEN ~recovers ELSE breaches,
      event |-> breaches \/ recovers]

(* replay_equity()                                                         *)
ReplayEquity(equities) == FoldLeft(CheckDrawdown, FreshBreaker, equities)

Scaled(weights, b) == IF b.breached THEN [s \in Names |-> weights[s] \div 2] ELSE weights

(* Mutant: the emergency sale comes before a rebalance of the same day.    *)
EmergencyAnyDay(d, b) == b.breached /\ b.event

Emergency(d, b) == b.breached /\ b.event /\ d \notin RebalanceDays

(* The paper engine reports an emergency sale as a risk event only.        *)
Protected(a, q, d, b) ==
  IF ~Emergency(d, b) THEN a
  ELSE IF Paper THEN [Halved(a, q, d) EXCEPT !.trades = a.trades]
  ELSE Halved(a, q, d)

(* One turn of the backtest's loop, or execute_day().                      *)
TradingDay(q, weights) ==
  /\ mode \in {"running", "live"} /\ day < FinalDay
  /\ day' = day + 1 /\ quote' = q
  /\ breaker' = CheckDrawdown(breaker, Value(account, q))
  /\ LET protected == Protected(account, q, day', breaker') IN
       account' = IF day' \notin RebalanceDays \/ weights = Hold THEN protected
                  ELSE Rebalanced(protected, q, day', Scaled(weights, breaker'))
  /\ equityCurve' = Append(equityCurve, Value(account', q))
  /\ mode' = IF ~Paper /\ (account'.cash < 0 \/ Value(account', q) <= 0)
              THEN "failed" ELSE mode

(* The paper engine gets no data: the account at the last known prices.    *)
NoData ==
  /\ Paper /\ day < FinalDay
  /\ day' = day + 1
  /\ equityCurve' = Append(equityCurve, Value(account, quote))
  /\ UNCHANGED <<quote, account, breaker, mode>>

(* The engine is rebuilt from its store: what the account was, the breaker *)
(* from the equity equityCurve.                                                  *)
RestartEngine ==
  /\ Paper /\ day > 0
  /\ breaker' = ReplayEquity(equityCurve)
  /\ UNCHANGED <<day, quote, account, equityCurve, mode>>

(* The backtest ends with the sale of everything, limits or not.           *)
Liquidate ==
  /\ mode = "running" /\ day = FinalDay
  /\ mode' = "done"
  /\ account' = Sales(account, quote, day + 1, [s \in Names |-> 0],
                      {s \in Names : account.shares[s] > 0})
  /\ equityCurve' = IF account' = account THEN equityCurve ELSE Append(equityCurve, account'.cash)
  /\ UNCHANGED <<day, quote, breaker>>

PortfolioNext ==
  \/ \E q \in Quotes, w \in TargetWeights \cup {Hold} :
       (day + 1 \in RebalanceDays \/ w = Hold) /\ TradingDay(q, w)
  \/ NoData \/ RestartEngine \/ Liquidate

PortfolioSpec == PortfolioInit /\ [][PortfolioNext]_portfolioVars

Sign(t) == IF t.side = "buy" THEN 1 ELSE -1
Booked(a, t) ==
  [cash |-> a.cash - Sign(t) * t.shares * t.price - t.cost,
   shares |-> [a.shares EXCEPT ![t.symbol] = @ + Sign(t) * t.shares],
   trades |-> Append(a.trades, t)]

(* The list of trades explains the account of a backtest: booked one by    *)
(* one it never overdraws cash or shares and ends at the account the       *)
(* engine has; and nothing is bought on the day it was sold.               *)
TradesExplainTheAccount ==
  LET t == account.trades
      After(n) == FoldLeft(Booked, FreshAccount, SubSeq(t, 1, n)) IN
  ~Paper =>
    /\ After(Len(t)) = account
    /\ \A n \in 0 .. Len(t) : After(n).cash >= 0 /\ \A s \in Names : After(n).shares[s] >= 0
    /\ \A i, j \in 1 .. Len(t) :
         i < j /\ t[i].day = t[j].day /\ t[i].symbol = t[j].symbol
           => ~(t[i].side = "sell" /\ t[j].side = "buy")

(* "Used by Scheduler crash recovery to restore drawdown state machine":   *)
(* a restarted engine is in breach exactly if it was.                      *)
RestartKeepsBreaker == [][RestartEngine => breaker'.breached = breaker.breached]_portfolioVars
==============================================================================
