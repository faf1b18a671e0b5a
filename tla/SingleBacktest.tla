--------------------------- MODULE SingleBacktest ----------------------------
(***************************************************************************)
(* The bars of a single-stock backtest: the Python loop with its matchers, *)
(* the compiled loop that takes its place for signals of zero and one, and *)
(* the trade records both derive from the fills.  Money is in whole units, *)
(* commission one percent, weights in quarters, shares whole.              *)
(***************************************************************************)
EXTENDS Integers, Sequences, SequencesExt, FiniteSetsExt

CONSTANTS
  Capital,
  BarPrices,         \* even; bound: a bar opens where it closes
  Weights,        \* the signals, in quarters
  Lot, LeastFee, Slip, Tax,    \* the last two in percent
  NoBar,          \* a bar without a price
  Matchers,       \* "rules" of the market, "plain", or "binary" signals
  LastBar

(* A bar is worth at least one; signals are clipped to the interval from   *)
(* zero to one, and slippage leaves something of the price.                *)
ASSUME BacktestAssumption ==
  /\ Capital \in Nat /\ LeastFee \in Nat /\ Tax \in Nat /\ LastBar \in Nat
  /\ Slip \in 0..100 /\ Lot \in Nat \ {0}
  /\ BarPrices \subseteq Nat \ {0, 1} /\ NoBar \notin BarPrices
  /\ Weights \subseteq 0..4

VARIABLES
  matcher,
  bar,
  tape,          \* the raw price of the bar and its adjustment, in halves
  book,           \* of the Python loop
  fast,           \* of the compiled loop
  blocked         \* the side the price limit turned away on this bar

backtestVars == <<matcher, bar, tape, book, fast, blocked>>

NewBook ==
  [cash |-> Capital, shares |-> 0, prev |-> [held |-> 0, of |-> 1],
   open |-> FALSE, basis |-> 0, fees |-> 0, partial |-> 0, trades |-> <<>>]

BacktestInit ==
  /\ matcher \in Matchers
  /\ bar = 0
  /\ tape \in [price : BarPrices, ratio : {1, 2}]
  /\ book = NewBook /\ fast = NewBook
  /\ blocked = "none"

(* Execution and valuation are at adjusted prices.                         *)
Adjusted(q) == (q.price * q.ratio) \div 2

Commission(value) == Max({value \div 100, LeastFee})
NoFill == [shares |-> 0, price |-> 0, fee |-> 0]

(* SlippageMatcher and SimpleMatcher                                       *)
FillBuy(price, amount) ==
  LET at == price + (price * Slip) \div 100
      n == (amount - Commission(amount)) \div at IN
  IF Commission(amount) >= amount \/ n = 0 THEN NoFill
  ELSE [shares |-> n, price |-> at, fee |-> Commission(amount)]

FillSell(price, n) ==
  LET at == price - (price * Slip) \div 100
      fee == Min({Commission(n * at), n * at}) IN
  [shares |-> n, price |-> at, fee |-> fee]

(* SellSideTaxMatcher                                                      *)
FillSellTaxed(price, n) ==
  LET f == FillSell(price, n)
      tax == Min({(f.shares * f.price * Tax) \div 100, f.shares * f.price - f.fee}) IN
  [f EXCEPT !.fee = @ + tax]

(* MarketRulesMatcher.  The limit is judged by the raw close of the bar    *)
(* before; without one it is not judged.  The engine fills once a bar, so  *)
(* T+1 has nothing to refuse.                                              *)
Known(prev) == prev # NoBar
AtUpper(price, prev) == Known(prev) /\ 10 * price >= 11 * prev
AtLower(price, prev) == Known(prev) /\ 10 * price <= 9 * prev

RulesBuy(price, amount, prev) ==
  LET f == FillBuy(price, amount)
      n == Lot * (f.shares \div Lot) IN
  IF AtUpper(price, prev) \/ n = 0 THEN NoFill
  ELSE IF n = f.shares THEN f
  ELSE [f EXCEPT !.shares = n, !.fee = Commission(n * f.price)]

RulesSell(price, n, prev) ==
  IF AtLower(price, prev) \/ n < Lot THEN NoFill
  ELSE FillSellTaxed(price, Lot * (n \div Lot))

(* A sale of f: the trade is recorded when nothing is left, before that    *)
(* its result is kept.                                                     *)
Sold(b, f) ==
  LET gain == f.shares * f.price - (b.basis * f.shares) \div b.shares - f.fee
      cash == b.cash + f.shares * f.price - f.fee IN
  IF f.shares < b.shares
  THEN [b EXCEPT !.cash = cash, !.shares = @ - f.shares, !.partial = @ + gain,
                 !.basis = @ - (b.basis * f.shares) \div b.shares]
  ELSE [b EXCEPT !.cash = cash, !.shares = 0, !.open = FALSE, !.basis = 0, !.fees = 0,
                 !.partial = 0, !.trades = Append(@, b.partial + gain - b.fees)]

(* Mutant: the commission of a second purchase replaces that of the first. *)
BoughtKeepsLastFee(b, f) ==
  [b EXCEPT !.cash = @ - f.shares * f.price - f.fee, !.shares = @ + f.shares, !.open = TRUE,
            !.basis = @ + f.shares * f.price, !.fees = f.fee]

Bought(b, f) ==
  [b EXCEPT !.cash = @ - f.shares * f.price - f.fee, !.shares = @ + f.shares, !.open = TRUE,
            !.basis = @ + f.shares * f.price, !.fees = @ + f.fee]

(* More than a thousandth away from the weight after the last fill.        *)
Moves(b, w) == LET gap == w * b.prev.of - 4 * b.prev.held IN
  1000 * gap > 4 * b.prev.of \/ -1000 * gap > 4 * b.prev.of

Equity(b, price) == b.cash + b.shares * price
WantsLess(b, price, w) == b.shares > 0 /\ Equity(b, price) * w < 4 * b.shares * price
WantsMore(b, price, w) == Equity(b, price) * w > 4 * b.shares * price

Excess(b, price, w) ==
  IF w = 0 THEN b.shares ELSE (4 * b.shares * price - Equity(b, price) * w) \div (4 * price)
Missing(b, price, w) ==
  Min({(Equity(b, price) * w) \div 4 - b.shares * price, b.cash})

WithWeight(b, price) ==
  [b EXCEPT !.prev = [held |-> b.shares * price, of |-> Max({Equity(b, price), 1})]]

(* One bar of _simulate_python()                                           *)
Fill(b, price, w, prev) ==
  CASE ~Moves(b, w) -> NoFill
    [] Moves(b, w) /\ WantsLess(b, price, w) ->
         IF Excess(b, price, w) = 0 THEN NoFill
         ELSE IF matcher = "rules" THEN RulesSell(price, Excess(b, price, w), prev)
         ELSE FillSell(price, Excess(b, price, w))
    [] Moves(b, w) /\ ~WantsLess(b, price, w) /\ WantsMore(b, price, w)
       /\ Missing(b, price, w) > 0 ->
         IF matcher = "rules" THEN RulesBuy(price, Missing(b, price, w), prev)
         ELSE FillBuy(price, Missing(b, price, w))
    [] OTHER -> NoFill

Simulated(b, price, w, prev) ==
  LET f == Fill(b, price, w, prev) IN
  IF f.shares = 0 THEN b
  ELSE WithWeight(IF WantsLess(b, price, w) THEN Sold(b, f) ELSE Bought(b, f), price)

(* One bar of jit_simulate_loop(), which knows neither rules nor partial   *)
(* results.                                                                *)
SimulatedFast(b, price, w) ==
  LET sells == Moves(b, w) /\ WantsLess(b, price, w)
      buys == Moves(b, w) /\ ~sells /\ WantsMore(b, price, w) /\ Missing(b, price, w) > 0
      out == FillSell(price, Excess(b, price, w))
      in == FillBuy(price, Missing(b, price, w)) IN
  IF sells /\ out.shares > 0
  THEN WithWeight(
    [b EXCEPT !.cash = @ + out.shares * out.price - out.fee, !.shares = @ - out.shares,
       !.open = FALSE, !.basis = 0, !.fees = 0,
       !.trades = Append(@, out.price * b.shares - b.basis - out.fee - b.fees)], price)
  ELSE IF buys /\ in.shares > 0 THEN WithWeight(Bought(b, in), price)
  ELSE b

LimitBlocks(b, price, w, prev) ==
  IF matcher # "rules" \/ ~Moves(b, w) THEN "none"
  ELSE CASE WantsLess(b, price, w) /\ AtLower(price, prev) -> "sell"
         [] ~WantsLess(b, price, w) /\ WantsMore(b, price, w) /\ AtUpper(price, prev) -> "buy"
         [] OTHER -> "none"

Bar(q, w) ==
  /\ bar < LastBar
  /\ matcher = "binary" => w \in {0, 4}
  /\ q.ratio >= tape.ratio
  /\ bar' = bar + 1 /\ tape' = q
  /\ IF q.price = NoBar THEN blocked' = "none" /\ UNCHANGED <<book, fast>>
     ELSE /\ book' = Simulated(book, Adjusted(q), w, tape.price)
          /\ fast' = IF matcher = "binary" THEN SimulatedFast(fast, Adjusted(q), w) ELSE fast
          /\ blocked' = LimitBlocks(book, Adjusted(q), w, tape.price)
  /\ UNCHANGED matcher

(* What is held at the end is recorded as if it were sold at the last      *)
(* price, past the rules of the market; the cash stays.                    *)
VirtualSale(b) ==
  IF matcher = "rules" THEN FillSellTaxed(Adjusted(tape), b.shares)
  ELSE FillSell(Adjusted(tape), b.shares)

Closed(b) ==
  IF b.shares = 0 \/ tape.price = NoBar THEN b
  ELSE [b EXCEPT !.trades = Sold(b, VirtualSale(b)).trades]

FinishBacktest ==
  /\ bar = LastBar /\ bar' = bar + 1
  /\ book' = Closed(book) /\ fast' = Closed(fast)
  /\ UNCHANGED <<matcher, tape, blocked>>

BacktestNext ==
  \/ \E q \in [price : BarPrices \cup {NoBar}, ratio : {1, 2}], w \in Weights : Bar(q, w)
  \/ FinishBacktest

BacktestSpec == BacktestInit /\ [][BacktestNext]_backtestVars

Total(results) == FoldLeft(LAMBDA a, b : a + b, 0, results)

(* The trade records explain the cash: what the closed trades, the partial *)
(* sales and the position in the books come to is the change of the cash,  *)
(* which is never overdrawn, however a position is reinforced and reduced; *)
(* and at the end they come to what a sale of everything would have left.  *)
TradesExplainTheCash ==
  /\ book.cash >= 0 /\ (book.open <=> book.shares > 0)
  /\ IF bar <= LastBar \/ book.shares = 0 \/ tape.price = NoBar
     THEN book.cash - Capital = Total(book.trades) + book.partial - book.fees - book.basis
     ELSE Capital + Total(book.trades) = Sold(book, VirtualSale(book)).cash

(* For signals of zero and one the compiled loop does what the Python loop *)
(* does.                                                                   *)
FastPathAgrees == matcher = "binary" => fast = book

BacktestAccounts == TradesExplainTheCash /\ FastPathAgrees

(* "Market rules must use real prices": the limit turns an order away only *)
(* where the real price is at the limit.                                   *)
LimitsUseRealPrices ==
  [][/\ blocked' = "sell" => AtLower(tape'.price, tape.price)
     /\ blocked' = "buy" => AtUpper(tape'.price, tape.price)]_<<bar, tape, blocked>>
==============================================================================
