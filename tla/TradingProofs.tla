---------------------------- MODULE TradingProofs ----------------------------
(***************************************************************************)
(* What the trading core keeps, for any symbols, prices, weights and       *)
(* costs.  Of a backtest of one symbol, and of one of a portfolio: its     *)
(* records explain its cash and its holdings.  Of the orders of a          *)
(* rebalance: judged one by one and carried out as far as the cash goes,   *)
(* they leave an account within the caps.  MCResearchParts runs these      *)
(* parts on small bounds; LedgerProofs has what a fold computes.           *)
(***************************************************************************)
EXTENDS SingleBacktest, PortfolioDays, OrderManagement, LedgerProofs

-----------------------------------------------------------------------------
(* What the results of a list of trades come to                             *)

LEMMA TotalIsSum ==
  ASSUME NEW s \in Seq(Int)
  PROVE  \E h \in [0..Len(s) -> Int] :
           /\ h[0] = 0 /\ \A i \in 1..Len(s) : h[i] = h[i - 1] + s[i]
           /\ Total(s) = h[Len(s)]
<1> DEFINE n == Len(s)
           step == [p \in (1..n) \X Int |-> p[2] + s[p[1]]]
           Unrolls(f) == f = [A \in SUBSET (1..n) |->
                  IF A = {} THEN 0 ELSE f[A \ {Max(A)}] + s[Max(A)]]
           g == CHOOSE f : Unrolls(f)
<1>1. n \in Nat /\ DOMAIN s = 1..n /\ step \in [(1..n) \X Int -> Int] /\ 0 \in Int
  OBVIOUS
<1>2. \A i \in 1..n, v \in Int : step[<<i, v>>] = v + s[i]
  OBVIOUS
<1>3. Total(s) = g[1..n]
  BY <1>1, Zenon DEF Total, FoldLeft, MapThenFoldSet
<1>4. n \in Nat /\ step \in [(1..n) \X Int -> Int] /\ 0 \in Int
  BY <1>1
<1> HIDE DEF n, step
<1>5. PICK f \in [SUBSET (1..n) -> Int] : Folds(f, n, 0, step)
  BY <1>4, FoldingExists
<1>6. \A A \in SUBSET (1..n) : f[A] = IF A = {} THEN 0 ELSE f[A \ {Max(A)}] + s[Max(A)]
  BY <1>2, <1>4, <1>5, LargestPlace DEF Folds
<1>7. Unrolls(f)
  BY <1>5, <1>6
<1>8. Unrolls(g)
  <2> HIDE DEF Unrolls
  <2> QED
    BY <1>7
<1> HIDE DEF g
<1>9. g[{}] = 0 /\ \A A \in SUBSET (1..n) : A # {} => g[A] = g[A \ {Max(A)}] + s[Max(A)]
  BY <1>8
<1>10. Follows(g, n, Int, 0, step)
  BY <1>2, <1>4, <1>9, LargestPlace DEF Follows
<1>11. PICK h \in [0..n -> Int] : StepsUp(h, g, n, 0, step)
  BY <1>4, <1>10, FoldClimbs
<1>12. \A i \in 1..n : i - 1 \in 0..n
  BY <1>4
<1>13. \A i \in 1..n : h[i] = h[i - 1] + s[i]
  BY <1>2, <1>11, <1>12 DEF StepsUp
<1> QED
  BY <1>3, <1>11, <1>13 DEF n, StepsUp

(* What the results come to, one by one.                                   *)
LEMMA TotalOfMore ==
  ASSUME NEW s \in Seq(Int), NEW x \in Int
  PROVE  /\ Total(s) \in Int
         /\ Append(s, x) \in Seq(Int)
         /\ Total(Append(s, x)) = Total(s) + x
<1> DEFINE n == Len(s)
           t == Append(s, x)
<1>1. /\ t \in Seq(Int) /\ Len(t) = n + 1 /\ n \in Nat /\ t[n + 1] = x
      /\ \A i \in 1..n : t[i] = s[i]
  OBVIOUS
<1>2. PICK h \in [0..n -> Int] :
           /\ h[0] = 0 /\ \A i \in 1..n : h[i] = h[i - 1] + s[i]
           /\ Total(s) = h[n]
  BY TotalIsSum
<1> HIDE DEF t
<1>3. PICK k \in [0..Len(t) -> Int] :
           /\ k[0] = 0 /\ \A i \in 1..Len(t) : k[i] = k[i - 1] + t[i]
           /\ Total(t) = k[Len(t)]
  BY <1>1, TotalIsSum
<1> HIDE DEF n
<1>4. \A i \in 0..n : k[i] = h[i]
  <2> DEFINE Held == {i \in 0..n : k[i] = h[i]}
  <2>1. 0 \in Held
    BY <1>1, <1>2, <1>3
  <2>2. ASSUME NEW i \in 1..n, i - 1 \in Held
        PROVE  i \in Held
    <3>1. k[i] = k[i - 1] + t[i] /\ h[i] = h[i - 1] + s[i] /\ t[i] = s[i]
      <4>1. i \in 1..Len(t)
        BY <1>1
      <4> QED
        BY <1>1, <1>2, <1>3, <4>1
    <3>2. i \in 0..n
      BY <1>1
    <3> QED
      BY <2>2, <3>1, <3>2
  <2> HIDE DEF Held
  <2>3. \A i \in 0..n : i \in Held
    BY <1>1, <2>1, <2>2, PlacesInduction
  <2> QED
    BY <2>3 DEF Held
<1>5. k[n + 1] = k[n] + x /\ k[n] = h[n] /\ h[n] \in Int
  BY <1>1, <1>2, <1>3, <1>4
<1>6. Total(s) = h[n] /\ Total(t) = k[n + 1]
  BY <1>1, <1>2, <1>3
<1> QED
  BY <1>1, <1>5, <1>6 DEF t

LEMMA TotalOfNone == Total(<<>>) = 0
<1> DEFINE s == <<>>
<1>1. s \in Seq(Int) /\ Len(s) = 0
  OBVIOUS
<1> HIDE DEF s
<1>2. PICK h \in [0..Len(s) -> Int] :
           /\ h[0] = 0 /\ \A i \in 1..Len(s) : h[i] = h[i - 1] + s[i]
           /\ Total(s) = h[Len(s)]
  BY <1>1, TotalIsSum
<1> QED
  BY <1>1, <1>2 DEF s

-----------------------------------------------------------------------------
(* Fills                                                                   *)

LEMMA LargerOfTwo ==
  ASSUME NEW a \in Int, NEW b \in Int
  PROVE  /\ Max({a, b}) = IF a >= b THEN a ELSE b
         /\ Min({a, b}) = IF a <= b THEN a ELSE b
<1>1. /\ \E x \in {a, b} : \A y \in {a, b} : x >= y
      /\ \E x \in {a, b} : \A y \in {a, b} : x =< y
  OBVIOUS
<1>2. Max({a, b}) \in {a, b} /\ \A y \in {a, b} : Max({a, b}) >= y
  BY <1>1, Zenon DEF Max
<1>3. Min({a, b}) \in {a, b} /\ \A y \in {a, b} : Min({a, b}) =< y
  BY <1>1, Zenon DEF Min
<1> QED
  BY <1>2, <1>3

LEMMA LesserIsEither ==
  ASSUME NEW a \in Int, NEW b \in Int, NEW m, m = Min({a, b})
  PROVE  (m = a \/ m = b) /\ m <= a /\ m <= b
<1>1. Min({a, b}) = IF a <= b THEN a ELSE b
  BY LargerOfTwo
<1> QED
  BY <1>1

LEMMA LesserOfTwo ==
  ASSUME NEW a \in Nat, NEW b \in Nat, NEW m, m = Min({a, b})
  PROVE  m \in Nat /\ m <= a /\ m <= b
<1>1. a \in Int /\ b \in Int
  OBVIOUS
<1> QED
  BY <1>1, LesserIsEither

FillRecords == [shares : Nat, price : Nat, fee : Nat]

LEMMA Commissions ==
  ASSUME BacktestAssumption, NEW u \in Nat, NEW v \in Nat
  PROVE  Commission(u) \in Nat /\ (u <= v => Commission(u) <= Commission(v))
<1>1. u \div 100 \in Nat /\ v \div 100 \in Nat /\ (u <= v => u \div 100 <= v \div 100)
  OBVIOUS
<1>2. LeastFee \in Nat
  BY DEF BacktestAssumption
<1> QED
  BY <1>1, <1>2, LargerOfTwo DEF Commission

LEMMA PurchaseFitsAmount ==
  ASSUME BacktestAssumption, NEW price \in Nat \ {0}, NEW amount \in Nat
  PROVE  /\ FillBuy(price, amount) \in FillRecords
         /\ FillBuy(price, amount).shares # 0 =>
              /\ FillBuy(price, amount).fee = Commission(amount)
              /\ FillBuy(price, amount).price # 0
              /\ FillBuy(price, amount).shares * FillBuy(price, amount).price
                   + Commission(amount) <= amount
<1> DEFINE at == price + (price * Slip) \div 100
           left == amount - Commission(amount)
           n == left \div at
<1>1. Commission(amount) \in Nat
  BY Commissions
<1>2. at \in Nat \ {0}
  <2>1. price * Slip \in Nat
    BY DEF BacktestAssumption
  <2>2. (price * Slip) \div 100 \in Nat
    BY <2>1, DivBounds
  <2> QED
    BY <2>2
<1>3. CASE Commission(amount) >= amount \/ n = 0
  <2>1. FillBuy(price, amount) = NoFill
    BY <1>3 DEF FillBuy
  <2> QED
    BY <2>1 DEF NoFill, FillRecords
<1>4. CASE ~(Commission(amount) >= amount \/ n = 0)
  <2>1. left \in Nat
    BY <1>1, <1>4
  <2> HIDE DEF at, left
  <2>2. n \in Nat /\ at * n <= left
    BY <1>2, <2>1, DivBounds
  <2>3. FillBuy(price, amount) = [shares |-> n, price |-> at, fee |-> Commission(amount)]
    BY <1>4 DEF FillBuy, at, left
  <2> HIDE DEF n
  <2>4. n * at = at * n
    BY <1>2, <2>2
  <2>5. n * at + Commission(amount) <= amount
    BY <1>1, <2>1, <2>2, <2>4, <1>2 DEF left
  <2> QED
    BY <1>1, <1>2, <2>2, <2>3, <2>5 DEF FillRecords
<1> QED
  BY <1>3, <1>4

LEMMA SaleCoversFee ==
  ASSUME BacktestAssumption, NEW price \in Nat, NEW n \in Nat
  PROVE  /\ FillSell(price, n) \in FillRecords
         /\ FillSell(price, n).shares = n
         /\ FillSell(price, n).fee <= n * FillSell(price, n).price
         /\ FillSellTaxed(price, n) \in FillRecords
         /\ FillSellTaxed(price, n).shares = n
         /\ FillSellTaxed(price, n).price = FillSell(price, n).price
         /\ FillSellTaxed(price, n).fee <= n * FillSell(price, n).price
<1> DEFINE slip == (price * Slip) \div 100
           at == price - slip
           value == n * at
           fee == Min({Commission(value), value})
           f == FillSell(price, n)
           tax == Min({(value * Tax) \div 100, value - fee})
<1>1. slip \in Nat /\ slip <= price
  <2>1. price * Slip \in Nat /\ price * Slip < 100 * price + 100 /\ Slip \in 0..100
    <3>1. Slip \in 0..100
      BY DEF BacktestAssumption
    <3>2. price * Slip \in Nat /\ price * Slip <= price * 100
      BY <3>1, Z3
    <3> QED
      BY <3>1, <3>2
  <2> QED
    BY <2>1, DivBounds, DivAtMost
<1>2. at \in Nat
  BY <1>1
<1> HIDE DEF slip, at
<1>3. value \in Nat
  BY <1>2
<1> HIDE DEF value
<1>4. fee \in Nat /\ fee <= value
  <2> DEFINE c == Commission(value)
  <2>1. c \in Nat
    BY <1>3, Commissions
  <2>2. fee = Min({c, value})
    OBVIOUS
  <2> HIDE DEF c, fee
  <2> QED
    BY <1>3, <2>1, <2>2, LesserOfTwo
<1>5. f = [shares |-> n, price |-> at, fee |-> fee]
  BY DEF FillSell, at, slip, value
<1> HIDE DEF fee, f
<1>6. (value * Tax) \div 100 \in Nat
  <2>1. Tax \in Nat
    BY DEF BacktestAssumption
  <2>2. value * Tax \in Nat
    BY <1>3, <2>1
  <2> QED
    BY <2>2, DivBounds
<1>7. tax \in Nat /\ tax <= value - fee
  <2> DEFINE t == (value * Tax) \div 100
             rest == value - fee
  <2>1. t \in Nat /\ rest \in Nat
    BY <1>3, <1>4, <1>6
  <2>2. tax = Min({t, rest})
    OBVIOUS
  <2> HIDE DEF t, rest, tax
  <2>3. tax \in Nat /\ tax <= rest
    BY <2>1, <2>2, LesserOfTwo
  <2> QED
    BY <2>3 DEF rest
<1>8. FillSellTaxed(price, n) = [shares |-> n, price |-> at, fee |-> fee + tax]
  BY <1>5 DEF FillSellTaxed, f, value
<1> HIDE DEF tax
<1>9. fee + tax \in Nat /\ fee + tax <= value
  BY <1>3, <1>4, <1>7
<1> QED
  BY <1>2, <1>3, <1>4, <1>5, <1>8, <1>9 DEF f, FillRecords, value

(* Whole lots of a number of shares.                                       *)
LEMMA WholeLots ==
  ASSUME BacktestAssumption, NEW n \in Nat
  PROVE  Lot * (n \div Lot) \in Nat /\ Lot * (n \div Lot) <= n
<1>1. Lot \in Nat \ {0}
  BY DEF BacktestAssumption
<1> QED
  BY <1>1, DivBounds

LEMMA RulesPurchaseFitsAmount ==
  ASSUME BacktestAssumption, NEW price \in Nat \ {0}, NEW amount \in Nat, NEW prev
  PROVE  /\ RulesBuy(price, amount, prev) \in FillRecords
         /\ RulesBuy(price, amount, prev).shares # 0 =>
              RulesBuy(price, amount, prev).shares * RulesBuy(price, amount, prev).price
                + RulesBuy(price, amount, prev).fee <= amount
<1> DEFINE f == FillBuy(price, amount)
           n == Lot * (f.shares \div Lot)
<1>1. /\ f \in FillRecords
      /\ f.shares # 0 => /\ f.fee = Commission(amount)
                         /\ f.shares * f.price + Commission(amount) <= amount
  BY PurchaseFitsAmount
<1>2. f.shares \in Nat /\ f.price \in Nat /\ f.fee \in Nat
  BY <1>1 DEF FillRecords
<1> HIDE DEF f
<1>3. n \in Nat /\ n <= f.shares
  BY <1>2, WholeLots
<1> HIDE DEF n
<1>4. CASE AtUpper(price, prev) \/ n = 0
  <2>1. RulesBuy(price, amount, prev) = NoFill
    BY <1>4 DEF RulesBuy, f, n
  <2> QED
    BY <2>1 DEF NoFill, FillRecords
<1>5. CASE ~(AtUpper(price, prev) \/ n = 0) /\ n = f.shares
  <2>1. RulesBuy(price, amount, prev) = f
    BY <1>5 DEF RulesBuy, f, n
  <2> QED
    BY <1>1, <2>1
<1>6. CASE ~(AtUpper(price, prev) \/ n = 0) /\ n # f.shares
  <2> DEFINE value == n * f.price
             all == f.shares * f.price
             r == RulesBuy(price, amount, prev)
  <2>1. r = [f EXCEPT !.shares = n, !.fee = Commission(value)]
    BY <1>6 DEF RulesBuy, f, n
  <2>2. value \in Nat /\ all \in Nat /\ value <= all
    <3>1. value \in Nat /\ all \in Nat
      BY <1>2, <1>3
    <3>2. value <= all
      BY <1>2, <1>3, Z3
    <3> QED
      BY <3>1, <3>2
  <2>3. all + Commission(amount) <= amount /\ Commission(amount) \in Nat
    <3>1. f.shares # 0
      BY <1>2, <1>3, <1>6
    <3> QED
      BY <1>1, <3>1, Commissions
  <2> HIDE DEF value, all
  <2>4. value <= amount
    BY <2>2, <2>3
  <2>5. Commission(value) \in Nat /\ Commission(value) <= Commission(amount)
    BY <2>2, <2>4, Commissions
  <2>6. value + Commission(value) <= amount
    BY <2>2, <2>3, <2>5
  <2>7. /\ r \in FillRecords
        /\ r.shares = n /\ r.price = f.price /\ r.fee = Commission(value)
    BY <1>1, <1>3, <2>1, <2>5 DEF FillRecords
  <2> QED
    BY <2>6, <2>7 DEF value
<1> QED
  BY <1>4, <1>5, <1>6

LEMMA RulesSaleCoversFee ==
  ASSUME BacktestAssumption, NEW price \in Nat, NEW n \in Nat, NEW prev
  PROVE  /\ RulesSell(price, n, prev) \in FillRecords
         /\ RulesSell(price, n, prev).shares <= n
         /\ RulesSell(price, n, prev).fee
              <= RulesSell(price, n, prev).shares * RulesSell(price, n, prev).price
<1> DEFINE m == Lot * (n \div Lot)
<1>1. m \in Nat /\ m <= n
  BY WholeLots
<1>2. CASE AtLower(price, prev) \/ n < Lot
  <2>1. RulesSell(price, n, prev) = NoFill
    BY <1>2 DEF RulesSell
  <2> QED
    BY <2>1 DEF NoFill, FillRecords
<1>3. CASE ~(AtLower(price, prev) \/ n < Lot)
  <2>1. RulesSell(price, n, prev) = FillSellTaxed(price, m)
    BY <1>3 DEF RulesSell
  <2> HIDE DEF m
  <2>2. /\ FillSellTaxed(price, m) \in FillRecords
        /\ FillSellTaxed(price, m).shares = m
        /\ FillSellTaxed(price, m).fee <= m * FillSellTaxed(price, m).price
    BY <1>1, SaleCoversFee
  <2> QED
    BY <1>1, <2>1, <2>2
<1> QED
  BY <1>2, <1>3

-----------------------------------------------------------------------------
(* Books                                                                   *)

Books ==
  [cash : Nat, shares : Nat, prev : [held : Int, of : Int], open : BOOLEAN,
   basis : Nat, fees : Nat, partial : Int, trades : Seq(Int)]

OpenWithShares(b) == b.open <=> b.shares > 0

(* Closed trades, partial sales and the position in the books come to the  *)
(* change of the cash.                                                     *)
Balanced(b) == b.cash - Capital = Total(b.trades) + b.partial - b.fees - b.basis

(* What is wanted of a book at a price and a weight, and what is bought    *)
(* and sold for it.                                                        *)
LEMMA ExcessIsHeld ==
  ASSUME NEW b \in Books, NEW price \in Nat \ {0}, NEW w \in Nat, WantsLess(b, price, w)
  PROVE  /\ Excess(b, price, w) \in Nat /\ Excess(b, price, w) <= b.shares
         /\ b.shares > 0 /\ (w = 0 => Excess(b, price, w) = b.shares) /\ w < 4
<1> DEFINE held == b.shares * price
           equity == Equity(b, price)
           claim == equity * w
<1>1. b.cash \in Nat /\ b.shares \in Nat
  BY DEF Books
<1>2. held \in Nat /\ equity = b.cash + held
  BY <1>1 DEF Equity
<1>3. equity \in Nat
  BY <1>1, <1>2
<1>4. 4 * b.shares * price = 4 * held
  BY <1>1, Z3
<1>5. b.shares > 0 /\ claim < 4 * held
  BY <1>4 DEF WantsLess
<1>6. claim \in Nat /\ (w >= 4 => claim >= 4 * equity)
  <2> HIDE DEF equity
  <2>1. claim \in Nat
    BY <1>3
  <2>2. w >= 4 => claim >= 4 * equity
    BY <1>3, Z3
  <2> QED
    BY <2>1, <2>2
<1>7. w < 4
  <2> HIDE DEF claim, held, equity
  <2> QED
    BY <1>1, <1>2, <1>3, <1>5, <1>6
<1>8. CASE w = 0
  BY <1>1, <1>5, <1>7, <1>8 DEF Excess
<1>9. CASE w # 0
  <2> DEFINE gap == 4 * held - claim
  <2>1. Excess(b, price, w) = gap \div (4 * price)
    BY <1>4, <1>9 DEF Excess
  <2>2. 4 * price \in Nat \ {0} /\ (4 * price) * b.shares = 4 * held
    BY <1>1, Z3
  <2> HIDE DEF claim, held
  <2>3. gap \in Nat /\ gap <= 4 * held
    BY <1>2, <1>5, <1>6
  <2>4. gap < (4 * price) * b.shares + 4 * price
    BY <1>2, <2>2, <2>3
  <2> DEFINE p == 4 * price
  <2>5. p \in Nat \ {0} /\ gap < p * b.shares + p
    BY <2>2, <2>4
  <2> HIDE DEF gap, p
  <2>6. gap \div p \in Nat /\ gap \div p <= b.shares
    BY <1>1, <2>3, <2>5, DivBounds, DivAtMost
  <2> QED
    BY <1>5, <1>7, <1>9, <2>1, <2>6 DEF p
<1> QED
  BY <1>8, <1>9

LEMMA MissingIsThere ==
  ASSUME NEW b \in Books, NEW price \in Nat \ {0}, NEW w \in Nat, Missing(b, price, w) > 0
  PROVE  Missing(b, price, w) \in Nat /\ Missing(b, price, w) <= b.cash
<1> DEFINE m == (Equity(b, price) * w) \div 4 - b.shares * price
<1>1. b.cash \in Nat /\ b.shares \in Nat
  BY DEF Books
<1>2. b.shares * price \in Nat
  BY <1>1
<1>3. Equity(b, price) \in Nat
  BY <1>1, <1>2 DEF Equity
<1>4. (Equity(b, price) * w) \in Nat
  BY <1>3
<1>5. m \in Int
  BY <1>2, <1>4
<1>6. Missing(b, price, w) = Min({m, b.cash})
  BY DEF Missing
<1> HIDE DEF m
<1>7. Missing(b, price, w) \in {m, b.cash} /\ Missing(b, price, w) <= b.cash
  BY <1>1, <1>5, <1>6, LesserIsEither, m \in Int /\ b.cash \in Int
<1> QED
  BY <1>1, <1>5, <1>6, <1>7

(* A sale brings its fee, and there is cash for a purchase.                *)
PaysItself(f) == f.fee <= f.shares * f.price
IsPaid(b, f) == f.shares * f.price + f.fee <= b.cash

(* The balance of a book after a purchase, a sale of a part and one of     *)
(* everything.                                                             *)
LEMMA BalancesStay ==
  ASSUME NEW cash \in Int, NEW start \in Int, NEW total \in Int, NEW partial \in Int,
         NEW fees \in Int, NEW basis \in Int, NEW value \in Int, NEW fee \in Int,
         NEW part \in Int, cash - start = total + partial - fees - basis
  PROVE  /\ (cash - value - fee) - start = total + partial - (fees + fee) - (basis + value)
         /\ (cash + value - fee) - start
              = total + (partial + (value - part - fee)) - fees - (basis - part)
         /\ (cash + value - fee) - start
              = (total + (partial + (value - basis - fee) - fees)) + 0 - 0 - 0
OBVIOUS

LEMMA BasisSold ==
  ASSUME NEW basis \in Nat, NEW n \in Nat, NEW all \in Nat \ {0}, n <= all
  PROVE  /\ (basis * n) \div all \in Nat /\ (basis * n) \div all <= basis
         /\ n = all => (basis * n) \div all = basis
<1> DEFINE a == basis * n
<1>1. a \in Nat /\ a <= all * basis
  BY Z3
<1>2. n = all => a = all * basis
  BY Z3
<1>3. all * basis \in Nat
  OBVIOUS
<1> HIDE DEF a
<1>4. a \div all \in Nat /\ a \div all <= basis
  BY <1>1, <1>3, DivBounds, DivAtMost
<1>5. n = all => basis <= a \div all
  BY <1>1, <1>2, <1>3, DivAtLeast
<1> QED
  BY <1>4, <1>5 DEF a

(* Mutual facts of a sale and of a purchase.                               *)
LEMMA SaleKeepsBooks ==
  ASSUME NEW b \in Books, OpenWithShares(b), NEW f \in FillRecords,
         f.shares # 0, f.shares <= b.shares, PaysItself(f)
  PROVE  /\ Sold(b, f) \in Books /\ OpenWithShares(Sold(b, f))
         /\ Capital \in Nat /\ Balanced(b) => Balanced(Sold(b, f))
         /\ f.shares = b.shares =>
              Sold(b, f) =
                [b EXCEPT !.cash = b.cash + f.shares * f.price - f.fee, !.shares = 0,
                          !.open = FALSE, !.basis = 0, !.fees = 0, !.partial = 0,
                          !.trades = Append(@, b.partial + (f.shares * f.price - b.basis - f.fee)
                                                 - b.fees)]
<1> DEFINE value == f.shares * f.price
           part == (b.basis * f.shares) \div b.shares
           gain == value - part - f.fee
           cash == b.cash + value - f.fee
           rest == b.shares - f.shares
           result == b.partial + gain - b.fees
<1>1. /\ b.cash \in Nat /\ b.shares \in Nat /\ b.basis \in Nat /\ b.fees \in Nat
      /\ b.partial \in Int /\ b.trades \in Seq(Int) /\ b.open \in BOOLEAN
      /\ f.shares \in Nat /\ f.price \in Nat /\ f.fee \in Nat
  BY DEF Books, FillRecords
<1>2. value \in Nat /\ b.shares \in Nat \ {0} /\ f.fee <= value
  BY <1>1 DEF PaysItself
<1>3. part \in Nat /\ part <= b.basis /\ (f.shares = b.shares => part = b.basis)
  <2>1. b.basis \in Nat /\ f.shares \in Nat /\ b.shares \in Nat \ {0} /\ f.shares <= b.shares
    BY <1>1, <1>2
  <2> QED
    BY <2>1, BasisSold
<1> HIDE DEF part, value
<1>4. Sold(b, f) =
        IF f.shares < b.shares
        THEN [b EXCEPT !.cash = cash, !.shares = b.shares - f.shares,
                       !.partial = b.partial + gain, !.basis = b.basis - part]
        ELSE [b EXCEPT !.cash = cash, !.shares = 0, !.open = FALSE, !.basis = 0, !.fees = 0,
                       !.partial = 0, !.trades = Append(b.trades, result)]
  BY DEF Sold, part, value
<1>5. cash \in Nat /\ gain \in Int /\ result \in Int
  <2>1. cash \in Nat
    BY <1>1, <1>2
  <2>2. gain \in Int
    BY <1>1, <1>2, <1>3
  <2> HIDE DEF gain
  <2>3. result \in Int
    BY <1>1, <2>2
  <2> QED
    BY <2>1, <2>2, <2>3
<1>6. /\ Append(b.trades, result) \in Seq(Int) /\ Total(b.trades) \in Int
      /\ Total(Append(b.trades, result)) = Total(b.trades) + result
  BY <1>1, <1>5, TotalOfMore
<1> DEFINE more == Append(b.trades, result)
           c == Sold(b, f)
<1>7. CASE f.shares < b.shares
  <2>1. c = [b EXCEPT !.cash = cash, !.shares = b.shares - f.shares,
                       !.partial = b.partial + gain, !.basis = b.basis - part]
    BY <1>4, <1>7
  <2>2. /\ c.cash = cash /\ c.shares = b.shares - f.shares /\ c.partial = b.partial + gain
        /\ c.basis = b.basis - part /\ c.trades = b.trades /\ c.fees = b.fees /\ c.open = b.open
    BY <2>1 DEF Books
  <2>3. b.shares - f.shares \in Nat /\ b.basis - part \in Nat /\ b.partial + gain \in Int
    <3>1. b.shares - f.shares \in Nat
      BY <1>1
    <3>2. b.basis - part \in Nat
      BY <1>1, <1>3
    <3>3. b.partial + gain \in Int
      <4> HIDE DEF gain
      <4> QED
        BY <1>1, <1>5
    <3> QED
      BY <3>1, <3>2, <3>3
  <2>4. c \in Books
    BY <1>5, <2>1, <2>3 DEF Books
  <2>5. OpenWithShares(c)
    BY <1>1, <1>7, <2>2 DEF OpenWithShares
  <2>6. Capital \in Nat /\ Balanced(b) => Balanced(c)
    <3> HIDE DEF c
    <3> SUFFICES ASSUME Capital \in Nat, Balanced(b) PROVE Balanced(c)
      OBVIOUS
    <3> DEFINE k == b.cash
               t == Total(b.trades)
               p == b.partial
               e == b.fees
               s == b.basis
               g == f.fee
    <3>2. k - Capital = t + p - e - s
      BY DEF Balanced
    <3>3. /\ k \in Int /\ Capital \in Int /\ t \in Int /\ p \in Int /\ e \in Int
          /\ s \in Int /\ value \in Int /\ g \in Int /\ part \in Int
      <4>1. t \in Int
        BY <1>6
      <4>2. k \in Int /\ p \in Int /\ e \in Int /\ s \in Int /\ g \in Int
        BY <1>1
      <4> QED
        BY <1>2, <1>3, <4>1, <4>2
    <3> HIDE DEF k, t, p, e, s, g
    <3>4. (k + value - g) - Capital = t + (p + (value - part - g)) - e - (s - part)
      BY <3>2, <3>3, BalancesStay
    <3> QED
      BY <2>2, <3>4 DEF Balanced, k, t, p, e, s, g
  <2> QED
    BY <1>1, <1>7, <2>4, <2>5, <2>6
<1>8. CASE f.shares = b.shares
  <2>1. c = [b EXCEPT !.cash = cash, !.shares = 0, !.open = FALSE, !.basis = 0, !.fees = 0,
                       !.partial = 0, !.trades = more]
    BY <1>1, <1>4, <1>8
  <2>2. /\ c.cash = cash /\ c.shares = 0 /\ c.partial = 0
        /\ c.basis = 0 /\ c.trades = more /\ c.fees = 0 /\ c.open = FALSE
    BY <2>1 DEF Books
  <2>3. c \in Books
    <3>1. more \in Seq(Int) /\ cash \in Nat /\ FALSE \in BOOLEAN /\ 0 \in Nat /\ 0 \in Int
      BY <1>5, <1>6
    <3> HIDE DEF more, cash, c
    <3> QED
      BY <2>1, <3>1 DEF Books
  <2>4. OpenWithShares(c)
    BY <2>2 DEF OpenWithShares
  <2>5. part = b.basis
    BY <1>3, <1>8
  <2>6. Capital \in Nat /\ Balanced(b) => Balanced(c)
    <3> HIDE DEF c, more
    <3>1. Total(more) = Total(b.trades) + result
      BY <1>6 DEF more
    <3> SUFFICES ASSUME Capital \in Nat, Balanced(b) PROVE Balanced(c)
      OBVIOUS
    <3> DEFINE k == b.cash
               t == Total(b.trades)
               p == b.partial
               e == b.fees
               s == b.basis
               g == f.fee
    <3>2. k - Capital = t + p - e - s
      BY DEF Balanced
    <3>3. /\ k \in Int /\ Capital \in Int /\ t \in Int /\ p \in Int /\ e \in Int
          /\ s \in Int /\ value \in Int /\ g \in Int /\ part \in Int
      <4>1. t \in Int
        BY <1>6
      <4>2. k \in Int /\ p \in Int /\ e \in Int /\ s \in Int /\ g \in Int
        BY <1>1
      <4> QED
        BY <1>2, <1>3, <4>1, <4>2
    <3> HIDE DEF k, t, p, e, s, g
    <3>4. (k + value - g) - Capital = (t + (p + (value - s - g) - e)) + 0 - 0 - 0
      BY <3>2, <3>3, BalancesStay
    <3> QED
      BY <2>2, <2>5, <3>1, <3>4 DEF Balanced, k, t, p, e, s, g
  <2>7. result = b.partial + (value - b.basis - f.fee) - b.fees
    BY <2>5
  <2>8. cash = b.cash + f.shares * f.price - f.fee
    BY DEF value
  <2>9. result = b.partial + (f.shares * f.price - b.basis - f.fee) - b.fees
    BY <2>7 DEF value
  <2> HIDE DEF result, c, cash
  <2>10. c = [b EXCEPT !.cash = b.cash + f.shares * f.price - f.fee, !.shares = 0,
                          !.open = FALSE, !.basis = 0, !.fees = 0, !.partial = 0,
                          !.trades = Append(@, b.partial + (f.shares * f.price - b.basis - f.fee)
                                                 - b.fees)]
    BY <2>1, <2>8, <2>9, Zenon
  <2> QED
    BY <2>3, <2>4, <2>6, <2>10 DEF c
<1> HIDE DEF c
<1> QED
  BY <1>1, <1>7, <1>8

LEMMA PurchaseKeepsBooks ==
  ASSUME NEW b \in Books, NEW f \in FillRecords,
         f.shares # 0, IsPaid(b, f)
  PROVE  /\ Bought(b, f) \in Books /\ OpenWithShares(Bought(b, f))
         /\ Capital \in Nat /\ Balanced(b) => Balanced(Bought(b, f))
         /\ Bought(b, f).partial = b.partial
<1> DEFINE value == f.shares * f.price
           c == Bought(b, f)
<1>1. /\ b.cash \in Nat /\ b.shares \in Nat /\ b.basis \in Nat /\ b.fees \in Nat
      /\ b.partial \in Int /\ b.trades \in Seq(Int)
      /\ f.shares \in Nat /\ f.price \in Nat /\ f.fee \in Nat
  BY DEF Books, FillRecords
<1>2. value \in Nat
  BY <1>1
<1>10. value + f.fee <= b.cash
  BY DEF IsPaid
<1>3. c = [b EXCEPT !.cash = b.cash - value - f.fee, !.shares = b.shares + f.shares,
                    !.open = TRUE, !.basis = b.basis + value, !.fees = b.fees + f.fee]
  BY DEF Bought
<1> HIDE DEF c, value
<1>4. /\ c.cash = b.cash - value - f.fee /\ c.shares = b.shares + f.shares /\ c.open = TRUE
      /\ c.basis = b.basis + value /\ c.fees = b.fees + f.fee
      /\ c.partial = b.partial /\ c.trades = b.trades
  BY <1>3 DEF Books
<1>5. /\ b.cash - value - f.fee \in Nat /\ b.shares + f.shares \in Nat
      /\ b.basis + value \in Nat /\ b.fees + f.fee \in Nat
  <2>1. b.cash \in Nat /\ value \in Nat /\ f.fee \in Nat
    BY <1>1, <1>2
  <2>2. b.cash - value - f.fee \in Nat
    BY <1>10, <2>1
  <2>3. b.shares + f.shares \in Nat
    BY <1>1
  <2>4. b.basis + value \in Nat
    BY <1>1, <1>2
  <2>5. b.fees + f.fee \in Nat
    BY <1>1
  <2> QED
    BY <2>2, <2>3, <2>4, <2>5
<1>6. c \in Books
  BY <1>3, <1>5 DEF Books
<1>7. OpenWithShares(c)
  BY <1>1, <1>4 DEF OpenWithShares
<1>8. Total(b.trades) \in Int
  BY <1>1, TotalOfMore
<1>9. Capital \in Nat /\ Balanced(b) => Balanced(c)
  <2> SUFFICES ASSUME Capital \in Nat, Balanced(b) PROVE Balanced(c)
    OBVIOUS
  <2> DEFINE k == b.cash
             t == Total(b.trades)
             p == b.partial
             e == b.fees
             s == b.basis
             g == f.fee
  <2>2. k - Capital = t + p - e - s
    BY DEF Balanced
  <2>3. /\ k \in Int /\ Capital \in Int /\ t \in Int /\ p \in Int /\ e \in Int
        /\ s \in Int /\ value \in Int /\ g \in Int
    BY <1>1, <1>2, <1>8
  <2> HIDE DEF k, t, p, e, s, g
  <2>4. (k - value - g) - Capital = t + p - (e + g) - (s + value)
    BY <2>2, <2>3, BalancesStay
  <2> QED
    BY <1>4, <2>4 DEF Balanced, k, t, p, e, s, g
<1> QED
  BY <1>4, <1>6, <1>7, <1>9 DEF c

LEMMA WeightIsKept ==
  ASSUME NEW b \in Books, NEW price \in Nat
  PROVE  /\ WithWeight(b, price) \in Books
         /\ OpenWithShares(WithWeight(b, price)) <=> OpenWithShares(b)
         /\ Balanced(WithWeight(b, price)) <=> Balanced(b)
         /\ WithWeight(b, price).partial = b.partial
<1> DEFINE c == WithWeight(b, price)
           e == Equity(b, price)
           of == Max({e, 1})
           held == b.shares * price
<1>1. b.cash \in Nat /\ b.shares \in Nat /\ held \in Nat
  BY DEF Books
<1>2. e \in Int
  BY <1>1 DEF Equity
<1>3. of \in Int
  <2> HIDE DEF e
  <2>1. Max({e, 1}) = IF e >= 1 THEN e ELSE 1
    BY <1>2, LargerOfTwo
  <2> QED
    BY <1>2, <2>1
<1>4. c = [b EXCEPT !.prev = [held |-> held, of |-> of]]
  BY DEF WithWeight
<1> HIDE DEF of, c, held
<1>5. c \in Books
  <2>1. [held |-> held, of |-> of] \in [held : Int, of : Int]
    BY <1>1, <1>3
  <2> QED
    BY <1>4, <2>1 DEF Books
<1>6. /\ c.cash = b.cash /\ c.shares = b.shares /\ c.open = b.open /\ c.basis = b.basis
      /\ c.fees = b.fees /\ c.partial = b.partial /\ c.trades = b.trades
  BY <1>4 DEF Books
<1> QED
  BY <1>5, <1>6 DEF c, OpenWithShares, Balanced

-----------------------------------------------------------------------------
(* A bar                                                                   *)

LEMMA FillSuits ==
  ASSUME BacktestAssumption, NEW b \in Books, NEW price \in Nat \ {0}, NEW w \in Nat, NEW prev,
         NEW f, f = Fill(b, price, w, prev)
  PROVE  /\ f \in FillRecords
         /\ f.shares # 0 /\ WantsLess(b, price, w) => f.shares <= b.shares /\ PaysItself(f)
         /\ f.shares # 0 /\ ~WantsLess(b, price, w) => IsPaid(b, f)
<1>1. CASE ~Moves(b, w) \/ f = NoFill
  <2>1. f = NoFill
    BY <1>1 DEF Fill
  <2> QED
    BY <2>1 DEF NoFill, FillRecords
<1>2. CASE Moves(b, w) /\ f # NoFill /\ WantsLess(b, price, w)
  <2> DEFINE n == Excess(b, price, w)
  <2>1. n \in Nat /\ n <= b.shares
    BY <1>2, ExcessIsHeld
  <2>2. f = IF n = 0 THEN NoFill
            ELSE IF matcher = "rules" THEN RulesSell(price, n, prev) ELSE FillSell(price, n)
    BY <1>2 DEF Fill
  <2> HIDE DEF n
  <2>3. f = RulesSell(price, n, prev) \/ f = FillSell(price, n)
    BY <1>2, <2>2
  <2>4. b.shares \in Nat
    BY DEF Books
  <2>5. f \in FillRecords /\ f.shares <= n /\ f.fee <= f.shares * f.price
    <3>1. CASE f = RulesSell(price, n, prev)
      BY <2>1, <3>1, RulesSaleCoversFee
    <3>2. CASE f = FillSell(price, n)
      BY <2>1, <3>2, SaleCoversFee
    <3> QED
      BY <2>3, <3>1, <3>2
  <2>6. f.shares <= b.shares
    <3>1. f.shares \in Nat
      BY <2>5 DEF FillRecords
    <3> QED
      BY <2>1, <2>4, <2>5, <3>1
  <2> QED
    BY <1>2, <2>5, <2>6 DEF PaysItself
<1>3. CASE Moves(b, w) /\ f # NoFill /\ ~WantsLess(b, price, w)
  <2> DEFINE m == Missing(b, price, w)
  <2>1. /\ m > 0
        /\ f = IF matcher = "rules" THEN RulesBuy(price, m, prev) ELSE FillBuy(price, m)
    BY <1>3 DEF Fill
  <2>2. m \in Nat /\ m <= b.cash
    BY <2>1, MissingIsThere
  <2> HIDE DEF m
  <2>3. f \in FillRecords /\ (f.shares # 0 => f.shares * f.price + f.fee <= m)
    <3>1. CASE f = RulesBuy(price, m, prev)
      BY <2>2, <3>1, RulesPurchaseFitsAmount
    <3>2. CASE f = FillBuy(price, m)
      BY <2>2, <3>2, PurchaseFitsAmount
    <3> QED
      BY <2>1, <3>1, <3>2
  <2>4. f.shares # 0 => IsPaid(b, f)
    <3> DEFINE c == f.shares * f.price + f.fee
    <3>1. c \in Nat /\ b.cash \in Nat
      <4>1. f.shares \in Nat /\ f.price \in Nat /\ f.fee \in Nat /\ b.cash \in Nat
        BY <2>3 DEF FillRecords, Books
      <4>2. f.shares * f.price \in Nat
        BY <4>1
      <4> QED
        BY <4>1, <4>2
    <3> HIDE DEF c
    <3>2. f.shares # 0 => c <= b.cash
      BY <2>2, <2>3, <3>1 DEF c
    <3> QED
      BY <3>2 DEF IsPaid, c
  <2> QED
    BY <1>3, <2>3, <2>4
<1> QED
  BY <1>1, <1>2, <1>3

LEMMA BarKeepsBook ==
  ASSUME BacktestAssumption, NEW b \in Books, OpenWithShares(b),
         NEW price \in Nat \ {0}, NEW w \in Nat, NEW prev
  PROVE  /\ Simulated(b, price, w, prev) \in Books
         /\ OpenWithShares(Simulated(b, price, w, prev))
         /\ Balanced(b) => Balanced(Simulated(b, price, w, prev))
<1> DEFINE f == Fill(b, price, w, prev)
           c == IF WantsLess(b, price, w) THEN Sold(b, f) ELSE Bought(b, f)
<1>0. Capital \in Nat
  BY DEF BacktestAssumption
<1>1. /\ f \in FillRecords
      /\ f.shares # 0 /\ WantsLess(b, price, w) => f.shares <= b.shares /\ PaysItself(f)
      /\ f.shares # 0 /\ ~WantsLess(b, price, w) => IsPaid(b, f)
  BY FillSuits
<1>2. Simulated(b, price, w, prev) = IF f.shares = 0 THEN b ELSE WithWeight(c, price)
  BY DEF Simulated
<1> HIDE DEF f
<1>3. ASSUME f.shares # 0
      PROVE  c \in Books /\ OpenWithShares(c) /\ (Balanced(b) => Balanced(c))
  <2>1. CASE WantsLess(b, price, w)
    BY <1>0, <1>1, <1>3, <2>1, SaleKeepsBooks
  <2>2. CASE ~WantsLess(b, price, w)
    BY <1>0, <1>1, <1>3, <2>2, PurchaseKeepsBooks
  <2> QED
    BY <2>1, <2>2
<1> HIDE DEF c
<1>4. CASE f.shares = 0
  BY <1>2, <1>4
<1>5. CASE f.shares # 0
  <2>1. Simulated(b, price, w, prev) = WithWeight(c, price)
    BY <1>2, <1>5
  <2>2. price \in Nat
    OBVIOUS
  <2> QED
    BY <1>3, <1>5, <2>1, <2>2, WeightIsKept
<1> QED
  BY <1>4, <1>5

(* For signals of zero and one the compiled loop does the same: only a     *)
(* signal of zero sells, and sells everything.                             *)
LEMMA FastBarAgrees ==
  ASSUME BacktestAssumption, NEW b \in Books, OpenWithShares(b), b.partial = 0,
         NEW price \in Nat \ {0}, NEW w \in {0, 4}, NEW prev, matcher = "binary"
  PROVE  /\ SimulatedFast(b, price, w) = Simulated(b, price, w, prev)
         /\ Simulated(b, price, w, prev).partial = 0
<1> DEFINE sells == Moves(b, w) /\ WantsLess(b, price, w)
           buys == /\ Moves(b, w) /\ ~WantsLess(b, price, w) /\ WantsMore(b, price, w)
                   /\ Missing(b, price, w) > 0
           n == Excess(b, price, w)
           out == FillSell(price, n)
           in == FillBuy(price, Missing(b, price, w))
           f == Fill(b, price, w, prev)
<1>1. /\ f \in FillRecords
      /\ f.shares # 0 /\ WantsLess(b, price, w) => f.shares <= b.shares /\ PaysItself(f)
      /\ f.shares # 0 /\ ~WantsLess(b, price, w) => IsPaid(b, f)
  BY FillSuits
<1>2. CASE sells
  <2>1. n = b.shares /\ b.shares > 0 /\ b.shares \in Nat
    <3>1. w \in Nat /\ WantsLess(b, price, w) /\ b.shares \in Nat
      BY <1>2 DEF Books
    <3>2. b.shares > 0 /\ (w = 0 => n = b.shares) /\ w < 4
      BY <3>1, ExcessIsHeld
    <3> QED
      BY <3>1, <3>2
  <2>2. out \in FillRecords /\ out.shares = b.shares
    BY <2>1, SaleCoversFee
  <2>3. f = out
    BY <1>2, <2>1 DEF Fill
  <2> DEFINE sold == [b EXCEPT !.cash = b.cash + f.shares * f.price - f.fee, !.shares = 0,
                               !.open = FALSE, !.basis = 0, !.fees = 0, !.partial = 0,
                               !.trades = Append(@, b.partial
                                  + (f.shares * f.price - b.basis - f.fee) - b.fees)]
             fastSold == [b EXCEPT !.cash = @ + out.shares * out.price - out.fee,
                          !.shares = @ - out.shares, !.open = FALSE, !.basis = 0, !.fees = 0,
                          !.trades = Append(@, out.price * b.shares - b.basis - out.fee - b.fees)]
  <2>4. Simulated(b, price, w, prev) = WithWeight(Sold(b, f), price)
    BY <1>2, <2>1, <2>2, <2>3 DEF Simulated
  <2>5. SimulatedFast(b, price, w) = WithWeight(fastSold, price)
    BY <1>2, <2>1, <2>2 DEF SimulatedFast
  <2>6. f.shares # 0 /\ f.shares = b.shares /\ f.shares <= b.shares /\ PaysItself(f)
    BY <1>1, <1>2, <2>1, <2>2, <2>3
  <2> HIDE DEF f, out
  <2>7. Sold(b, f) = sold /\ Sold(b, f) \in Books
    BY <1>1, <2>6, SaleKeepsBooks
  <2>8. fastSold = sold
    <3> DEFINE value == f.shares * f.price
               gain == value - b.basis - f.fee
    <3>1. /\ b.cash \in Nat /\ b.shares \in Nat /\ b.basis \in Nat /\ b.fees \in Nat
          /\ b.partial \in Int /\ f.shares \in Nat /\ f.price \in Nat /\ f.fee \in Nat
      BY <1>1 DEF Books, FillRecords
    <3>2. value \in Nat
      BY <3>1
    <3>3. f.price * b.shares = value
      BY <2>6, <3>1
    <3> HIDE DEF value
    <3>4. b.partial + gain - b.fees = gain - b.fees /\ b.shares - f.shares = 0
      BY <2>6, <3>1, <3>2
    <3>5. sold = [b EXCEPT !.cash = b.cash + value - f.fee, !.shares = 0,
                           !.open = FALSE, !.basis = 0, !.fees = 0, !.partial = 0,
                           !.trades = Append(@, gain - b.fees)]
      BY <3>4 DEF value
    <3>6. fastSold = [b EXCEPT !.cash = b.cash + value - f.fee, !.shares = 0,
                           !.open = FALSE, !.basis = 0, !.fees = 0,
                           !.trades = Append(@, gain - b.fees)]
      BY <2>3, <3>3, <3>4 DEF value
    <3> HIDE DEF sold, fastSold, gain
    <3> QED
      BY <3>5, <3>6 DEF Books
  <2>9. Sold(b, f).partial = 0
    BY <2>7 DEF Books
  <2>10. price \in Nat
    OBVIOUS
  <2> HIDE DEF sold, fastSold
  <2> QED
    BY <2>4, <2>5, <2>7, <2>8, <2>9, <2>10, WeightIsKept
<1>3. CASE ~sells /\ buys
  <2>1. f = in
    BY <1>3 DEF Fill
  <2>2. in.shares > 0 <=> in.shares # 0
    BY <1>1, <2>1 DEF FillRecords
  <2>3. SimulatedFast(b, price, w)
          = IF in.shares # 0 THEN WithWeight(Bought(b, in), price) ELSE b
    BY <1>3, <2>2 DEF SimulatedFast
  <2>4. Simulated(b, price, w, prev)
          = IF in.shares = 0 THEN b ELSE WithWeight(Bought(b, in), price)
    BY <1>3, <2>1 DEF Simulated
  <2>5. in.shares # 0 => Bought(b, in) \in Books /\ Bought(b, in).partial = 0
    BY <1>1, <1>3, <2>1, PurchaseKeepsBooks
  <2> HIDE DEF in
  <2> QED
    BY <2>3, <2>4, <2>5, WeightIsKept
<1>4. CASE ~sells /\ ~buys
  <2>1. f = NoFill
    BY <1>4 DEF Fill
  <2>2. SimulatedFast(b, price, w) = b
    BY <1>4 DEF SimulatedFast
  <2> QED
    BY <2>1, <2>2 DEF Simulated, NoFill
<1> QED
  BY <1>2, <1>3, <1>4

-----------------------------------------------------------------------------
(* All bars                                                                *)

Tapes == [price : BarPrices \cup {NoBar}, ratio : {1, 2}]

BacktestTypes ==
  /\ bar \in 0..(LastBar + 1) /\ tape \in Tapes
  /\ book \in Books /\ OpenWithShares(book)

(* The records explain the cash; at the end, of what a sale of everything  *)
(* would have left.                                                        *)
RecordsExplain ==
  IF bar <= LastBar \/ book.shares = 0 \/ tape.price = NoBar THEN Balanced(book)
  ELSE Capital + Total(book.trades) = Sold(book, VirtualSale(book)).cash

LoopsAgree == matcher = "binary" => fast = book /\ book.partial = 0

BacktestInv == BacktestTypes /\ RecordsExplain /\ LoopsAgree

LEMMA AdjustedIsPositive ==
  ASSUME BacktestAssumption, NEW q \in Tapes, q.price # NoBar
  PROVE  Adjusted(q) \in Nat \ {0}
<1>1. q.price \in Nat \ {0, 1} /\ (q.ratio = 1 \/ q.ratio = 2)
  BY DEF Tapes, BacktestAssumption
<1> DEFINE p == q.price
<1> HIDE DEF p
<1>2. p \in Nat /\ p >= 2
  BY <1>1 DEF p
<1>3. CASE q.ratio = 1
  <2>1. Adjusted(q) = p \div 2
    BY <1>2, <1>3 DEF Adjusted, p
  <2> QED
    BY <1>2, <2>1
<1>4. CASE q.ratio = 2
  <2>1. Adjusted(q) = (p * 2) \div 2
    BY <1>4 DEF Adjusted, p
  <2>2. (p * 2) \div 2 = p
    BY <1>2
  <2> QED
    BY <1>2, <2>1, <2>2
<1> QED
  BY <1>1, <1>3, <1>4

(* A record of the sale that does not take place makes up for the          *)
(* position.                                                               *)
LEMMA ClosingExplains ==
  ASSUME BacktestAssumption, NEW b \in Books, OpenWithShares(b), tape \in Tapes,
         b.shares # 0, tape.price # NoBar, Balanced(b)
  PROVE  /\ Closed(b) \in Books /\ OpenWithShares(Closed(b))
         /\ Closed(b).shares = b.shares /\ Closed(b).partial = b.partial
         /\ Capital + Total(Closed(b).trades) = Sold(Closed(b), VirtualSale(b)).cash
<1> DEFINE v == VirtualSale(b)
           s == Sold(b, v)
           c == Closed(b)
<1>1. b.shares \in Nat /\ Adjusted(tape) \in Nat
  BY AdjustedIsPositive DEF Books
<1>2. v \in FillRecords /\ v.shares = b.shares /\ PaysItself(v)
  <2>1. /\ FillSell(Adjusted(tape), b.shares) \in FillRecords
        /\ FillSell(Adjusted(tape), b.shares).shares = b.shares
        /\ FillSell(Adjusted(tape), b.shares).fee
             <= b.shares * FillSell(Adjusted(tape), b.shares).price
    BY <1>1, SaleCoversFee
  <2>2. /\ FillSellTaxed(Adjusted(tape), b.shares) \in FillRecords
        /\ FillSellTaxed(Adjusted(tape), b.shares).shares = b.shares
        /\ FillSellTaxed(Adjusted(tape), b.shares).fee
             <= b.shares * FillSellTaxed(Adjusted(tape), b.shares).price
    BY <1>1, SaleCoversFee
  <2>3. v = FillSell(Adjusted(tape), b.shares) \/ v = FillSellTaxed(Adjusted(tape), b.shares)
    BY DEF VirtualSale
  <2> HIDE DEF v
  <2> QED
    BY <2>1, <2>2, <2>3 DEF PaysItself
<1> HIDE DEF v
<1>3. v.shares # 0 /\ v.shares <= b.shares /\ Capital \in Nat
  BY <1>1, <1>2 DEF BacktestAssumption
<1>4. /\ s \in Books /\ Balanced(s)
      /\ s = [b EXCEPT !.cash = b.cash + v.shares * v.price - v.fee, !.shares = 0,
                          !.open = FALSE, !.basis = 0, !.fees = 0, !.partial = 0,
                          !.trades = Append(@, b.partial + (v.shares * v.price - b.basis - v.fee)
                                                 - b.fees)]
  BY <1>2, <1>3, SaleKeepsBooks
<1>5. /\ s.cash = b.cash + v.shares * v.price - v.fee
      /\ s.basis = 0 /\ s.fees = 0 /\ s.partial = 0
  BY <1>4 DEF Books
<1> HIDE DEF s
<1>6. s.cash \in Nat /\ s.trades \in Seq(Int) /\ Total(s.trades) \in Int
  <2>1. s.cash \in Nat /\ s.trades \in Seq(Int)
    BY <1>4 DEF Books
  <2> QED
    BY <2>1, TotalOfMore, 0 \in Int
<1>7. Capital + Total(s.trades) = s.cash
  <2>1. s.cash - Capital = Total(s.trades) + 0 - 0 - 0
    BY <1>4, <1>5 DEF Balanced
  <2> DEFINE t == Total(s.trades)
             k == s.cash
  <2> HIDE DEF t, k
  <2>2. k - Capital = t + 0 - 0 - 0 /\ k \in Nat /\ t \in Int /\ Capital \in Nat
    BY <1>3, <1>6, <2>1 DEF t, k
  <2>3. Capital + t = k
    BY <2>2
  <2> QED
    BY <2>3 DEF t, k
<1>8. c = [b EXCEPT !.trades = s.trades]
  BY DEF Closed, s, v
<1> HIDE DEF c
<1>9. /\ c \in Books /\ c.cash = b.cash /\ c.shares = b.shares /\ c.open = b.open
      /\ c.partial = b.partial /\ c.trades = s.trades
  BY <1>6, <1>8 DEF Books
<1>10. OpenWithShares(c)
  BY <1>9 DEF OpenWithShares
<1>11. Sold(c, v).cash = c.cash + v.shares * v.price - v.fee
  <2>1. v.shares <= c.shares /\ v.shares = c.shares
    BY <1>2, <1>3, <1>9
  <2>2. Sold(c, v) =
          [c EXCEPT !.cash = c.cash + v.shares * v.price - v.fee, !.shares = 0,
                    !.open = FALSE, !.basis = 0, !.fees = 0, !.partial = 0,
                    !.trades = Append(@, c.partial + (v.shares * v.price - c.basis - v.fee)
                                           - c.fees)]
    BY <1>2, <1>3, <1>9, <1>10, <2>1, SaleKeepsBooks
  <2> QED
    BY <1>9, <2>2 DEF Books
<1>12. Sold(c, v).cash = s.cash
  BY <1>5, <1>9, <1>11
<1> QED
  BY <1>7, <1>9, <1>10, <1>12 DEF c, v

LEMMA BacktestStarts == BacktestInit => BacktestInv
<1> SUFFICES ASSUME BacktestInit PROVE BacktestInv
  OBVIOUS
<1>0. BacktestAssumption
  BY BacktestAssumption
<1>1. Capital \in Nat /\ LastBar \in Nat
  BY <1>0 DEF BacktestAssumption
<1>2. /\ book = NewBook /\ fast = NewBook /\ bar = 0 /\ tape \in Tapes
  BY DEF BacktestInit, Tapes
<1>3. book \in Books /\ OpenWithShares(book) /\ book.partial = 0
  <2>1. [held |-> 0, of |-> 1] \in [held : Int, of : Int] /\ <<>> \in Seq(Int)
    OBVIOUS
  <2> QED
    BY <1>1, <1>2, <2>1 DEF NewBook, Books, OpenWithShares
<1>4. Balanced(book)
  <2>1. /\ book.cash = Capital /\ book.trades = <<>> /\ book.partial = 0
        /\ book.fees = 0 /\ book.basis = 0
    BY <1>2 DEF NewBook
  <2> QED
    BY <1>1, <2>1, TotalOfNone DEF Balanced
<1> QED
  BY <1>1, <1>2, <1>3, <1>4 DEF BacktestInv, BacktestTypes, RecordsExplain, LoopsAgree

LEMMA BarKeeps ==
  ASSUME BacktestAssumption, BacktestInv,
         NEW q \in [price : BarPrices \cup {NoBar}, ratio : {1, 2}], NEW w \in Weights, Bar(q, w)
  PROVE  BacktestInv'
<1>1. /\ bar < LastBar /\ bar' = bar + 1 /\ tape' = q /\ matcher' = matcher
      /\ matcher = "binary" => w \in {0, 4}
  BY DEF Bar
<1>2. w \in Nat /\ LastBar \in Nat /\ q \in Tapes
  BY DEF BacktestAssumption, Tapes
<1>3. /\ bar \in 0..(LastBar + 1) /\ book \in Books /\ OpenWithShares(book)
  BY DEF BacktestInv, BacktestTypes
<1>4. Balanced(book)
  BY <1>1, <1>2, <1>3 DEF BacktestInv, RecordsExplain
<1>5. bar' \in 0..(LastBar + 1) /\ bar' <= LastBar
  BY <1>1, <1>2, <1>3
<1>6. /\ book' \in Books /\ OpenWithShares(book') /\ Balanced(book')
      /\ matcher = "binary" => fast' = book' /\ book'.partial = 0
  <2>1. CASE q.price = NoBar
    <3>1. book' = book /\ fast' = fast
      BY <2>1 DEF Bar
    <3> QED
      BY <1>3, <1>4, <3>1 DEF BacktestInv, LoopsAgree
  <2>2. CASE q.price # NoBar
    <3> DEFINE p == Adjusted(q)
    <3>1. /\ book' = Simulated(book, p, w, tape.price)
          /\ fast' = IF matcher = "binary" THEN SimulatedFast(fast, p, w) ELSE fast
      BY <2>2 DEF Bar
    <3>2. p \in Nat \ {0}
      BY <1>2, <2>2, AdjustedIsPositive
    <3> HIDE DEF p
    <3>3. book' \in Books /\ OpenWithShares(book') /\ Balanced(book')
      BY <1>2, <1>3, <1>4, <3>1, <3>2, BarKeepsBook
    <3>4. ASSUME matcher = "binary" PROVE fast' = book' /\ book'.partial = 0
      <4>1. fast = book /\ book.partial = 0 /\ w \in {0, 4}
        BY <1>1, <3>4 DEF BacktestInv, LoopsAgree
      <4>2. fast' = SimulatedFast(book, p, w)
        BY <3>1, <3>4, <4>1
      <4> QED
        BY <1>3, <3>1, <3>2, <3>4, <4>1, <4>2, FastBarAgrees
    <3> QED
      BY <3>3, <3>4
  <2> QED
    BY <2>1, <2>2
<1>7. BacktestTypes'
  BY <1>1, <1>2, <1>5, <1>6 DEF BacktestTypes, OpenWithShares
<1>8. RecordsExplain'
  BY <1>5, <1>6 DEF RecordsExplain, Balanced
<1>9. LoopsAgree'
  BY <1>1, <1>6 DEF LoopsAgree
<1> QED
  BY <1>7, <1>8, <1>9 DEF BacktestInv

LEMMA FinishKeeps ==
  ASSUME BacktestAssumption, BacktestInv, FinishBacktest
  PROVE  BacktestInv'
<1>1. /\ bar = LastBar /\ bar' = bar + 1 /\ tape' = tape /\ matcher' = matcher
      /\ book' = Closed(book) /\ fast' = Closed(fast) /\ LastBar \in Nat
  BY DEF FinishBacktest, BacktestAssumption
<1>2. tape \in Tapes /\ book \in Books /\ OpenWithShares(book) /\ Balanced(book)
  BY <1>1 DEF BacktestInv, BacktestTypes, RecordsExplain
<1>3. LoopsAgree'
  <2>1. Closed(book).partial = book.partial
    <3>1. Closed(book) = book \/ Closed(book) = [book EXCEPT !.trades = Sold(book, VirtualSale(book)).trades]
      BY DEF Closed
    <3> QED
      BY <1>2, <3>1 DEF Books
  <2> QED
    BY <1>1, <2>1 DEF LoopsAgree, BacktestInv
<1>4. bar' \in 0..(LastBar + 1) /\ ~(bar' <= LastBar)
  BY <1>1
<1>5. CASE book.shares = 0 \/ tape.price = NoBar
  <2>1. book' = book
    BY <1>1, <1>5 DEF Closed
  <2>2. RecordsExplain'
    BY <1>1, <1>2, <1>5, <2>1 DEF RecordsExplain, Balanced
  <2>3. BacktestTypes'
    BY <1>1, <1>2, <1>4, <2>1 DEF BacktestTypes, OpenWithShares
  <2> QED
    BY <1>3, <2>2, <2>3 DEF BacktestInv
<1>6. CASE ~(book.shares = 0 \/ tape.price = NoBar)
  <2>1. /\ book' \in Books /\ OpenWithShares(book') /\ book'.shares = book.shares
        /\ Capital + Total(book'.trades) = Sold(book', VirtualSale(book)).cash
    BY <1>1, <1>2, <1>6, ClosingExplains
  <2>2. VirtualSale(book)' = VirtualSale(book)
    BY <1>1, <2>1 DEF VirtualSale
  <2>3. RecordsExplain'
    BY <1>1, <1>4, <1>6, <2>1, <2>2 DEF RecordsExplain
  <2>4. BacktestTypes'
    BY <1>1, <1>2, <1>4, <2>1 DEF BacktestTypes, OpenWithShares
  <2> QED
    BY <1>3, <2>3, <2>4 DEF BacktestInv
<1> QED
  BY <1>5, <1>6

(* The trade records of a backtest explain its cash, which is never        *)
(* overdrawn, and the compiled loop does what the Python loop does: for    *)
(* any prices, adjustments, signals, lots and costs, and any number of     *)
(* bars.                                                                   *)
THEOREM BacktestAlwaysAccounts == BacktestSpec => []BacktestAccounts
<1>1. BacktestInv /\ [BacktestNext]_backtestVars => BacktestInv'
  <2> SUFFICES ASSUME BacktestInv, [BacktestNext]_backtestVars PROVE BacktestInv'
    OBVIOUS
  <2>1. CASE UNCHANGED backtestVars
    BY <2>1 DEF backtestVars, BacktestInv, BacktestTypes, RecordsExplain, LoopsAgree,
                OpenWithShares, Balanced, VirtualSale
  <2>2. ASSUME NEW q \in [price : BarPrices \cup {NoBar}, ratio : {1, 2}], NEW w \in Weights,
               Bar(q, w)
        PROVE  BacktestInv'
    BY <2>2, BacktestAssumption, BarKeeps
  <2>3. CASE FinishBacktest
    BY <2>3, BacktestAssumption, FinishKeeps
  <2> QED
    BY <2>1, <2>2, <2>3 DEF BacktestNext
<1>2. BacktestInv => BacktestAccounts
  <2> SUFFICES ASSUME BacktestInv PROVE BacktestAccounts
    OBVIOUS
  <2>1. book.cash \in Nat
    BY DEF BacktestInv, BacktestTypes, Books
  <2>2. TradesExplainTheCash
    BY <2>1 DEF BacktestInv, BacktestTypes, OpenWithShares, RecordsExplain, Balanced,
                TradesExplainTheCash
  <2>3. FastPathAgrees
    BY DEF BacktestInv, LoopsAgree, FastPathAgrees
  <2> QED
    BY <2>2, <2>3 DEF BacktestAccounts
<1> QED
  BY <1>1, <1>2, BacktestStarts, PTL DEF BacktestSpec

-----------------------------------------------------------------------------
(* Accounts                                                                *)

Executions ==
  [day : Int, symbol : Names, side : {"buy", "sell"}, shares : Int, price : Int, cost : Int]
HeldAccounts == [cash : Int, shares : [Names -> Int], trades : Seq(Executions)]
QuotedPrices == [price : [Names -> StockPrices], prev : [Names -> StockPrices], bars : SUBSET Names]

LEMMA BookedTypes ==
  ASSUME NEW a \in HeldAccounts, NEW t \in Executions
  PROVE  Booked(a, t) \in HeldAccounts
<1> DEFINE amount == Sign(t) * t.shares * t.price
           cash == a.cash - amount - t.cost
           now == a.shares[t.symbol] + Sign(t) * t.shares
           more == Append(a.trades, t)
<1>1. Sign(t) \in Int /\ t.shares \in Int /\ t.price \in Int /\ t.cost \in Int /\ t.symbol \in Names
  BY DEF Sign, Executions
<1>2. a.cash \in Int /\ a.shares \in [Names -> Int] /\ a.trades \in Seq(Executions)
  BY DEF HeldAccounts
<1>3. amount \in Int /\ now \in Int
  BY <1>1, <1>2, Z3
<1>4. cash \in Int
  <2> HIDE DEF amount
  <2> QED
    BY <1>1, <1>2, <1>3
<1>5. more \in Seq(Executions)
  BY <1>2
<1>6. Booked(a, t) = [cash |-> cash, shares |-> [a.shares EXCEPT ![t.symbol] = now], trades |-> more]
  BY DEF Booked
<1>7. [a.shares EXCEPT ![t.symbol] = now] \in [Names -> Int]
  <2> HIDE DEF now
  <2> QED
    BY <1>1, <1>2, <1>3
<1> HIDE DEF cash, now, more
<1> QED
  BY <1>4, <1>5, <1>6, <1>7 DEF HeldAccounts

(* What a trade of some shares costs.                                      *)
LEMMA FeeIs ==
  ASSUME PortfolioAssumption, NEW amount \in Int
  PROVE  Fee(amount) \in Int /\ (Fee(amount) = 0 \/ Fee(amount) = MinFee \/ Fee(amount) = amount \div 100)
<1>1. amount \div 100 \in Int /\ MinFee \in Int
  BY DEF PortfolioAssumption
<1> QED
  BY <1>1, LargerOfTwo DEF Fee

(* Beyond the price of a share, a sale brings what it costs.               *)
LEMMA LargerSalesPay ==
  ASSUME NEW least \in Nat, NEW fee \in Nat, fee + least \div 100 <= least,
         NEW amount \in Nat, least <= amount
  PROVE  fee + amount \div 100 <= amount /\ amount \div 100 + amount \div 100 <= amount
<1>1. least \div 100 \in Nat /\ amount \div 100 \in Nat
  OBVIOUS
<1>2. amount \div 100 - least \div 100 <= amount - least
  OBVIOUS
<1> QED
  BY <1>1, <1>2

(* An account after one trade more.                                        *)
OneTrade(c, a, d, s, side) ==
  \E t \in Executions : t.day = d /\ t.symbol = s /\ t.side = side /\ c = Booked(a, t)

LEMMA SaleIsBooked ==
  ASSUME PortfolioAssumption, NEW a \in HeldAccounts, NEW q \in QuotedPrices,
         NEW d \in Int, NEW s \in Names, NEW goal \in Int
  PROVE  /\ OneTrade(SellTo(a, q, d, s, goal), a, d, s, "sell")
         /\ SellTo(a, q, d, s, goal).shares = [a.shares EXCEPT ![s] = goal]
         /\ goal <= a.shares[s] => SellTo(a, q, d, s, goal).cash >= a.cash
<1> DEFINE n == a.shares[s] - goal
           price == Received(q.price[s])
           amount == n * price
           fee == Fee(amount)
           tax == amount \div 100
           cost == fee + tax
           t == TradeResult(d, s, "sell", n, price, cost)
           shares == [a.shares EXCEPT ![s] = goal]
           c == SellTo(a, q, d, s, goal)
<1>1. a.cash \in Int /\ a.shares \in [Names -> Int] /\ a.trades \in Seq(Executions)
  BY DEF HeldAccounts
<1>2. q.price[s] \in Nat \ {0} /\ q.price[s] \in StockPrices
  BY DEF QuotedPrices, PortfolioAssumption
<1>3. n \in Int /\ price \in Nat \ {0}
  BY <1>1, <1>2 DEF Received
<1>4. amount \in Int
  BY <1>3, Z3
<1>5. fee \in Int /\ tax \in Int /\ cost \in Int
  <2> HIDE DEF amount
  <2>1. fee \in Int
    BY <1>4, FeeIs
  <2>2. tax \in Int
    BY <1>4
  <2> HIDE DEF fee, tax
  <2> QED
    BY <2>1, <2>2
<1>6. t \in Executions
  <2> HIDE DEF n, price, cost
  <2> QED
    BY <1>3, <1>5 DEF TradeResult, Executions
<1>7. c = [cash |-> a.cash + amount - cost, shares |-> shares, trades |-> Append(a.trades, t)]
  BY DEF SellTo
<1>8. t.day = d /\ t.symbol = s /\ t.side = "sell" /\ t.shares = n /\ t.price = price /\ t.cost = cost
  BY DEF TradeResult
<1>9. c = Booked(a, t)
  <2>1. Sign(t) = -1
    BY <1>8 DEF Sign
  <2>2. Sign(t) * t.shares * t.price = -amount
    <3>1. (-1) * n * price = -amount
      BY <1>3, Z3
    <3> HIDE DEF t, n, price, amount
    <3> QED
      BY <1>8, <2>1, <3>1
  <2>3. a.shares[s] + Sign(t) * t.shares = goal
    <3> HIDE DEF t
    <3>1. Sign(t) * t.shares = -n
      BY <1>3, <1>8, <2>1
    <3> QED
      BY <1>1, <3>1
  <2>4. a.cash - (-amount) - cost = a.cash + amount - cost
    <3> HIDE DEF amount, cost
    <3> QED
      BY <1>1, <1>4, <1>5
  <2> HIDE DEF t, n, price, amount, cost, c
  <2> QED
    BY <1>7, <1>8, <2>2, <2>3, <2>4 DEF Booked
<1>10. c.shares = shares /\ c.cash = a.cash + amount - cost
  BY <1>7
<1>11. ASSUME goal <= a.shares[s] PROVE c.cash >= a.cash
  <2>1. CASE n = 0
    <3>1. amount = 0
      BY <1>3, <2>1
    <3>2. cost = 0
      BY <3>1 DEF Fee
    <3> HIDE DEF amount, cost, c
    <3> QED
      BY <1>1, <1>10, <3>1, <3>2
  <2>2. CASE n > 0
    <3>1. amount >= price /\ amount \in Nat
      <4> HIDE DEF n, price
      <4>1. \A u, v \in Nat \ {0} : u * v \in Nat /\ u * v >= v
        BY Z3
      <4>2. n \in Nat \ {0}
        BY <1>3, <2>2
      <4> QED
        BY <1>3, <4>1, <4>2
    <3>2. MinFee \in Nat /\ MinFee + price \div 100 <= price
      BY <1>2 DEF PortfolioAssumption
    <3>3. MinFee + amount \div 100 <= amount /\ amount \div 100 + amount \div 100 <= amount
      <4> HIDE DEF amount, price
      <4> QED
        BY <1>3, <3>1, <3>2, LargerSalesPay
    <3>4. cost <= amount
      <4> HIDE DEF amount
      <4>1. fee = 0 \/ fee = MinFee \/ fee = amount \div 100
        BY <1>4, FeeIs
      <4> QED
        BY <3>1, <3>2, <3>3, <4>1
    <3> HIDE DEF amount, cost, c
    <3> QED
      BY <1>1, <1>4, <1>5, <1>10, <3>4
  <2> QED
    BY <1>1, <1>3, <1>11, <2>1, <2>2
<1> HIDE DEF t, c
<1> QED
  BY <1>6, <1>8, <1>9, <1>10, <1>11 DEF c, shares, OneTrade

LEMMA Quotients ==
  ASSUME NEW x \in Int, NEW y \in Nat \ {0}
  PROVE  x \div y \in Int /\ (x \in Nat => x \div y \in Nat)
OBVIOUS

LEMMA PurchaseIsBooked ==
  ASSUME PortfolioAssumption, NEW a \in HeldAccounts, NEW q \in QuotedPrices,
         NEW d \in Int, NEW s \in Names, NEW goal \in Int
  PROVE  \/ BuyUpTo(a, q, d, s, goal) = a
         \/ /\ OneTrade(BuyUpTo(a, q, d, s, goal), a, d, s, "buy")
            /\ \E n \in Nat : BuyUpTo(a, q, d, s, goal).shares = [a.shares EXCEPT ![s] = @ + n]
            /\ BuyUpTo(a, q, d, s, goal).cash >= 0
<1> DEFINE price == q.price[s] + q.price[s] \div 100
           Paid(m) == m * price + Fee(m * price)
           wanted == goal - a.shares[s]
           affordable == ((a.cash - MinFee) * 100) \div (price * 101)
           n == IF Paid(wanted) <= a.cash THEN wanted ELSE affordable
           amount == n * price
           fee == Fee(amount)
           t == TradeResult(d, s, "buy", n, price, fee)
           c == BuyUpTo(a, q, d, s, goal)
           more == [a.shares EXCEPT ![s] = @ + n]
<1>1. a.cash \in Int /\ a.shares \in [Names -> Int] /\ a.trades \in Seq(Executions) /\ MinFee \in Nat
  BY DEF HeldAccounts, PortfolioAssumption
<1>2. q.price[s] \in Nat \ {0}
  BY DEF QuotedPrices, PortfolioAssumption
<1>3. price \in Nat \ {0} /\ price * 101 \in Nat \ {0}
  <2>1. q.price[s] \div 100 \in Nat
    BY <1>2
  <2>2. price \in Nat \ {0}
    BY <1>2, <2>1
  <2> HIDE DEF price
  <2> QED
    BY <2>2
<1>4. wanted \in Int /\ affordable \in Int
  <2>1. wanted \in Int /\ (a.cash - MinFee) * 100 \in Int
    BY <1>1
  <2> HIDE DEF price
  <2> QED
    BY <1>3, <2>1, Quotients
<1>5. n \in Int
  <2> HIDE DEF Paid, wanted, affordable
  <2> QED
    BY <1>4
<1>6. c = IF n <= 0 \/ Paid(n) > a.cash THEN a
          ELSE [cash |-> a.cash - Paid(n), shares |-> more, trades |-> Append(a.trades, t)]
  BY Zenon DEF BuyUpTo
<1> HIDE DEF n
<1>7. amount \in Int
  BY <1>3, <1>5, Z3
<1>8. fee \in Int /\ Paid(n) = amount + fee
  <2>1. Paid(n) = amount + fee
    OBVIOUS
  <2> HIDE DEF amount, Paid
  <2> QED
    BY <1>7, <2>1, FeeIs
<1>9. t \in Executions
  <2> HIDE DEF price, fee
  <2> QED
    BY <1>3, <1>5, <1>8 DEF TradeResult, Executions
<1>10. t.day = d /\ t.symbol = s /\ t.side = "buy" /\ t.shares = n /\ t.price = price /\ t.cost = fee
  BY DEF TradeResult
<1>11. CASE n > 0 /\ Paid(n) <= a.cash
  <2>1. c = [cash |-> a.cash - Paid(n), shares |-> more, trades |-> Append(a.trades, t)]
    <3>1. ~(n <= 0 \/ Paid(n) > a.cash)
      <4> HIDE DEF Paid, amount, fee
      <4> QED
        BY <1>1, <1>5, <1>7, <1>8, <1>11
    <3> HIDE DEF Paid, c
    <3> QED
      BY <1>6, <3>1
  <2>2. Sign(t) = 1
    BY <1>10 DEF Sign
  <2>3. Sign(t) * t.shares * t.price = amount /\ Sign(t) * t.shares = n
    <3> HIDE DEF t, price
    <3> QED
      BY <1>3, <1>5, <1>10, <2>2
  <2>4. a.cash - amount - fee = a.cash - Paid(n)
    <3> HIDE DEF amount, fee, Paid
    <3> QED
      BY <1>1, <1>7, <1>8
  <2>5. c = Booked(a, t)
    <3> HIDE DEF t, price, amount, fee, c, Paid
    <3> QED
      BY <1>10, <2>1, <2>3, <2>4 DEF Booked
  <2>6. c.cash >= 0
    <3> HIDE DEF Paid, amount, fee
    <3> QED
      BY <1>1, <1>7, <1>8, <1>11, <2>1
  <2>7. c.shares = more /\ n \in Nat
    <3> HIDE DEF Paid, t, c
    <3> QED
      BY <1>5, <1>11, <2>1
  <2> HIDE DEF t, c
  <2> QED
    BY <1>9, <1>10, <2>5, <2>6, <2>7 DEF c, OneTrade
<1>12. CASE ~(n > 0 /\ Paid(n) <= a.cash)
  <2>1. n <= 0 \/ Paid(n) > a.cash
    <3> HIDE DEF Paid, amount, fee
    <3> QED
      BY <1>1, <1>5, <1>7, <1>8, <1>12
  <2> HIDE DEF Paid, t
  <2> QED
    BY <1>6, <2>1
<1> QED
  BY <1>11, <1>12

LEMMA SellToTypes ==
  ASSUME PortfolioAssumption, NEW a \in HeldAccounts, NEW q \in QuotedPrices,
         NEW d \in Int, NEW s \in Names, NEW goal \in Int
  PROVE  SellTo(a, q, d, s, goal) \in HeldAccounts
<1> DEFINE c == SellTo(a, q, d, s, goal)
<1>1. OneTrade(c, a, d, s, "sell")
  BY SaleIsBooked, Zenon
<1> HIDE DEF c
<1>2. c \in HeldAccounts
  BY <1>1, BookedTypes DEF OneTrade
<1> QED
  BY <1>2 DEF c

LEMMA BuyUpToTypes ==
  ASSUME PortfolioAssumption, NEW a \in HeldAccounts, NEW q \in QuotedPrices,
         NEW d \in Int, NEW s \in Names, NEW goal \in Int
  PROVE  BuyUpTo(a, q, d, s, goal) \in HeldAccounts
<1> DEFINE c == BuyUpTo(a, q, d, s, goal)
<1>1. c = a \/ OneTrade(c, a, d, s, "buy")
  BY PurchaseIsBooked, Zenon
<1> HIDE DEF c
<1>2. OneTrade(c, a, d, s, "buy") => c \in HeldAccounts
  BY BookedTypes DEF OneTrade
<1> QED
  BY <1>1, <1>2 DEF c

SalesRun(h, a, q, d, goal, sales) ==
  /\ h[0] = a /\ h[Len(Universe)] = Sales(a, q, d, goal, sales)
  /\ \A i \in 1..Len(Universe) :
       h[i] = IF Universe[i] \in sales
              THEN SellTo(h[i - 1], q, d, Universe[i], goal[Universe[i]]) ELSE h[i - 1]

LEMMA SalesFold ==
  ASSUME PortfolioAssumption, NEW a \in HeldAccounts, NEW q \in QuotedPrices,
         NEW d \in Int, NEW goal \in [Names -> Int], NEW sales \in SUBSET Names
  PROVE  \E h \in [0..Len(Universe) -> HeldAccounts] :
           SalesRun(h, a, q, d, goal, sales)
<1> DEFINE n == Len(Universe)
           Turn(b, i) == IF Universe[i] \in sales
                         THEN SellTo(b, q, d, Universe[i], goal[Universe[i]]) ELSE b
           step == [p \in (1..n) \X HeldAccounts |-> Turn(p[2], p[1])]
           Unrolls(f) == f = [A \in SUBSET (1..n) |->
                  IF A = {} THEN a ELSE Turn(f[A \ {Max(A)}], Max(A))]
           g == CHOOSE f : Unrolls(f)
<1>1. n \in Nat /\ DOMAIN Universe = 1..n /\ \A i \in 1..n : Universe[i] \in Names
  BY DEF PortfolioAssumption
<1>2. \A b \in HeldAccounts, i \in 1..n : Turn(b, i) \in HeldAccounts
  BY <1>1, SellToTypes
<1>3. Sales(a, q, d, goal, sales) = g[1..n]
  BY <1>1, Zenon DEF Sales, FoldLeft, MapThenFoldSet
<1> HIDE DEF Turn
<1>4. step \in [(1..n) \X HeldAccounts -> HeldAccounts]
  BY <1>2
<1>5. \A b \in HeldAccounts, i \in 1..n : step[<<i, b>>] = Turn(b, i)
  OBVIOUS
<1> HIDE DEF n, step
<1>6. PICK f \in [SUBSET (1..n) -> HeldAccounts] : Folds(f, n, a, step)
  BY <1>1, <1>4, FoldingExists
<1>7. \A A \in SUBSET (1..n) : A # {} => Max(A) \in 1..n /\ A \ {Max(A)} \in SUBSET (1..n)
  BY <1>1, LargestPlace
<1>8. \A A \in SUBSET (1..n) : f[A] = IF A = {} THEN a ELSE Turn(f[A \ {Max(A)}], Max(A))
  BY <1>5, <1>6, <1>7 DEF Folds
<1>9. Unrolls(f)
  BY <1>6, <1>8
<1>10. Unrolls(g)
  <2> HIDE DEF Unrolls
  <2> QED
    BY <1>9
<1> HIDE DEF g
<1>11. g[{}] = a /\ \A A \in SUBSET (1..n) : A # {} => g[A] = Turn(g[A \ {Max(A)}], Max(A))
  BY <1>10
<1>12. Follows(g, n, HeldAccounts, a, step)
  BY <1>5, <1>7, <1>11 DEF Follows
<1>13. PICK h \in [0..n -> HeldAccounts] : StepsUp(h, g, n, a, step)
  BY <1>1, <1>4, <1>12, FoldClimbs
<1>14. \A i \in 1..n : h[i] = Turn(h[i - 1], i)
  <2>1. \A i \in 1..n : i - 1 \in 0..n
    BY <1>1
  <2> QED
    BY <1>5, <1>13, <2>1 DEF StepsUp
<1> QED
  BY <1>3, <1>13, <1>14 DEF n, Turn, StepsUp, SalesRun

PurchasesRun(h, a, q, d, goal, purchases) ==
  /\ h[0] = a /\ h[Len(Universe)] = Purchases(a, q, d, goal, purchases)
  /\ \A i \in 1..Len(Universe) :
       h[i] = IF Universe[i] \in purchases
              THEN BuyUpTo(h[i - 1], q, d, Universe[i], goal[Universe[i]]) ELSE h[i - 1]

LEMMA PurchasesFold ==
  ASSUME PortfolioAssumption, NEW a \in HeldAccounts, NEW q \in QuotedPrices,
         NEW d \in Int, NEW goal \in [Names -> Int], NEW purchases \in SUBSET Names
  PROVE  \E h \in [0..Len(Universe) -> HeldAccounts] :
           PurchasesRun(h, a, q, d, goal, purchases)
<1> DEFINE n == Len(Universe)
           Turn(b, i) == IF Universe[i] \in purchases
                         THEN BuyUpTo(b, q, d, Universe[i], goal[Universe[i]]) ELSE b
           step == [p \in (1..n) \X HeldAccounts |-> Turn(p[2], p[1])]
           Unrolls(f) == f = [A \in SUBSET (1..n) |->
                  IF A = {} THEN a ELSE Turn(f[A \ {Max(A)}], Max(A))]
           g == CHOOSE f : Unrolls(f)
<1>1. n \in Nat /\ DOMAIN Universe = 1..n /\ \A i \in 1..n : Universe[i] \in Names
  BY DEF PortfolioAssumption
<1>2. \A b \in HeldAccounts, i \in 1..n : Turn(b, i) \in HeldAccounts
  BY <1>1, BuyUpToTypes
<1>3. Purchases(a, q, d, goal, purchases) = g[1..n]
  BY <1>1, Zenon DEF Purchases, FoldLeft, MapThenFoldSet
<1> HIDE DEF Turn
<1>4. step \in [(1..n) \X HeldAccounts -> HeldAccounts]
  BY <1>2
<1>5. \A b \in HeldAccounts, i \in 1..n : step[<<i, b>>] = Turn(b, i)
  OBVIOUS
<1> HIDE DEF n, step
<1>6. PICK f \in [SUBSET (1..n) -> HeldAccounts] : Folds(f, n, a, step)
  BY <1>1, <1>4, FoldingExists
<1>7. \A A \in SUBSET (1..n) : A # {} => Max(A) \in 1..n /\ A \ {Max(A)} \in SUBSET (1..n)
  BY <1>1, LargestPlace
<1>8. \A A \in SUBSET (1..n) : f[A] = IF A = {} THEN a ELSE Turn(f[A \ {Max(A)}], Max(A))
  BY <1>5, <1>6, <1>7 DEF Folds
<1>9. Unrolls(f)
  BY <1>6, <1>8
<1>10. Unrolls(g)
  <2> HIDE DEF Unrolls
  <2> QED
    BY <1>9
<1> HIDE DEF g
<1>11. g[{}] = a /\ \A A \in SUBSET (1..n) : A # {} => g[A] = Turn(g[A \ {Max(A)}], Max(A))
  BY <1>10
<1>12. Follows(g, n, HeldAccounts, a, step)
  BY <1>5, <1>7, <1>11 DEF Follows
<1>13. PICK h \in [0..n -> HeldAccounts] : StepsUp(h, g, n, a, step)
  BY <1>1, <1>4, <1>12, FoldClimbs
<1>14. \A i \in 1..n : h[i] = Turn(h[i - 1], i)
  <2>1. \A i \in 1..n : i - 1 \in 0..n
    BY <1>1
  <2> QED
    BY <1>5, <1>13, <2>1 DEF StepsUp
<1> QED
  BY <1>3, <1>13, <1>14 DEF n, Turn, StepsUp, PurchasesRun

LEMMA BookingFold ==
  ASSUME NEW a \in HeldAccounts, NEW ts \in Seq(Executions)
  PROVE  \E h \in [0..Len(ts) -> HeldAccounts] :
           /\ h[0] = a /\ h[Len(ts)] = FoldLeft(Booked, a, ts)
           /\ \A i \in 1..Len(ts) : h[i] = Booked(h[i - 1], ts[i])
<1> DEFINE n == Len(ts)
           Turn(b, i) == Booked(b, ts[i])
           step == [p \in (1..n) \X HeldAccounts |-> Turn(p[2], p[1])]
           Unrolls(f) == f = [A \in SUBSET (1..n) |->
                  IF A = {} THEN a ELSE Turn(f[A \ {Max(A)}], Max(A))]
           g == CHOOSE f : Unrolls(f)
<1>1. n \in Nat /\ DOMAIN ts = 1..n /\ \A i \in 1..n : ts[i] \in Executions
  OBVIOUS
<1>2. \A b \in HeldAccounts, i \in 1..n : Turn(b, i) \in HeldAccounts
  BY <1>1, BookedTypes
<1>3. FoldLeft(Booked, a, ts) = g[1..n]
  BY <1>1, Zenon DEF FoldLeft, MapThenFoldSet
<1> HIDE DEF Turn
<1>4. step \in [(1..n) \X HeldAccounts -> HeldAccounts]
  BY <1>2
<1>5. \A b \in HeldAccounts, i \in 1..n : step[<<i, b>>] = Turn(b, i)
  OBVIOUS
<1> HIDE DEF n, step
<1>6. PICK f \in [SUBSET (1..n) -> HeldAccounts] : Folds(f, n, a, step)
  BY <1>1, <1>4, FoldingExists
<1>7. \A A \in SUBSET (1..n) : A # {} => Max(A) \in 1..n /\ A \ {Max(A)} \in SUBSET (1..n)
  BY <1>1, LargestPlace
<1>8. \A A \in SUBSET (1..n) : f[A] = IF A = {} THEN a ELSE Turn(f[A \ {Max(A)}], Max(A))
  BY <1>5, <1>6, <1>7 DEF Folds
<1>9. Unrolls(f)
  BY <1>6, <1>8
<1>10. Unrolls(g)
  <2> HIDE DEF Unrolls
  <2> QED
    BY <1>9
<1> HIDE DEF g
<1>11. g[{}] = a /\ \A A \in SUBSET (1..n) : A # {} => g[A] = Turn(g[A \ {Max(A)}], Max(A))
  BY <1>10
<1>12. Follows(g, n, HeldAccounts, a, step)
  BY <1>5, <1>7, <1>11 DEF Follows
<1>13. PICK h \in [0..n -> HeldAccounts] : StepsUp(h, g, n, a, step)
  BY <1>1, <1>4, <1>12, FoldClimbs
<1>14. \A i \in 1..n : h[i] = Turn(h[i - 1], i)
  <2>1. \A i \in 1..n : i - 1 \in 0..n
    BY <1>1
  <2> QED
    BY <1>5, <1>13, <2>1 DEF StepsUp
<1> QED
  BY <1>3, <1>13, <1>14 DEF n, Turn, StepsUp

(* An account that owes nothing is worth nothing or more.                  *)
LEMMA ValueIsNat ==
  ASSUME PortfolioAssumption, NEW a \in HeldAccounts, NEW q \in QuotedPrices,
         a.cash >= 0, \A s \in Names : a.shares[s] >= 0
  PROVE  Value(a, q) \in Nat
<1> DEFINE n == Len(Universe)
           Turn(b, i) == b + a.shares[Universe[i]] * q.price[Universe[i]]
           step == [p \in (1..n) \X Nat |-> Turn(p[2], p[1])]
           Unrolls(f) == f = [A \in SUBSET (1..n) |->
                  IF A = {} THEN a.cash ELSE Turn(f[A \ {Max(A)}], Max(A))]
           g == CHOOSE f : Unrolls(f)
<1>0. a.cash \in Nat
  BY DEF HeldAccounts
<1>1. n \in Nat /\ DOMAIN Universe = 1..n /\ \A i \in 1..n : Universe[i] \in Names
  BY DEF PortfolioAssumption
<1>2. \A b \in Nat, i \in 1..n : Turn(b, i) \in Nat
  <2>1. \A i \in 1..n : a.shares[Universe[i]] \in Nat /\ q.price[Universe[i]] \in Nat
    <3>1. \A s \in Names : a.shares[s] \in Nat
      BY DEF HeldAccounts
    <3>2. \A s \in Names : q.price[s] \in Nat
      BY DEF QuotedPrices, PortfolioAssumption
    <3> QED
      BY <1>1, <3>1, <3>2
  <2>2. \A i \in 1..n : a.shares[Universe[i]] * q.price[Universe[i]] \in Nat
    BY <2>1
  <2> QED
    BY <2>2
<1>3. Value(a, q) = g[1..n]
  BY <1>1, Zenon DEF Value, FoldLeft, MapThenFoldSet
<1> HIDE DEF Turn
<1>4. step \in [(1..n) \X Nat -> Nat]
  BY <1>2
<1>5. \A b \in Nat, i \in 1..n : step[<<i, b>>] = Turn(b, i)
  OBVIOUS
<1> HIDE DEF n, step
<1>6. PICK f \in [SUBSET (1..n) -> Nat] : Folds(f, n, a.cash, step)
  BY <1>0, <1>1, <1>4, FoldingExists
<1>7. \A A \in SUBSET (1..n) : A # {} => Max(A) \in 1..n /\ A \ {Max(A)} \in SUBSET (1..n)
  BY <1>1, LargestPlace
<1>8. \A A \in SUBSET (1..n) : f[A] = IF A = {} THEN a.cash ELSE Turn(f[A \ {Max(A)}], Max(A))
  BY <1>5, <1>6, <1>7 DEF Folds
<1>9. Unrolls(f)
  BY <1>6, <1>8
<1>10. Unrolls(g)
  <2> HIDE DEF Unrolls
  <2> QED
    BY <1>9
<1> HIDE DEF g
<1>11. g[{}] = a.cash /\ \A A \in SUBSET (1..n) : A # {} => g[A] = Turn(g[A \ {Max(A)}], Max(A))
  BY <1>10
<1>12. Follows(g, n, Nat, a.cash, step)
  BY <1>5, <1>7, <1>11 DEF Follows
<1>13. PICK h \in [0..n -> Nat] : StepsUp(h, g, n, a.cash, step)
  BY <1>0, <1>1, <1>4, <1>12, FoldClimbs
<1> QED
  BY <1>1, <1>3, <1>13 DEF StepsUp

-----------------------------------------------------------------------------
(* Trades that explain an account                                          *)

AccountAfter(ts) == FoldLeft(Booked, FreshAccount, ts)

LEMMA FreshIsHeld == FreshAccount \in HeldAccounts
<1>1. InitialCash \in Int
  BY PortfolioAssumption DEF PortfolioAssumption
<1>2. <<>> \in Seq(Executions) /\ [s \in Names |-> 0] \in [Names -> Int]
  OBVIOUS
<1> QED
  BY <1>1, <1>2 DEF FreshAccount, HeldAccounts

LEMMA NothingBooked == AccountAfter(<<>>) = FreshAccount
<1> DEFINE ts == <<>>
<1>1. ts \in Seq(Executions) /\ Len(ts) = 0
  OBVIOUS
<1> HIDE DEF ts
<1>2. PICK h \in [0..Len(ts) -> HeldAccounts] :
        h[0] = FreshAccount /\ h[Len(ts)] = FoldLeft(Booked, FreshAccount, ts)
  BY <1>1, FreshIsHeld, BookingFold
<1> QED
  BY <1>1, <1>2 DEF ts, AccountAfter

LEMMA OneMoreBooked ==
  ASSUME NEW ts \in Seq(Executions), NEW t \in Executions
  PROVE  /\ AccountAfter(ts) \in HeldAccounts
         /\ AccountAfter(Append(ts, t)) = Booked(AccountAfter(ts), t)
<1> DEFINE n == Len(ts)
           us == Append(ts, t)
<1>1. /\ us \in Seq(Executions) /\ Len(us) = n + 1 /\ n \in Nat /\ us[n + 1] = t
      /\ \A i \in 1..n : us[i] = ts[i]
  OBVIOUS
<1>2. PICK h \in [0..n -> HeldAccounts] :
        /\ h[0] = FreshAccount /\ h[n] = FoldLeft(Booked, FreshAccount, ts)
        /\ \A i \in 1..n : h[i] = Booked(h[i - 1], ts[i])
  BY FreshIsHeld, BookingFold
<1> HIDE DEF us
<1>3. PICK k \in [0..Len(us) -> HeldAccounts] :
        /\ k[0] = FreshAccount /\ k[Len(us)] = FoldLeft(Booked, FreshAccount, us)
        /\ \A i \in 1..Len(us) : k[i] = Booked(k[i - 1], us[i])
  BY <1>1, FreshIsHeld, BookingFold
<1> HIDE DEF n
<1>4. \A i \in 0..n : k[i] = h[i]
  <2> DEFINE Held == {i \in 0..n : k[i] = h[i]}
  <2>1. 0 \in Held
    BY <1>1, <1>2, <1>3
  <2>2. ASSUME NEW i \in 1..n, i - 1 \in Held
        PROVE  i \in Held
    <3>1. i \in 1..Len(us) /\ i \in 0..n
      BY <1>1
    <3>2. k[i] = Booked(k[i - 1], us[i]) /\ h[i] = Booked(h[i - 1], ts[i]) /\ us[i] = ts[i]
      BY <1>1, <1>2, <1>3, <3>1
    <3>3. k[i - 1] = h[i - 1]
      BY <2>2
    <3> QED
      BY <3>1, <3>2, <3>3
  <2> HIDE DEF Held
  <2>3. \A i \in 0..n : i \in Held
    BY <1>1, <2>1, <2>2, PlacesInduction
  <2> QED
    BY <2>3 DEF Held
<1>5. n + 1 \in 1..Len(us) /\ n \in 0..n /\ (n + 1) - 1 = n
  BY <1>1
<1>6. k[n + 1] = Booked(k[n], t) /\ k[n] = h[n]
  BY <1>1, <1>3, <1>4, <1>5
<1>7. AccountAfter(ts) = h[n] /\ AccountAfter(us) = k[n + 1] /\ h[n] \in HeldAccounts
  BY <1>1, <1>2, <1>3, <1>5 DEF AccountAfter
<1> QED
  BY <1>6, <1>7 DEF us

Solid(a) == a.cash >= 0 /\ \A s \in Names : a.shares[s] >= 0
Explained(a) ==
  /\ a \in HeldAccounts /\ AccountAfter(a.trades) = a
  /\ \A n \in 0..Len(a.trades) : Solid(AccountAfter(SubSeq(a.trades, 1, n)))
NeverBoughtBack(ts) ==
  \A i, j \in 1..Len(ts) :
    i < j /\ ts[i].day = ts[j].day /\ ts[i].symbol = ts[j].symbol
      => ~(ts[i].side = "sell" /\ ts[j].side = "buy")

(* Nothing is later than d, and on that day only symbols of S were sold.   *)
SoldOnly(ts, d, S) ==
  \A i \in 1..Len(ts) :
    ts[i].day <= d /\ (ts[i].day = d /\ ts[i].side = "sell" => ts[i].symbol \in S)
WellTraded(a, d, S) ==
  Explained(a) /\ NeverBoughtBack(a.trades) /\ SoldOnly(a.trades, d, S)

LEMMA ExplainedIsSolid ==
  ASSUME NEW a, Explained(a)
  PROVE  Solid(a) /\ a \in HeldAccounts
<1>1. a \in HeldAccounts /\ a.trades \in Seq(Executions) /\ Len(a.trades) \in Nat
  BY DEF Explained, HeldAccounts
<1>2. SubSeq(a.trades, 1, Len(a.trades)) = a.trades /\ Len(a.trades) \in 0..Len(a.trades)
  BY <1>1
<1>3. Solid(AccountAfter(SubSeq(a.trades, 1, Len(a.trades))))
  BY <1>2, Zenon DEF Explained
<1>4. Solid(AccountAfter(a.trades))
  BY <1>2, <1>3
<1> QED
  BY <1>1, <1>4 DEF Explained

LEMMA MoreIsWellTraded ==
  ASSUME NEW a, NEW d \in Int, NEW S, WellTraded(a, d, S),
         NEW t \in Executions, t.day = d,
         t.side = "sell" => t.symbol \in S, t.side = "buy" => t.symbol \notin S,
         NEW c, c = Booked(a, t), Solid(c)
  PROVE  WellTraded(c, d, S)
<1> DEFINE ts == a.trades
           us == Append(ts, t)
           n == Len(ts)
<1>1. /\ a \in HeldAccounts /\ ts \in Seq(Executions) /\ n \in Nat /\ AccountAfter(ts) = a
      /\ \A m \in 0..n : Solid(AccountAfter(SubSeq(ts, 1, m)))
      /\ NeverBoughtBack(ts) /\ SoldOnly(ts, d, S)
  BY DEF WellTraded, Explained, HeldAccounts
<1>2. c \in HeldAccounts /\ c.trades = us
  BY <1>1, BookedTypes DEF Booked
<1> HIDE DEF ts
<1>3. AccountAfter(us) = c
  BY <1>1, OneMoreBooked
<1>4. /\ us \in Seq(Executions) /\ Len(us) = n + 1 /\ us[n + 1] = t
      /\ \A i \in 1..n : us[i] = ts[i]
  BY <1>1
<1>5. /\ \A m \in 0..n : SubSeq(us, 1, m) = SubSeq(ts, 1, m)
      /\ SubSeq(us, 1, n + 1) = us
  BY <1>1
<1>6. ASSUME NEW m \in 0..Len(us) PROVE Solid(AccountAfter(SubSeq(us, 1, m)))
  <2>1. CASE m \in 0..n
    BY <1>1, <1>5, <2>1
  <2>2. CASE m = n + 1
    BY <1>3, <1>5, <2>2
  <2> QED
    BY <1>1, <1>4, <2>1, <2>2
<1>7. SoldOnly(us, d, S)
  <2> SUFFICES ASSUME NEW i \in 1..Len(us)
               PROVE  us[i].day <= d /\ (us[i].day = d /\ us[i].side = "sell" => us[i].symbol \in S)
    BY DEF SoldOnly
  <2> HIDE DEF us, n
  <2>1. CASE i \in 1..n
    BY <1>1, <1>4, <2>1 DEF SoldOnly, n
  <2>2. CASE i = n + 1
    BY <1>4, <2>2
  <2> QED
    BY <1>1, <1>4, <2>1, <2>2
<1>8. NeverBoughtBack(us)
  <2> SUFFICES ASSUME NEW i \in 1..Len(us), NEW j \in 1..Len(us), i < j,
                      us[i].day = us[j].day, us[i].symbol = us[j].symbol,
                      us[i].side = "sell", us[j].side = "buy"
               PROVE  FALSE
    BY Zenon DEF NeverBoughtBack
  <2> HIDE DEF us, n
  <2>1. i \in 1..n
    BY <1>1, <1>4
  <2>2. CASE j \in 1..n
    BY <1>1, <1>4, <2>1, <2>2 DEF NeverBoughtBack, n
  <2>3. CASE j = n + 1
    <3>1. ts[i].day = d /\ ts[i].side = "sell" /\ ts[i].symbol = t.symbol /\ t.side = "buy"
      BY <1>4, <2>1, <2>3
    <3> QED
      BY <1>1, <2>1, <3>1 DEF SoldOnly, n
  <2> QED
    BY <1>1, <1>4, <2>2, <2>3
<1> QED
  BY <1>2, <1>3, <1>6, <1>7, <1>8 DEF WellTraded, Explained

(* Sales of some of what is held.                                          *)
LEMMA SalesAreWellTraded ==
  ASSUME PortfolioAssumption, NEW a, NEW q \in QuotedPrices, NEW d \in Int,
         NEW goal \in [Names -> Nat], NEW sales \in SUBSET Names,
         \A s \in sales : goal[s] <= a.shares[s], WellTraded(a, d, sales)
  PROVE  WellTraded(Sales(a, q, d, goal, sales), d, sales)
<1> DEFINE n == Len(Universe)
           Sound(b) == WellTraded(b, d, sales) /\ \A s \in sales : goal[s] <= b.shares[s]
<1>1. n \in Nat /\ \A i \in 1..n : Universe[i] \in Names
  BY DEF PortfolioAssumption
<1>2. a \in HeldAccounts /\ goal \in [Names -> Int]
  BY DEF WellTraded, Explained
<1>3. PICK h \in [0..n -> HeldAccounts] : SalesRun(h, a, q, d, goal, sales)
  BY <1>2, SalesFold
<1>4. h[0] = a /\ h[n] = Sales(a, q, d, goal, sales)
  BY <1>3 DEF SalesRun
<1>5. ASSUME NEW i \in 1..n
       PROVE  h[i] = IF Universe[i] \in sales
                     THEN SellTo(h[i - 1], q, d, Universe[i], goal[Universe[i]]) ELSE h[i - 1]
  BY <1>3 DEF SalesRun
<1> HIDE DEF n
<1>6. ASSUME NEW b \in HeldAccounts, NEW s \in sales, Sound(b)
      PROVE  Sound(SellTo(b, q, d, s, goal[s]))
  <2> DEFINE c == SellTo(b, q, d, s, goal[s])
  <2>1. /\ OneTrade(c, b, d, s, "sell") /\ c.shares = [b.shares EXCEPT ![s] = goal[s]]
        /\ goal[s] <= b.shares[s] => c.cash >= b.cash
    BY <1>2, SaleIsBooked
  <2>2. c \in HeldAccounts
    BY <1>2, SellToTypes
  <2> HIDE DEF c
  <2>3. Solid(b) /\ b.shares \in [Names -> Int] /\ b.cash \in Int /\ c.cash \in Int
    BY <1>6, <2>2, ExplainedIsSolid DEF WellTraded, HeldAccounts
  <2>4. Solid(c) /\ \A u \in sales : goal[u] <= c.shares[u]
    BY <1>6, <2>1, <2>3 DEF Solid
  <2>5. PICK t \in Executions : t.day = d /\ t.symbol = s /\ t.side = "sell" /\ c = Booked(b, t)
    BY <2>1 DEF OneTrade
  <2>6. WellTraded(c, d, sales)
    BY <1>6, <2>4, <2>5, MoreIsWellTraded
  <2> QED
    BY <2>4, <2>6 DEF c
<1> HIDE DEF Sound
<1> DEFINE Held == {i \in 0..n : Sound(h[i])}
<1>7. 0 \in Held
  BY <1>1, <1>4 DEF Sound
<1>8. ASSUME NEW i \in 1..n, i - 1 \in Held PROVE i \in Held
  <2>1. i \in 0..n /\ i - 1 \in 0..n /\ h[i - 1] \in HeldAccounts
    BY <1>1
  <2>2. Sound(h[i - 1])
    BY <1>8
  <2>3. Sound(h[i])
    <3>1. CASE Universe[i] \in sales
      BY <1>6, <1>5, <2>1, <2>2, <3>1
    <3>2. CASE Universe[i] \notin sales
      BY <1>5, <2>2, <3>2
    <3> QED
      BY <3>1, <3>2
  <2> QED
    BY <2>1, <2>3
<1> HIDE DEF Held
<1>9. \A i \in 0..n : i \in Held
  BY <1>1, <1>7, <1>8, PlacesInduction
<1>10. Sound(h[n])
  BY <1>1, <1>9 DEF Held
<1> QED
  BY <1>10, <1>4 DEF Sound

(* Purchases of what was not sold that day.                                *)
LEMMA PurchasesAreWellTraded ==
  ASSUME PortfolioAssumption, NEW a, NEW q \in QuotedPrices, NEW d \in Int,
         NEW goal \in [Names -> Int], NEW purchases \in SUBSET Names, NEW S,
         purchases \cap S = {}, WellTraded(a, d, S)
  PROVE  WellTraded(Purchases(a, q, d, goal, purchases), d, S)
<1> DEFINE n == Len(Universe)
<1>1. n \in Nat /\ \A i \in 1..n : Universe[i] \in Names
  BY DEF PortfolioAssumption
<1>2. a \in HeldAccounts
  BY DEF WellTraded, Explained
<1>3. PICK h \in [0..n -> HeldAccounts] : PurchasesRun(h, a, q, d, goal, purchases)
  BY <1>2, PurchasesFold
<1>4. h[0] = a /\ h[n] = Purchases(a, q, d, goal, purchases)
  BY <1>3 DEF PurchasesRun
<1>5. ASSUME NEW i \in 1..n
       PROVE  h[i] = IF Universe[i] \in purchases
                     THEN BuyUpTo(h[i - 1], q, d, Universe[i], goal[Universe[i]]) ELSE h[i - 1]
  BY <1>3 DEF PurchasesRun
<1> HIDE DEF n
<1>6. ASSUME NEW b \in HeldAccounts, NEW s \in purchases, WellTraded(b, d, S)
      PROVE  WellTraded(BuyUpTo(b, q, d, s, goal[s]), d, S)
  <2> DEFINE x == goal[s]  c == BuyUpTo(b, q, d, s, x)
  <2>1. CASE c = b
    BY <1>6, <2>1
  <2>2. CASE c # b
    <3> DEFINE Grown(r) == \E m \in Nat : r = [b.shares EXCEPT ![s] = @ + m]
    <3>0. x \in Int /\ s \in Names
      BY <1>6
    <3> HIDE DEF x
    <3>1. OneTrade(c, b, d, s, "buy") /\ c.cash >= 0 /\ Grown(c.shares)
      <4>1. \/ BuyUpTo(b, q, d, s, x) = b
            \/ /\ OneTrade(BuyUpTo(b, q, d, s, x), b, d, s, "buy")
               /\ \E m \in Nat : BuyUpTo(b, q, d, s, x).shares = [b.shares EXCEPT ![s] = @ + m]
               /\ BuyUpTo(b, q, d, s, x).cash >= 0
        BY <3>0, PurchaseIsBooked
      <4> QED
        BY <2>2, <4>1
    <3> HIDE DEF c
    <3>2. Solid(b) /\ b.shares \in [Names -> Int]
      BY <1>6, ExplainedIsSolid DEF WellTraded, HeldAccounts
    <3>3. PICK m \in Nat : c.shares = [b.shares EXCEPT ![s] = @ + m]
      BY <3>1
    <3>4. Solid(c)
      BY <3>1, <3>2, <3>3 DEF Solid
    <3>5. PICK t \in Executions : t.day = d /\ t.symbol = s /\ t.side = "buy" /\ c = Booked(b, t)
      BY <3>1 DEF OneTrade
    <3>6. WellTraded(c, d, S)
      BY <1>6, <3>4, <3>5, MoreIsWellTraded
    <3> QED
      BY <3>6 DEF c, x
  <2> QED
    BY <2>1, <2>2
<1> DEFINE Held == {i \in 0..n : WellTraded(h[i], d, S)}
<1>7. 0 \in Held
  BY <1>1, <1>4
<1>8. ASSUME NEW i \in 1..n, i - 1 \in Held PROVE i \in Held
  <2>1. i \in 0..n /\ i - 1 \in 0..n /\ h[i - 1] \in HeldAccounts
    BY <1>1
  <2>2. WellTraded(h[i - 1], d, S)
    BY <1>8
  <2>3. WellTraded(h[i], d, S)
    <3>1. CASE Universe[i] \in purchases
      BY <1>6, <1>5, <2>1, <2>2, <3>1
    <3>2. CASE Universe[i] \notin purchases
      BY <1>5, <2>2, <3>2
    <3> QED
      BY <3>1, <3>2
  <2> QED
    BY <2>1, <2>3
<1> HIDE DEF Held
<1>9. \A i \in 0..n : i \in Held
  BY <1>1, <1>7, <1>8, PlacesInduction
<1> QED
  BY <1>1, <1>9, <1>4 DEF Held

-----------------------------------------------------------------------------
(* Days                                                                    *)

(* Until the day d nothing is traded later.                                *)
TradedBy(a, d) ==
  Explained(a) /\ NeverBoughtBack(a.trades) /\ \A i \in 1..Len(a.trades) : a.trades[i].day <= d

LEMMA NextDayIsNew ==
  ASSUME NEW a, NEW d \in Int, TradedBy(a, d), NEW S
  PROVE  WellTraded(a, d + 1, S)
<1>1. a.trades \in Seq(Executions)
  BY DEF TradedBy, Explained, HeldAccounts
<1>2. \A i \in 1..Len(a.trades) : a.trades[i].day \in Int
  <2>1. \A i \in 1..Len(a.trades) : a.trades[i] \in Executions
    BY <1>1
  <2> QED
    BY <2>1 DEF Executions
<1> QED
  BY <1>2 DEF TradedBy, WellTraded, SoldOnly

LEMMA RebalanceTrades ==
  ASSUME PortfolioAssumption, NEW a, NEW q \in QuotedPrices, NEW d \in Int, TradedBy(a, d),
         NEW weights \in [Names -> Nat]
  PROVE  TradedBy(Rebalanced(a, q, d + 1, weights), d + 1)
<1> DEFINE goal == Goals(a, q, weights)
           sales == {s \in Names : goal[s] < a.shares[s] /\ Sellable(q, s)}
           purchases == {s \in Names : goal[s] > a.shares[s] /\ Buyable(q, s)}
<1>1. a \in HeldAccounts /\ Solid(a)
  BY ExplainedIsSolid DEF TradedBy
<1>2. Value(a, q) \in Nat
  BY <1>1, ValueIsNat DEF Solid
<1>3. goal \in [Names -> Nat]
  <2> SUFFICES ASSUME NEW s \in Names
               PROVE  (Value(a, q) * weights[s]) \div (8 * q.price[s]) \in Nat
    BY DEF Goals
  <2>1. q.price[s] \in Nat \ {0} /\ weights[s] \in Nat
    BY DEF QuotedPrices, PortfolioAssumption
  <2> DEFINE x == Value(a, q) * weights[s]
             y == 8 * q.price[s]
  <2>2. x \in Nat /\ x \in Int /\ y \in Nat \ {0}
    BY <1>2, <2>1
  <2> HIDE DEF x, y
  <2>3. x \div y \in Nat
    BY <2>2, Quotients
  <2> QED
    BY <2>3 DEF x, y
<1> HIDE DEF goal
<1>4. \A s \in Names : goal[s] \in Int /\ a.shares[s] \in Int
  BY <1>1, <1>3 DEF HeldAccounts
<1>5. /\ \A s \in sales : goal[s] <= a.shares[s]
      /\ purchases \cap sales = {} /\ sales \in SUBSET Names /\ purchases \in SUBSET Names
  BY <1>4
<1>6. Rebalanced(a, q, d + 1, weights)
        = Purchases(Sales(a, q, d + 1, goal, sales), q, d + 1, goal, purchases)
  BY DEF Rebalanced, goal
<1> HIDE DEF sales, purchases
<1>7. WellTraded(a, d + 1, sales) /\ d + 1 \in Int /\ goal \in [Names -> Int]
  BY <1>3, NextDayIsNew
<1>8. WellTraded(Sales(a, q, d + 1, goal, sales), d + 1, sales)
  BY <1>3, <1>5, <1>7, SalesAreWellTraded
<1>9. WellTraded(Rebalanced(a, q, d + 1, weights), d + 1, sales)
  BY <1>5, <1>6, <1>7, <1>8, PurchasesAreWellTraded
<1> QED
  BY <1>9 DEF WellTraded, TradedBy, SoldOnly

(* A day with sales only.                                                  *)
LEMMA SellingTrades ==
  ASSUME PortfolioAssumption, NEW a, NEW q \in QuotedPrices, NEW d \in Int, TradedBy(a, d),
         NEW goal \in [Names -> Nat], NEW sales \in SUBSET Names,
         \A s \in sales : goal[s] <= a.shares[s]
  PROVE  TradedBy(Sales(a, q, d + 1, goal, sales), d + 1)
<1>1. WellTraded(a, d + 1, sales) /\ d + 1 \in Int
  BY NextDayIsNew
<1>2. WellTraded(Sales(a, q, d + 1, goal, sales), d + 1, sales)
  BY <1>1, SalesAreWellTraded
<1> QED
  BY <1>2 DEF WellTraded, TradedBy, SoldOnly

LEMMA HalvingTrades ==
  ASSUME PortfolioAssumption, NEW a, NEW q \in QuotedPrices, NEW d \in Int, TradedBy(a, d)
  PROVE  TradedBy(Halved(a, q, d + 1), d + 1)
<1> DEFINE goal == [s \in Names |-> a.shares[s] \div 2]
           sales == {s \in Names : a.shares[s] > 0 /\ Sellable(q, s)}
<1>1. \A s \in Names : a.shares[s] \in Nat
  BY ExplainedIsSolid DEF TradedBy, Solid, HeldAccounts
<1>2. goal \in [Names -> Nat] /\ (\A s \in sales : goal[s] <= a.shares[s]) /\ sales \in SUBSET Names
  BY <1>1
<1>3. Halved(a, q, d + 1) = Sales(a, q, d + 1, goal, sales)
  BY DEF Halved
<1> HIDE DEF goal, sales
<1>4. TradedBy(Sales(a, q, d + 1, goal, sales), d + 1)
  BY <1>2, SellingTrades
<1> QED
  BY <1>3, <1>4

LEMMA LiquidationTrades ==
  ASSUME PortfolioAssumption, NEW a, NEW q \in QuotedPrices, NEW d \in Int, TradedBy(a, d)
  PROVE  TradedBy(Sales(a, q, d + 1, [s \in Names |-> 0], {s \in Names : a.shares[s] > 0}), d + 1)
<1> DEFINE goal == [s \in Names |-> 0]
           sales == {s \in Names : a.shares[s] > 0}
<1>1. \A s \in Names : a.shares[s] \in Nat
  BY ExplainedIsSolid DEF TradedBy, Solid, HeldAccounts
<1>2. goal \in [Names -> Nat] /\ (\A s \in sales : goal[s] <= a.shares[s]) /\ sales \in SUBSET Names
  BY <1>1
<1> HIDE DEF goal, sales
<1>3. TradedBy(Sales(a, q, d + 1, goal, sales), d + 1)
  BY <1>2, SellingTrades
<1> QED
  BY <1>3 DEF goal, sales

(* A backtest that goes on has traded up to its day.                       *)
PortfolioInv ==
  ~Paper =>
    /\ day \in Nat /\ quote \in QuotedPrices
    /\ Explained(account) /\ NeverBoughtBack(account.trades)
    /\ mode = "running" => TradedBy(account, day)

LEMMA PortfolioStarts == PortfolioInit => PortfolioInv
<1> SUFFICES ASSUME PortfolioInit PROVE PortfolioInv
  OBVIOUS
<1> DEFINE a == FreshAccount
<1>1. a \in HeldAccounts /\ a.trades = <<>> /\ AccountAfter(<<>>) = a
  BY FreshIsHeld, NothingBooked DEF FreshAccount
<1>2. Solid(a)
  BY PortfolioAssumption DEF PortfolioAssumption, Solid, FreshAccount
<1>3. Len(a.trades) = 0 /\ \A n \in 0..Len(a.trades) : SubSeq(a.trades, 1, n) = a.trades
  BY <1>1
<1> HIDE DEF a
<1>4. Explained(a)
  BY <1>1, <1>2, <1>3 DEF Explained
<1>5. NeverBoughtBack(a.trades) /\ \A d \in Int : TradedBy(a, d)
  BY <1>3, <1>4 DEF NeverBoughtBack, TradedBy
<1>6. day = 0 /\ quote \in QuotedPrices /\ account = a
  BY DEF PortfolioInit, QuotedPrices, a
<1> QED
  BY <1>4, <1>5, <1>6 DEF PortfolioInv

LEMMA DayTrades ==
  ASSUME PortfolioAssumption, PortfolioInv, NEW q \in Quotes, NEW w \in TargetWeights \cup {Hold},
         TradingDay(q, w)
  PROVE  PortfolioInv'
<1> SUFFICES ASSUME ~Paper' PROVE PortfolioInv'
  BY DEF PortfolioInv
<1>1. ~Paper /\ mode = "running" /\ day' = day + 1 /\ quote' = q /\ mode' \in {"running", "failed"}
  BY Zenon DEF TradingDay, Paper
<1>2. day \in Nat /\ quote \in QuotedPrices /\ TradedBy(account, day)
  BY <1>1 DEF PortfolioInv
<1>3. q \in QuotedPrices
  BY <1>2 DEF Quotes, QuotedPrices
<1> DEFINE p == Protected(account, q, day', breaker')
<1>4. CASE day' \in RebalanceDays /\ w # Hold
  <2>1. p = account
    BY <1>4 DEF Protected, Emergency
  <2>2. account' = Rebalanced(p, q, day', Scaled(w, breaker'))
    BY <1>4, Zenon DEF TradingDay
  <2>3. w \in [Names -> Nat]
    BY <1>4 DEF PortfolioAssumption
  <2>4. Scaled(w, breaker') \in [Names -> Nat]
    BY <2>3 DEF Scaled
  <2>5. TradedBy(account', day')
    BY <1>1, <1>2, <1>3, <2>1, <2>2, <2>4, RebalanceTrades
  <2> QED
    BY <1>1, <1>2, <1>3, <2>5 DEF PortfolioInv, TradedBy
<1>5. CASE ~(day' \in RebalanceDays /\ w # Hold)
  <2>1. account' = p
    BY <1>5, Zenon DEF TradingDay
  <2>2. p = account \/ p = Halved(account, q, day')
    BY <1>1 DEF Protected
  <2>3. TradedBy(account, day + 1)
    <3>1. WellTraded(account, day + 1, {})
      BY <1>2, NextDayIsNew
    <3> QED
      BY <3>1 DEF WellTraded, TradedBy, SoldOnly
  <2>4. TradedBy(Halved(account, q, day + 1), day + 1)
    BY <1>2, <1>3, HalvingTrades
  <2>5. TradedBy(account', day')
    BY <1>1, <2>1, <2>2, <2>3, <2>4
  <2> QED
    BY <1>1, <1>2, <1>3, <2>5 DEF PortfolioInv, TradedBy
<1> QED
  BY <1>4, <1>5

(* The trades of a backtest explain its account at every step, overdraw    *)
(* neither cash nor shares, and buy nothing back on the day it was sold:   *)
(* for any stocks, prices that are worth a sale, target weights, lack of   *)
(* bars, rebalance days and costs.                                         *)
THEOREM TradesAlwaysExplain == PortfolioSpec => []TradesExplainTheAccount
<1>1. PortfolioInv /\ [PortfolioNext]_portfolioVars => PortfolioInv'
  <2> SUFFICES ASSUME PortfolioInv, [PortfolioNext]_portfolioVars PROVE PortfolioInv'
    OBVIOUS
  <2>1. CASE UNCHANGED portfolioVars
    BY <2>1 DEF portfolioVars, PortfolioInv, Paper
  <2>2. ASSUME NEW q \in Quotes, NEW w \in TargetWeights \cup {Hold}, TradingDay(q, w)
        PROVE  PortfolioInv'
    BY <2>2, PortfolioAssumption, DayTrades
  <2>3. CASE NoData \/ RestartEngine
    BY <2>3 DEF NoData, RestartEngine, PortfolioInv, Paper
  <2>4. CASE Liquidate
    <3>1. mode = "running" /\ mode' = "done" /\ day' = day /\ quote' = quote
      BY <2>4 DEF Liquidate
    <3>2. day \in Nat /\ quote \in QuotedPrices /\ TradedBy(account, day)
      BY <3>1 DEF PortfolioInv, Paper
    <3>3. account' = Sales(account, quote, day + 1, [s \in Names |-> 0],
                           {s \in Names : account.shares[s] > 0})
      BY <2>4, Zenon DEF Liquidate
    <3>4. day \in Int
      BY <3>2
    <3>5. TradedBy(account', day + 1)
      BY <3>2, <3>3, <3>4, PortfolioAssumption, LiquidationTrades
    <3> QED
      BY <3>1, <3>2, <3>5 DEF PortfolioInv, TradedBy
  <2> QED
    BY <2>1, <2>2, <2>3, <2>4 DEF PortfolioNext
<1>2. PortfolioInv => TradesExplainTheAccount
  <2> SUFFICES ASSUME PortfolioInv, ~Paper PROVE TradesExplainTheAccount
    BY DEF TradesExplainTheAccount
  <2> DEFINE t == account.trades
  <2>1. Explained(account) /\ NeverBoughtBack(t)
    BY DEF PortfolioInv
  <2>2. t \in Seq(Executions)
    BY <2>1 DEF Explained, HeldAccounts
  <2>3. SubSeq(t, 1, Len(t)) = t
    BY <2>2
  <2> HIDE DEF t
  <2> QED
    BY <2>1, <2>3 DEF TradesExplainTheAccount, Explained, Solid, AccountAfter, NeverBoughtBack, t
<1> QED
  BY <1>1, <1>2, PortfolioStarts, PTL DEF PortfolioSpec

-----------------------------------------------------------------------------
(* Orders of a rebalance                                                   *)

OrderRecords == [symbol : Stocks, side : {"buy", "sell"}, shares : Int]
Holdings == [Stocks -> Int]
Accounts == [cash : Int, shares : Holdings]
MarketTypes ==
  /\ config \in RiskConfigs /\ holdings \in Accounts
  /\ marketPrice \in [Stocks -> Nat \ {0}]

(* A sum over symbols goes up by the values of the symbols it counts.      *)
SumRun(h, f, names) ==
  /\ h[0] = 0 /\ h[Len(Basket)] = SumOver(f, names)
  /\ \A i \in 1..Len(Basket) :
       h[i] = IF Basket[i] \in names THEN h[i - 1] + f[Basket[i]] ELSE h[i - 1]

LEMMA SumFold ==
  ASSUME NEW f \in [Stocks -> Int], NEW names
  PROVE  \E h \in [0..Len(Basket) -> Int] : SumRun(h, f, names)
<1> DEFINE n == Len(Basket)
           Turn(v, i) == IF Basket[i] \in names THEN v + f[Basket[i]] ELSE v
           step == [p \in (1..n) \X Int |-> Turn(p[2], p[1])]
           Unrolls(r) == r = [A \in SUBSET (1..n) |->
                  IF A = {} THEN 0 ELSE Turn(r[A \ {Max(A)}], Max(A))]
           g == CHOOSE r : Unrolls(r)
<1>1. n \in Nat /\ DOMAIN Basket = 1..n /\ \A i \in 1..n : Basket[i] \in Stocks
  BY OrdersAssumption
<1>2. \A v \in Int, i \in 1..n : Turn(v, i) \in Int
  BY <1>1
<1>3. SumOver(f, names) = g[1..n]
  BY <1>1, Zenon DEF SumOver, FoldLeft, MapThenFoldSet
<1> HIDE DEF Turn
<1>4. step \in [(1..n) \X Int -> Int]
  BY <1>2
<1>5. \A v \in Int, i \in 1..n : step[<<i, v>>] = Turn(v, i)
  OBVIOUS
<1> HIDE DEF n, step
<1>0. 0 \in Int
  OBVIOUS
<1>6. PICK r \in [SUBSET (1..n) -> Int] : Folds(r, n, 0, step)
  BY <1>0, <1>1, <1>4, FoldingExists
<1>7. \A A \in SUBSET (1..n) : A # {} => Max(A) \in 1..n /\ A \ {Max(A)} \in SUBSET (1..n)
  BY <1>1, LargestPlace
<1>8. \A A \in SUBSET (1..n) : r[A] = IF A = {} THEN 0 ELSE Turn(r[A \ {Max(A)}], Max(A))
  BY <1>5, <1>6, <1>7 DEF Folds
<1>9. Unrolls(r)
  BY <1>6, <1>8
<1>10. Unrolls(g)
  <2> HIDE DEF Unrolls
  <2> QED
    BY <1>9
<1> HIDE DEF g
<1>11. g[{}] = 0 /\ \A A \in SUBSET (1..n) : A # {} => g[A] = Turn(g[A \ {Max(A)}], Max(A))
  BY <1>10
<1>12. Follows(g, n, Int, 0, step)
  BY <1>5, <1>7, <1>11 DEF Follows
<1>13. PICK h \in [0..n -> Int] : StepsUp(h, g, n, 0, step)
  BY <1>0, <1>1, <1>4, <1>12, FoldClimbs
<1>14. \A i \in 1..n : h[i] = Turn(h[i - 1], i)
  <2>1. \A i \in 1..n : i - 1 \in 0..n
    BY <1>1
  <2> QED
    BY <1>5, <1>13, <2>1 DEF StepsUp
<1> QED
  BY <1>3, <1>13, <1>14 DEF n, Turn, StepsUp, SumRun

LEMMA SumIsInt ==
  ASSUME NEW f \in [Stocks -> Int], NEW names
  PROVE  SumOver(f, names) \in Int
<1>1. Len(Basket) \in Nat
  BY OrdersAssumption
<1> QED
  BY <1>1, SumFold DEF SumRun

(* What exceeds another at every symbol by nothing, but at one, sums up to *)
(* as much more.                                                           *)
LEMMA SumMovesBy ==
  ASSUME NEW f \in [Stocks -> Int], NEW e \in [Stocks -> Int], NEW s \in Stocks,
         NEW k \in Int, e[s] = f[s] + k, \A u \in Stocks \ {s} : e[u] = f[u]
  PROVE  SumOver(e, Stocks) = SumOver(f, Stocks) + k
<1> DEFINE n == Len(Basket)
<1>1. n \in Nat /\ DOMAIN Basket = 1..n /\ \A i \in 1..n : Basket[i] \in Stocks
  BY OrdersAssumption
<1>2. PICK p \in 1..n : Basket[p] = s
  BY <1>1 DEF Stocks, Range
<1>3. \A i \in 1..n : Basket[i] = s => i = p
  BY <1>1, <1>2, OrdersAssumption DEF IsInjective
<1>4. PICK h \in [0..n -> Int] : SumRun(h, f, Stocks)
  BY SumFold
<1>5. PICK j \in [0..n -> Int] : SumRun(j, e, Stocks)
  BY SumFold
<1>6. \A i \in 1..n : h[i] = h[i - 1] + f[Basket[i]] /\ j[i] = j[i - 1] + e[Basket[i]]
  BY <1>1, <1>4, <1>5 DEF SumRun
<1> DEFINE Held == {i \in 0..n : j[i] = h[i] + (IF p <= i THEN k ELSE 0)}
<1>7. 0 \in Held
  BY <1>1, <1>4, <1>5 DEF SumRun
<1> HIDE DEF n
<1>8. ASSUME NEW i \in 1..n, i - 1 \in Held PROVE i \in Held
  <2>1. i \in 0..n /\ i - 1 \in 0..n /\ i \in Int /\ p \in Int
    BY <1>1, <1>2
  <2>2. f[Basket[i]] \in Int /\ h[i - 1] \in Int
    BY <1>1, <2>1
  <2>3. CASE i = p
    BY <1>2, <1>6, <1>8, <2>1, <2>2, <2>3
  <2>4. CASE i # p
    <3>1. e[Basket[i]] = f[Basket[i]]
      BY <1>1, <1>3, <2>4
    <3>2. p <= i <=> p <= i - 1
      BY <2>1, <2>4
    <3> QED
      BY <1>6, <1>8, <2>1, <2>2, <3>1, <3>2
  <2> QED
    BY <2>3, <2>4
<1>9. n \in Held
  <2> HIDE DEF Held
  <2>1. \A i \in 0..n : i \in Held
    BY <1>1, <1>7, <1>8, PlacesInduction
  <2> QED
    BY <1>1, <2>1
<1> QED
  BY <1>1, <1>2, <1>4, <1>5, <1>9 DEF SumRun, n

LEMMA SumIsMonotone ==
  ASSUME NEW f \in [Stocks -> Int], NEW e \in [Stocks -> Int],
         \A u \in Stocks : e[u] <= f[u]
  PROVE  SumOver(e, Stocks) <= SumOver(f, Stocks)
<1> DEFINE n == Len(Basket)
<1>1. n \in Nat /\ DOMAIN Basket = 1..n /\ \A i \in 1..n : Basket[i] \in Stocks
  BY OrdersAssumption
<1>4. PICK h \in [0..n -> Int] : SumRun(h, f, Stocks)
  BY SumFold
<1>5. PICK j \in [0..n -> Int] : SumRun(j, e, Stocks)
  BY SumFold
<1>6. \A i \in 1..n : h[i] = h[i - 1] + f[Basket[i]] /\ j[i] = j[i - 1] + e[Basket[i]]
  BY <1>1, <1>4, <1>5 DEF SumRun
<1> DEFINE Held == {i \in 0..n : j[i] <= h[i]}
<1>7. 0 \in Held
  BY <1>1, <1>4, <1>5 DEF SumRun
<1> HIDE DEF n
<1>8. ASSUME NEW i \in 1..n, i - 1 \in Held PROVE i \in Held
  <2>1. i \in 0..n /\ i - 1 \in 0..n
    BY <1>1
  <2>2. /\ f[Basket[i]] \in Int /\ h[i - 1] \in Int /\ j[i - 1] \in Int
        /\ e[Basket[i]] \in Int /\ e[Basket[i]] <= f[Basket[i]]
    BY <1>1, <2>1
  <2> QED
    BY <1>6, <1>8, <2>1, <2>2
<1>9. n \in Held
  <2> HIDE DEF Held
  <2>1. \A i \in 0..n : i \in Held
    BY <1>1, <1>7, <1>8, PlacesInduction
  <2> QED
    BY <1>1, <2>1
<1> QED
  BY <1>1, <1>4, <1>5, <1>9 DEF SumRun, n

(* A sum of weights is a weight, and more than nothing when one of the     *)
(* symbols it counts has a weight.                                         *)
LEMMA SumOfWeights ==
  ASSUME NEW w \in [Stocks -> Nat], NEW names
  PROVE  /\ SumOver(w, names) \in Nat
         /\ \A s \in Stocks : s \in names /\ w[s] > 0 => SumOver(w, names) > 0
<1> DEFINE n == Len(Basket)
<1>1. n \in Nat /\ DOMAIN Basket = 1..n /\ \A i \in 1..n : Basket[i] \in Stocks
  BY OrdersAssumption
<1>2. w \in [Stocks -> Int]
  OBVIOUS
<1>4. PICK h \in [0..n -> Int] : SumRun(h, w, names)
  BY <1>2, SumFold
<1> HIDE DEF n
<1>6. h[0] = 0 /\ \A i \in 1..n :
        h[i] = IF Basket[i] \in names THEN h[i - 1] + w[Basket[i]] ELSE h[i - 1]
  BY <1>1, <1>4 DEF SumRun, n
<1> DEFINE Held == {i \in 0..n :
             h[i] >= 0 /\ \A p \in 1..i : Basket[p] \in names => h[i] >= w[Basket[p]]}
<1>7. 0 \in Held
  BY <1>1, <1>6
<1>8. ASSUME NEW i \in 1..n, i - 1 \in Held PROVE i \in Held
  <2>1. i \in 0..n /\ i - 1 \in 0..n
    BY <1>1
  <2>2. h[i - 1] \in Int /\ w[Basket[i]] \in Nat /\ h[i - 1] >= 0
    BY <1>1, <1>8, <2>1
  <2>3. h[i] \in Int /\ h[i] >= h[i - 1]
    BY <1>6, <2>2
  <2>4. ASSUME NEW p \in 1..i, Basket[p] \in names PROVE h[i] >= w[Basket[p]]
    <3>1. CASE p = i
      BY <1>6, <2>2, <2>4, <3>1
    <3>2. CASE p # i
      <4>1. p \in 1..(i - 1) /\ p \in 1..n
        BY <1>1, <3>2
      <4>2. h[i - 1] >= w[Basket[p]] /\ w[Basket[p]] \in Int
        BY <1>1, <1>8, <2>4, <4>1
      <4> QED
        BY <2>2, <2>3, <4>2
    <3> QED
      BY <3>1, <3>2
  <2> QED
    BY <2>1, <2>2, <2>3, <2>4
<1>9. n \in Held
  <2> HIDE DEF Held
  <2>1. \A i \in 0..n : i \in Held
    BY <1>1, <1>7, <1>8, PlacesInduction
  <2> QED
    BY <1>1, <2>1
<1>10. h[n] \in Nat /\ h[n] = SumOver(w, names)
  BY <1>1, <1>4, <1>9 DEF SumRun, n
<1>11. ASSUME NEW s \in Stocks, s \in names, w[s] > 0 PROVE h[n] > 0
  <2>1. PICK p \in 1..n : Basket[p] = s
    BY <1>1 DEF Stocks, Range
  <2>2. h[n] >= w[s]
    BY <1>9, <1>11, <2>1
  <2> QED
    BY <1>10, <1>11, <2>2
<1> QED
  BY <1>10, <1>11

(* What a holding is worth moves with its shares.                          *)
LEMMA WorthMoves ==
  ASSUME MarketTypes, NEW a \in Holdings, NEW b \in Holdings, NEW s \in Stocks, NEW k \in Int,
         b[s] = a[s] + k, \A u \in Stocks \ {s} : b[u] = a[u]
  PROVE  Worth(a) \in Int /\ Worth(b) = Worth(a) + k * marketPrice[s]
<1> DEFINE f == [u \in Stocks |-> a[u] * marketPrice[u]]
           e == [u \in Stocks |-> b[u] * marketPrice[u]]
<1>1. f \in [Stocks -> Int] /\ e \in [Stocks -> Int]
  BY DEF MarketTypes, Holdings
<1>2. e[s] = f[s] + k * marketPrice[s]
  <2>1. a[s] \in Int /\ b[s] \in Int /\ marketPrice[s] \in Int
    BY DEF MarketTypes, Holdings
  <2> QED
    BY <2>1, Z3
<1>3. \A u \in Stocks \ {s} : e[u] = f[u]
  OBVIOUS
<1>4. Worth(a) = SumOver(f, Stocks) /\ Worth(b) = SumOver(e, Stocks)
  BY DEF Worth
<1>5. k * marketPrice[s] \in Int
  BY DEF MarketTypes
<1> HIDE DEF f, e
<1> QED
  BY <1>1, <1>2, <1>3, <1>4, <1>5, SumMovesBy, SumIsInt

LEMMA WorthIsInt ==
  ASSUME MarketTypes, NEW a \in Holdings
  PROVE  Worth(a) \in Int
<1> DEFINE f == [u \in Stocks |-> a[u] * marketPrice[u]]
<1>1. f \in [Stocks -> Int]
  BY DEF MarketTypes, Holdings
<1>2. Worth(a) = SumOver(f, Stocks)
  BY DEF Worth
<1> HIDE DEF f
<1> QED
  BY <1>1, <1>2, SumIsInt

LEMMA WorthShrinks ==
  ASSUME MarketTypes, NEW a \in Holdings, NEW b \in Holdings, \A u \in Stocks : b[u] <= a[u]
  PROVE  Worth(b) <= Worth(a)
<1> DEFINE f == [u \in Stocks |-> a[u] * marketPrice[u]]
           e == [u \in Stocks |-> b[u] * marketPrice[u]]
<1>1. f \in [Stocks -> Int] /\ e \in [Stocks -> Int]
  BY DEF MarketTypes, Holdings
<1>2. ASSUME NEW u \in Stocks PROVE e[u] <= f[u]
  <2> DEFINE x == a[u]  y == b[u]  p == marketPrice[u]
  <2>1. x \in Int /\ y \in Int /\ p \in Int /\ p > 0 /\ y <= x
    BY DEF MarketTypes, Holdings
  <2>2. e[u] = y * p /\ f[u] = x * p
    OBVIOUS
  <2> HIDE DEF x, y, p, e, f
  <2>3. y * p <= x * p
    BY <2>1, Z3
  <2> QED
    BY <2>2, <2>3
<1>4. Worth(a) = SumOver(f, Stocks) /\ Worth(b) = SumOver(e, Stocks)
  BY DEF Worth
<1> HIDE DEF f, e
<1> QED
  BY <1>1, <1>2, <1>4, SumIsMonotone

(* Folds over orders.                                                      *)
AfterRun(h, orders) ==
  /\ h[0] = holdings.shares /\ h[Len(orders)] = LeftBy(orders)
  /\ \A i \in 1..Len(orders) : h[i] = AfterOrder(h[i - 1], orders[i])

LEMMA AfterTypes ==
  ASSUME NEW a \in Holdings, NEW o \in OrderRecords
  PROVE  AfterOrder(a, o) \in Holdings
BY DEF AfterOrder, Holdings, OrderRecords

LEMMA AfterFold ==
  ASSUME MarketTypes, NEW orders \in Seq(OrderRecords)
  PROVE  \E h \in [0..Len(orders) -> Holdings] : AfterRun(h, orders)
<1> DEFINE n == Len(orders)
           start == holdings.shares
           Turn(b, i) == AfterOrder(b, orders[i])
           step == [p \in (1..n) \X Holdings |-> Turn(p[2], p[1])]
           Unrolls(f) == f = [A \in SUBSET (1..n) |->
                  IF A = {} THEN start ELSE Turn(f[A \ {Max(A)}], Max(A))]
           g == CHOOSE f : Unrolls(f)
<1>1. n \in Nat /\ DOMAIN orders = 1..n /\ \A i \in 1..n : orders[i] \in OrderRecords
  OBVIOUS
<1>2. \A b \in Holdings, i \in 1..n : Turn(b, i) \in Holdings
  BY <1>1, AfterTypes
<1>3. LeftBy(orders) = g[1..n]
  BY <1>1, Zenon DEF LeftBy, FoldLeft, MapThenFoldSet
<1>0. start \in Holdings
  BY DEF MarketTypes, Accounts
<1> HIDE DEF Turn
<1>4. step \in [(1..n) \X Holdings -> Holdings]
  BY <1>2
<1>5. \A b \in Holdings, i \in 1..n : step[<<i, b>>] = Turn(b, i)
  OBVIOUS
<1> HIDE DEF n, step, start
<1>6. PICK f \in [SUBSET (1..n) -> Holdings] : Folds(f, n, start, step)
  BY <1>0, <1>1, <1>4, FoldingExists
<1>7. \A A \in SUBSET (1..n) : A # {} => Max(A) \in 1..n /\ A \ {Max(A)} \in SUBSET (1..n)
  BY <1>1, LargestPlace
<1>8. \A A \in SUBSET (1..n) : f[A] = IF A = {} THEN start ELSE Turn(f[A \ {Max(A)}], Max(A))
  BY <1>5, <1>6, <1>7 DEF Folds
<1>9. Unrolls(f)
  BY <1>6, <1>8
<1>10. Unrolls(g)
  <2> HIDE DEF Unrolls
  <2> QED
    BY <1>9
<1> HIDE DEF g
<1>11. g[{}] = start /\ \A A \in SUBSET (1..n) : A # {} => g[A] = Turn(g[A \ {Max(A)}], Max(A))
  BY <1>10
<1>12. Follows(g, n, Holdings, start, step)
  BY <1>5, <1>7, <1>11 DEF Follows
<1>13. PICK h \in [0..n -> Holdings] : StepsUp(h, g, n, start, step)
  BY <1>0, <1>1, <1>4, <1>12, FoldClimbs
<1>14. \A i \in 1..n : h[i] = Turn(h[i - 1], i)
  <2>1. \A i \in 1..n : i - 1 \in 0..n
    BY <1>1
  <2> QED
    BY <1>5, <1>13, <2>1 DEF StepsUp
<1> QED
  BY <1>3, <1>13, <1>14 DEF n, start, Turn, StepsUp, AfterRun

LEMMA OneMoreAfter ==
  ASSUME MarketTypes, NEW orders \in Seq(OrderRecords), NEW o \in OrderRecords
  PROVE  /\ LeftBy(orders) \in Holdings
         /\ LeftBy(Append(orders, o)) = AfterOrder(LeftBy(orders), o)
<1> DEFINE n == Len(orders)  more == Append(orders, o)
<1>1. n \in Nat /\ more \in Seq(OrderRecords) /\ Len(more) = n + 1
      /\ more[n + 1] = o /\ \A i \in 1..n : more[i] = orders[i]
  OBVIOUS
<1>2. PICK h \in [0..n -> Holdings] : AfterRun(h, orders)
  BY AfterFold
<1> HIDE DEF more
<1>3. PICK j \in [0..Len(more) -> Holdings] : AfterRun(j, more)
  BY <1>1, AfterFold
<1> HIDE DEF n
<1>4. /\ h[0] = holdings.shares /\ h[n] = LeftBy(orders)
      /\ \A i \in 1..n : h[i] = AfterOrder(h[i - 1], orders[i])
  BY <1>2 DEF AfterRun, n
<1>5. /\ j[0] = holdings.shares /\ j[n + 1] = LeftBy(more)
      /\ \A i \in 1..(n + 1) : j[i] = AfterOrder(j[i - 1], more[i])
  BY <1>1, <1>3 DEF AfterRun
<1> DEFINE Held == {i \in 0..n : j[i] = h[i]}
<1>6. 0 \in Held
  BY <1>1, <1>4, <1>5
<1>7. ASSUME NEW i \in 1..n, i - 1 \in Held PROVE i \in Held
  <2>1. i \in 1..(n + 1) /\ i \in 0..n
    BY <1>1
  <2> QED
    BY <1>1, <1>4, <1>5, <1>7, <2>1
<1>8. n \in Held
  <2> HIDE DEF Held
  <2>1. \A i \in 0..n : i \in Held
    BY <1>1, <1>6, <1>7, PlacesInduction
  <2> QED
    BY <1>1, <2>1
<1>9. n + 1 \in 1..(n + 1) /\ (n + 1) - 1 = n
  BY <1>1
<1>10. j[n + 1] = AfterOrder(j[n], more[n + 1])
  BY <1>5, <1>9
<1> QED
  BY <1>1, <1>4, <1>5, <1>8, <1>10 DEF more

LEMMA NothingLeftBy ==
  ASSUME MarketTypes
  PROVE  LeftBy(<<>>) = holdings.shares
<1>1. <<>> \in Seq(OrderRecords) /\ Len(<<>>) = 0
  OBVIOUS
<1>2. PICK h \in [0..Len(<<>>) -> Holdings] : AfterRun(h, <<>>)
  BY <1>1, AfterFold
<1> QED
  BY <1>1, <1>2 DEF AfterRun

TradedRun(h, orders, prices) ==
  /\ h[0] = 0 /\ h[Len(orders)] = Traded(orders, prices)
  /\ \A i \in 1..Len(orders) : h[i] = h[i - 1] + orders[i].shares * prices[orders[i].symbol]

LEMMA TradedFold ==
  ASSUME NEW prices \in [Stocks -> Nat \ {0}], NEW orders \in Seq(OrderRecords)
  PROVE  \E h \in [0..Len(orders) -> Int] : TradedRun(h, orders, prices)
<1> DEFINE n == Len(orders)
           Turn(b, i) == b + orders[i].shares * prices[orders[i].symbol]
           step == [p \in (1..n) \X Int |-> Turn(p[2], p[1])]
           Unrolls(f) == f = [A \in SUBSET (1..n) |->
                  IF A = {} THEN 0 ELSE Turn(f[A \ {Max(A)}], Max(A))]
           g == CHOOSE f : Unrolls(f)
<1>1. n \in Nat /\ DOMAIN orders = 1..n /\ \A i \in 1..n : orders[i] \in OrderRecords
  OBVIOUS
<1>2. \A b \in Int, i \in 1..n : Turn(b, i) \in Int
  BY <1>1 DEF OrderRecords
<1>3. Traded(orders, prices) = g[1..n]
  BY <1>1, Zenon DEF Traded, FoldLeft, MapThenFoldSet
<1>0. 0 \in Int
  OBVIOUS
<1> HIDE DEF Turn
<1>4. step \in [(1..n) \X Int -> Int]
  BY <1>2
<1>5. \A b \in Int, i \in 1..n : step[<<i, b>>] = Turn(b, i)
  OBVIOUS
<1> HIDE DEF n, step
<1>6. PICK f \in [SUBSET (1..n) -> Int] : Folds(f, n, 0, step)
  BY <1>0, <1>1, <1>4, FoldingExists
<1>7. \A A \in SUBSET (1..n) : A # {} => Max(A) \in 1..n /\ A \ {Max(A)} \in SUBSET (1..n)
  BY <1>1, LargestPlace
<1>8. \A A \in SUBSET (1..n) : f[A] = IF A = {} THEN 0 ELSE Turn(f[A \ {Max(A)}], Max(A))
  BY <1>5, <1>6, <1>7 DEF Folds
<1>9. Unrolls(f)
  BY <1>6, <1>8
<1>10. Unrolls(g)
  <2> HIDE DEF Unrolls
  <2> QED
    BY <1>9
<1> HIDE DEF g
<1>11. g[{}] = 0 /\ \A A \in SUBSET (1..n) : A # {} => g[A] = Turn(g[A \ {Max(A)}], Max(A))
  BY <1>10
<1>12. Follows(g, n, Int, 0, step)
  BY <1>5, <1>7, <1>11 DEF Follows
<1>13. PICK h \in [0..n -> Int] : StepsUp(h, g, n, 0, step)
  BY <1>0, <1>1, <1>4, <1>12, FoldClimbs
<1>14. \A i \in 1..n : h[i] = Turn(h[i - 1], i)
  <2>1. \A i \in 1..n : i - 1 \in 0..n
    BY <1>1
  <2> QED
    BY <1>5, <1>13, <2>1 DEF StepsUp
<1> QED
  BY <1>3, <1>13, <1>14 DEF n, Turn, StepsUp, TradedRun

LEMMA OneMoreTraded ==
  ASSUME NEW prices \in [Stocks -> Nat \ {0}], NEW orders \in Seq(OrderRecords),
         NEW o \in OrderRecords
  PROVE  /\ Traded(orders, prices) \in Int
         /\ Traded(Append(orders, o), prices)
              = Traded(orders, prices) + o.shares * prices[o.symbol]
<1> DEFINE n == Len(orders)  more == Append(orders, o)
           Cost(x) == x.shares * prices[x.symbol]
<1>1. n \in Nat /\ more \in Seq(OrderRecords) /\ Len(more) = n + 1
      /\ more[n + 1] = o /\ \A i \in 1..n : more[i] = orders[i]
  OBVIOUS
<1>2. PICK h \in [0..n -> Int] : TradedRun(h, orders, prices)
  BY TradedFold
<1> HIDE DEF more
<1>3. PICK j \in [0..Len(more) -> Int] : TradedRun(j, more, prices)
  BY <1>1, TradedFold
<1> HIDE DEF n
<1>4. /\ h[0] = 0 /\ h[n] = Traded(orders, prices)
      /\ \A i \in 1..n : h[i] = h[i - 1] + Cost(orders[i])
  BY <1>2 DEF TradedRun, n
<1>5. /\ j[0] = 0 /\ j[n + 1] = Traded(more, prices)
      /\ \A i \in 1..(n + 1) : j[i] = j[i - 1] + Cost(more[i])
  BY <1>1, <1>3 DEF TradedRun
<1> HIDE DEF Cost
<1> DEFINE Held == {i \in 0..n : j[i] = h[i]}
<1>6. 0 \in Held
  BY <1>1, <1>4, <1>5
<1>7. ASSUME NEW i \in 1..n, i - 1 \in Held PROVE i \in Held
  <2>1. i \in 1..(n + 1) /\ i \in 0..n
    BY <1>1
  <2> QED
    BY <1>1, <1>4, <1>5, <1>7, <2>1
<1>8. n \in Held
  <2> HIDE DEF Held
  <2>1. \A i \in 0..n : i \in Held
    BY <1>1, <1>6, <1>7, PlacesInduction
  <2> QED
    BY <1>1, <2>1
<1>9. n + 1 \in 1..(n + 1) /\ (n + 1) - 1 = n
  BY <1>1
<1>10. j[n + 1] = j[n] + Cost(more[n + 1])
  BY <1>5, <1>9
<1>11. h[n] \in Int
  BY <1>1, <1>2
<1> QED
  BY <1>1, <1>4, <1>5, <1>8, <1>10, <1>11 DEF more, Cost

LEMMA NothingTraded ==
  ASSUME NEW prices \in [Stocks -> Nat \ {0}]
  PROVE  Traded(<<>>, prices) = 0
<1>1. <<>> \in Seq(OrderRecords) /\ Len(<<>>) = 0
  OBVIOUS
<1>2. PICK h \in [0..Len(<<>>) -> Int] : TradedRun(h, <<>>, prices)
  BY <1>1, TradedFold
<1> QED
  BY <1>1, <1>2 DEF TradedRun

(* What is judged: each order is considered after those before it.         *)
Judgements == [shares : Holdings, notional : Int, accepted : Seq(OrderRecords)]

JudgedRun(h, orders) ==
  /\ h[0] = NothingTaken /\ h[Len(orders)] = Judged(orders)
  /\ \A i \in 1..Len(orders) : h[i] = Considered(h[i - 1], orders[i])

LEMMA ConsideredTypes ==
  ASSUME MarketTypes, NEW c \in Judgements, NEW o \in OrderRecords
  PROVE  Considered(c, o) \in Judgements
<1>1. AfterOrder(c.shares, o) \in Holdings
  BY AfterTypes DEF Judgements
<1>2. c.notional + o.shares * marketPrice[o.symbol] \in Int
  BY DEF Judgements, OrderRecords, MarketTypes
<1>3. Append(c.accepted, o) \in Seq(OrderRecords)
  BY DEF Judgements
<1> QED
  BY <1>1, <1>2, <1>3 DEF Considered, Taken, Judgements

LEMMA JudgedFold ==
  ASSUME MarketTypes, NEW orders \in Seq(OrderRecords)
  PROVE  \E h \in [0..Len(orders) -> Judgements] : JudgedRun(h, orders)
<1> DEFINE n == Len(orders)
           start == NothingTaken
           Turn(b, i) == Considered(b, orders[i])
           step == [p \in (1..n) \X Judgements |-> Turn(p[2], p[1])]
           Unrolls(f) == f = [A \in SUBSET (1..n) |->
                  IF A = {} THEN start ELSE Turn(f[A \ {Max(A)}], Max(A))]
           g == CHOOSE f : Unrolls(f)
<1>1. n \in Nat /\ DOMAIN orders = 1..n /\ \A i \in 1..n : orders[i] \in OrderRecords
  OBVIOUS
<1>2. \A b \in Judgements, i \in 1..n : Turn(b, i) \in Judgements
  BY <1>1, ConsideredTypes
<1>3. Judged(orders) = g[1..n]
  BY <1>1, Zenon DEF Judged, FoldLeft, MapThenFoldSet
<1>0. start \in Judgements
  BY DEF MarketTypes, Accounts, NothingTaken, Judgements
<1> HIDE DEF Turn
<1>4. step \in [(1..n) \X Judgements -> Judgements]
  BY <1>2
<1>5. \A b \in Judgements, i \in 1..n : step[<<i, b>>] = Turn(b, i)
  OBVIOUS
<1> HIDE DEF n, step, start
<1>6. PICK f \in [SUBSET (1..n) -> Judgements] : Folds(f, n, start, step)
  BY <1>0, <1>1, <1>4, FoldingExists
<1>7. \A A \in SUBSET (1..n) : A # {} => Max(A) \in 1..n /\ A \ {Max(A)} \in SUBSET (1..n)
  BY <1>1, LargestPlace
<1>8. \A A \in SUBSET (1..n) : f[A] = IF A = {} THEN start ELSE Turn(f[A \ {Max(A)}], Max(A))
  BY <1>5, <1>6, <1>7 DEF Folds
<1>9. Unrolls(f)
  BY <1>6, <1>8
<1>10. Unrolls(g)
  <2> HIDE DEF Unrolls
  <2> QED
    BY <1>9
<1> HIDE DEF g
<1>11. g[{}] = start /\ \A A \in SUBSET (1..n) : A # {} => g[A] = Turn(g[A \ {Max(A)}], Max(A))
  BY <1>10
<1>12. Follows(g, n, Judgements, start, step)
  BY <1>5, <1>7, <1>11 DEF Follows
<1>13. PICK h \in [0..n -> Judgements] : StepsUp(h, g, n, start, step)
  BY <1>0, <1>1, <1>4, <1>12, FoldClimbs
<1>14. \A i \in 1..n : h[i] = Turn(h[i - 1], i)
  <2>1. \A i \in 1..n : i - 1 \in 0..n
    BY <1>1
  <2> QED
    BY <1>5, <1>13, <2>1 DEF StepsUp
<1> QED
  BY <1>3, <1>13, <1>14 DEF n, start, Turn, StepsUp, JudgedRun

IsSale(orders, s) == \E i \in DOMAIN orders : orders[i].symbol = s /\ orders[i].side = "sell"
HasPurchase(orders) == \E i \in DOMAIN orders : orders[i].side = "buy"
KeepsCaps(shares, notional) ==
  /\ 8 * notional <= NetWorth * config.turnover
  /\ \A s \in Stocks : Weight8(shares, s) <= config.concentration * NetWorth
KeepsGross(shares) == 8 * Worth(shares) <= config.gross * NetWorth

WellJudged(c) ==
  /\ c.shares = LeftBy(c.accepted)
  /\ c.notional = Traded(c.accepted, marketPrice)
  /\ \A s \in Stocks : c.shares[s] < holdings.shares[s] => IsSale(c.accepted, s)
  /\ c.accepted # <<>> => KeepsCaps(c.shares, c.notional)
  /\ HasPurchase(c.accepted) => KeepsGross(c.shares)

LEMMA ConfigTypes ==
  ASSUME MarketTypes
  PROVE  /\ config.turnover \in Int /\ config.concentration \in Int
         /\ config.gross \in Int /\ config.allocation \in Int
         /\ NetWorth \in Int
<1>1. {config.allocation, config.turnover, config.concentration, config.gross} \subseteq Int
  BY OrdersAssumption DEF MarketTypes
<1>2. holdings.cash \in Int /\ holdings.shares \in Holdings
  BY DEF MarketTypes, Accounts
<1>3. Worth(holdings.shares) \in Int
  BY <1>2, WorthIsInt
<1> QED
  BY <1>1, <1>2, <1>3 DEF NetWorth

LEMMA TakenIsWellJudged ==
  ASSUME MarketTypes, NEW c \in Judgements, NEW o \in OrderRecords, WellJudged(c),
         o.shares > 0, RulesAllow(o, c.shares, c.notional)
  PROVE  WellJudged(Taken(c, o))
<1> DEFINE t == Taken(c, o)
           a == c.accepted
           more == Append(a, o)
           after == AfterOrder(c.shares, o)
           amount == o.shares * marketPrice[o.symbol]
<1>1. /\ a \in Seq(OrderRecords) /\ c.shares \in Holdings /\ c.notional \in Int
      /\ o.symbol \in Stocks /\ o.side \in {"buy", "sell"} /\ o.shares \in Int
  BY DEF Judgements, OrderRecords
<1>2. t.shares = after /\ t.notional = c.notional + amount /\ t.accepted = more
  BY DEF Taken
<1>3. /\ Len(more) = Len(a) + 1 /\ Len(a) \in Nat /\ DOMAIN more = 1..Len(more) /\ more # <<>>
      /\ DOMAIN a = 1..Len(a) /\ more[Len(a) + 1] = o
      /\ \A i \in 1..Len(a) : more[i] = a[i] /\ i \in 1..Len(more)
  BY <1>1
<1>4. after \in Holdings
  BY <1>1, AfterTypes
<1>5. after = LeftBy(more)
  BY <1>1, OneMoreAfter DEF WellJudged
<1>6. c.notional + amount = Traded(more, marketPrice)
  BY <1>1, OneMoreTraded DEF WellJudged, MarketTypes
<1>7. /\ after[o.symbol] = IF o.side = "buy" THEN c.shares[o.symbol] + o.shares
                                            ELSE c.shares[o.symbol] - o.shares
      /\ \A u \in Stocks \ {o.symbol} : after[u] = c.shares[u]
  BY <1>1 DEF AfterOrder, Holdings
<1>8. ASSUME NEW s \in Stocks, after[s] < holdings.shares[s] PROVE IsSale(more, s)
  <2>1. CASE s = o.symbol /\ o.side = "sell"
    <3>1. Len(a) + 1 \in DOMAIN more
      BY <1>3
    <3> QED
      BY <1>3, <2>1, <3>1, Zenon DEF IsSale
  <2>2. CASE ~(s = o.symbol /\ o.side = "sell")
    <3>1. c.shares[s] \in Int /\ holdings.shares[s] \in Int
      BY <1>1 DEF MarketTypes, Accounts, Holdings
    <3>2. c.shares[s] <= after[s] /\ after[s] \in Int
      BY <1>1, <1>4, <1>7, <2>2, <3>1 DEF Holdings
    <3>3. c.shares[s] < holdings.shares[s]
      BY <1>8, <3>1, <3>2
    <3>4. IsSale(a, s)
      BY <3>3 DEF WellJudged
    <3> QED
      BY <1>3, <3>4, Zenon DEF IsSale
  <2> QED
    BY <2>1, <2>2
<1>9. KeepsCaps(after, c.notional + amount)
  BY Zenon DEF RulesAllow, KeepsCaps
<1>10. ASSUME HasPurchase(more) PROVE KeepsGross(after)
  <2>1. CASE o.side = "buy"
    BY <2>1, Zenon DEF RulesAllow, KeepsGross
  <2>2. CASE o.side = "sell"
    <3>1. PICK i \in DOMAIN more : more[i].side = "buy"
      BY <1>10 DEF HasPurchase
    <3>2. i \in 1..Len(a)
      BY <1>3, <2>2, <3>1
    <3>3. HasPurchase(a)
      BY <1>3, <3>1, <3>2, Zenon DEF HasPurchase
    <3>4. KeepsGross(c.shares)
      BY <3>3 DEF WellJudged
    <3>5. \A u \in Stocks : after[u] <= c.shares[u]
      BY <1>1, <1>7, <2>2 DEF Holdings
    <3>6. Worth(after) <= Worth(c.shares) /\ Worth(after) \in Int /\ Worth(c.shares) \in Int
      BY <1>1, <1>4, <3>5, WorthShrinks, WorthIsInt
    <3>7. config.gross * NetWorth \in Int
      BY ConfigTypes
    <3> QED
      BY <3>4, <3>6, <3>7 DEF KeepsGross
  <2> QED
    BY <1>1, <2>1, <2>2
<1> QED
  BY <1>2, <1>5, <1>6, <1>8, <1>9, <1>10, Zenon DEF WellJudged

LEMMA NothingIsWellJudged ==
  ASSUME MarketTypes
  PROVE  WellJudged(NothingTaken)
<1>1. /\ NothingTaken.shares = holdings.shares /\ NothingTaken.notional = 0
      /\ NothingTaken.accepted = <<>>
  BY DEF NothingTaken
<1>2. LeftBy(<<>>) = holdings.shares /\ Traded(<<>>, marketPrice) = 0
  BY NothingLeftBy, NothingTraded DEF MarketTypes
<1>3. ~HasPurchase(<<>>)
  BY DEF HasPurchase
<1>4. \A s \in Stocks : ~(holdings.shares[s] < holdings.shares[s])
  BY DEF MarketTypes, Accounts, Holdings
<1> QED
  BY <1>1, <1>2, <1>3, <1>4 DEF WellJudged

(* What was accepted is judged as a whole by what it leaves.               *)
LEMMA JudgementIsSound ==
  ASSUME MarketTypes, NEW orders \in Seq(OrderRecords)
  PROVE  Judged(orders) \in Judgements /\ WellJudged(Judged(orders))
<1> DEFINE n == Len(orders)
<1>1. n \in Nat /\ \A i \in 1..n : orders[i] \in OrderRecords
  OBVIOUS
<1>2. PICK h \in [0..n -> Judgements] : JudgedRun(h, orders)
  BY JudgedFold
<1>3. /\ h[0] = NothingTaken /\ h[n] = Judged(orders)
      /\ \A i \in 1..n : h[i] = Considered(h[i - 1], orders[i])
  BY <1>2 DEF JudgedRun
<1> HIDE DEF n
<1> DEFINE Held == {i \in 0..n : WellJudged(h[i])}
<1>4. 0 \in Held
  BY <1>1, <1>3, NothingIsWellJudged
<1>5. ASSUME NEW i \in 1..n, i - 1 \in Held PROVE i \in Held
  <2>1. i \in 0..n /\ i - 1 \in 0..n
    BY <1>1
  <2>2. h[i - 1] \in Judgements /\ orders[i] \in OrderRecords /\ WellJudged(h[i - 1])
    BY <1>1, <1>5, <2>1
  <2>3. \/ h[i] = h[i - 1]
        \/ /\ h[i] = Taken(h[i - 1], orders[i]) /\ orders[i].shares > 0
           /\ RulesAllow(orders[i], h[i - 1].shares, h[i - 1].notional)
    BY <1>3, Zenon DEF Considered
  <2>4. WellJudged(h[i])
    BY <2>2, <2>3, TakenIsWellJudged
  <2> QED
    BY <2>1, <2>4
<1>6. n \in Held
  <2> HIDE DEF Held
  <2>1. \A i \in 0..n : i \in Held
    BY <1>1, <1>4, <1>5, PlacesInduction
  <2> QED
    BY <1>1, <2>1
<1> QED
  BY <1>1, <1>2, <1>3, <1>6

LEMMA DividesInt ==
  ASSUME NEW a \in Int, NEW b \in Nat \ {0}
  PROVE  a \div b \in Int
OBVIOUS

LEMMA LesserOf ==
  ASSUME NEW a \in Int, NEW b \in Int
  PROVE  Min({a, b}) \in Int /\ Min({a, b}) <= a /\ Min({a, b}) <= b
<1>1. Min({a, b}) \in {a, b} /\ \A y \in {a, b} : Min({a, b}) <= y
  <2>1. \E x \in {a, b} : \A y \in {a, b} : x <= y
    <3>1. CASE a <= b
      BY <3>1
    <3>2. CASE ~(a <= b)
      BY <3>2
    <3> QED
      BY <3>1, <3>2
  <2> QED
    BY <2>1, Zenon DEF Min
<1> QED
  BY <1>1

LEMMA GreaterOf ==
  ASSUME NEW a \in Int, NEW b \in Int
  PROVE  Max({a, b}) \in {a, b}
<1>1. \E x \in {a, b} : \A y \in {a, b} : x >= y
  <2>1. CASE a <= b
    BY <2>1
  <2>2. CASE ~(a <= b)
    BY <2>2
  <2> QED
    BY <2>1, <2>2
<1> QED
  BY <1>1, Zenon DEF Max

LEMMA FewStocks ==
  IsFiniteSet(Stocks)
<1> DEFINE n == Len(Basket)
<1>1. n \in Nat /\ DOMAIN Basket = 1..n /\ Basket \in [1..n -> Stocks]
  BY OrdersAssumption
<1>2. \A s \in Stocks : \E i \in 1..n : Basket[i] = s
  BY <1>1 DEF Stocks, Range
<1>3. Basket \in Surjection(1..n, Stocks)
  BY <1>1, <1>2 DEF Surjection
<1>4. IsFiniteSet(1..n)
  BY <1>1, FS_Interval
<1> QED
  BY <1>3, <1>4, FS_Surjection

(* The allocation divides by what the selected symbols weigh, or by their  *)
(* number: there is something to divide by.                                *)
LEMMA AllocatedTypes ==
  ASSUME MarketTypes, NEW w \in Wishes
  PROVE  Allocated(w) \in [Stocks -> Int]
<1>1. w \in [Stocks -> Nat]
  BY OrdersAssumption
<1> DEFINE names == Selected(w)
<1>2. names \in SUBSET Stocks /\ \A s \in names : w[s] > 0
  BY DEF Selected
<1>3. Budget(w) \in Int
  <2>1. SumOver(w, Stocks) \in Int
    BY <1>1, SumOfWeights
  <2> QED
    BY <2>1, ConfigTypes, LesserOf DEF Budget
<1> HIDE DEF names
<1>4. \A s \in names : SumOver(w, names) \in Nat \ {0}
  BY <1>1, <1>2, SumOfWeights
<1>5. \A s \in names : Cardinality(names) \in Nat \ {0}
  <2>1. IsFiniteSet(names)
    BY <1>2, FewStocks, FS_Subset
  <2> QED
    BY <2>1, FS_CardinalityType, FS_EmptySet
<1>6. EqualWeight(w, names) \in [Stocks -> Int]
  BY <1>3, <1>5, DividesInt DEF EqualWeight
<1>7. ProRata(w, names) \in [Stocks -> Int]
  <2>1. \A s \in names : w[s] * Budget(w) \in Int
    BY <1>1, <1>2, <1>3
  <2> QED
    BY <1>4, <2>1, DividesInt DEF ProRata
<1> QED
  BY <1>6, <1>7 DEF Allocated, names

LEMMA DesiredTypes ==
  ASSUME MarketTypes, NEW w \in [Stocks -> Int]
  PROVE  Desired(w) \in Seq(OrderRecords)
<1> DEFINE goal == Goal(w)  n == Len(Basket)
<1>1. goal \in [Stocks -> Int]
  <2>1. \A s \in Stocks : NetWorth * w[s] \in Int /\ 8 * marketPrice[s] \in Nat \ {0}
    BY ConfigTypes DEF MarketTypes
  <2> QED
    BY <2>1, DividesInt DEF Goal
<1>2. n \in Nat /\ \A i \in 1..n : Basket[i] \in Stocks
  BY OrdersAssumption
<1> HIDE DEF goal, n
<1>3. \A s \in Stocks : Max({goal[s] - holdings.shares[s], holdings.shares[s] - goal[s]}) \in Int
  <2>1. \A s \in Stocks : goal[s] \in Int /\ holdings.shares[s] \in Int
    BY <1>1 DEF MarketTypes, Accounts, Holdings
  <2>2. \A s \in Stocks :
          goal[s] - holdings.shares[s] \in Int /\ holdings.shares[s] - goal[s] \in Int
    BY <2>1
  <2> QED
    BY <2>2, GreaterOf
<1> DEFINE order == [i \in 1..n |->
     LET s == Basket[i] IN
     [symbol |-> s, side |-> IF goal[s] > holdings.shares[s] THEN "buy" ELSE "sell",
      shares |-> Max({goal[s] - holdings.shares[s], holdings.shares[s] - goal[s]})]]
<1>4. \A i \in 1..n : order[i] \in OrderRecords
  BY <1>2, <1>3 DEF OrderRecords
<1>5. Desired(w) = order
  BY DEF Desired, goal, n
<1>6. order \in [1..n -> OrderRecords]
  <2>1. DOMAIN order = 1..n
    OBVIOUS
  <2>2. order = [i \in 1..n |-> order[i]]
    OBVIOUS
  <2> HIDE DEF order
  <2> QED
    BY <1>4, <2>2
<1> HIDE DEF order
<1> QED
  BY <1>2, <1>5, <1>6

(* Trading at the market price leaves what the account is worth.           *)
ValueOf(b) == b.cash + Worth(b.shares)

LEMMA SellKeepsValue ==
  ASSUME MarketTypes, NEW b \in Accounts, NEW s \in Stocks, NEW goal \in Int
  PROVE  /\ Sell(b, s, goal) \in Accounts /\ ValueOf(Sell(b, s, goal)) = ValueOf(b)
         /\ Sell(b, s, goal).shares[s] = goal
         /\ \A u \in Stocks \ {s} : Sell(b, s, goal).shares[u] = b.shares[u]
<1> DEFINE c == Sell(b, s, goal)  x == b.shares[s]  p == marketPrice[s]
<1>1. b.shares \in Holdings /\ x \in Int /\ p \in Int /\ b.cash \in Int
  BY DEF Accounts, Holdings, MarketTypes
<1>2. /\ c.shares \in Holdings /\ c.shares[s] = goal
      /\ \A u \in Stocks \ {s} : c.shares[u] = b.shares[u]
      /\ c.cash = b.cash + (x - goal) * p /\ c = [cash |-> c.cash, shares |-> c.shares]
  BY <1>1 DEF Sell, Holdings
<1> HIDE DEF c, x, p
<1>3. (x - goal) * p \in Int /\ (goal - x) * p \in Int
  BY <1>1
<1>4. (x - goal) * p + (goal - x) * p = 0
  BY <1>1, Z3
<1>5. c \in Accounts
  <2>1. c.cash \in Int
    BY <1>1, <1>2, <1>3
  <2> QED
    BY <1>2, <2>1 DEF Accounts
<1>6. Worth(b.shares) \in Int /\ Worth(c.shares) = Worth(b.shares) + (goal - x) * p
  <2>1. goal - x \in Int /\ c.shares[s] = b.shares[s] + (goal - x)
    BY <1>1, <1>2 DEF x
  <2> QED
    BY <1>1, <1>2, <2>1, WorthMoves DEF p
<1>7. ValueOf(c) = ValueOf(b)
  BY <1>1, <1>2, <1>3, <1>4, <1>6 DEF ValueOf
<1> QED
  BY <1>2, <1>5, <1>7 DEF c

LEMMA BuyKeepsValue ==
  ASSUME MarketTypes, NEW b \in Accounts, NEW s \in Stocks, NEW goal \in Int
  PROVE  /\ Buy(b, s, goal) \in Accounts /\ ValueOf(Buy(b, s, goal)) = ValueOf(b)
         /\ Buy(b, s, goal).shares[s] <= goal
         /\ \A u \in Stocks \ {s} : Buy(b, s, goal).shares[u] = b.shares[u]
<1> DEFINE c == Buy(b, s, goal)  x == b.shares[s]  p == marketPrice[s]
           n == Min({goal - x, b.cash \div p})
<1>1. b.shares \in Holdings /\ x \in Int /\ p \in Nat \ {0} /\ b.cash \in Int
  BY DEF Accounts, Holdings, MarketTypes
<1>2. n \in Int /\ n <= goal - x
  <2>1. goal - x \in Int /\ b.cash \div p \in Int
    BY <1>1, DividesInt
  <2> QED
    BY <2>1, LesserOf
<1>3. /\ c.shares = [b.shares EXCEPT ![s] = x + n]
      /\ c.cash = b.cash - n * p /\ c = [cash |-> c.cash, shares |-> c.shares]
  BY DEF Buy
<1> HIDE DEF c, x, p, n
<1>4. /\ c.shares \in Holdings /\ c.shares[s] = x + n
      /\ \A u \in Stocks \ {s} : c.shares[u] = b.shares[u]
  BY <1>1, <1>2, <1>3 DEF Holdings
<1>5. n * p \in Int
  BY <1>1, <1>2
<1>6. c \in Accounts
  <2>1. c.cash \in Int
    BY <1>1, <1>3, <1>5
  <2> QED
    BY <1>3, <1>4, <2>1 DEF Accounts
<1>7. Worth(b.shares) \in Int /\ Worth(c.shares) = Worth(b.shares) + n * p
  BY <1>1, <1>2, <1>4, WorthMoves DEF p, x
<1>8. ValueOf(c) = ValueOf(b)
  BY <1>1, <1>3, <1>5, <1>7 DEF ValueOf
<1>9. c.shares[s] <= goal
  BY <1>1, <1>2, <1>4
<1> QED
  BY <1>4, <1>6, <1>8, <1>9 DEF c

SoldRun(h, b, goal, sales) ==
  /\ h[0] = b /\ h[Len(Basket)] = SellAll(b, goal, sales)
  /\ \A i \in 1..Len(Basket) :
       h[i] = IF Basket[i] \in sales
              THEN Sell(h[i - 1], Basket[i], goal[Basket[i]]) ELSE h[i - 1]

LEMMA SoldFold ==
  ASSUME MarketTypes, NEW b \in Accounts, NEW goal \in [Stocks -> Int], NEW sales
  PROVE  \E h \in [0..Len(Basket) -> Accounts] : SoldRun(h, b, goal, sales)
<1> DEFINE n == Len(Basket)
           Turn(c, i) == IF Basket[i] \in sales
                         THEN Sell(c, Basket[i], goal[Basket[i]]) ELSE c
           step == [p \in (1..n) \X Accounts |-> Turn(p[2], p[1])]
           Unrolls(f) == f = [A \in SUBSET (1..n) |->
                  IF A = {} THEN b ELSE Turn(f[A \ {Max(A)}], Max(A))]
           g == CHOOSE f : Unrolls(f)
<1>1. n \in Nat /\ DOMAIN Basket = 1..n /\ \A i \in 1..n : Basket[i] \in Stocks
  BY OrdersAssumption
<1>2. \A c \in Accounts, i \in 1..n : Turn(c, i) \in Accounts
  BY <1>1, SellKeepsValue
<1>3. SellAll(b, goal, sales) = g[1..n]
  BY <1>1, Zenon DEF SellAll, FoldLeft, MapThenFoldSet
<1> HIDE DEF Turn
<1>4. step \in [(1..n) \X Accounts -> Accounts]
  BY <1>2
<1>5. \A c \in Accounts, i \in 1..n : step[<<i, c>>] = Turn(c, i)
  OBVIOUS
<1> HIDE DEF n, step
<1>6. PICK f \in [SUBSET (1..n) -> Accounts] : Folds(f, n, b, step)
  BY <1>1, <1>4, FoldingExists
<1>7. \A A \in SUBSET (1..n) : A # {} => Max(A) \in 1..n /\ A \ {Max(A)} \in SUBSET (1..n)
  BY <1>1, LargestPlace
<1>8. \A A \in SUBSET (1..n) : f[A] = IF A = {} THEN b ELSE Turn(f[A \ {Max(A)}], Max(A))
  BY <1>5, <1>6, <1>7 DEF Folds
<1>9. Unrolls(f)
  BY <1>6, <1>8
<1>10. Unrolls(g)
  <2> HIDE DEF Unrolls
  <2> QED
    BY <1>9
<1> HIDE DEF g
<1>11. g[{}] = b /\ \A A \in SUBSET (1..n) : A # {} => g[A] = Turn(g[A \ {Max(A)}], Max(A))
  BY <1>10
<1>12. Follows(g, n, Accounts, b, step)
  BY <1>5, <1>7, <1>11 DEF Follows
<1>13. PICK h \in [0..n -> Accounts] : StepsUp(h, g, n, b, step)
  BY <1>1, <1>4, <1>12, FoldClimbs
<1>14. \A i \in 1..n : h[i] = Turn(h[i - 1], i)
  <2>1. \A i \in 1..n : i - 1 \in 0..n
    BY <1>1
  <2> QED
    BY <1>5, <1>13, <2>1 DEF StepsUp
<1> QED
  BY <1>3, <1>13, <1>14 DEF n, Turn, StepsUp, SoldRun

BoughtRun(h, b, goal, purchases) ==
  /\ h[0] = b /\ h[Len(Basket)] = BuyAll(b, goal, purchases)
  /\ \A i \in 1..Len(Basket) :
       h[i] = IF Basket[i] \in purchases
              THEN Buy(h[i - 1], Basket[i], goal[Basket[i]]) ELSE h[i - 1]

LEMMA BoughtFold ==
  ASSUME MarketTypes, NEW b \in Accounts, NEW goal \in [Stocks -> Int], NEW purchases
  PROVE  \E h \in [0..Len(Basket) -> Accounts] : BoughtRun(h, b, goal, purchases)
<1> DEFINE n == Len(Basket)
           Turn(c, i) == IF Basket[i] \in purchases
                         THEN Buy(c, Basket[i], goal[Basket[i]]) ELSE c
           step == [p \in (1..n) \X Accounts |-> Turn(p[2], p[1])]
           Unrolls(f) == f = [A \in SUBSET (1..n) |->
                  IF A = {} THEN b ELSE Turn(f[A \ {Max(A)}], Max(A))]
           g == CHOOSE f : Unrolls(f)
<1>1. n \in Nat /\ DOMAIN Basket = 1..n /\ \A i \in 1..n : Basket[i] \in Stocks
  BY OrdersAssumption
<1>2. \A c \in Accounts, i \in 1..n : Turn(c, i) \in Accounts
  BY <1>1, BuyKeepsValue
<1>3. BuyAll(b, goal, purchases) = g[1..n]
  BY <1>1, Zenon DEF BuyAll, FoldLeft, MapThenFoldSet
<1> HIDE DEF Turn
<1>4. step \in [(1..n) \X Accounts -> Accounts]
  BY <1>2
<1>5. \A c \in Accounts, i \in 1..n : step[<<i, c>>] = Turn(c, i)
  OBVIOUS
<1> HIDE DEF n, step
<1>6. PICK f \in [SUBSET (1..n) -> Accounts] : Folds(f, n, b, step)
  BY <1>1, <1>4, FoldingExists
<1>7. \A A \in SUBSET (1..n) : A # {} => Max(A) \in 1..n /\ A \ {Max(A)} \in SUBSET (1..n)
  BY <1>1, LargestPlace
<1>8. \A A \in SUBSET (1..n) : f[A] = IF A = {} THEN b ELSE Turn(f[A \ {Max(A)}], Max(A))
  BY <1>5, <1>6, <1>7 DEF Folds
<1>9. Unrolls(f)
  BY <1>6, <1>8
<1>10. Unrolls(g)
  <2> HIDE DEF Unrolls
  <2> QED
    BY <1>9
<1> HIDE DEF g
<1>11. g[{}] = b /\ \A A \in SUBSET (1..n) : A # {} => g[A] = Turn(g[A \ {Max(A)}], Max(A))
  BY <1>10
<1>12. Follows(g, n, Accounts, b, step)
  BY <1>5, <1>7, <1>11 DEF Follows
<1>13. PICK h \in [0..n -> Accounts] : StepsUp(h, g, n, b, step)
  BY <1>1, <1>4, <1>12, FoldClimbs
<1>14. \A i \in 1..n : h[i] = Turn(h[i - 1], i)
  <2>1. \A i \in 1..n : i - 1 \in 0..n
    BY <1>1
  <2> QED
    BY <1>5, <1>13, <2>1 DEF StepsUp
<1> QED
  BY <1>3, <1>13, <1>14 DEF n, Turn, StepsUp, BoughtRun

LEMMA AllSold ==
  ASSUME MarketTypes, NEW b \in Accounts, NEW goal \in [Stocks -> Int], NEW sales
  PROVE  /\ SellAll(b, goal, sales) \in Accounts
         /\ ValueOf(SellAll(b, goal, sales)) = ValueOf(b)
         /\ \A s \in Stocks : SellAll(b, goal, sales).shares[s]
                                = IF s \in sales THEN goal[s] ELSE b.shares[s]
<1> DEFINE n == Len(Basket)
<1>1. n \in Nat /\ DOMAIN Basket = 1..n /\ \A i \in 1..n : Basket[i] \in Stocks
  BY OrdersAssumption
<1>2. PICK h \in [0..n -> Accounts] : SoldRun(h, b, goal, sales)
  BY SoldFold
<1>3. /\ h[0] = b /\ h[n] = SellAll(b, goal, sales)
      /\ \A i \in 1..n : h[i] = IF Basket[i] \in sales
                                THEN Sell(h[i - 1], Basket[i], goal[Basket[i]]) ELSE h[i - 1]
  BY <1>2 DEF SoldRun
<1> HIDE DEF n
<1> DEFINE Among(s, i) == \E p \in 1..i : Basket[p] = s
           Held == {i \in 0..n :
             /\ ValueOf(h[i]) = ValueOf(b)
             /\ \A s \in Stocks : h[i].shares[s]
                                    = IF s \in sales /\ Among(s, i) THEN goal[s] ELSE b.shares[s]}
<1>4. 0 \in Held
  <2>1. \A s : ~Among(s, 0)
    OBVIOUS
  <2> HIDE DEF Among
  <2> QED
    BY <1>1, <1>3, <2>1
<1>5. ASSUME NEW i \in 1..n, i - 1 \in Held PROVE i \in Held
  <2>1. i \in 0..n /\ i - 1 \in 0..n /\ Basket[i] \in Stocks
    BY <1>1
  <2>2. h[i - 1] \in Accounts /\ goal[Basket[i]] \in Int
    BY <2>1
  <2>3. \A s : Among(s, i) <=> Among(s, i - 1) \/ s = Basket[i]
    <3>1. \A p : p \in 1..i <=> p \in 1..(i - 1) \/ p = i
      BY <1>1
    <3> QED
      BY <3>1
  <2>4. CASE Basket[i] \in sales
    <3>1. h[i] = Sell(h[i - 1], Basket[i], goal[Basket[i]])
      BY <1>3, <2>4
    <3> DEFINE c == h[i - 1]  s == Basket[i]  x == goal[s]
    <3>2. /\ ValueOf(h[i]) = ValueOf(h[i - 1]) /\ h[i].shares[Basket[i]] = goal[Basket[i]]
          /\ \A u \in Stocks \ {Basket[i]} : h[i].shares[u] = h[i - 1].shares[u]
      <4>1. c \in Accounts /\ s \in Stocks /\ x \in Int /\ h[i] = Sell(c, s, x)
        BY <2>1, <2>2, <3>1
      <4> HIDE DEF c, s, x
      <4>2. /\ ValueOf(h[i]) = ValueOf(c) /\ h[i].shares[s] = x
            /\ \A u \in Stocks \ {s} : h[i].shares[u] = c.shares[u]
        BY <4>1, SellKeepsValue
      <4> QED
        BY <4>2 DEF c, s, x
    <3> HIDE DEF Among
    <3> QED
      BY <1>5, <2>1, <2>3, <2>4, <3>2
  <2>5. CASE Basket[i] \notin sales
    <3>1. h[i] = h[i - 1]
      BY <1>3, <2>5
    <3> HIDE DEF Among
    <3> QED
      BY <1>5, <2>1, <2>3, <2>5, <3>1
  <2> QED
    BY <2>4, <2>5
<1>6. n \in Held
  <2> HIDE DEF Held
  <2>1. \A i \in 0..n : i \in Held
    BY <1>1, <1>4, <1>5, PlacesInduction
  <2> QED
    BY <1>1, <2>1
<1>7. \A s \in Stocks : Among(s, n)
  BY <1>1 DEF Stocks, Range
<1>8. h[n] \in Accounts
  BY <1>1
<1> QED
  <2> HIDE DEF Among
  <2> QED
    BY <1>3, <1>6, <1>7, <1>8

LEMMA AllBought ==
  ASSUME MarketTypes, NEW b \in Accounts, NEW goal \in [Stocks -> Int], NEW purchases
  PROVE  /\ BuyAll(b, goal, purchases) \in Accounts
         /\ ValueOf(BuyAll(b, goal, purchases)) = ValueOf(b)
         /\ \A s \in Stocks : IF s \in purchases
              THEN BuyAll(b, goal, purchases).shares[s] <= goal[s]
              ELSE BuyAll(b, goal, purchases).shares[s] = b.shares[s]
<1> DEFINE n == Len(Basket)
<1>1. n \in Nat /\ DOMAIN Basket = 1..n /\ \A i \in 1..n : Basket[i] \in Stocks
  BY OrdersAssumption
<1>2. PICK h \in [0..n -> Accounts] : BoughtRun(h, b, goal, purchases)
  BY BoughtFold
<1>3. /\ h[0] = b /\ h[n] = BuyAll(b, goal, purchases)
      /\ \A i \in 1..n : h[i] = IF Basket[i] \in purchases
                                THEN Buy(h[i - 1], Basket[i], goal[Basket[i]]) ELSE h[i - 1]
  BY <1>2 DEF BoughtRun
<1> HIDE DEF n
<1> DEFINE Among(s, i) == \E p \in 1..i : Basket[p] = s
           Held == {i \in 0..n :
             /\ ValueOf(h[i]) = ValueOf(b)
             /\ \A s \in Stocks : IF s \in purchases
                  THEN Among(s, i) => h[i].shares[s] <= goal[s]
                  ELSE h[i].shares[s] = b.shares[s]}
<1>4. 0 \in Held
  <2>1. \A s : ~Among(s, 0)
    OBVIOUS
  <2> HIDE DEF Among
  <2> QED
    BY <1>1, <1>3, <2>1
<1>5. ASSUME NEW i \in 1..n, i - 1 \in Held PROVE i \in Held
  <2>1. i \in 0..n /\ i - 1 \in 0..n /\ Basket[i] \in Stocks
    BY <1>1
  <2>2. h[i - 1] \in Accounts /\ goal[Basket[i]] \in Int
    BY <2>1
  <2>3. \A s : Among(s, i) <=> Among(s, i - 1) \/ s = Basket[i]
    <3>1. \A p : p \in 1..i <=> p \in 1..(i - 1) \/ p = i
      BY <1>1
    <3> QED
      BY <3>1
  <2>4. CASE Basket[i] \in purchases
    <3>1. h[i] = Buy(h[i - 1], Basket[i], goal[Basket[i]])
      BY <1>3, <2>4
    <3> DEFINE c == h[i - 1]  s == Basket[i]  x == goal[s]
    <3>2. /\ ValueOf(h[i]) = ValueOf(h[i - 1]) /\ h[i].shares[Basket[i]] <= goal[Basket[i]]
          /\ \A u \in Stocks \ {Basket[i]} : h[i].shares[u] = h[i - 1].shares[u]
      <4>1. c \in Accounts /\ s \in Stocks /\ x \in Int /\ h[i] = Buy(c, s, x)
        BY <2>1, <2>2, <3>1
      <4> HIDE DEF c, s, x
      <4>2. /\ ValueOf(h[i]) = ValueOf(c) /\ h[i].shares[s] <= x
            /\ \A u \in Stocks \ {s} : h[i].shares[u] = c.shares[u]
        BY <4>1, BuyKeepsValue
      <4> QED
        BY <4>2 DEF c, s, x
    <3> HIDE DEF Among
    <3> QED
      BY <1>5, <2>1, <2>3, <2>4, <3>2
  <2>5. CASE Basket[i] \notin purchases
    <3>1. h[i] = h[i - 1]
      BY <1>3, <2>5
    <3> HIDE DEF Among
    <3> QED
      BY <1>5, <2>1, <2>3, <2>5, <3>1
  <2> QED
    BY <2>4, <2>5
<1>6. n \in Held
  <2> HIDE DEF Held
  <2>1. \A i \in 0..n : i \in Held
    BY <1>1, <1>4, <1>5, PlacesInduction
  <2> QED
    BY <1>1, <2>1
<1>7. \A s \in Stocks : Among(s, n)
  BY <1>1 DEF Stocks, Range
<1>8. h[n] \in Accounts
  BY <1>1
<1> QED
  <2> HIDE DEF Among
  <2> QED
    BY <1>3, <1>6, <1>7, <1>8

(* An execution goes for each symbol no higher than its goal, or leaves it *)
(* alone.                                                                  *)
LEMMA ExecutedStaysBelow ==
  ASSUME MarketTypes, NEW goal \in [Stocks -> Int], NEW barred
  PROVE  /\ Executed(holdings, goal, barred) \in Accounts
         /\ ValueOf(Executed(holdings, goal, barred)) = NetWorth
         /\ \A s \in Stocks :
              \/ Executed(holdings, goal, barred).shares[s] <= goal[s]
              \/ Executed(holdings, goal, barred).shares[s] = holdings.shares[s]
<1> DEFINE a == holdings
           sales == {s \in Stocks \ barred : goal[s] < a.shares[s]}
           purchases == {s \in Stocks \ barred : goal[s] > a.shares[s]}
           b == SellAll(a, goal, sales)
           c == BuyAll(b, goal, purchases)
<1>1. a \in Accounts
  BY DEF MarketTypes
<1>2. c = Executed(holdings, goal, barred)
  BY DEF Executed
<1>3. \A s \in Stocks : goal[s] \in Int /\ a.shares[s] \in Int
  BY <1>1 DEF Accounts, Holdings
<1> HIDE DEF sales, purchases, a
<1>4. /\ b \in Accounts /\ ValueOf(b) = ValueOf(a)
      /\ \A s \in Stocks : b.shares[s] = IF s \in sales THEN goal[s] ELSE a.shares[s]
  BY <1>1, AllSold
<1> HIDE DEF b
<1>5. /\ c \in Accounts /\ ValueOf(c) = ValueOf(b)
      /\ \A s \in Stocks : IF s \in purchases THEN c.shares[s] <= goal[s]
                                              ELSE c.shares[s] = b.shares[s]
  BY <1>4, AllBought
<1> HIDE DEF c
<1>6. \A s \in Stocks : c.shares[s] <= goal[s] \/ c.shares[s] = a.shares[s]
  BY <1>3, <1>4, <1>5
<1>7. ValueOf(a) = NetWorth
  BY DEF ValueOf, NetWorth, a
<1> QED
  BY <1>2, <1>4, <1>5, <1>6, <1>7 DEF a

(* One rebalance.  What was accepted keeps the caps; the execution goes    *)
(* nowhere above it, but where a sale does not happen.                     *)
Outcome(orders, after, fills) ==
  orders # <<>> /\ (\A i \in DOMAIN orders : orders[i].side = "sell" =>
                      \E f \in fills : f.symbol = orders[i].symbol /\ f.shares >= orders[i].shares)
    => /\ 8 * Traded(orders, marketPrice) <= config.turnover * ValueOf(after)
       /\ \A s \in Stocks : Weight8(after.shares, s) <= config.concentration * ValueOf(after)
       /\ HasPurchase(orders) => 8 * Worth(after.shares) <= config.gross * ValueOf(after)

LEMMA RebalanceKeepsTheCaps ==
  ASSUME MarketTypes, NEW w \in Wishes, NEW barred, NEW low,
         NEW orders, orders = Evaluated(Desired(Allocated(w))),
         NEW after,
         after = IF orders = <<>> THEN holdings
                 ELSE Executed(holdings, Requantized(orders, low), barred)
  PROVE  /\ after \in Accounts
         /\ Outcome(orders, after, Fills(orders, holdings.shares, after.shares))
<1>1. CASE orders = <<>>
  <2>1. after \in Accounts
    BY <1>1 DEF MarketTypes
  <2> QED
    BY <1>1, <2>1 DEF Outcome
<1>2. CASE orders # <<>>
  <2> DEFINE desired == Desired(Allocated(w))
             c == Judged(desired)
             goal == Requantized(orders, low)
             fills == Fills(orders, holdings.shares, after.shares)
  <2>1. desired \in Seq(OrderRecords)
    BY AllocatedTypes, DesiredTypes
  <2>2. c \in Judgements /\ WellJudged(c) /\ c.accepted = orders
    <3>1. c.accepted = orders
      BY DEF Evaluated
    <3> HIDE DEF desired
    <3> QED
      BY <2>1, <3>1, JudgementIsSound
  <2> HIDE DEF desired, c
  <2>3. /\ c.shares \in Holdings /\ c.notional \in Int /\ orders \in Seq(OrderRecords)
        /\ c.shares = LeftBy(orders) /\ c.notional = Traded(orders, marketPrice)
        /\ KeepsCaps(c.shares, c.notional)
        /\ \A s \in Stocks : c.shares[s] < holdings.shares[s] => IsSale(orders, s)
        /\ HasPurchase(orders) => KeepsGross(c.shares)
    BY <1>2, <2>2 DEF Judgements, WellJudged
  <2>4. goal = [s \in Stocks |-> IF s \in low /\ c.shares[s] > 0 THEN c.shares[s] - 1
                                                                  ELSE c.shares[s]]
    BY <2>3 DEF Requantized
  <2> HIDE DEF goal
  <2>5. goal \in [Stocks -> Int] /\ \A s \in Stocks : goal[s] <= c.shares[s]
    BY <2>3, <2>4 DEF Holdings
  <2>6. after = Executed(holdings, goal, barred)
    BY <1>2 DEF goal
  <2>7. /\ after \in Accounts /\ ValueOf(after) = NetWorth
        /\ \A s \in Stocks : after.shares[s] <= goal[s] \/ after.shares[s] = holdings.shares[s]
    BY <2>5, <2>6, ExecutedStaysBelow
  <2>8. /\ after.shares \in Holdings /\ holdings.shares \in Holdings
        /\ \A s \in Stocks : /\ after.shares[s] \in Int /\ holdings.shares[s] \in Int
                             /\ c.shares[s] \in Int /\ goal[s] \in Int
    BY <2>3, <2>5, <2>7 DEF MarketTypes, Accounts, Holdings
  <2>9. ASSUME NEW f \in fills
        PROVE  after.shares[f.symbol] # holdings.shares[f.symbol]
    <3> DEFINE Filled(o) == IF o.side = "buy"
                 THEN after.shares[o.symbol] - holdings.shares[o.symbol]
                 ELSE holdings.shares[o.symbol] - after.shares[o.symbol]
    <3>1. PICK x \in Range(orders) : Filled(x) > 0 /\ f = [x EXCEPT !.shares = Filled(x)]
      BY <2>9 DEF Fills
    <3>2. x \in OrderRecords
      BY <2>3, <3>1 DEF Range
    <3>3. f.symbol = x.symbol /\ x.symbol \in Stocks
      BY <3>1, <3>2 DEF OrderRecords
    <3>4. after.shares[x.symbol] \in Int /\ holdings.shares[x.symbol] \in Int
      BY <2>8, <3>3
    <3>5. after.shares[x.symbol] # holdings.shares[x.symbol]
      BY <3>1, <3>4
    <3> QED
      BY <3>3, <3>5
  <2> DEFINE SalesDone == \A i \in DOMAIN orders : orders[i].side = "sell" =>
               \E f \in fills : f.symbol = orders[i].symbol /\ f.shares >= orders[i].shares
  <2>10. ASSUME SalesDone
         PROVE  /\ 8 * Traded(orders, marketPrice) <= config.turnover * NetWorth
                /\ \A s \in Stocks : Weight8(after.shares, s) <= config.concentration * NetWorth
                /\ HasPurchase(orders) => 8 * Worth(after.shares) <= config.gross * NetWorth
    <3>1. ASSUME NEW s \in Stocks PROVE after.shares[s] <= c.shares[s]
      <4>1. CASE after.shares[s] <= goal[s]
        BY <2>5, <2>8, <4>1
      <4>2. CASE after.shares[s] = holdings.shares[s]
        <5>1. SUFFICES ASSUME c.shares[s] < holdings.shares[s] PROVE FALSE
          BY <2>8, <4>2
        <5>2. PICK i \in DOMAIN orders : orders[i].symbol = s /\ orders[i].side = "sell"
          BY <2>3, <5>1 DEF IsSale
        <5> HIDE DEF fills
        <5>3. PICK f \in fills : f.symbol = s
          BY <2>10, <5>2
        <5> QED
          BY <2>9, <4>2, <5>3
      <4> QED
        BY <2>7, <4>1, <4>2
    <3>2. ASSUME NEW s \in Stocks
          PROVE  Weight8(after.shares, s) <= config.concentration * NetWorth
      <4> DEFINE x == c.shares[s]  y == after.shares[s]  p == marketPrice[s]
                 cap == config.concentration * NetWorth
      <4>1. x \in Int /\ y \in Int /\ p \in Int /\ p > 0 /\ y <= x
        BY <2>8, <3>1 DEF MarketTypes
      <4>2. cap \in Int
        BY ConfigTypes
      <4>3. 8 * x * p <= cap
        BY <2>3 DEF KeepsCaps, Weight8
      <4> HIDE DEF x, y, p, cap
      <4>4. 8 * y * p <= 8 * x * p
        <5>1. y * p <= x * p
          BY <4>1, Z3
        <5> QED
          BY <4>1, <5>1, Z3
      <4>5. 8 * y * p <= cap
        BY <4>1, <4>2, <4>3, <4>4
      <4> QED
        BY <4>5 DEF Weight8, y, p, cap
    <3>3. 8 * Traded(orders, marketPrice) <= config.turnover * NetWorth
      <4>1. NetWorth * config.turnover = config.turnover * NetWorth
        BY ConfigTypes
      <4> QED
        BY <2>3, <4>1 DEF KeepsCaps
    <3>4. ASSUME HasPurchase(orders)
          PROVE  8 * Worth(after.shares) <= config.gross * NetWorth
      <4>1. Worth(after.shares) <= Worth(c.shares)
        BY <2>3, <2>8, <3>1, WorthShrinks
      <4>2. Worth(after.shares) \in Int /\ Worth(c.shares) \in Int
        BY <2>3, <2>8, WorthIsInt
      <4>3. config.gross * NetWorth \in Int
        BY ConfigTypes
      <4>4. 8 * Worth(c.shares) <= config.gross * NetWorth
        BY <2>3, <3>4 DEF KeepsGross
      <4> QED
        BY <4>1, <4>2, <4>3, <4>4
    <3> QED
      BY <3>2, <3>3, <3>4
  <2> HIDE DEF fills
  <2>11. Outcome(orders, after, fills)
    BY <2>7, <2>10 DEF Outcome
  <2> QED
    BY <2>7, <2>11 DEF fills
<1> QED
  BY <1>1, <1>2

OrdersInv == MarketTypes /\ AccountKeepsTheCaps

LEMMA OrdersStart ==
  OrdersInit => OrdersInv
<1> SUFFICES ASSUME OrdersInit PROVE OrdersInv
  OBVIOUS
<1>1. Min(MarketPrices) \in MarketPrices
  <2>1. MarketPrices \in SUBSET Nat /\ MarketPrices # {}
    BY OrdersAssumption
  <2>2. \E m \in MarketPrices : \A k \in MarketPrices : m <= k
    BY <2>1, LeastExists
  <2> QED
    BY <2>2, Zenon DEF Min
<1>2. MarketTypes
  <2>1. holdings \in Accounts
    BY OrdersAssumption DEF OrdersInit, Accounts, Holdings
  <2> QED
    BY <1>1, <2>1, OrdersAssumption DEF OrdersInit, MarketTypes
<1>3. AccountKeepsTheCaps
  BY DEF OrdersInit, NoRebalance, AccountKeepsTheCaps
<1> QED
  BY <1>2, <1>3 DEF OrdersInv

LEMMA OrdersMoves ==
  OrdersInv /\ [OrdersNext]_orderVars => OrdersInv'
<1> SUFFICES ASSUME OrdersInv, [OrdersNext]_orderVars PROVE OrdersInv'
  OBVIOUS
<1>1. MarketTypes /\ AccountKeepsTheCaps
  BY DEF OrdersInv
<1>2. ASSUME UNCHANGED <<config, holdings, marketPrice, last>> PROVE OrdersInv'
  <2>1. MarketTypes'
    BY <1>1, <1>2 DEF MarketTypes
  <2>2. AccountKeepsTheCaps'
    BY <1>1, <1>2 DEF AccountKeepsTheCaps, SalesAreFilled, NetWorth, Worth, Weight8
  <2> QED
    BY <2>1, <2>2 DEF OrdersInv
<1>3. CASE UNCHANGED orderVars
  BY <1>2, <1>3 DEF orderVars
<1>4. CASE KillSwitch
  BY <1>2, <1>4 DEF KillSwitch
<1>5. ASSUME NEW s \in Stocks, NEW p \in MarketPrices, PriceMoves(s, p) PROVE OrdersInv'
  <2>1. MarketTypes'
    BY <1>1, <1>5, OrdersAssumption DEF MarketTypes, PriceMoves
  <2>2. AccountKeepsTheCaps'
    BY <1>5 DEF PriceMoves, NoRebalance, AccountKeepsTheCaps
  <2> QED
    BY <2>1, <2>2 DEF OrdersInv
<1>6. ASSUME NEW w \in Wishes, NEW barred \in Few, NEW low \in Few, Rebalance(w, barred, low)
      PROVE  OrdersInv'
  <2> DEFINE orders == Evaluated(Desired(Allocated(w)))
             after == IF orders = <<>> THEN holdings
                      ELSE Executed(holdings, Requantized(orders, low), barred)
             fills == Fills(orders, holdings.shares, after.shares)
  <2>1. after \in Accounts /\ Outcome(orders, after, fills)
    <3> HIDE DEF orders
    <3>1. ASSUME NEW list, list = orders, NEW then, then = after
          PROVE  then \in Accounts /\ Outcome(list, then, Fills(list, holdings.shares, then.shares))
      BY <1>1, <3>1, RebalanceKeepsTheCaps DEF orders
    <3> HIDE DEF after
    <3> QED
      BY <3>1
  <2>2. /\ holdings' = after /\ config' = config /\ marketPrice' = marketPrice
        /\ last' = [accepted |-> orders, fills |-> fills]
    BY <1>6, Zenon DEF Rebalance
  <2> HIDE DEF orders, after, fills
  <2>3. MarketTypes'
    BY <1>1, <2>1, <2>2 DEF MarketTypes
  <2>4. last'.accepted = orders /\ last'.fills = fills
    BY <2>2
  <2>5. NetWorth' = ValueOf(after)
    BY <2>2 DEF NetWorth, ValueOf, Worth
  <2>6. \A s \in Stocks : Weight8(after.shares, s) = Weight8(holdings.shares, s)'
    BY <2>2 DEF Weight8
  <2>7. Worth(holdings.shares)' = Worth(after.shares)
    BY <2>2 DEF Worth
  <2>8. AccountKeepsTheCaps'
    BY <2>1, <2>2, <2>4, <2>5, <2>6, <2>7 DEF AccountKeepsTheCaps, SalesAreFilled, Outcome, HasPurchase
  <2> QED
    BY <2>3, <2>8 DEF OrdersInv
<1> QED
  BY <1>3, <1>4, <1>5, <1>6 DEF OrdersNext

(* Caps hold for the account as a whole, whatever the weights asked for,   *)
(* the prices, the parameters and the number of symbols: orders judged one *)
(* by one, and carried out as far as the cash goes, leave an account whose *)
(* turnover, concentration and exposure keep what was configured, unless a *)
(* sale was not filled (evaluate_orders, execute_rebalance).               *)
THEOREM CapsAlwaysHold ==
  OrdersSpec => []AccountKeepsTheCaps
<1>1. OrdersInv => AccountKeepsTheCaps
  BY DEF OrdersInv
<1> QED
  BY <1>1, OrdersStart, OrdersMoves, PTL DEF OrdersSpec
===============================================================================
