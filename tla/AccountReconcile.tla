-------------------------- MODULE AccountReconcile --------------------------
(***************************************************************************)
(* The comparison of an engine's account, positions and trades with those  *)
(* of a broker, made once a day.  Both trade in a few symbols; the broker  *)
(* lists the fills of the day, the engine keeps its trades.  Shares count  *)
(* in lots and money in thousands; prices are whole.                       *)
(***************************************************************************)
EXTENDS QMTGates

CONSTANTS
  Symbols,
  Prices,
  LastDay,     \* bound
  MaxTrades    \* bound: trades of a kind a day

Sides == {"buy", "sell"}
Buckets == Symbols \X Sides
NoFills == [shares |-> 0, amount |-> 0]
NoTrades == [b \in Buckets |-> NoFills]

VARIABLES
  day,
  shares, cash,         \* of the engine
  trades,               \* engine.trades, by bucket
  today,                \* ghost: the trades of the day
  brokerShares, brokerCash,
  fills                 \* the broker's fills of the day, by bucket

accountVars == <<day, shares, cash, trades, today, brokerShares, brokerCash, fills>>

Init ==
  /\ day = 1
  /\ shares = [s \in Symbols |-> 0] /\ brokerShares = shares
  /\ cash = 10 /\ brokerCash = 10
  /\ trades = NoTrades /\ today = NoTrades /\ fills = NoTrades

Sign(side) == IF side = "buy" THEN 1 ELSE -1
Add(buckets, b, price) ==
  [buckets EXCEPT ![b] = [shares |-> @.shares + 1, amount |-> @.amount + price]]

(* Both sides trade, or the broker alone: its account is traded by hand.   *)
Trade(b, price, local) ==
  /\ fills[b].shares < MaxTrades
  /\ b[2] = "sell" => brokerShares[b[1]] > 0 /\ (local => shares[b[1]] > 0)
  /\ fills' = Add(fills, b, price)
  /\ brokerShares' = [brokerShares EXCEPT ![b[1]] = @ + Sign(b[2])]
  /\ brokerCash' = brokerCash - Sign(b[2]) * price
  /\ IF local
     THEN /\ trades' = Add(trades, b, price) /\ today' = Add(today, b, price)
          /\ shares' = [shares EXCEPT ![b[1]] = @ + Sign(b[2])]
          /\ cash' = cash - Sign(b[2]) * price
     ELSE UNCHANGED <<trades, today, shares, cash>>
  /\ UNCHANGED day

NextDay ==
  /\ day < LastDay
  /\ day' = day + 1
  /\ fills' = NoTrades /\ today' = NoTrades
  /\ UNCHANGED <<shares, cash, trades, brokerShares, brokerCash>>

Next ==
  \/ NextDay
  \/ \E b \in Buckets, price \in Prices, local \in BOOLEAN : Trade(b, price, local)

Spec == Init /\ [][Next]_accountVars

(* reconcile_broker_snapshot(), reconcile_broker_positions(): a share or   *)
(* more than a unit of money is a drift.                                   *)
PositionStatus == IF brokerShares = shares THEN "ok" ELSE "drift"
AccountStatus == IF brokerShares = shares /\ brokerCash - cash \in -1 .. 1 THEN "ok" ELSE "drift"

(* reconcile_broker_trades(), of the buckets of the broker and of          *)
(* local_trades_from_engine(): volumes first, then the average price.      *)
TradeStatus ==
  IF \A b \in Buckets :
       /\ fills[b].shares = trades[b].shares
       /\ fills[b].amount = trades[b].amount
  THEN "ok" ELSE "drift"

(* The hard gate, when the orders agree.                                   *)
Gate ==
  HardGate([account |-> AccountStatus, order |-> "ok",
            position |-> PositionStatus, trade |-> TradeStatus])

(* "both sides of the reconcile are scoped to the same tick /              *)
(* business-date": when the broker has the engine's account and its fills  *)
(* of the day are the engine's trades of the day, the gate is open.        *)
MirroredAccountOpensGate ==
  brokerShares = shares /\ brokerCash = cash /\ fills = today => Gate = "open"
=============================================================================
