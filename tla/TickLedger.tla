------------------------------ MODULE TickLedger ------------------------------
(***************************************************************************)
(* One paper engine and its event log.  A tick trades at most one order,   *)
(* in slices, and saves in one transaction the OMS events, broker events   *)
(* with their own timestamps, and a snapshot checkpoint that the event     *)
(* sequencer dates after all of them; a failed tick saves nothing while    *)
(* the engine keeps what it did.  Replaying the log must give back the     *)
(* account that was saved.                                                 *)
(***************************************************************************)
EXTENDS Integers, Sequences, FiniteSetsExt, LiveLedger

CONSTANTS
  InitialCash,
  Fee,           \* cost of a fill
  MaxShares,     \* bound: shares of an order
  LastTick       \* bound: number of ticks

(* Ticks are TickGap apart; a broker event may be as much as Skew later    *)
(* than the orders of its tick.                                            *)
TickGap == 10
Skew == 3

VARIABLES
  log,        \* deployment_events
  account,    \* the engine: cash, shares and _order_statuses
  saved,      \* what the last committed tick saw in the engine
  ticks       \* the number of ticks so far

tickVars == <<log, account, saved, ticks>>

Sides == {"buy", "sell"}

(* An order's child fills: up to two slices of what was asked for.         *)
Slices(asked) ==
  {<<>>} \cup {<<a>> : a \in 1..asked}
  \cup {<<a, b>> : a \in 1..asked, b \in 1..asked}

SharesOf(slices) ==
  CASE slices = <<>> -> 0
    [] Len(slices) = 1 -> slices[1]
    [] OTHER -> slices[1] + slices[2]

Order == [tick |-> ticks, no |-> 1]

Empty == [cash |-> InitialCash, shares |-> 0, local |-> NoOrders]

OutcomeStatus(asked, slices) ==
  CASE SharesOf(slices) = 0 -> "rejected"
    [] SharesOf(slices) \in 1..(asked - 1) -> "partially_filled"
    [] OTHER -> "filled"

(* The broker's result, taken over by the engine.                          *)
Traded(side, asked, slices) ==
  LET moved == SharesOf(slices)
      cost == Fee * Len(slices)
  IN [cash |-> IF side = "buy" THEN account.cash - moved - cost
               ELSE account.cash + moved - cost,
      shares |-> IF side = "buy" THEN account.shares + moved
                 ELSE account.shares - moved,
      local |-> With(account.local, Order, OutcomeStatus(asked, slices))]

Now == TickGap * (ticks + 1)

FillKind(done, asked) == IF done < asked THEN "partial_fill" ELSE "fill"

(* The events of an order.  The clock may or may not move between them.    *)
OrderEvents(side, asked, slices, step) ==
  LET fills ==
        {[kind |-> FillKind(SharesOf(SubSeq(slices, 1, i)), asked),
          order |-> Order, ts |-> Now + step * i, no |-> i, side |-> side,
          shares |-> slices[i], cost |-> Fee] : i \in 1..Len(slices)}
  IN {[kind |-> "submitted", order |-> Order, ts |-> Now]}
     \cup (IF slices = <<>>
           THEN {[kind |-> "rejected", order |-> Order, ts |-> Now + step]}
           ELSE fills)

LatestTime(events) == Max({Now} \cup {e.ts : e \in events})

(* Mutant: the checkpoint takes the time at which the tick began.          *)
SequencedUnanchored(events, a) ==
  events \cup {[kind |-> "snapshot", ts |-> Now, cash |-> a.cash,
                shares |-> a.shares]}

(* sequence_runtime_events: the checkpoint comes after every other event.  *)
Sequenced(events, a) ==
  events \cup {[kind |-> "snapshot", cash |-> a.cash, shares |-> a.shares,
                ts |-> LatestTime(events) + 1]}

(* A broker report on an order of the OMS, stamped by the broker's clock.  *)
BrokerEvents ==
  {{}, {[kind |-> "report", order |-> [tick |-> ticks, no |-> 2],
         ts |-> Now + Skew, word |-> "reported", filled |-> FALSE,
         remaining |-> TRUE]}}
-----------------------------------------------------------------------------
TickInit ==
  /\ log = {}
  /\ account = Empty
  /\ saved = Empty
  /\ ticks = 0

Commit(events) ==
  \E more \in BrokerEvents :
    /\ log' = log \cup Sequenced(events \cup more, account')
    /\ saved' = account'

Fail == UNCHANGED <<log, saved>>

(* A rebalance day: one order, filled in full, in part or not at all.      *)
Rebalance(side, asked, slices, step) ==
  /\ ticks < LastTick
  /\ ticks' = ticks + 1
  /\ side = "sell" => asked <= account.shares
  /\ SharesOf(slices) <= asked
  /\ account' = Traded(side, asked, slices)
  /\ Commit(OrderEvents(side, asked, slices, step)) \/ Fail

(* The cash that selling some shares outside the OMS brings in.            *)
Proceeds(sold) == IF sold = 0 THEN 0 ELSE sold - Fee

(* Any other day: nothing, or an emergency sale, which the OMS never sees. *)
HoldOrEmergencySell(sold) ==
  /\ ticks < LastTick
  /\ ticks' = ticks + 1
  /\ sold <= account.shares
  /\ account' = [account EXCEPT !.cash = @ + Proceeds(sold),
                                 !.shares = @ - sold]
  /\ Commit({}) \/ Fail

Recovered ==
  LET s == Replay(log, Fresh(InitialCash, 0)) IN
  [cash |-> s.cash, shares |-> s.shares, local |-> s.local]

Restart ==
  /\ account' = Recovered
  /\ UNCHANGED <<log, saved, ticks>>

TickNext ==
  \/ \E side \in Sides, asked \in 1..MaxShares, step \in 0..1 :
       \E slices \in Slices(asked) : Rebalance(side, asked, slices, step)
  \/ \E sold \in 0..MaxShares : HoldOrEmergencySell(sold)
  \/ Restart

TickSpec == TickInit /\ [][TickNext]_tickVars
-----------------------------------------------------------------------------
TickTypes ==
  /\ account.cash \in Int
  /\ account.shares \in Nat
  /\ saved.cash \in Int
  /\ saved.shares \in Nat
  /\ ticks \in 0..LastTick

(* The log replays to the account that the last committed tick saved: no   *)
(* order of timestamps, no failed tick before it and no trade outside the  *)
(* OMS makes recovery count a fill twice or miss one.                      *)
RecoversSavedAccount ==
  /\ Recovered.cash = saved.cash
  /\ Recovered.shares = saved.shares

(* Every order the log knows is recovered with the status the engine had.  *)
RecoversOrderStatuses ==
  \A o \in DOMAIN saved.local :
    o \in DOMAIN Recovered.local => Recovered.local[o] = saved.local[o]

(* Recovery gives back the account of the last committed tick, and the     *)
(* order statuses that the engine had then.                                *)
LogRecoversTheTick == RecoversSavedAccount /\ RecoversOrderStatuses
=============================================================================
