------------------------------ MODULE LiveLedger ------------------------------
(***************************************************************************)
(* The shared reducer of ez/live/ledger.py: what the event log of one      *)
(* deployment replays to.  Recovery, the OMS and the consistency checks    *)
(* all go through it.                                                      *)
(*                                                                         *)
(* Events are records with a kind, a timestamp and the fields their kind   *)
(* needs; the log is a set, since an event id is stored once.  Events that *)
(* compare equal are replayed in a fixed but unspecified order (the code   *)
(* compares their ids).  One symbol stands for the holdings, at price 1.   *)
(***************************************************************************)
EXTENDS Integers, BrokerOrderStatus

Priority(kind) ==
  CASE kind = "submitted" -> 10
    [] kind = "partial_fill" -> 20
    [] kind = "fill" -> 30
    [] kind = "rejected" -> 40
    [] kind \in {"submit_ack", "cancel_ack", "cancel_failed",
                 "cancel_refused"} -> 44     \* BROKER_RUNTIME_RECORDED
    [] kind = "report" -> 45
    [] kind = "cancel_request" -> 46
    [] kind = "snapshot" -> 60

Before(e, f) ==
  \/ e.ts < f.ts
  \/ e.ts = f.ts /\ Priority(e.kind) < Priority(f.kind)

LastOf(S) == CHOOSE e \in S : \A f \in S : ~Before(e, f)

(* The account, and the statuses of the orders seen so far: local[o] is    *)
(* the coarse status, broker[o] the broker's status and its timestamp.     *)
NoOrders == [o \in {} |-> ""]

Fresh(cash, shares) ==
  [cash |-> cash, shares |-> shares, local |-> NoOrders, broker |-> NoOrders]

With(f, o, value) ==
  [x \in DOMAIN f \cup {o} |-> IF x = o THEN value ELSE f[x]]
-----------------------------------------------------------------------------
LocalTerminalRank == 30

LocalRank(s) ==
  CASE s = "submitted" -> 10
    [] s = "partially_filled" -> 20
    [] s \in {"filled", "canceled", "rejected"} -> LocalTerminalRank

LocalCanTransition(previous, incoming) ==
  /\ LocalRank(previous) < LocalTerminalRank
  /\ LocalRank(incoming) > LocalRank(previous)

AdvanceLocal(s, o, new) ==
  IF o \in DOMAIN s.local /\ ~LocalCanTransition(s.local[o], new) THEN s
  ELSE [s EXCEPT !.local = With(@, o, new)]

(* Mutant: the latest timestamp wins.                                      *)
BrokerAdvancesByTime(current, status, ts) == ts >= current.ts

BrokerAdvances(current, status, ts) ==
  \/ CanTransition(current.status, status)
  \/ /\ Rank(status) = Rank(current.status)
     /\ Rank(status) < TerminalRank
     /\ ts >= current.ts

AdvanceBroker(s, o, status, ts) ==
  IF o \in DOMAIN s.broker /\ ~BrokerAdvances(s.broker[o], status, ts) THEN s
  ELSE [s EXCEPT !.broker = With(@, o, [status |-> status, ts |-> ts])]
-----------------------------------------------------------------------------
(* Fills move cash and shares; a sale never leaves shares below zero.      *)
Trade(s, e) ==
  IF e.side = "buy"
  THEN [s EXCEPT !.cash = @ - (e.shares + e.cost), !.shares = @ + e.shares]
  ELSE [s EXCEPT !.cash = @ + (e.shares - e.cost),
                 !.shares = IF @ > e.shares THEN @ - e.shares ELSE 0]

(* Broker reports never touch the account.                                 *)
Reported(s, e) ==
  LET status == Normalize(e.word, e.filled, e.remaining) IN
  AdvanceLocal(AdvanceBroker(s, e.order, status, e.ts), e.order,
               ToOrderStatus(status))

(* The account of broker states is kept by broker order id; a request that *)
(* does not know it is filed under the client order id instead.            *)
BrokerOrderKey(e) == IF e.known THEN e.order ELSE <<e.order>>

CancelRequested(s, e) ==
  LET key == BrokerOrderKey(e)
      current == IF key \in DOMAIN s.broker THEN s.broker[key].status ELSE ""
      pending == IF current \in {"partially_filled",
                                 "partially_filled_cancel_pending"}
                 THEN "partially_filled_cancel_pending"
                 ELSE "reported_cancel_pending"
  IN AdvanceLocal(
       IF IsTerminal(current) THEN s ELSE AdvanceBroker(s, key, pending, e.ts),
       e.order, "submitted")

Checkpoint(s, e) == [s EXCEPT !.cash = e.cash, !.shares = e.shares]

ApplyEvent(s, e) ==
  CASE e.kind = "submitted" -> AdvanceLocal(s, e.order, "submitted")
    [] e.kind = "rejected" -> AdvanceLocal(s, e.order, "rejected")
    [] e.kind = "partial_fill" ->
         AdvanceLocal(Trade(s, e), e.order, "partially_filled")
    [] e.kind = "fill" -> AdvanceLocal(Trade(s, e), e.order, "filled")
    [] e.kind = "report" -> Reported(s, e)
    [] e.kind = "cancel_request" -> CancelRequested(s, e)
    [] e.kind = "snapshot" -> Checkpoint(s, e)
    [] OTHER -> s

(* replay(events, initial_cash, initial_holdings), last event first.       *)
Replay(log, initial) ==
  LET state[S \in SUBSET log] ==
        IF S = {} THEN initial
        ELSE LET e == LastOf(S) IN ApplyEvent(state[S \ {e}], e)
  IN state[log]
=============================================================================
