------------------------------ MODULE Reconcile ------------------------------
(***************************************************************************)
(* The comparison of the broker's open orders with the order links, which  *)
(* a synchronisation makes and which feeds the hard gate.                  *)
(*                                                                         *)
(* A synchronisation first collects the reports, from the last timestamp   *)
(* it has stored on, and then queries the broker's open orders; the broker *)
(* goes on meanwhile.  Reports are handed over in order, or lost.  Every   *)
(* order has its own broker id, and its row knows it.                      *)
(***************************************************************************)
EXTENDS BrokerOrderStatus, FiniteSets

CONSTANTS
  BrokerOrders,
  LastTime,   \* bound: of the broker's clock
  MaxLost     \* bound: reports the broker library loses

NoRow == [status |-> "none", ts |-> -1]

VARIABLES
  brokerClock,
  atBroker,    \* the broker's own status of each order
  said,       \* reports the broker made and did not lose
  lost,       \* how many it lost
  rows,       \* order links
  syncing,    \* the reports are collected, the orders are not queried yet
  bundle,     \* reports of the synchronisation
  moved       \* the broker has changed since they were collected

reconcileVars == <<brokerClock, atBroker, said, lost, rows, syncing, bundle, moved>>

ReconcileInit ==
  /\ brokerClock = 0 /\ atBroker = [o \in BrokerOrders |-> "none"]
  /\ said = {} /\ lost = 0
  /\ rows = [o \in BrokerOrders |-> NoRow]
  /\ syncing = FALSE /\ bundle = {} /\ moved = FALSE

(* Mutant: the one that came last.                                         *)
LaterByTime(r, s) == r.ts >= s.ts

Later(r, s) == Rank(r.status) > Rank(s.status) \/ (Rank(r.status) = Rank(s.status) /\ r.ts >= s.ts)
Latest(reports) == CHOOSE r \in reports : \A s \in reports : Later(r, s)
ReportsOf(o) == {r \in bundle : r.order = o}

(* _merge_local_broker_order_links(): as the table will be, but for the    *)
(* cancel requests that a report of a partial fill keeps pending there.    *)
MergedStatus(o) ==
  LET news == {r \in ReportsOf(o) : rows[o] = NoRow \/ Later(r, rows[o])} IN
    IF news = {} THEN rows[o].status ELSE Latest(news).status

(* _comparable_open_status()                                               *)
Comparable(status) ==
  CASE status = "reported_cancel_pending" -> "reported"
    [] status = "partially_filled_cancel_pending" -> "partially_filled"
    [] OTHER -> status

(* reconcile_broker_orders(): the latest report of the bundle overrides    *)
(* the status on both sides, and what is final is left out.                *)
Seen(o, status) == IF ReportsOf(o) = {} THEN status ELSE Latest(ReportsOf(o)).status

Open(status) == status # "none" /\ ~IsTerminal(status)

LocalOpen == {o \in BrokerOrders : Open(MergedStatus(o)) /\ Open(Seen(o, MergedStatus(o)))}
BrokerOpen == {o \in BrokerOrders : Open(atBroker[o]) /\ Open(Seen(o, atBroker[o]))}

(* Mutant: an order that the broker does not have is not missed.           *)
OrderStatusOneSided ==
  IF /\ BrokerOpen \subseteq LocalOpen
     /\ \A o \in BrokerOpen :
          Comparable(Seen(o, MergedStatus(o))) = Comparable(Seen(o, atBroker[o]))
  THEN "ok" ELSE "drift"

OrderStatus ==
  IF /\ LocalOpen = BrokerOpen
     /\ \A o \in LocalOpen :
          Comparable(Seen(o, MergedStatus(o))) = Comparable(Seen(o, atBroker[o]))
  THEN "ok" ELSE "drift"

(* _upsert_broker_order_links_locked(), of the latest report; that a       *)
(* repeated "reported" renews the time of a cancel request is left out.    *)
Kept(o, r) ==
  IF r.status = "partially_filled"
     /\ rows[o].status \in {"reported_cancel_pending", "partially_filled_cancel_pending"}
  THEN [status |-> "partially_filled_cancel_pending", ts |-> r.ts]
  ELSE [status |-> r.status, ts |-> r.ts]

Upserted(o) ==
  LET news == {Kept(o, r) : r \in ReportsOf(o)}
      later == {r \in news : rows[o] = NoRow \/ Later(r, rows[o])} IN
    IF later = {} THEN rows[o] ELSE Latest(later)

(* The broker.                                                             *)
Stages == [none |-> {"reported"},
           reported |-> {"reported_cancel_pending", "partially_filled", "filled", "canceled"},
           reported_cancel_pending |-> {"canceled", "filled"},
           partially_filled |-> {"partially_filled_cancel_pending", "filled"},
           partially_filled_cancel_pending |-> {"partially_canceled", "filled"}]

BrokerMoves(o, s, reported) ==
  /\ atBroker[o] \in DOMAIN Stages /\ s \in Stages[atBroker[o]]
  /\ reported \/ lost < MaxLost
  /\ atBroker' = [atBroker EXCEPT ![o] = s]
  /\ said' = IF reported THEN said \cup {[order |-> o, status |-> s, ts |-> brokerClock]} ELSE said
  /\ lost' = IF reported THEN lost ELSE lost + 1
  /\ moved' = syncing
  /\ UNCHANGED <<brokerClock, rows, syncing, bundle>>

Elapse ==
  /\ brokerClock < LastTime
  /\ brokerClock' = brokerClock + 1
  /\ UNCHANGED <<atBroker, said, lost, rows, syncing, bundle, moved>>

(* cancel_order() marks the row before the broker hears of it.             *)
RequestCancel(o) ==
  /\ ~syncing /\ rows[o].status \in {"reported", "partially_filled"}
  /\ rows' = [rows EXCEPT ![o].status = IF @ = "reported" THEN "reported_cancel_pending"
                                        ELSE "partially_filled_cancel_pending"]
  /\ UNCHANGED <<brokerClock, atBroker, said, lost, syncing, bundle, moved>>

(* collect_sync_state(): callbacks first.  What is older than the last     *)
(* stored report has been handed over and is dropped here.                 *)
Collect ==
  /\ ~syncing /\ syncing' = TRUE
  /\ bundle' = said
  /\ said' = {r \in said : \A other \in said : other.ts <= r.ts}
  /\ moved' = FALSE
  /\ UNCHANGED <<brokerClock, atBroker, lost, rows>>

(* Then the query of the open orders, the comparison and the save.         *)
Compare ==
  /\ syncing /\ syncing' = FALSE
  /\ rows' = [o \in BrokerOrders |-> Upserted(o)]
  /\ bundle' = {} /\ moved' = FALSE
  /\ UNCHANGED <<brokerClock, atBroker, said, lost>>

ReconcileNext ==
  \/ Elapse \/ Collect \/ Compare
  \/ \E o \in BrokerOrders :
       RequestCancel(o) \/ \E s \in Statuses, reported \in BOOLEAN : BrokerMoves(o, s, reported)

ReconcileSpec == ReconcileInit /\ [][ReconcileNext]_reconcileVars

(* The hard gate is not shut for nothing: a comparison finds a drift of    *)
(* orders only if the broker lost a report or changed while it was read,   *)
(* however fills, cancels and their reports cross.                         *)
DriftIsReal == syncing /\ OrderStatus = "drift" => moved \/ lost > 0

(* Nor left open for nothing: whatever was lost, when the comparison finds *)
(* no drift the rows it saves have the orders open that the broker has.    *)
AgreedOrdersAreOpen ==
  syncing /\ OrderStatus = "ok" =>
    \A o \in BrokerOrders : Open(atBroker[o]) <=> Open(Upserted(o).status)

(* Both: a verdict on the orders means what it says.                       *)
OrderDriftIsReal == DriftIsReal /\ AgreedOrdersAreOpen
==============================================================================
