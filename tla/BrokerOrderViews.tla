--------------------------- MODULE BrokerOrderViews ---------------------------
(***************************************************************************)
(* Two views of a broker order are kept from the same events: the row of   *)
(* the link table, updated as events arrive, and the order state that the  *)
(* ledger replays from the log in timestamp order.  They use different     *)
(* rules; this module states what they agree on.                           *)
(***************************************************************************)
EXTENDS BrokerOrderLinks, LiveLedger

Replayed == Replay(log, Fresh(0, 0))

Known(o) == o \in DOMAIN Replayed.broker

(* An order is final in one view exactly when it is final in the other,    *)
(* however its reports were delayed, reordered or repeated.                *)
FinalInBothViews ==
  \A o \in Orders :
    IsTerminal(StatusOf(o))
      <=> (Known(o) /\ IsTerminal(Replayed.broker[o].status))
=============================================================================
