-------------------------- MODULE BrokerOrderStatus --------------------------
(***************************************************************************)
(* The vocabulary of broker order statuses of ez/live/events.py: how a     *)
(* broker's word is normalized, the rank that makes updates forward-only,  *)
(* which moves are legal, and the coarser status the ledger keeps.         *)
(*                                                                         *)
(* Free text is represented by one word per branch of the normalizer; the  *)
(* branch conditions are substring tests and tests on the share counts.    *)
(***************************************************************************)
EXTENDS Integers

OpenStatuses == {"unknown", "cancel_error", "unreported", "reported",
                 "reported_cancel_pending", "partially_filled",
                 "partially_filled_cancel_pending"}

TerminalStatuses == {"partially_canceled", "filled", "canceled", "junk",
                     "order_error"}

Statuses == OpenStatuses \cup TerminalStatuses

(* Words the normalizer may hand through: "traded" for any text no branch  *)
(* knows, "filling" for a text with "fill" that has no filled shares yet.  *)
OtherWords == {"traded", "filling"}

Normalized == Statuses \cup OtherWords

Aliases ==
  [waiting_reporting |-> "unreported",
   submitted |-> "reported",
   partially_cancelled |-> "partially_canceled",
   cancelled |-> "canceled",
   order_rejected |-> "order_error",
   cancel_rejected |-> "cancel_error",
   error |-> "order_error"]

Words == Normalized \cup DOMAIN Aliases
         \cup {"", "canceling pending", "partial fill", "partial cancel",
               "rejected", "discarded", "pending", "ack"}

(* Mutant: the broker's aliases are taken for statuses.                    *)
NormalizeNoAliases(word, filled, remaining) ==
  IF word = "" THEN "unknown" ELSE word

(* filled and remaining: the report counts filled, remaining shares.       *)
Normalize(word, filled, remaining) ==
  CASE word = "" -> "unknown"
    [] word \in DOMAIN Aliases -> Aliases[word]
    [] word \in Statuses -> word
    [] word = "canceling pending" ->
         IF filled \/ remaining THEN "partially_filled_cancel_pending"
         ELSE "reported_cancel_pending"
    [] word = "partial fill" -> "partially_filled"
    [] word = "partial cancel" -> "partially_canceled"
    [] word = "filling" /\ filled ->
         IF remaining THEN "partially_filled" ELSE "filled"
    [] word = "rejected" -> "order_error"
    [] word = "discarded" -> "junk"
    [] word \in {"pending", "ack"} -> "reported"
    [] OTHER -> word

TerminalRank == 30

Rank(s) ==
  CASE s \in TerminalStatuses -> TerminalRank
    [] s = "cancel_error" -> 5
    [] s = "unreported" -> 10
    [] s = "reported" -> 12
    [] s = "reported_cancel_pending" -> 14
    [] s = "partially_filled" -> 20
    [] s = "partially_filled_cancel_pending" -> 22
    [] OTHER -> 0

IsTerminal(s) == s \in TerminalStatuses

(* The one follow-up a final state has.                                    *)
Followups(s) == IF s = "partially_canceled" THEN {"canceled"} ELSE {}

CanTransition(current, incoming) ==
  IF Rank(current) >= TerminalRank
  THEN incoming \in Followups(current)
  ELSE Rank(incoming) > Rank(current)

ToOrderStatus(s) ==
  CASE s = "filled" -> "filled"
    [] s \in {"partially_filled", "partially_filled_cancel_pending"} ->
         "partially_filled"
    [] s \in {"canceled", "partially_canceled"} -> "canceled"
    [] s \in {"junk", "order_error"} -> "rejected"
    [] OTHER -> "submitted"
=============================================================================
