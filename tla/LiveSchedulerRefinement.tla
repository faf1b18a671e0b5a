------------------------ MODULE LiveSchedulerRefinement ------------------------
(***************************************************************************)
(* LiveScheduler implements TradingJournal: the phase of a deployment is   *)
(* the status of its record, the day dealt with its last_processed_date,   *)
(* and its journal the account a restart would recover.                    *)
(***************************************************************************)
EXTENDS LiveScheduler

Traded(d) == [x \in Days |-> Recovered(d)[x]]

Journal == INSTANCE TradingJournal WITH
  phase <- status,
  done <- lastDate,
  journal <- [d \in Deployments |-> Traded(d)]

(* The durable state only moves as the abstract journal does, in every     *)
(* interleaving of requests, ticks, failed transactions and restarts.      *)
JournalSpec == Journal!Spec
=============================================================================
