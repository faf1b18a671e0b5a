---------------------------- MODULE GatewayProofs ----------------------------
(***************************************************************************)
(* Theorems about the parts of the gateway that MCGateway runs.  The table *)
(* of broker orders and its agreement with the replayed log: for any       *)
(* number of orders, any status words, any clock and any number of         *)
(* redeliveries.  The host service and the session manager: for any number *)
(* of supervisor threads, clients, deployments and process owners, without *)
(* an assumption on the constants.                                         *)
(***************************************************************************)
EXTENDS BrokerOrderViews, LedgerProofs, QMTHost, QMTSessions

-----------------------------------------------------------------------------
(* The table of broker orders                                              *)

(* Normalizing a word yields a status, or hands one of two words through.  *)
LEMMA NormalizeType ==
  ASSUME NEW w \in Words, NEW filled \in BOOLEAN, NEW remaining \in BOOLEAN
  PROVE  Normalize(w, filled, remaining) \in Normalized
<1>1. DOMAIN Aliases = {"waiting_reporting", "submitted",
         "partially_cancelled", "cancelled", "order_rejected",
         "cancel_rejected", "error"}
  BY DEF Aliases
<1>2. ASSUME NEW a \in DOMAIN Aliases PROVE Aliases[a] \in Statuses
  BY <1>1, <1>2 DEF Aliases, Statuses, OpenStatuses, TerminalStatuses
<1>3. CASE w \in DOMAIN Aliases
  BY <1>1, <1>2, <1>3 DEF Normalize, Normalized
<1>4. CASE w \notin DOMAIN Aliases
  <2>1. Normalize(w, filled, remaining)
          \in Statuses \cup OtherWords \cup {w}
    BY <1>4 DEF Normalize, Statuses, OpenStatuses, TerminalStatuses,
                OtherWords
  <2>2. QED
    BY <1>4, <2>1 DEF Words, Normalize, Normalized, Statuses, OpenStatuses,
                      TerminalStatuses, OtherWords
<1>5. QED
  BY <1>3, <1>4

(* Progress is a number that depends on the rank only, monotonically.      *)
LEMMA ProgressFollowsRank ==
  ASSUME NEW s \in Normalized, NEW t \in Normalized, Rank(s) >= Rank(t)
  PROVE  Progress(s) >= Progress(t)
BY DEF Normalized, Statuses, OpenStatuses, TerminalStatuses, OtherWords, Rank,
       Progress, TerminalRank
-----------------------------------------------------------------------------
(* The statuses a row can show, absent rows included.                      *)
LEMMA StatusType ==
  ASSUME TypeOK, NEW o \in Orders
  PROVE  /\ StatusOf(o) \in Normalized
         /\ HasRow(o) => link[o] \in Rows
BY DEF TypeOK, StatusOf, HasRow, Rows, Normalized, Statuses, OpenStatuses

(* A report leaves a row that is at least as far as the row before and as  *)
(* the report itself, and never takes a pending cancel away.               *)
LEMMA ReportedRowAdvances ==
  ASSUME TypeOK, NEW o \in Orders, NEW reported \in Normalized,
         NEW ts \in Times
  PROVE  LET row == ReportedRow(o, reported, ts) IN
         /\ row \in Rows
         /\ Progress(row.status) >= Progress(StatusOf(o))
         /\ Progress(row.status) >= Progress(reported)
         /\ StatusOf(o) \in BlockingStatuses => row.status \in BlockingStatuses
<1> DEFINE status == Incoming(o, reported)
           row == ReportedRow(o, reported, ts)
<1>1. /\ StatusOf(o) \in Normalized
      /\ HasRow(o) => link[o] \in Rows /\ StatusOf(o) = link[o].status
      /\ ~HasRow(o) => StatusOf(o) = "unknown"
  BY StatusType DEF StatusOf
<1>2. status \in Normalized /\ Progress(status) = Progress(reported)
  BY DEF Incoming, PendingStatuses, Progress, Rank, Normalized, Statuses,
         OpenStatuses, TerminalStatuses, TerminalRank
<1>3. ASSUME NEW s \in Normalized
      PROVE  Rank(s) \in Nat /\ Progress(s) \in Nat /\ Progress("unknown") = 0
  BY DEF Normalized, Statuses, OpenStatuses, TerminalStatuses, OtherWords,
         Rank, Progress, TerminalRank
<1>4. CASE ~Advances(o, status, ts)
  <2>1. row = [link[o] EXCEPT !.known = TRUE] /\ HasRow(o)
    BY <1>4 DEF ReportedRow, Advances
  <2>2. row \in Rows /\ row.status = StatusOf(o)
    BY <1>1, <2>1 DEF Rows
  <2>3. Rank(StatusOf(o)) >= Rank(status)
    BY <1>1, <1>2, <1>3, <1>4 DEF Advances
  <2>4. Progress(StatusOf(o)) >= Progress(status)
    BY <1>1, <1>2, <2>3, ProgressFollowsRank
  <2>5. QED
    BY <1>1, <1>2, <1>3, <2>2, <2>4
<1>5. CASE KeepsPending(o, status)
  <2>1. /\ row = [known |-> TRUE, status |-> StatusOf(o), reportTs |-> ts]
        /\ StatusOf(o) = "reported_cancel_pending" /\ status = "reported"
    BY <1>5 DEF ReportedRow, Advances, KeepsPending
  <2>2. Progress("reported_cancel_pending") = Progress("reported")
    BY DEF Progress, Rank, TerminalStatuses
  <2>3. QED
    BY <1>1, <1>2, <1>3, <2>1, <2>2 DEF Rows, Times
<1>6. CASE Advances(o, status, ts) /\ ~KeepsPending(o, status)
  <2>1. row = [known |-> TRUE, status |-> status, reportTs |-> ts]
    BY <1>6 DEF ReportedRow
  <2>2. row \in Rows /\ row.status = status
    BY <1>2, <2>1 DEF Rows, Times
  <2>3. ~HasRow(o) \/ Rank(status) >= Rank(StatusOf(o))
    BY <1>1, <1>2, <1>3, <1>6 DEF Advances
  <2>4. Progress(status) >= Progress(StatusOf(o))
    BY <1>1, <1>2, <1>3, <2>3, ProgressFollowsRank
  <2>5. ASSUME StatusOf(o) \in BlockingStatuses PROVE status \in BlockingStatuses
    <3>1. HasRow(o) /\ Rank(status) >= Rank(StatusOf(o))
      BY <1>1, <2>3, <2>5 DEF BlockingStatuses, PendingStatuses, TerminalStatuses
    <3>2. status = "partially_filled" => StatusOf(o) \notin PendingStatuses
      BY DEF Incoming, PendingStatuses
    <3>3. QED
      BY <1>1, <1>2, <2>5, <3>1, <3>2
         DEF BlockingStatuses, PendingStatuses, Rank, Normalized, Statuses,
             OpenStatuses, TerminalStatuses, OtherWords, TerminalRank
  <2>6. QED
    BY <1>1, <1>2, <1>3, <2>2, <2>4, <2>5
<1>7. QED
  BY <1>4, <1>5, <1>6

(* A pending row of an order that is not final is pending, and no step back. *)
LEMMA PendingRowAdvances ==
  ASSUME TypeOK, NEW o \in Orders, NEW known \in BOOLEAN,
         ~IsTerminal(StatusOf(o))
  PROVE  LET row == PendingRow(o, known) IN
         /\ row \in Rows
         /\ row.status \in PendingStatuses
         /\ Progress(row.status) >= Progress(StatusOf(o))
<1> DEFINE row == PendingRow(o, known)
<1>1. StatusOf(o) \in Normalized /\ (HasRow(o) => link[o] \in Rows)
  BY StatusType
<1>2. PendingStatus(o) \in PendingStatuses
  BY DEF PendingStatus, PendingStatuses
<1>3. row \in Rows /\ row.status = PendingStatus(o)
  BY <1>1, <1>2 DEF PendingRow, Rows, Times, PendingStatuses, Normalized,
                    Statuses, OpenStatuses
<1>4. Progress(PendingStatus(o)) >= Progress(StatusOf(o))
  BY <1>1 DEF PendingStatus, Progress, Rank, IsTerminal, Normalized, Statuses,
              OpenStatuses, TerminalStatuses, OtherWords, TerminalRank
<1>5. QED
  BY <1>2, <1>3, <1>4

RowStatus(row) == IF row # NoRow THEN row.status ELSE "unknown"

(* What one event does to the row of its order.                            *)
LEMMA UpdatedRowAdvances ==
  ASSUME TypeOK, NEW e \in Events, NEW L
  PROVE  LET row == UpdatedRow(e, L) IN
         /\ row \in Rows \cup {NoRow}
         /\ Progress(RowStatus(row)) >= Progress(StatusOf(e.order))
         /\ e.kind = "report" =>
              Progress(RowStatus(row))
                >= Progress(Normalize(e.word, e.filled, e.remaining))
         /\ /\ StatusOf(e.order) \in BlockingStatuses
            /\ e.kind \notin {"cancel_failed", "cancel_refused"}
            => RowStatus(row) \in BlockingStatuses
         /\ e.kind = "cancel_request" /\ ~FailedSince(e, L)
            => RowStatus(row) \in BlockingStatuses
<1> DEFINE o == e.order
           row == UpdatedRow(e, L)
<1>1. /\ o \in Orders
      /\ e.ts \in Times
      /\ e.kind \in {"report", "submit_ack", "cancel_ack", "cancel_failed",
                     "cancel_refused", "cancel_request"}
      /\ e.kind = "report" =>
           e.word \in Words /\ e.filled \in BOOLEAN /\ e.remaining \in BOOLEAN
      /\ e.kind = "cancel_request" => e.known \in BOOLEAN
  BY LinkAssumption DEF Events, FromBroker, Reports, SubmitAcks, CancelAcks,
                        CancelFailures, CancelRefusals, CancelRequests
<1>2. /\ link[o] \in Rows \cup {NoRow}
      /\ StatusOf(o) = RowStatus(link[o])
      /\ StatusOf(o) \in Normalized
      /\ HasRow(o) <=> link[o] # NoRow
  BY <1>1, StatusType DEF TypeOK, StatusOf, HasRow, RowStatus
<1>3. ASSUME NEW r \in Rows PROVE r # NoRow /\ RowStatus(r) = r.status
  BY NoRowAssumption DEF RowStatus
<1>4. Progress(StatusOf(o)) \in Nat
  BY <1>2 DEF Normalized, Statuses, OpenStatuses, TerminalStatuses, OtherWords,
              Rank, Progress, TerminalRank
<1>5. CASE e.kind = "report"
  <2>1. row = ReportedRow(o, Normalize(e.word, e.filled, e.remaining), e.ts)
    BY <1>5 DEF UpdatedRow
  <2>2. Normalize(e.word, e.filled, e.remaining) \in Normalized
    BY <1>1, <1>5, NormalizeType
  <2>3. QED
    BY <1>1, <1>3, <1>5, <2>1, <2>2, ReportedRowAdvances
<1>6. CASE e.kind = "submit_ack"
  <2>1. row = ReportedRow(o, "reported", e.ts)
    BY <1>6 DEF UpdatedRow
  <2>2. "reported" \in Normalized
    BY DEF Normalized, Statuses, OpenStatuses
  <2>3. QED
    BY <1>1, <1>3, <1>6, <2>1, <2>2, ReportedRowAdvances
<1>7. CASE e.kind = "cancel_ack"
  <2>1. row = CancelAckedRow(e)
    BY <1>7 DEF UpdatedRow
  <2>2. CASE ~Resolved(e) \/ IsTerminal(StatusOf(o))
    <3>1. row = link[o]
      BY <2>1, <2>2 DEF CancelAckedRow
    <3>2. QED
      BY <1>2, <1>4, <1>7, <3>1
  <2>3. CASE Resolved(e) /\ ~IsTerminal(StatusOf(o))
    <3>1. row = PendingRow(o, TRUE)
      BY <2>1, <2>3 DEF CancelAckedRow
    <3>2. QED
      BY <1>1, <1>3, <1>7, <2>3, <3>1, PendingRowAdvances DEF BlockingStatuses
  <2>4. QED
    BY <2>2, <2>3
<1>8. CASE e.kind \in {"cancel_failed", "cancel_refused"}
  <2>1. row = CancelFailedRow(e)
    BY <1>8 DEF UpdatedRow
  <2>2. CASE Resolved(e) /\ StatusOf(o) = "reported_cancel_pending"
    <3>1. HasRow(o) /\ row = [link[o] EXCEPT !.status = "reported"]
      BY <2>1, <2>2 DEF CancelFailedRow, StatusOf
    <3>2. row \in Rows /\ row.status = "reported"
      BY <1>2, <3>1 DEF Rows, Normalized, Statuses, OpenStatuses
    <3>3. QED
      BY <1>3, <1>8, <2>2, <3>2 DEF Progress, Rank, TerminalStatuses
  <2>3. CASE Resolved(e) /\ StatusOf(o) = "partially_filled_cancel_pending"
    <3>1. HasRow(o) /\ row = [link[o] EXCEPT !.status = "partially_filled"]
      BY <2>1, <2>3 DEF CancelFailedRow, StatusOf
    <3>2. row \in Rows /\ row.status = "partially_filled"
      BY <1>2, <3>1 DEF Rows, Normalized, Statuses, OpenStatuses
    <3>3. QED
      BY <1>3, <1>8, <2>3, <3>2 DEF Progress, Rank, TerminalStatuses
  <2>4. CASE ~Resolved(e) \/ StatusOf(o) \notin PendingStatuses
    <3>1. row = link[o]
      BY <2>1, <2>4 DEF CancelFailedRow, PendingStatuses
    <3>2. QED
      BY <1>2, <1>4, <1>8, <3>1
  <2>5. QED
    BY <2>2, <2>3, <2>4 DEF PendingStatuses
<1>9. CASE e.kind = "cancel_request"
  <2>1. row = RequestedRow(e, L)
    BY <1>9 DEF UpdatedRow
  <2>2. CASE IsTerminal(StatusOf(o)) \/ FailedSince(e, L)
    <3>1. row = link[o]
      BY <2>1, <2>2 DEF RequestedRow
    <3>2. QED
      BY <1>2, <1>4, <1>9, <2>2, <3>1 DEF BlockingStatuses, IsTerminal
  <2>3. CASE ~IsTerminal(StatusOf(o)) /\ ~FailedSince(e, L)
    <3>1. row = PendingRow(o, e.known)
      BY <2>1, <2>3 DEF RequestedRow
    <3>2. QED
      BY <1>1, <1>3, <1>9, <2>3, <3>1, PendingRowAdvances DEF BlockingStatuses
  <2>4. QED
    BY <2>2, <2>3
<1>10. QED
  BY <1>1, <1>5, <1>6, <1>7, <1>8, <1>9
-----------------------------------------------------------------------------
(* Appending an event: the log keeps its type, every row keeps its         *)
(* progress, and only the row of the event's order moves.                  *)
LEMMA AppendAdvances ==
  ASSUME TypeOK, NEW e \in Events, Append(e)
  PROVE  /\ log' \in SUBSET Events
         /\ link' \in [Orders -> Rows \cup {NoRow}]
         /\ \A o \in Orders :
              /\ StatusOf(o)' = RowStatus(link'[o])
              /\ o # e.order => StatusOf(o)' = StatusOf(o)
              /\ Progress(StatusOf(o)') >= Progress(StatusOf(o))
         /\ StatusOf(e.order)' = RowStatus(UpdatedRow(e, log'))
<1> DEFINE row == UpdatedRow(e, log')
<1>1. log' = log \cup {e} /\ link' = [link EXCEPT ![e.order] = row]
  BY DEF Append
<1>2. e.order \in Orders
  BY DEF Events, FromBroker, Reports, SubmitAcks, CancelAcks, CancelFailures,
         CancelRefusals, CancelRequests
<1>3. row \in Rows \cup {NoRow}
      /\ Progress(RowStatus(row)) >= Progress(StatusOf(e.order))
  BY UpdatedRowAdvances
<1>4. log' \in SUBSET Events /\ link' \in [Orders -> Rows \cup {NoRow}]
  BY <1>1, <1>2, <1>3 DEF TypeOK
<1>5. ASSUME NEW o \in Orders
      PROVE  /\ StatusOf(o)' = RowStatus(link'[o])
             /\ o # e.order => StatusOf(o)' = StatusOf(o)
             /\ Progress(StatusOf(o)') >= Progress(StatusOf(o))
  <2>1. StatusOf(o)' = RowStatus(link'[o]) /\ StatusOf(o) = RowStatus(link[o])
    BY DEF StatusOf, HasRow, RowStatus
  <2>2. Progress(StatusOf(o)) \in Nat
    BY StatusType DEF Normalized, Statuses, OpenStatuses, TerminalStatuses,
                      OtherWords, Rank, Progress, TerminalRank
  <2>3. CASE o = e.order
    BY <1>1, <1>2, <1>3, <2>1, <2>3 DEF TypeOK
  <2>4. CASE o # e.order
    BY <1>1, <1>2, <2>1, <2>2, <2>4 DEF TypeOK
  <2>5. QED
    BY <2>1, <2>3, <2>4
<1>6. StatusOf(e.order)' = RowStatus(row)
  BY <1>1, <1>2, <1>5 DEF TypeOK
<1>7. QED
  BY <1>4, <1>5, <1>6

(* Every step appends one event, or leaves the log and the table alone.    *)
LEMMA StepsAppend ==
  ASSUME TypeOK, [Next]_vars
  PROVE  \/ UNCHANGED <<log, link>>
         \/ \E e \in Events : Append(e)
<1>1. CASE \E e \in FromBroker : Deliver(e)
  BY <1>1 DEF Deliver, Events
<1>2. CASE \E e \in log : Redeliver(e)
  BY <1>2 DEF Redeliver, Events
<1>3. ASSUME NEW o \in Orders, RequestCancel(o)
      PROVE  \E e \in Events : Append(e)
  <2>1. CancelRequest(o) \in Events
    BY DEF CancelRequest, Events, CancelRequests, TypeOK, HasRow, Rows
  <2>2. QED
    BY <1>3, <2>1 DEF RequestCancel
<1>4. ASSUME CancelRefused PROVE \E e \in Events : Append(e)
  <2>1. [kind |-> "cancel_refused", order |-> canceling, ts |-> now] \in Events
    BY <1>4 DEF CancelRefused, Events, CancelRefusals, TypeOK
  <2>2. QED
    BY <1>4, <2>1 DEF CancelRefused
<1>5. QED
  BY <1>1, <1>2, <1>3, <1>4 DEF Next, CancelAccepted, Tick, vars

(* The type invariant: in particular every row shows a normalized status.  *)
THEOREM TypeCorrect == Spec => []TypeOK
<1>1. Init => TypeOK
  BY LinkAssumption DEF Init, TypeOK, Times
<1>2. TypeOK /\ [Next]_vars => TypeOK'
  <2> SUFFICES ASSUME TypeOK, [Next]_vars PROVE TypeOK'
    OBVIOUS
  <2>1. log' \in SUBSET Events /\ link' \in [Orders -> Rows \cup {NoRow}]
    <3>1. CASE UNCHANGED <<log, link>>
      BY <3>1 DEF TypeOK
    <3>2. ASSUME NEW e \in Events, Append(e)
          PROVE  log' \in SUBSET Events
                 /\ link' \in [Orders -> Rows \cup {NoRow}]
      BY <3>2, AppendAdvances
    <3>3. QED
      BY <3>1, <3>2, StepsAppend
  <2>2. canceling' \in Orders \cup {NoOrder} /\ now' \in Times
    BY LinkAssumption
       DEF TypeOK, Next, vars, Deliver, Redeliver, RequestCancel,
           CancelAccepted, CancelRefused, Tick, Times
  <2>3. QED
    BY <2>1, <2>2 DEF TypeOK
<1>3. QED
  BY <1>1, <1>2, PTL DEF Spec
-----------------------------------------------------------------------------
(* A final status has the highest progress, and nothing else has it.       *)
LEMMA FinalIsFurthest ==
  ASSUME NEW s \in Normalized
  PROVE  /\ Progress(s) \in Nat
         /\ IsTerminal(s) <=> Progress(s) >= TerminalRank
BY DEF Normalized, Statuses, OpenStatuses, TerminalStatuses, OtherWords, Rank,
       Progress, TerminalRank, IsTerminal

(* A final order never becomes open again: no late report, acknowledgement *)
(* or cancel failure takes progress back.                                  *)
THEOREM FinalOrdersStayFinal == Spec => TerminalSticky
<1> DEFINE Sticky ==
      \A o \in Orders : IsTerminal(StatusOf(o)) => IsTerminal(StatusOf(o))'
<1>1. TypeOK /\ TypeOK' /\ [Next]_vars => [Sticky]_link
  <2> SUFFICES ASSUME TypeOK, TypeOK', [Next]_vars, link' # link PROVE Sticky
    OBVIOUS
  <2>1. PICK e \in Events : Append(e)
    BY StepsAppend
  <2>2. ASSUME NEW o \in Orders, IsTerminal(StatusOf(o))
        PROVE  IsTerminal(StatusOf(o))'
    <3>1. Progress(StatusOf(o)') >= Progress(StatusOf(o))
      BY <2>1, AppendAdvances
    <3>2. StatusOf(o) \in Normalized /\ StatusOf(o)' \in Normalized
      <4>1. StatusOf(o) \in Normalized
        BY StatusType
      <4>2. StatusOf(o)' \in Normalized
        BY DEF TypeOK, StatusOf, HasRow, Rows, Normalized, Statuses,
               OpenStatuses
      <4>3. QED
        BY <4>1, <4>2
    <3>3. IsTerminal(StatusOf(o)')
      BY <2>2, <3>1, <3>2, FinalIsFurthest DEF TerminalRank
    <3>4. QED
      BY <3>3 DEF IsTerminal
  <2>3. QED
    BY <2>2
<1>2. QED
  BY <1>1, TypeCorrect, PTL DEF Spec, TerminalSticky

(* No report is lost, in whatever order events were handled.               *)
THEOREM NoReportIsLost == Spec => []ReportsAreReflected
<1>1. Init => ReportsAreReflected
  BY DEF Init, ReportsAreReflected
<1>2. TypeOK /\ TypeOK' /\ ReportsAreReflected /\ [Next]_vars
      => ReportsAreReflected'
  <2> SUFFICES ASSUME TypeOK, TypeOK', ReportsAreReflected, [Next]_vars,
                      NEW r \in log', r.kind = "report"
               PROVE  Progress(StatusOf(r.order)')
                        >= Progress(Normalize(r.word, r.filled, r.remaining))
    BY DEF ReportsAreReflected
  <2>1. CASE UNCHANGED <<log, link>>
    BY <2>1 DEF ReportsAreReflected, StatusOf, HasRow
  <2>2. ASSUME NEW e \in Events, Append(e)
        PROVE  Progress(StatusOf(r.order)')
                 >= Progress(Normalize(r.word, r.filled, r.remaining))
    <3>0. r \in Events /\ r.order \in Orders
      BY DEF TypeOK, Events, FromBroker, Reports, SubmitAcks, CancelAcks,
             CancelFailures, CancelRefusals, CancelRequests
    <3>1. CASE r \in log
      <4>1. Progress(StatusOf(r.order))
              >= Progress(Normalize(r.word, r.filled, r.remaining))
        BY <3>1 DEF ReportsAreReflected
      <4>2. Progress(StatusOf(r.order)') >= Progress(StatusOf(r.order))
        BY <2>2, <3>0, AppendAdvances
      <4>3. /\ Progress(StatusOf(r.order)) \in Nat
            /\ Progress(StatusOf(r.order)') \in Nat
        <5>1. StatusOf(r.order) \in Normalized
          BY <3>0, StatusType
        <5>2. StatusOf(r.order)' \in Normalized
          BY <3>0 DEF TypeOK, StatusOf, HasRow, Rows, Normalized, Statuses,
                      OpenStatuses
        <5>3. QED
          BY <5>1, <5>2, FinalIsFurthest
      <4>4. Progress(Normalize(r.word, r.filled, r.remaining)) \in Nat
        <5>1. r \in Reports
          BY <3>0 DEF Events, FromBroker, Reports, SubmitAcks, CancelAcks,
                      CancelFailures, CancelRefusals, CancelRequests
        <5>2. Normalize(r.word, r.filled, r.remaining) \in Normalized
          BY <5>1, NormalizeType, LinkAssumption DEF Reports
        <5>3. QED
          BY <5>2, FinalIsFurthest
      <4>5. QED
        BY <4>1, <4>2, <4>3, <4>4
    <3>2. CASE r = e
      BY <2>2, <3>2, AppendAdvances, UpdatedRowAdvances
    <3>3. QED
      BY <2>2, <3>1, <3>2 DEF Append
  <2>3. QED
    BY <2>1, <2>2, StepsAppend
<1>3. QED
  BY <1>1, <1>2, TypeCorrect, PTL DEF Spec

(* A cancel request stays visible until the broker reports a failure.      *)
THEOREM CancelRequestsStayVisible == Spec => []CancelStaysVisible
<1>1. Init => CancelStaysVisible
  BY DEF Init, CancelStaysVisible
<1>2. TypeOK /\ TypeOK' /\ CancelStaysVisible /\ [Next]_vars
      => CancelStaysVisible'
  <2> SUFFICES ASSUME TypeOK, TypeOK', CancelStaysVisible, [Next]_vars,
                      NEW r \in log', r.kind = "cancel_request"
               PROVE  \/ StatusOf(r.order)' \in BlockingStatuses
                      \/ FailuresOf(r.order)' # {}
    BY DEF CancelStaysVisible, BlockingStatuses, PendingStatuses,
           TerminalStatuses
  <2>1. CASE UNCHANGED <<log, link>>
    BY <2>1 DEF CancelStaysVisible, StatusOf, HasRow, FailuresOf
  <2>2. ASSUME NEW e \in Events, Append(e), FailuresOf(r.order)' = {}
        PROVE  StatusOf(r.order)' \in BlockingStatuses
    <3>1. log' = log \cup {e}
      BY <2>2 DEF Append
    <3>2. FailuresOf(r.order) = {}
      BY <2>2, <3>1 DEF FailuresOf
    <3>3. r.order = e.order => e.kind \notin {"cancel_failed", "cancel_refused"}
      BY <2>2, <3>1 DEF FailuresOf
    <3>4. r \in Events /\ r.order \in Orders
      BY DEF TypeOK, Events, FromBroker, Reports, SubmitAcks, CancelAcks,
             CancelFailures, CancelRefusals, CancelRequests
    <3>5. CASE r \in log
      <4>1. StatusOf(r.order) \in BlockingStatuses
        BY <3>2, <3>5 DEF CancelStaysVisible
      <4>2. CASE r.order = e.order
        BY <2>2, <3>3, <4>1, <4>2, AppendAdvances, UpdatedRowAdvances
      <4>3. CASE r.order # e.order
        BY <2>2, <3>4, <4>1, <4>3, AppendAdvances
      <4>4. QED
        BY <4>2, <4>3
    <3>6. CASE r = e
      <4>1. ~FailedSince(e, log')
        BY <2>2, <3>6 DEF FailedSince, FailuresOf
      <4>2. QED
        BY <2>2, <3>6, <4>1, AppendAdvances, UpdatedRowAdvances
    <3>7. QED
      BY <3>1, <3>5, <3>6
  <2>3. QED
    BY <2>1, <2>2, StepsAppend
<1>3. QED
  BY <1>1, <1>2, TypeCorrect, PTL DEF Spec
-----------------------------------------------------------------------------
(* Why the broker is asked once per failure: an order that blocks further  *)
(* requests may be one request ahead of its failures, any other is not,    *)
(* and the refusal of a call that is out is not in the log yet.            *)
Blocked(o) == IF StatusOf(o) \in BlockingStatuses THEN 1 ELSE 0

CancelBalance ==
  /\ IsFiniteSet(log)
  /\ \A o \in Orders :
       Cardinality(RequestsOf(o)) <= Cardinality(FailuresOf(o)) + Blocked(o)
  /\ \A f \in log :
       canceling # NoOrder /\ f.kind = "cancel_refused" /\ f.order = canceling
         => f.ts < now

(* The sets that are counted, after an append.                             *)
LEMMA CountsAfterAppend ==
  ASSUME TypeOK, IsFiniteSet(log), NEW e \in Events, e \notin log, Append(e),
         NEW o \in Orders
  PROVE  /\ IsFiniteSet(log')
         /\ Cardinality(RequestsOf(o)) \in Nat
         /\ Cardinality(FailuresOf(o)) \in Nat
         /\ Cardinality(RequestsOf(o)') =
              IF e.order = o /\ e.kind = "cancel_request"
              THEN Cardinality(RequestsOf(o)) + 1
              ELSE Cardinality(RequestsOf(o))
         /\ Cardinality(FailuresOf(o)') =
              IF e.order = o /\ e.kind \in {"cancel_failed", "cancel_refused"}
              THEN Cardinality(FailuresOf(o)) + 1
              ELSE Cardinality(FailuresOf(o))
<1>1. log' = log \cup {e} /\ IsFiniteSet(log')
  BY FS_AddElement DEF Append
<1>2. /\ RequestsOf(o) \subseteq log /\ FailuresOf(o) \subseteq log
      /\ e \notin RequestsOf(o) /\ e \notin FailuresOf(o)
  BY DEF RequestsOf, FailuresOf
<1>3. /\ IsFiniteSet(RequestsOf(o)) /\ Cardinality(RequestsOf(o)) \in Nat
      /\ IsFiniteSet(FailuresOf(o)) /\ Cardinality(FailuresOf(o)) \in Nat
  BY <1>2, FS_Subset, FS_CardinalityType
<1>4. RequestsOf(o)' = IF e.order = o /\ e.kind = "cancel_request"
                       THEN RequestsOf(o) \cup {e} ELSE RequestsOf(o)
  BY <1>1 DEF RequestsOf
<1>5. FailuresOf(o)' =
        IF e.order = o /\ e.kind \in {"cancel_failed", "cancel_refused"}
        THEN FailuresOf(o) \cup {e} ELSE FailuresOf(o)
  BY <1>1 DEF FailuresOf
<1>6. /\ Cardinality(RequestsOf(o) \cup {e}) = Cardinality(RequestsOf(o)) + 1
      /\ Cardinality(FailuresOf(o) \cup {e}) = Cardinality(FailuresOf(o)) + 1
  BY <1>2, <1>3, FS_AddElement
<1>7. QED
  BY <1>1, <1>3, <1>4, <1>5, <1>6

(* A new event keeps the balance, a request if nothing blocks it and no    *)
(* failure is newer.                                                       *)
LEMMA AppendKeepsBalance ==
  ASSUME TypeOK, CancelBalance, NEW e \in Events, e \notin log, Append(e),
         e.kind = "cancel_request" =>
           /\ StatusOf(e.order) \notin BlockingStatuses
           /\ ~FailedSince(e, log')
  PROVE  /\ IsFiniteSet(log')
         /\ \A o \in Orders :
              Cardinality(RequestsOf(o)') <=
                Cardinality(FailuresOf(o)') + Blocked(o)'
<1> SUFFICES ASSUME NEW o \in Orders
             PROVE  /\ IsFiniteSet(log')
                    /\ Cardinality(RequestsOf(o)') <=
                         Cardinality(FailuresOf(o)') + Blocked(o)'
  <2>1. IsFiniteSet(log')
    BY FS_AddElement DEF CancelBalance, Append
  <2>2. QED
    BY <2>1
<1> DEFINE R == Cardinality(RequestsOf(o))
           F == Cardinality(FailuresOf(o))
<1>1. R <= F + Blocked(o)
  BY DEF CancelBalance
<1>2. /\ IsFiniteSet(log') /\ R \in Nat /\ F \in Nat
      /\ Cardinality(RequestsOf(o)') =
           IF e.order = o /\ e.kind = "cancel_request" THEN R + 1 ELSE R
      /\ Cardinality(FailuresOf(o)') =
           IF e.order = o /\ e.kind \in {"cancel_failed", "cancel_refused"}
           THEN F + 1 ELSE F
  BY CountsAfterAppend DEF CancelBalance
<1>3. /\ Blocked(o) \in 0..1 /\ Blocked(o)' \in 0..1
      /\ Blocked(o) = 1 <=> StatusOf(o) \in BlockingStatuses
      /\ Blocked(o)' = 1 <=> StatusOf(o)' \in BlockingStatuses
  BY DEF Blocked, BlockingStatuses
<1>4. CASE e.order # o
  <2>1. StatusOf(o)' = StatusOf(o)
    BY <1>4, AppendAdvances
  <2>2. QED
    BY <1>1, <1>2, <1>3, <1>4, <2>1
<1>5. CASE e.order = o /\ e.kind \in {"cancel_failed", "cancel_refused"}
  BY <1>1, <1>2, <1>3, <1>5
<1>6. CASE e.order = o /\ e.kind = "cancel_request"
  <2>1. StatusOf(o)' \in BlockingStatuses
    BY <1>6, AppendAdvances, UpdatedRowAdvances
  <2>2. StatusOf(o) \notin BlockingStatuses
    BY <1>6
  <2>3. QED
    BY <1>1, <1>2, <1>3, <1>6, <2>1, <2>2
<1>7. CASE /\ e.order = o
           /\ e.kind \notin {"cancel_failed", "cancel_refused", "cancel_request"}
  <2>1. StatusOf(o) \in BlockingStatuses => StatusOf(o)' \in BlockingStatuses
    BY <1>7, AppendAdvances, UpdatedRowAdvances
  <2>2. QED
    BY <1>1, <1>2, <1>3, <1>7, <2>1
<1>8. QED
  BY <1>4, <1>5, <1>6, <1>7

(* "Persists cancel pending and blocks duplicates", as long as no event of *)
(* the broker is handled twice.                                            *)
THEOREM CancelsAreBalanced ==
  ASSUME Redelivers = FALSE
  PROVE  Spec => []OneCancelPerFailure
<1>1. Init => CancelBalance
  <2> SUFFICES ASSUME Init PROVE CancelBalance
    OBVIOUS
  <2>1. IsFiniteSet({}) /\ Cardinality({}) = 0
    BY FS_EmptySet
  <2>2. \A o \in Orders : RequestsOf(o) = {} /\ FailuresOf(o) = {}
    BY DEF Init, RequestsOf, FailuresOf
  <2>3. \A o \in Orders : Blocked(o) \in 0..1
    BY DEF Blocked
  <2>4. QED
    BY <2>1, <2>2, <2>3 DEF Init, CancelBalance
<1>2. TypeOK /\ CancelBalance /\ [Next]_vars => CancelBalance'
  <2> SUFFICES ASSUME TypeOK, CancelBalance, [Next]_vars PROVE CancelBalance'
    OBVIOUS
  <2>1. ASSUME UNCHANGED <<log, link>>,
               canceling' \in {canceling, NoOrder}, now' \in {now, now + 1}
        PROVE  CancelBalance'
    <3>1. \A o \in Orders : /\ RequestsOf(o)' = RequestsOf(o)
                           /\ FailuresOf(o)' = FailuresOf(o)
                           /\ Blocked(o)' = Blocked(o)
      BY <2>1 DEF RequestsOf, FailuresOf, Blocked, StatusOf, HasRow,
                  BlockingStatuses
    <3>2. \A f \in log : f.ts \in Nat
      BY DEF TypeOK, Events, FromBroker, Reports, SubmitAcks, CancelAcks,
             CancelFailures, CancelRefusals, CancelRequests, Times
    <3>3. now \in Nat /\ now' \in Nat
      BY <2>1 DEF TypeOK, Times
    <3>4. QED
      BY <2>1, <3>1, <3>2, <3>3 DEF CancelBalance
  <2>2. ASSUME NEW e \in FromBroker, Deliver(e) PROVE CancelBalance'
    <3>1. e \in Events /\ e.kind # "cancel_request"
      BY DEF Events, FromBroker, Reports, SubmitAcks, CancelAcks, CancelFailures
    <3>2. QED
      BY <2>2, <3>1, AppendKeepsBalance DEF Deliver, CancelBalance
  <2>3. ASSUME NEW o \in Orders, RequestCancel(o) PROVE CancelBalance'
    <3> DEFINE e == CancelRequest(o)
    <3>1. /\ e \in Events /\ e.kind = "cancel_request" /\ e.order = o
          /\ e.ts = now
      BY DEF CancelRequest, Events, CancelRequests, TypeOK, HasRow, Rows
    <3>2. \A f \in log : f.ts \in Nat /\ f.ts < now
      BY <2>3 DEF RequestCancel, TypeOK, Events, FromBroker, Reports,
                  SubmitAcks, CancelAcks, CancelFailures, CancelRefusals,
                  CancelRequests, Times
    <3>3. now \in Nat
      BY DEF TypeOK, Times
    <3>4. e \notin log /\ log' = log \cup {e} /\ Append(e)
      BY <2>3, <3>1, <3>2, <3>3 DEF RequestCancel, Append
    <3>5. ~FailedSince(e, log')
      BY <3>1, <3>2, <3>3, <3>4 DEF FailedSince
    <3>6. /\ IsFiniteSet(log')
          /\ \A p \in Orders : Cardinality(RequestsOf(p)') <=
                              Cardinality(FailuresOf(p)') + Blocked(p)'
      BY <2>3, <3>1, <3>4, <3>5, AppendKeepsBalance DEF RequestCancel
    <3>7. \A f \in log' : f.kind = "cancel_refused" => f.ts < now'
      BY <2>3, <3>1, <3>2, <3>4 DEF RequestCancel
    <3>8. QED
      BY <3>6, <3>7 DEF CancelBalance
  <2>4. ASSUME CancelRefused PROVE CancelBalance'
    <3> DEFINE e == [kind |-> "cancel_refused", order |-> canceling, ts |-> now]
    <3>1. e \in Events /\ e.kind # "cancel_request" /\ Append(e)
      BY <2>4 DEF CancelRefused, Events, CancelRefusals, TypeOK
    <3>2. e \notin log
      BY <2>4 DEF CancelRefused, CancelBalance, TypeOK, Times
    <3>3. QED
      BY <2>4, <3>1, <3>2, AppendKeepsBalance DEF CancelBalance, CancelRefused
  <2>5. QED
    BY <2>1, <2>2, <2>3, <2>4
       DEF Next, Redeliver, CancelAccepted, Tick, vars, TypeOK, Times
<1>3. TypeOK /\ CancelBalance => OneCancelPerFailure
  <2> SUFFICES ASSUME TypeOK, CancelBalance, NEW o \in Orders
               PROVE  Cardinality(RequestsOf(o))
                        <= 1 + Cardinality(FailuresOf(o))
    BY DEF OneCancelPerFailure
  <2>1. /\ RequestsOf(o) \subseteq log /\ FailuresOf(o) \subseteq log
        /\ IsFiniteSet(log)
    BY DEF RequestsOf, FailuresOf, CancelBalance
  <2>2. /\ Cardinality(RequestsOf(o)) \in Nat
        /\ Cardinality(FailuresOf(o)) \in Nat
    BY <2>1, FS_Subset, FS_CardinalityType
  <2>3. QED
    BY <2>2 DEF CancelBalance, Blocked
<1>4. QED
  BY <1>1, <1>2, <1>3, TypeCorrect, PTL DEF Spec

-----------------------------------------------------------------------------
(* The ledger's view of an order                                           *)

(* The states that replaying yields, the orders' histories in full.        *)
IsState(s) ==
  /\ s = [cash |-> s.cash, shares |-> s.shares, local |-> s.local, broker |-> s.broker]
  /\ \A o \in DOMAIN s.broker : s.broker[o].status \in Normalized

FinalInState(s, o) == o \in DOMAIN s.broker /\ IsTerminal(s.broker[o].status)

FinalReport(e, o) ==
  /\ e.kind = "report" /\ e.order = o
  /\ IsTerminal(Normalize(e.word, e.filled, e.remaining))

LEMMA AdvanceBrokerKeepsFinal ==
  ASSUME NEW s, IsState(s), NEW o, NEW status \in Normalized, NEW ts
  PROVE  /\ IsState(AdvanceBroker(s, o, status, ts))
         /\ \A p : FinalInState(AdvanceBroker(s, o, status, ts), p)
                     <=> FinalInState(s, p) \/ (p = o /\ IsTerminal(status))
<1> DEFINE t == AdvanceBroker(s, o, status, ts)
           entry == [status |-> status, ts |-> ts]
<1>1. CASE o \in DOMAIN s.broker /\ ~BrokerAdvances(s.broker[o], status, ts)
  <2>1. t = s
    BY <1>1 DEF AdvanceBroker
  <2>2. IsTerminal(status) => IsTerminal(s.broker[o].status)
    BY <1>1 DEF IsState, BrokerAdvances, CanTransition, Followups, IsTerminal, Rank,
      TerminalRank, Normalized, Statuses, OpenStatuses, TerminalStatuses, OtherWords
  <2> QED
    BY <1>1, <2>1, <2>2 DEF FinalInState
<1>2. CASE ~(o \in DOMAIN s.broker /\ ~BrokerAdvances(s.broker[o], status, ts))
  <2>1. t = [s EXCEPT !.broker = With(s.broker, o, entry)]
    BY <1>2 DEF AdvanceBroker
  <2>2. t = [cash |-> s.cash, shares |-> s.shares, local |-> s.local,
             broker |-> With(s.broker, o, entry)]
    BY <2>1 DEF IsState
  <2>3. t.broker = With(s.broker, o, entry)
    BY <2>2
  <2>4. /\ DOMAIN t.broker = DOMAIN s.broker \cup {o}
        /\ t.broker[o].status = status
        /\ \A p \in DOMAIN s.broker : p # o => t.broker[p] = s.broker[p]
    BY <2>3 DEF With
  <2>5. FinalInState(s, o) => IsTerminal(status)
    BY <1>2 DEF FinalInState, IsState, BrokerAdvances, CanTransition, Followups, IsTerminal,
      Rank, TerminalRank, Normalized, Statuses, OpenStatuses, TerminalStatuses, OtherWords
  <2>6. IsState(t)
    <3>1. \A p \in DOMAIN t.broker : t.broker[p].status \in Normalized
      BY <2>4 DEF IsState
    <3> HIDE DEF t
    <3> QED
      BY <2>2, <3>1 DEF IsState
  <2> QED
    BY <2>4, <2>5, <2>6 DEF FinalInState
<1> QED
  BY <1>1, <1>2

LEMMA AdvanceLocalKeepsFinal ==
  ASSUME NEW s, IsState(s), NEW o, NEW new
  PROVE  /\ IsState(AdvanceLocal(s, o, new))
         /\ AdvanceLocal(s, o, new).broker = s.broker
<1>1. CASE AdvanceLocal(s, o, new) = s
  BY <1>1
<1>2. CASE AdvanceLocal(s, o, new) = [s EXCEPT !.local = With(s.local, o, new)]
  <2>1. AdvanceLocal(s, o, new) =
          [cash |-> s.cash, shares |-> s.shares, local |-> With(s.local, o, new),
           broker |-> s.broker]
    BY <1>2 DEF IsState
  <2> QED
    BY <2>1 DEF IsState
<1> QED
  BY <1>1, <1>2 DEF AdvanceLocal

(* One event: only a final report makes an order final, and nothing opens  *)
(* it again.                                                               *)
LEMMA ApplyEventKeepsFinal ==
  ASSUME NEW s, IsState(s), NEW e \in Events
  PROVE  /\ IsState(ApplyEvent(s, e))
         /\ \A o : FinalInState(ApplyEvent(s, e), o)
                     <=> FinalInState(s, o) \/ FinalReport(e, o)
<1>1. /\ e.kind \in {"report", "submit_ack", "cancel_ack", "cancel_failed",
                     "cancel_refused", "cancel_request"}
      /\ e.kind = "report" =>
           e.word \in Words /\ e.filled \in BOOLEAN /\ e.remaining \in BOOLEAN
  BY LinkAssumption DEF Events, FromBroker, Reports, SubmitAcks, CancelAcks,
                        CancelFailures, CancelRefusals, CancelRequests
<1>2. CASE e.kind = "report"
  <2> DEFINE status == Normalize(e.word, e.filled, e.remaining)
             t == AdvanceBroker(s, e.order, status, e.ts)
  <2>1. status \in Normalized
    BY <1>1, <1>2, NormalizeType
  <2>2. /\ IsState(t)
        /\ \A p : FinalInState(t, p) <=> FinalInState(s, p) \/ (p = e.order /\ IsTerminal(status))
    BY <2>1, AdvanceBrokerKeepsFinal
  <2>3. ApplyEvent(s, e) = AdvanceLocal(t, e.order, ToOrderStatus(status))
    BY <1>2 DEF ApplyEvent, Reported
  <2>4. \A o : FinalReport(e, o) <=> o = e.order /\ IsTerminal(status)
    BY <1>2 DEF FinalReport
  <2> HIDE DEF t, status
  <2>5. IsState(ApplyEvent(s, e)) /\ ApplyEvent(s, e).broker = t.broker
    BY <2>2, <2>3, AdvanceLocalKeepsFinal
  <2>6. \A p : FinalInState(ApplyEvent(s, e), p) <=> FinalInState(t, p)
    BY <2>5 DEF FinalInState
  <2> QED
    BY <2>2, <2>4, <2>5, <2>6
<1>3. CASE e.kind = "cancel_request"
  <2> DEFINE key == BrokerOrderKey(e)
             current == IF key \in DOMAIN s.broker THEN s.broker[key].status ELSE ""
             pending == IF current \in {"partially_filled", "partially_filled_cancel_pending"}
                        THEN "partially_filled_cancel_pending" ELSE "reported_cancel_pending"
             t == IF IsTerminal(current) THEN s ELSE AdvanceBroker(s, key, pending, e.ts)
  <2>1. ApplyEvent(s, e) = AdvanceLocal(t, e.order, "submitted")
    BY <1>3 DEF ApplyEvent, CancelRequested
  <2>2. pending \in Normalized /\ ~IsTerminal(pending)
    BY DEF Normalized, Statuses, OpenStatuses, IsTerminal, TerminalStatuses
  <2> HIDE DEF key, pending
  <2>3. IsState(t) /\ \A p : FinalInState(t, p) <=> FinalInState(s, p)
    <3>1. CASE IsTerminal(current)
      BY <3>1
    <3>2. CASE ~IsTerminal(current)
      BY <2>2, <3>2, AdvanceBrokerKeepsFinal
    <3> QED
      BY <3>1, <3>2
  <2> HIDE DEF t
  <2>4. IsState(ApplyEvent(s, e)) /\ ApplyEvent(s, e).broker = t.broker
    BY <2>1, <2>3, AdvanceLocalKeepsFinal
  <2>5. \A p : FinalInState(ApplyEvent(s, e), p) <=> FinalInState(t, p)
    BY <2>4 DEF FinalInState
  <2> QED
    BY <1>3, <2>3, <2>4, <2>5 DEF FinalReport
<1>4. CASE e.kind \in {"submit_ack", "cancel_ack", "cancel_failed", "cancel_refused"}
  <2>1. ApplyEvent(s, e) = s
    BY <1>4 DEF ApplyEvent
  <2> QED
    BY <1>4, <2>1 DEF FinalReport
<1> QED
  BY <1>1, <1>2, <1>3, <1>4

LEMMA EventsAreOrdered ==
  ASSUME NEW S \in SUBSET Events
  PROVE  Ordered(S)
<1> SUFFICES ASSUME NEW e \in Events PROVE e.ts \in Nat /\ Priority(e.kind) \in Nat
  BY DEF Ordered
<1>1. e.ts \in Nat
  BY DEF Times, Events, FromBroker, Reports, SubmitAcks, CancelAcks, CancelFailures,
         CancelRefusals, CancelRequests
<1>2. e.kind \in {"report", "submit_ack", "cancel_ack", "cancel_failed",
                  "cancel_refused", "cancel_request"}
  BY DEF Events, FromBroker, Reports, SubmitAcks, CancelAcks, CancelFailures,
         CancelRefusals, CancelRequests
<1> QED
  BY <1>1, <1>2 DEF Priority

(* The ledger shows an order final when the log has a final report of it.  *)
LEMMA ReplayedIsFinal ==
  ASSUME NEW S \in SUBSET Events, IsFiniteSet(S), NEW cash, NEW shares
  PROVE  \A o : FinalInState(Replay(S, Fresh(cash, shares)), o)
                  <=> \E e \in S : FinalReport(e, o)
<1> DEFINE st(A) == Replay(A, Fresh(cash, shares))
           Good == {A \in SUBSET S :
                      /\ IsState(st(A))
                      /\ \A o : FinalInState(st(A), o) <=> \E e \in A : FinalReport(e, o)}
<1>1. \A A \in SUBSET S : IsFiniteSet(A) /\ Ordered(A)
  BY EventsAreOrdered, FS_Subset
<1>2. {} \in Good
  <2>1. IsFiniteSet({}) /\ Ordered({})
    BY <1>1
  <2>2. Replay({}, Fresh(cash, shares)) = Fresh(cash, shares)
    BY <2>1, ReplayStep
  <2>3. /\ IsState(Fresh(cash, shares))
        /\ \A o : ~FinalInState(Fresh(cash, shares), o)
    BY DEF IsState, FinalInState, Fresh, NoOrders
  <2> QED
    BY <2>2, <2>3
<1>3. ASSUME NEW A \in SUBSET S, A # {}, A \ {LastOf(A)} \in Good
      PROVE  A \in Good
  <2> DEFINE l == LastOf(A)
             B == A \ {l}
  <2>1. l \in A /\ l \in Events
    BY <1>1, <1>3, LastOfIsLast
  <2>2. IsState(st(B)) /\ \A o : FinalInState(st(B), o) <=> \E e \in B : FinalReport(e, o)
    BY <1>3
  <2>3. st(A) = ApplyEvent(st(B), l)
    BY <1>1, <1>3, ReplayStep
  <2> HIDE DEF l, st
  <2>4. /\ IsState(st(A))
        /\ \A o : FinalInState(st(A), o) <=> FinalInState(st(B), o) \/ FinalReport(l, o)
    BY <2>1, <2>2, <2>3, ApplyEventKeepsFinal
  <2>5. \A o : (\E e \in A : FinalReport(e, o))
                 <=> (\E e \in B : FinalReport(e, o)) \/ FinalReport(l, o)
    BY <2>1
  <2> QED
    BY <2>2, <2>4, <2>5
<1> HIDE DEF Good
<1>4. Ordered(S)
  BY <1>1
<1>5. \A A \in SUBSET S : A \in Good
  BY <1>2, <1>3, <1>4, LogInduction
<1> QED
  BY <1>5 DEF Good

-----------------------------------------------------------------------------
(* The row of an order is final only by a final report.                    *)
FinalIsReported ==
  /\ IsFiniteSet(log)
  /\ \A o \in Orders : IsTerminal(StatusOf(o)) => \E e \in log : FinalReport(e, o)

(* An event makes the row of its order final only by being a final report. *)
LEMMA FinalByReport ==
  ASSUME TypeOK, NEW e \in Events, NEW L, IsTerminal(RowStatus(UpdatedRow(e, L)))
  PROVE  IsTerminal(StatusOf(e.order)) \/ FinalReport(e, e.order)
<1> DEFINE o == e.order
           row == UpdatedRow(e, L)
<1> SUFFICES ASSUME ~IsTerminal(StatusOf(o)) PROVE FinalReport(e, o)
  OBVIOUS
<1>1. /\ o \in Orders
      /\ e.ts \in Times
      /\ e.kind \in {"report", "submit_ack", "cancel_ack", "cancel_failed",
                     "cancel_refused", "cancel_request"}
      /\ e.kind = "cancel_request" => e.known \in BOOLEAN
  BY LinkAssumption DEF Events, FromBroker, Reports, SubmitAcks, CancelAcks,
                        CancelFailures, CancelRefusals, CancelRequests
<1>2. /\ link[o] \in Rows \cup {NoRow}
      /\ StatusOf(o) = RowStatus(link[o])
      /\ HasRow(o) <=> link[o] # NoRow
  BY <1>1, StatusType DEF TypeOK, StatusOf, HasRow, RowStatus
<1>3. ASSUME NEW known \in BOOLEAN PROVE row # PendingRow(o, known)
  <2>1. PendingRow(o, known).status \in PendingStatuses /\ PendingRow(o, known) \in Rows
    BY <1>1, PendingRowAdvances
  <2>2. ~IsTerminal(RowStatus(PendingRow(o, known)))
    BY <2>1, NoRowAssumption DEF RowStatus, PendingStatuses, IsTerminal, TerminalStatuses
  <2> QED
    BY <2>2
<1>4. row # link[o]
  BY <1>2
<1>5. ASSUME NEW reported, row = ReportedRow(o, reported, e.ts) PROVE IsTerminal(reported)
  <2>1. CASE ~Advances(o, Incoming(o, reported), e.ts)
    <3>1. row = [link[o] EXCEPT !.known = TRUE] /\ link[o] \in Rows
      BY <1>2, <1>5, <2>1 DEF ReportedRow, Advances
    <3>2. row.status = link[o].status /\ StatusOf(o) = link[o].status /\ row \in Rows
      BY <1>2, <3>1, NoRowAssumption DEF Rows, RowStatus
    <3> QED
      BY <3>2, NoRowAssumption DEF RowStatus
  <2>2. CASE Advances(o, Incoming(o, reported), e.ts)
    <3>1. row.status = IF KeepsPending(o, Incoming(o, reported)) THEN StatusOf(o)
                       ELSE Incoming(o, reported)
      BY <1>5, <2>2 DEF ReportedRow
    <3>2. IsTerminal(row.status)
      BY DEF RowStatus, IsTerminal, TerminalStatuses
    <3> QED
      BY <3>1, <3>2 DEF Incoming, IsTerminal, TerminalStatuses
  <2> QED
    BY <2>1, <2>2
<1>6. CASE e.kind = "report"
  <2>1. row = ReportedRow(o, Normalize(e.word, e.filled, e.remaining), e.ts)
    BY <1>6 DEF UpdatedRow
  <2> QED
    BY <1>5, <1>6, <2>1 DEF FinalReport
<1>7. CASE e.kind = "submit_ack"
  <2>1. row = ReportedRow(o, "reported", e.ts)
    BY <1>7 DEF UpdatedRow
  <2> QED
    BY <1>5, <2>1 DEF IsTerminal, TerminalStatuses
<1>8. CASE e.kind = "cancel_ack"
  BY <1>3, <1>4, <1>8 DEF UpdatedRow, CancelAckedRow
<1>9. CASE e.kind = "cancel_request"
  BY <1>1, <1>3, <1>4, <1>9 DEF UpdatedRow, RequestedRow
<1>10. CASE e.kind \in {"cancel_failed", "cancel_refused"}
  <2>1. row = CancelFailedRow(e)
    BY <1>10 DEF UpdatedRow
  <2>2. CASE Resolved(e) /\ StatusOf(o) \in PendingStatuses
    <3>1. HasRow(o)
      BY <2>2 DEF StatusOf, PendingStatuses
    <3>2. \E s \in {"reported", "partially_filled"} : row = [link[o] EXCEPT !.status = s]
      BY <2>1, <2>2 DEF CancelFailedRow, PendingStatuses
    <3>3. PICK s \in {"reported", "partially_filled"} : row = [link[o] EXCEPT !.status = s]
      BY <3>2
    <3>4. row \in Rows /\ row.status = s
      BY <1>2, <3>1, <3>3 DEF Rows, Normalized, Statuses, OpenStatuses
    <3> QED
      BY <3>4, NoRowAssumption DEF RowStatus, IsTerminal, TerminalStatuses
  <2>3. CASE ~(Resolved(e) /\ StatusOf(o) \in PendingStatuses)
    BY <1>4, <2>1, <2>3 DEF CancelFailedRow, PendingStatuses
  <2> QED
    BY <2>2, <2>3
<1> QED
  BY <1>1, <1>6, <1>7, <1>8, <1>9, <1>10

LEMMA FinalReportsInvariant == Spec => []FinalIsReported
<1>1. Init => FinalIsReported
  BY FS_EmptySet DEF Init, FinalIsReported, StatusOf, HasRow, IsTerminal, TerminalStatuses
<1>2. TypeOK /\ FinalIsReported /\ [Next]_vars => FinalIsReported'
  <2> SUFFICES ASSUME TypeOK, FinalIsReported, [Next]_vars PROVE FinalIsReported'
    OBVIOUS
  <2>1. CASE UNCHANGED <<log, link>>
    BY <2>1 DEF FinalIsReported, StatusOf, HasRow
  <2>2. ASSUME NEW e \in Events, Append(e) PROVE FinalIsReported'
    <3>1. log' = log \cup {e} /\ IsFiniteSet(log')
      BY <2>2, FS_AddElement DEF Append, FinalIsReported
    <3>2. ASSUME NEW o \in Orders, IsTerminal(StatusOf(o)')
          PROVE  \E r \in log' : FinalReport(r, o)
      <4>1. CASE o # e.order
        <5>1. StatusOf(o)' = StatusOf(o)
          BY <2>2, <4>1, AppendAdvances
        <5> QED
          BY <3>1, <3>2, <5>1 DEF FinalIsReported
      <4>2. CASE o = e.order
        <5>1. StatusOf(e.order)' = RowStatus(UpdatedRow(e, log'))
          BY <2>2, AppendAdvances
        <5>2. IsTerminal(RowStatus(UpdatedRow(e, log')))
          BY <3>2, <4>2, <5>1
        <5>3. IsTerminal(StatusOf(o)) \/ FinalReport(e, o)
          BY <4>2, <5>2, FinalByReport
        <5> QED
          BY <3>1, <5>3 DEF FinalIsReported
      <4> QED
        BY <4>1, <4>2
    <3>3. \A o \in Orders : IsTerminal(StatusOf(o))' => IsTerminal(StatusOf(o)')
      BY DEF IsTerminal
    <3> QED
      BY <3>1, <3>2, <3>3 DEF FinalIsReported
  <2> QED
    BY <2>1, <2>2, StepsAppend
<1> QED
  BY <1>1, <1>2, TypeCorrect, PTL DEF Spec

(* The row and the replayed log agree on which orders are over, however    *)
(* the reports were delayed, reordered or repeated.                        *)
THEOREM ViewsAgreeOnFinal == Spec => []FinalInBothViews
<1>1. TypeOK /\ ReportsAreReflected /\ FinalIsReported => FinalInBothViews
  <2> SUFFICES ASSUME TypeOK, ReportsAreReflected, FinalIsReported, NEW o \in Orders
               PROVE  IsTerminal(StatusOf(o)) <=> FinalInState(Replayed, o)
    BY DEF FinalInBothViews, FinalInState, Known
  <2>1. FinalInState(Replayed, o) <=> \E e \in log : FinalReport(e, o)
    <3>1. log \in SUBSET Events /\ IsFiniteSet(log)
      BY DEF TypeOK, FinalIsReported
    <3> QED
      BY <3>1, ReplayedIsFinal DEF Replayed
  <2>2. ASSUME NEW e \in log, FinalReport(e, o) PROVE IsTerminal(StatusOf(o))
    <3>1. e \in Reports
      BY <2>2 DEF FinalReport, TypeOK, Events, FromBroker, Reports, SubmitAcks, CancelAcks,
                  CancelFailures, CancelRefusals, CancelRequests
    <3> DEFINE reported == Normalize(e.word, e.filled, e.remaining)
    <3>2. reported \in Normalized
      BY <3>1, NormalizeType, LinkAssumption DEF Reports
    <3>3. Progress(StatusOf(o)) >= Progress(reported)
      BY <2>2 DEF ReportsAreReflected, FinalReport
    <3>4. StatusOf(o) \in Normalized
      BY StatusType
    <3>5. Progress(reported) >= TerminalRank /\ Progress(reported) \in Nat
      BY <2>2, <3>2, FinalIsFurthest DEF FinalReport
    <3>6. Progress(StatusOf(o)) \in Nat
      BY <3>4, FinalIsFurthest
    <3>7. Progress(StatusOf(o)) >= TerminalRank
      BY <3>3, <3>5, <3>6 DEF TerminalRank
    <3> QED
      BY <3>4, <3>7, FinalIsFurthest
  <2> QED
    BY <2>1, <2>2 DEF FinalIsReported
<1> QED
  BY <1>1, TypeCorrect, NoReportIsLost, FinalReportsInvariant, PTL

-----------------------------------------------------------------------------
(* The host service                                                        *)

(* What stop() captured; Nat bounds the clients, who are numbered in the   *)
(* order in which they were built.                                         *)
StopCalls == [at : {"joining", "closed"}, thread : Supervisors \cup {NoThread}, client : Nat]

HostTypes ==
  /\ health \in Health
  /\ built \in Nat /\ hostClient \in 0..built
  /\ closed \in SUBSET (1..built)
  /\ thread \in Supervisors \cup {NoThread}
  /\ sup \in [Supervisors ->
       {"unborn", "asleep", "connecting", "demoting", "promoting", "dead"}]
  /\ stopper \in StopCalls \cup {Idle}
  /\ stopper # Idle => stopper.client <= built

(* A stop() call closes the client it captured and forgets it with the     *)
(* same stroke that makes the host "stopped"; in between only the client   *)
(* of an unfinished call can be closed while it is the host's.             *)
HeldIsOpen == (stopper # Idle => stopper.at = "joining") => hostClient \notin closed
LiveHoldsOne == health \in {"ready", "degraded"} => hostClient # NoHostClient

HostInv == HostTypes /\ HeldIsOpen /\ LiveHoldsOne

LEMMA HostStarts == HostInit => HostInv
  BY SMT DEF HostInit, HostInv, HostTypes, HeldIsOpen, LiveHoldsOne, Health, Idle,
    NoHostClient, NoThread

LEMMA HostSteps == HostInv /\ [HostNext]_hostVars => HostInv'
<1> SUFFICES ASSUME HostInv, [HostNext]_hostVars PROVE HostInv'
  OBVIOUS
<1> USE DEF HostInv, HostTypes, HeldIsOpen, LiveHoldsOne, Health, NoHostClient
<1>0. stopper # Idle => stopper \in StopCalls
  OBVIOUS
<1>1. CASE Start
  BY <1>1, SMT DEF Start, NoThread
<1>2. CASE StopBegin
  <2>1. stopper' = [at |-> "joining", thread |-> thread, client |-> hostClient]
    BY <1>2 DEF StopBegin
  <2>2. stopper' \in StopCalls /\ stopper'.client <= built /\ stopper'.at = "joining"
    BY <2>1, SMT DEF StopCalls
  <2> QED
    BY <1>2, <2>2, SMT DEF StopBegin
<1>3. CASE StopJoined
  <2>1. stopper # Idle /\ stopper.at = "joining"
    BY <1>3 DEF StopJoined, Idle
  <2>2. stopper' \in StopCalls /\ stopper'.client = stopper.client /\ stopper'.at = "closed"
    BY <1>0, <1>3, <2>1, SMT DEF StopJoined, StopCalls
  <2>3. stopper' # Idle
    BY <2>2 DEF Idle
  <2>4. closed' \in SUBSET (1..built)
    BY <1>0, <1>3, <2>1, SMT DEF StopJoined, StopCalls
  <2> QED
    BY <1>3, <2>1, <2>2, <2>3, <2>4, SMT DEF StopJoined
<1>4. CASE StopEnd
  BY <1>4, SMT DEF StopEnd, NoThread
<1>5. CASE NotifyDisconnected
  BY <1>5, SMT DEF NotifyDisconnected
<1>6. CASE CallbackActivity
  BY <1>6, SMT DEF CallbackActivity
<1>7. CASE Subscription
  BY <1>7, SMT DEF Subscription
<1>8. ASSUME NEW s \in Supervisors, Turn(s) \/ RetryDue(s) PROVE HostInv'
  <2>1. CASE Observe(s)
    BY <2>1, SMT DEF Observe, Observed
  <2>2. CASE Connected(s)
    <3>1. built' = built + 1 /\ hostClient' = built + 1 /\ closed' = closed
          /\ health' = "ready" /\ thread' = thread /\ stopper' = stopper
          /\ sup' = [sup EXCEPT ![s] = "asleep"]
      BY <2>2, Zenon DEF Connected
    <3>2. built' \in Nat /\ hostClient' \in 0..built' /\ hostClient' # 0
          /\ hostClient' \notin closed'
      BY <3>1
    <3>3. closed' \in SUBSET (1..built')
      BY <3>1
    <3>4. stopper' # Idle => stopper'.client <= built'
      <4>1. stopper # Idle => stopper.client \in Nat
        BY <1>0 DEF StopCalls
      <4> QED
        BY <3>1, <4>1
    <3> QED
      BY <3>1, <3>2, <3>3, <3>4
  <2>3. CASE ConnectFails(s)
    BY <2>3, SMT DEF ConnectFails
  <2>4. CASE Demote(s)
    BY <2>4, SMT DEF Demote
  <2>5. CASE Promote(s)
    BY <2>5, SMT DEF Promote
  <2>6. CASE RetryDue(s)
    BY <2>6, SMT DEF RetryDue
  <2> QED
    BY <1>8, <2>1, <2>2, <2>3, <2>4, <2>5, <2>6 DEF Turn
<1>9. CASE UNCHANGED hostVars
  BY <1>9, SMT DEF hostVars
<1> QED
  BY <1>1, <1>2, <1>3, <1>4, <1>5, <1>6, <1>7, <1>8, <1>9 DEF HostNext

(* A host that says it is ready or degraded holds a client, and an open    *)
(* one outside a stop() call, however many supervisors, living or left     *)
(* over from an earlier start(), acted on what they saw before.            *)
THEOREM ReadyHostsHoldOpenClients == HostSpec => []ReadyClientIsOpen
<1>1. HostInv => ReadyClientIsOpen
  BY DEF HostInv, HeldIsOpen, LiveHoldsOne, ReadyClientIsOpen
<1> QED
  BY HostStarts, HostSteps, <1>1, PTL DEF HostSpec

-----------------------------------------------------------------------------
(* The session manager                                                     *)

SessionTypes ==
  /\ owners \in SUBSET Owners
  /\ made \in Nat /\ client \in Nat
  /\ listenerKey \in BOOLEAN
  /\ cached \in [Owners -> Nat]

(* The key has a listener exactly while it has a client, so that a client  *)
(* built for it is always given one; and a client closes only as the last  *)
(* owner leaves.                                                           *)
KeyWithClient == listenerKey <=> client # NoClient
ClientServes == client # NoClient => client \in open /\ client \in listening
OwnersHoldIt == \A o \in owners : client # NoClient /\ cached[o] = client

SessionInv == SessionTypes /\ KeyWithClient /\ ClientServes /\ OwnersHoldIt

LEMMA SessionStarts == SessionInit => SessionInv
<1> SUFFICES ASSUME SessionInit PROVE SessionInv
  OBVIOUS
<1>1. /\ owners = {} /\ client = NoClient /\ made = 0 /\ listenerKey = FALSE
      /\ cached = [o \in Owners |-> NoClient]
  BY Zenon DEF SessionInit
<1> QED
  BY <1>1 DEF SessionInv, SessionTypes, KeyWithClient, ClientServes, OwnersHoldIt, NoClient

(* resolve() leaves a client that is open and heard, and the old one if    *)
(* there was one.                                                          *)
LEMMA ResolvedClient ==
  ASSUME SessionInv, Resolve
  PROVE  /\ made' \in Nat /\ client' \in Nat /\ client' # NoClient
         /\ listenerKey' = TRUE
         /\ client' \in open' /\ client' \in listening'
         /\ client # NoClient => client' = client
         /\ client = NoClient => owners = {}
<1> USE DEF SessionInv, SessionTypes, KeyWithClient, ClientServes, OwnersHoldIt, NoClient
<1>1. CASE client # NoClient
  BY <1>1, SMT DEF Resolve
<1>2. CASE client = NoClient
  BY <1>2, SMT DEF Resolve
<1> QED
  BY <1>1, <1>2

LEMMA SessionSteps == SessionInv /\ [SessionNext]_sessionVars => SessionInv'
<1> SUFFICES ASSUME SessionInv, [SessionNext]_sessionVars PROVE SessionInv'
  OBVIOUS
<1> USE DEF SessionInv, SessionTypes, KeyWithClient, ClientServes, OwnersHoldIt, NoClient
<1>1. ASSUME NEW o \in Owners, Use(o) PROVE SessionInv'
  <2>1. Resolve /\ cached' = [cached EXCEPT ![o] = client'] /\ owners' = owners
        /\ cached[o] = NoClient
    BY <1>1, Zenon DEF Use
  <2>2. owners # {} => client # NoClient /\ client' = client
    BY <2>1, ResolvedClient, Zenon
  <2> QED
    BY <2>1, <2>2, ResolvedClient
<1>2. ASSUME NEW o \in Owners, Attach(o) PROVE SessionInv'
  <2>1. Resolve /\ cached' = [cached EXCEPT ![o] = client'] /\ owners' = owners \cup {o}
    BY <1>2, Zenon DEF Attach
  <2>2. owners # {} => client # NoClient /\ client' = client
    BY <2>1, ResolvedClient, Zenon
  <2>3. \A p \in owners' : cached'[p] = client'
    BY <2>1, <2>2
  <2> QED
    BY <2>1, <2>3, ResolvedClient
<1>3. ASSUME NEW o \in Owners, LastSync(o) PROVE SessionInv'
  <2>1. CASE Use(o)
    BY <1>1, <2>1
  <2>2. CASE UNCHANGED <<owners, client, made, open, listening, listenerKey, cached>>
    BY <2>2, SMT
  <2> QED
    BY <1>3, <2>1, <2>2 DEF LastSync
<1>4. ASSUME NEW o \in Owners, Detach(o) PROVE SessionInv'
  <2> DEFINE left == owners \ {o}
             unused == left \cap Deployments = {} /\ ~Residents(left)
  <2>1. owners' = left /\ made' = made /\ listening' = listening
    BY <1>4 DEF Detach
  <2>2. unused => left = {}
    BY DEF Owners, Residents
  <2>3. cached' = [cached EXCEPT ![o] = IF unused THEN NoClient ELSE @]
    BY <1>4 DEF Detach
  <2>4. \A p \in left : cached'[p] = cached[p]
    BY <2>3
  <2>5. cached' \in [Owners -> Nat]
    BY <2>3, SMT
  <2>6. CASE o \in owners /\ client # NoClient /\ unused
    <3>1. client' = NoClient /\ listenerKey' = FALSE
      BY <1>4, <2>6 DEF Detach, Close
    <3>2. owners' = {}
      BY <2>1, <2>2, <2>6
    <3> QED
      BY <2>1, <2>5, <3>1, <3>2
  <2>7. CASE ~(o \in owners /\ client # NoClient /\ unused)
    <3>1. client' = client /\ listenerKey' = listenerKey /\ open' = open
      BY <1>4, <2>7 DEF Detach
    <3>2. left \in SUBSET owners
      OBVIOUS
    <3> HIDE DEF left, unused
    <3> QED
      BY <2>1, <2>4, <2>5, <3>1, <3>2, SMT
  <2> QED
    BY <2>6, <2>7
<1>5. CASE Supervise
  BY <1>5, SMT DEF Supervise, clientVars
<1>6. CASE SuperviseEnds
  <2>1. UNCHANGED <<owners, client, made, open, listening, listenerKey, cached>>
    BY <1>6, Zenon DEF SuperviseEnds, SuperviseHealthy, SuperviseDeferred,
      SuperviseReconnects, clientVars
  <2> QED
    BY <2>1, SMT
<1>7. ASSUME NEW c \in Clients, ConsumerEnds(c) \/ Disconnected(c) \/ RetryIsDue(c)
      PROVE SessionInv'
  BY <1>7, SMT DEF ConsumerEnds, Disconnected, RetryIsDue
<1>8. CASE UNCHANGED sessionVars
  BY <1>8, SMT DEF sessionVars
<1> QED
  BY <1>1, <1>2, <1>3, <1>4, <1>5, <1>6, <1>7, <1>8 DEF SessionNext, UseUnattached

(* Every owner of a session holds its one client, which is open and        *)
(* reports to the manager: nobody's leaving closes it for another, nobody  *)
(* keeps the client of an earlier session, and a session closed and built  *)
(* anew is heard too.                                                      *)
THEOREM OwnersHoldTheHeardClient == SessionSpec => []OwnersShareAHeardClient
<1>1. SessionInv => OwnersShareAHeardClient
  BY DEF SessionInv, ClientServes, OwnersHoldIt, OwnersShareAHeardClient,
    OwnersShareAnOpenClient, CurrentClientIsHeard
<1> QED
  BY SessionStarts, SessionSteps, <1>1, PTL DEF SessionSpec
=============================================================================
