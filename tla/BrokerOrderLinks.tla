--------------------------- MODULE BrokerOrderLinks ---------------------------
(***************************************************************************)
(* The broker-order link table of ez/live: one row per client order with   *)
(* the latest broker status, updated in the same transaction as the event  *)
(* log.  Reports, acknowledgements and cancel failures arrive from broker  *)
(* callbacks and from state pumps, late, out of order and more than once   *)
(* (INSERT OR IGNORE drops the second copy from the log, but the row is    *)
(* updated again); operators request cancels through the scheduler.        *)
(*                                                                         *)
(* A pump's transaction (events, then its reports once more) is a sequence *)
(* of Deliver steps.  The deployment, broker type and account are fixed,   *)
(* every report carries its client order id, and an order's broker id is   *)
(* its own; a callback may lack the client order id.                       *)
(***************************************************************************)
EXTENDS Integers, FiniteSets, BrokerOrderStatus

CONSTANTS
  Orders,        \* client order ids
  ReportWords,   \* the status words the broker uses
  LastTs,        \* bound: timestamps are 1..LastTs
  MaxEvents,     \* bound: size of the event log
  Redelivers,    \* the broker side hands events over again
  NoRow,         \* sentinel: no row for this order
  NoOrder        \* sentinel: no cancel call in progress

Times == 1..LastTs
NoTs == 0

ASSUME LinkAssumption ==
  /\ LastTs \in Nat \ {0}
  /\ MaxEvents \in Nat
  /\ ReportWords \subseteq Words
  /\ Redelivers \in BOOLEAN
  /\ NoOrder \notin Orders

(* Rows: the broker id is known, the latest status, last_report_ts.        *)
Rows == [known : BOOLEAN, status : Normalized, reportTs : {NoTs} \cup Times]

ASSUME NoRowAssumption == NoRow \notin Rows

(* Log entries.  cancel_failed is the broker's asynchronous answer,        *)
(* cancel_refused the scheduler's own record of a failed call.  named: the *)
(* payload carries the client order id; known: a cancel request that       *)
(* carries the broker order id.                                            *)
Reports ==
  [kind : {"report"}, order : Orders, ts : Times, word : ReportWords,
   filled : BOOLEAN, remaining : BOOLEAN]
SubmitAcks == [kind : {"submit_ack"}, order : Orders, ts : Times]
CancelAcks ==
  [kind : {"cancel_ack"}, order : Orders, ts : Times, named : BOOLEAN]
CancelFailures ==
  [kind : {"cancel_failed"}, order : Orders, ts : Times, named : BOOLEAN]
CancelRefusals == [kind : {"cancel_refused"}, order : Orders, ts : Times]
CancelRequests ==
  [kind : {"cancel_request"}, order : Orders, ts : Times, known : BOOLEAN]

FromBroker == Reports \cup SubmitAcks \cup CancelAcks \cup CancelFailures
Events == FromBroker \cup CancelRefusals \cup CancelRequests

VARIABLES
  log,         \* deployment_events
  link,        \* deployment_broker_order_links, by client order id
  canceling,   \* the order whose cancel call is out
  now          \* the clock

vars == <<log, link, canceling, now>>

TypeOK ==
  /\ log \in SUBSET Events
  /\ link \in [Orders -> Rows \cup {NoRow}]
  /\ canceling \in Orders \cup {NoOrder}
  /\ now \in Times

HasRow(o) == link[o] # NoRow
StatusOf(o) == IF HasRow(o) THEN link[o].status ELSE "unknown"

PendingStatuses == {"reported_cancel_pending",
                    "partially_filled_cancel_pending"}

-----------------------------------------------------------------------------
(* Reports.  A partial fill keeps a pending cancel pending, and so does a  *)
(* late "reported", which only refreshes the row's metadata.               *)

(* Mutant: a fill takes a pending cancel away.                             *)
IncomingPlain(o, status) == status

Incoming(o, status) ==
  IF StatusOf(o) \in PendingStatuses /\ status = "partially_filled"
  THEN "partially_filled_cancel_pending"
  ELSE status

KeepsPending(o, status) ==
  StatusOf(o) = "reported_cancel_pending" /\ status = "reported"

(* Mutant: the latest timestamp wins.                                      *)
AdvancesByTime(o, status, ts) == ~HasRow(o) \/ ts >= link[o].reportTs

Advances(o, status, ts) ==
  \/ ~HasRow(o)
  \/ KeepsPending(o, status)
  \/ Rank(status) > Rank(StatusOf(o))
  \/ Rank(status) = Rank(StatusOf(o)) /\ ts >= link[o].reportTs

ReportedRow(o, reported, ts) ==
  LET status == Incoming(o, reported) IN
  IF ~Advances(o, status, ts) THEN [link[o] EXCEPT !.known = TRUE]
  ELSE [known |-> TRUE,
        status |-> IF KeepsPending(o, status) THEN StatusOf(o) ELSE status,
        reportTs |-> ts]

(* A pending cancel: what the row of an open order becomes.                *)
PendingStatus(o) ==
  IF StatusOf(o) \in {"partially_filled", "partially_filled_cancel_pending"}
  THEN "partially_filled_cancel_pending"
  ELSE "reported_cancel_pending"

PendingRow(o, known) ==
  [known |-> known,
   status |-> PendingStatus(o),
   reportTs |-> IF HasRow(o) THEN link[o].reportTs ELSE NoTs]

(* _has_later_cancel_failed_runtime_locked: the failure names the order,   *)
(* or carries the broker id the request knew.                              *)
FailedSince(e, L) ==
  \E f \in L : /\ f.order = e.order
               /\ f.ts >= e.ts
               /\ \/ f.kind = "cancel_refused"
                  \/ f.kind = "cancel_failed" /\ (f.named \/ e.known)

(* A callback without a client order id is resolved by its broker id.      *)
Resolved(e) ==
  e.kind = "cancel_refused" \/ e.named \/ (HasRow(e.order) /\ link[e.order].known)

RequestedRow(e, L) ==
  IF IsTerminal(StatusOf(e.order)) \/ FailedSince(e, L)
  THEN link[e.order]
  ELSE PendingRow(e.order, e.known)

(* Mutant: an acknowledgement re-opens an order that is final.             *)
CancelAckedRowAnyStatus(e) ==
  IF ~Resolved(e) THEN link[e.order] ELSE PendingRow(e.order, TRUE)

CancelAckedRow(e) ==
  IF ~Resolved(e) \/ IsTerminal(StatusOf(e.order))
  THEN link[e.order]
  ELSE PendingRow(e.order, TRUE)

CancelFailedRow(e) ==
  CASE Resolved(e) /\ StatusOf(e.order) = "reported_cancel_pending" ->
         [link[e.order] EXCEPT !.status = "reported"]
    [] Resolved(e) /\ StatusOf(e.order) = "partially_filled_cancel_pending" ->
         [link[e.order] EXCEPT !.status = "partially_filled"]
    [] OTHER -> link[e.order]

(* The row after event e was appended to the log, which is now L.          *)
UpdatedRow(e, L) ==
  CASE e.kind = "report" ->
         ReportedRow(e.order, Normalize(e.word, e.filled, e.remaining), e.ts)
    [] e.kind = "submit_ack" -> ReportedRow(e.order, "reported", e.ts)
    [] e.kind = "cancel_ack" -> CancelAckedRow(e)
    [] e.kind \in {"cancel_failed", "cancel_refused"} -> CancelFailedRow(e)
    [] e.kind = "cancel_request" -> RequestedRow(e, L)

(* append_events: INSERT OR IGNORE, and the row is updated either way.     *)
Append(e) ==
  /\ log' = log \cup {e}
  /\ link' = [link EXCEPT ![e.order] = UpdatedRow(e, log \cup {e})]
-----------------------------------------------------------------------------
Init ==
  /\ log = {}
  /\ link = [o \in Orders |-> NoRow]
  /\ canceling = NoOrder
  /\ now = 1

(* A callback or a pump hands over what the broker said at or before now.  *)
Deliver(e) ==
  /\ canceling = NoOrder
  /\ e \notin log
  /\ e.ts <= now
  /\ Cardinality(log) < MaxEvents
  /\ Append(e)
  /\ UNCHANGED <<canceling, now>>

(* The runtime journal is read from the last timestamp on, inclusively,    *)
(* and a pump repeats what a callback has already persisted.               *)
Redeliver(e) ==
  /\ Redelivers
  /\ canceling = NoOrder
  /\ e \in log \cap FromBroker
  /\ Append(e)
  /\ UNCHANGED <<canceling, now>>

BlockingStatuses == PendingStatuses \cup TerminalStatuses

(* cancel_order records the request and calls the broker without giving up *)
(* the event loop, on which callbacks are handled: nothing runs between.   *)
CancelRequest(o) ==
  [kind |-> "cancel_request", order |-> o, ts |-> now,
   known |-> HasRow(o) /\ link[o].known]

RequestCancel(o) ==
  /\ canceling = NoOrder
  /\ StatusOf(o) \notin BlockingStatuses
  /\ Cardinality(log) < MaxEvents
  /\ \A e \in log : e.ts < now    \* utcnow() is later than what was handled
  /\ Append(CancelRequest(o))
  /\ canceling' = o
  /\ UNCHANGED now

CancelAccepted ==
  /\ canceling # NoOrder
  /\ canceling' = NoOrder
  /\ UNCHANGED <<log, link, now>>

CancelRefused ==
  /\ canceling # NoOrder
  /\ Append([kind |-> "cancel_refused", order |-> canceling, ts |-> now])
  /\ canceling' = NoOrder
  /\ UNCHANGED now

Tick ==
  /\ now < LastTs
  /\ now' = now + 1
  /\ UNCHANGED <<log, link, canceling>>

Next ==
  \/ \E e \in FromBroker : Deliver(e)
  \/ \E e \in log : Redeliver(e)
  \/ \E o \in Orders : RequestCancel(o)
  \/ CancelAccepted
  \/ CancelRefused
  \/ Tick

Spec == Init /\ [][Next]_vars
-----------------------------------------------------------------------------
(* What a reader of the table relies on                                    *)

(* A final order never becomes open again, whatever arrives late or twice. *)
TerminalSticky ==
  [][\A o \in Orders : IsTerminal(StatusOf(o)) => IsTerminal(StatusOf(o))']_link

(* The progress a status stands for, a pending cancel aside.               *)
Progress(s) ==
  CASE s = "reported_cancel_pending" -> Rank("reported")
    [] s = "partially_filled_cancel_pending" -> Rank("partially_filled")
    [] OTHER -> Rank(s)

(* No report is lost: in whatever order reports and cancel callbacks were  *)
(* handled, the row is at least as far as every report in the log.         *)
ReportsAreReflected ==
  \A e \in log :
    e.kind = "report" =>
      Progress(StatusOf(e.order))
        >= Progress(Normalize(e.word, e.filled, e.remaining))

RequestsOf(o) == {e \in log : e.order = o /\ e.kind = "cancel_request"}
FailuresOf(o) ==
  {e \in log : e.order = o /\ e.kind \in {"cancel_failed", "cancel_refused"}}

(* A cancel request stays visible, as pending or as a final status, until  *)
(* the broker says that a cancel failed: no late or repeated report and no *)
(* acknowledgement hides it.                                               *)
CancelStaysVisible ==
  \A r \in log :
    r.kind = "cancel_request" =>
      \/ StatusOf(r.order) \in BlockingStatuses
      \/ FailuresOf(r.order) # {}

(* "persists cancel pending and blocks duplicates": the broker is asked    *)
(* once more only after it reported one more failure.                      *)
OneCancelPerFailure ==
  \A o \in Orders :
    Cardinality(RequestsOf(o)) <= 1 + Cardinality(FailuresOf(o))
=============================================================================
