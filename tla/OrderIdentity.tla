---------------------------- MODULE OrderIdentity ----------------------------
(***************************************************************************)
(* Which link row a broker report belongs to.  The broker knows its orders *)
(* by a broker order id, which it may use again once an order is over;     *)
(* links are kept by client order id, which a report may lack.  The        *)
(* scheduler resolves a report by its broker id against the rows it has,   *)
(* all reports of a pull before it saves the first.                        *)
(*                                                                         *)
(* Orders use one broker id, one after the other, each a client id of its  *)
(* own, and reports are handed over in order; a pump reads the last        *)
(* timestamp it has seen again.  MixedBundles = FALSE assumes what the     *)
(* code does not check: a pull finds the end of an order, or a report that *)
(* does not name it, only once a row has been told of the order, and the   *)
(* broker id goes to a new order only once the last report of the one      *)
(* before was pulled.                                                      *)
(***************************************************************************)
EXTENDS BrokerOrderStatus, FiniteSets, Sequences

CONSTANTS
  Symbols,
  MatchGap,   \* the seven days after which a broker id proves nothing
  MaxOrders,  \* bound: orders that use the broker id
  ClockEnd,   \* bound: days of the broker's clock
  MaxBundle,  \* bound: new reports in a pull
  MaxRepeats, \* bound: reports in a pull that were pulled before
  MixedBundles

ASSUME IdentityAssumption ==
  /\ MatchGap \in Nat /\ MaxOrders \in Nat /\ ClockEnd \in Nat /\ MaxBundle \in Nat
  /\ MaxRepeats \in Nat /\ MixedBundles \in BOOLEAN

VARIABLES
  day,
  newest,    \* client id of the order placed last: ids count the orders
  latest,    \* that order, as the broker has it
  handed,    \* reports of the latest timestamp saved
  links,     \* rows by client id
  waiting,   \* reports the broker has for the next pull, in order
  pulled     \* the reports of a pull with their rows, those still to save

identityVars == <<day, newest, latest, handed, links, waiting, pulled>>

(* make_shadow_broker_client_order_id() of an order with a broker id.      *)
ShadowId == 0

NoOrder == [symbol |-> "none", status |-> "filled", ts |-> -1]

IdentityInit ==
  /\ day = 0 /\ newest = 0 /\ latest = NoOrder
  /\ handed = {} /\ links = [c \in {} |-> {}]
  /\ waiting = <<>> /\ pulled = <<>>

(* Candidates: rows of the broker id, none for another symbol.             *)
Candidates(r) == {c \in DOMAIN links : links[c].symbol = r.symbol}

Distance(s, t) == IF s > t THEN s - t ELSE t - s

Viable(r) ==
  {c \in Candidates(r) :
     ~IsTerminal(links[c].status) /\ links[c].ts <= r.ts /\ r.ts - links[c].ts <= MatchGap}

(* Mutant: an open report that is newer re-opens a finished row.           *)
ViableTerminalReopened(r) ==
  {c \in Candidates(r) : IsTerminal(links[c].status) /\ Distance(r.ts, links[c].ts) <= MatchGap}

(* A finished row answers for late and repeated reports only.              *)
ViableTerminal(r) ==
  {c \in Candidates(r) :
     /\ IsTerminal(links[c].status)
     /\ r.ts <= links[c].ts \/ IsTerminal(r.status)
     /\ Distance(r.ts, links[c].ts) <= MatchGap}

(* _find_reusable_broker_report_client_order_id(): the one open row, else  *)
(* the one finished row.  The loop gives up at the second row of a kind,   *)
(* so two finished rows also rule out an open one.                         *)
Reusable(r) ==
  IF Cardinality(ViableTerminal(r)) > 1 THEN {}
  ELSE IF Viable(r) # {} THEN {c \in Viable(r) : Cardinality(Viable(r)) = 1}
  ELSE ViableTerminal(r)

(* _resolve_broker_report_client_order_id()                                *)
Resolved(r) ==
  IF Reusable(r) # {} THEN CHOOSE c \in Reusable(r) : TRUE
  ELSE IF r.named THEN r.order ELSE ShadowId

(* _upsert_broker_order_links_locked(); of: the orders the row was told of *)
RowUpserted(c, r) ==
  IF c \notin DOMAIN links
  THEN [status |-> r.status, ts |-> r.ts, symbol |-> r.symbol, of |-> {r.order}]
  ELSE LET row == links[c]
           advances == \/ Rank(r.status) > Rank(row.status)
                       \/ Rank(r.status) = Rank(row.status) /\ r.ts >= row.ts IN
       [status |-> IF advances THEN r.status ELSE row.status,
        ts |-> IF advances THEN r.ts ELSE row.ts,
        symbol |-> r.symbol,
        of |-> row.of \cup {r.order}]

Store(c, r) == links' = [k \in DOMAIN links \cup {c} |-> IF k = c THEN RowUpserted(c, r) ELSE links[k]]

ReportOf(s, t, named) ==
  [order |-> newest, symbol |-> latest.symbol, status |-> s, ts |-> t, named |-> named]

HandOver(r) == handed' = {other \in handed : other.ts = r.ts} \cup {r}

Heard == latest.status # "unreported"
HasRow == \E c \in DOMAIN links : newest \in links[c].of
Idle == pulled = <<>>

(* The broker id is given to a new order, at a later time than any report  *)
(* of the order that had it, and to no third one within MatchGap.          *)
Recent == UNION {links[c].of : c \in {k \in DOMAIN links : day - links[k].ts <= MatchGap}}

Place(symbol) ==
  /\ Idle /\ newest < MaxOrders /\ IsTerminal(latest.status) /\ latest.ts < day
  /\ MixedBundles \/ waiting = <<>>
  /\ Cardinality(Recent) <= 1
  /\ newest' = newest + 1
  /\ latest' = [symbol |-> symbol, status |-> "unreported", ts |-> day]
  /\ UNCHANGED <<day, handed, links, waiting, pulled>>

(* The acknowledgement event upserts its row under its own client id; a    *)
(* report goes through the resolution.                                     *)
Acknowledge ==
  /\ Idle /\ newest > 0 /\ ~Heard
  /\ LET r == ReportOf("reported", day, TRUE) IN
       /\ Store(r.order, r)
       /\ HandOver(r)
  /\ latest' = [latest EXCEPT !.status = "reported", !.ts = day]
  /\ UNCHANGED <<day, newest, waiting, pulled>>

NextStatuses ==
  [unreported |-> {"reported", "partially_filled"},
   reported |-> {"partially_filled", "filled", "canceled"},
   partially_filled |-> {"partially_filled", "filled", "partially_canceled"}]

Report(s, named) ==
  /\ Idle /\ Len(waiting) < MaxBundle
  /\ latest.status \in DOMAIN NextStatuses /\ s \in NextStatuses[latest.status]
  /\ named \/ Heard
  /\ MixedBundles \/ HasRow \/ (named /\ ~IsTerminal(s))
  /\ waiting' = Append(waiting, ReportOf(s, day, named))
  /\ latest' = [latest EXCEPT !.status = s, !.ts = day]
  /\ UNCHANGED <<day, newest, handed, links, pulled>>

(* _normalize_broker_execution_reports() of what a pull, or one callback,  *)
(* brings: old reports of the last timestamp, then the new ones.           *)
(* get_latest_event_ts() is where the next pump begins.                    *)
Pull(old) ==
  /\ Idle /\ old \o waiting # <<>>
  /\ pulled' = [i \in DOMAIN (old \o waiting) |->
                  [row |-> Resolved((old \o waiting)[i]), report |-> (old \o waiting)[i]]]
  /\ waiting' = <<>>
  /\ UNCHANGED <<day, newest, latest, handed, links>>

(* save_broker_sync_result(), one report of its loop; nothing else runs    *)
(* until the pull is saved.                                                *)
SaveReport ==
  /\ ~Idle
  /\ Store(Head(pulled).row, Head(pulled).report)
  /\ HandOver(Head(pulled).report)
  /\ pulled' = Tail(pulled)
  /\ UNCHANGED <<day, newest, latest, waiting>>

(* Orders are day orders and pulls come within days: no order that has     *)
(* something to say is silent for longer than MatchGap, nor is its row.    *)
NextDay ==
  /\ Idle /\ day < ClockEnd
  /\ \/ IsTerminal(latest.status) /\ waiting = <<>>
     \/ /\ day - latest.ts < MatchGap
        /\ HasRow => \E c \in DOMAIN links : newest \in links[c].of /\ day - links[c].ts < MatchGap
  /\ day' = day + 1
  /\ UNCHANGED <<newest, latest, handed, links, waiting, pulled>>

Repeats == UNION {[1..n -> handed] : n \in 0..MaxRepeats}

IdentityNext ==
  \/ NextDay \/ Acknowledge \/ SaveReport
  \/ \E symbol \in Symbols : Place(symbol)
  \/ \E s \in Statuses, named \in BOOLEAN : Report(s, named)
  \/ \E old \in Repeats : Pull(old)

IdentitySpec == IdentityInit /\ [][IdentityNext]_identityVars

(* A broker id that is used again does not make two orders one: the row of *)
(* a client order is fed by that order only, so that an open order is not  *)
(* hidden behind a finished one, and the fills of one are not counted for  *)
(* another.  So it is with MixedBundles = FALSE: the end of an order that  *)
(* is pulled together with its first report, or an order that succeeds     *)
(* another in one pull, is resolved against rows that do not know it yet   *)
(* (scheduler.py:1192) and goes to the finished row.  The shadow row of    *)
(* the broker id is no client's: it collects the nameless reports that     *)
(* found two finished rows, whose ever they are.                           *)
OneOrderPerRow == \A c \in DOMAIN links \ {ShadowId} : links[c].of = {c}
==============================================================================
