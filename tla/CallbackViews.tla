---------------------------- MODULE CallbackViews ----------------------------
(***************************************************************************)
(* What a session makes of the order callbacks it has received: the        *)
(* snapshot of the account's orders, merged from a query of the broker and *)
(* the callbacks, and the lifecycle closures from which it decides whether *)
(* callbacks alone are enough for the next synchronisation.                *)
(*                                                                         *)
(* An order goes through the statuses of StatusFlow at the broker.  Every  *)
(* change is reported by a callback, which the broker library may delay,   *)
(* reorder or lose.  Orders carry a client order id, a broker order id     *)
(* and, once the exchange accepted them, a system id.                      *)
(***************************************************************************)
EXTENDS BrokerOrderStatus, Sequences, SequencesExt, FiniteSets

CONSTANTS
  Watched,
  LateIds,         \* callbacks may come before the order has a system id
  MissingRemarks,  \* callbacks may lack the client order id
  MaxClock,        \* bound: broker clock
  MaxReports,      \* bound: callbacks per order
  MaxGap           \* _QMT_CALLBACK_MAX_GAP_SECS

StatusFlow(s) ==
  CASE s = "reported" -> {"partially_filled", "filled", "canceled"}
    [] s = "partially_filled" -> {"filled", "partially_canceled"}
    [] OTHER -> {}
NoTime == -1

VARIABLES
  clock,
  truth,       \* per order: status, time and whether it has a system id
  flight,      \* callbacks the broker library has not delivered
  received,    \* callbacks in the bridge, in order of arrival
  queried,     \* the broker's orders, as the synchronisation in progress read them
  closures,    \* _lifecycle_closures: by canonical identity
  aliases,     \* _lifecycle_closure_aliases
  acked        \* orders whose submit acknowledgement was received

viewVars == <<clock, truth, flight, received, queried, closures, aliases, acked>>

Unborn == [status |-> "none", ts |-> NoTime, sysid |-> FALSE]
NotQueried == [o \in Watched |-> Unborn]

ViewsInit ==
  /\ clock = 0
  /\ truth = [o \in Watched |-> Unborn]
  /\ flight = {} /\ received = <<>> /\ queried = NotQueried
  /\ closures = [t \in {} |-> {}] /\ aliases = [t \in {} |-> {}]
  /\ acked = {}

(* _snapshot_order_keys(): the first key is the primary one.               *)
Keys(r) ==
  (IF r.sysid THEN <<<<r.order, "sysid">>>> ELSE <<>>)
  \o <<<<r.order, "id">>>>
  \o (IF r.remark THEN <<<<r.order, "remark">>>> ELSE <<>>)

Primary(r) == Keys(r)[1]

(* Mutant: the later callback wins.                                        *)
SupersedesByTime(r, current) == r.ts >= current.ts

(* The callbacks that the dictionaries by key and by primary key hold when *)
(* all of them were seen.  A later one of lower rank is ignored.           *)
Supersedes(r, current) ==
  \/ Rank(r.status) > Rank(current.status)
  \/ (Rank(r.status) = Rank(current.status) /\ r.ts >= current.ts)

FirstKey(keys, known) == keys[Min({i \in DOMAIN keys : keys[i] \in known})]

Put(f, keys, x) == [k \in keys \cup DOMAIN f |-> IF k \in keys THEN x ELSE f[k]]

(* The keys of a report that the dictionary has, and what is under the     *)
(* first of them.                                                          *)
KnownKeys(view, r) == Range(Keys(r)) \cap DOMAIN view.byKey
RecordOf(view, r) == view.byKey[FirstKey(Keys(r), KnownKeys(view, r))]

Absorbed(view, r) ==
  IF KnownKeys(view, r) # {} /\ ~Supersedes(r, RecordOf(view, r)) THEN view
  ELSE [byKey |-> Put(view.byKey, Range(Keys(r)), r),
        byPrimary |-> Put(view.byPrimary, {Primary(r)}, r)]

NothingSeen == [byKey |-> [k \in {} |-> {}], byPrimary |-> [k \in {} |-> {}]]
CallbackView == FoldLeft(Absorbed, NothingSeen, received)

(* _prefer_callback_snapshot_order(): a query that is newer, or as old and *)
(* further, is believed; else the callback, and no row for a final one.    *)
PrefersQuery(q, r) ==
  q.ts > r.ts \/ (q.ts = r.ts /\ Rank(q.status) > Rank(r.status))

Row(o) == [order |-> o, status |-> queried[o].status, ts |-> queried[o].ts,
           sysid |-> queried[o].sysid, remark |-> TRUE]
Listed == {o \in Watched : queried[o] # Unborn}

MergedRow(view, o) ==
  IF KnownKeys(view, Row(o)) = {} \/ PrefersQuery(Row(o), RecordOf(view, Row(o)))
  THEN Row(o) ELSE RecordOf(view, Row(o))

Consumed(view) ==
  {Primary(RecordOf(view, Row(o))) : o \in {u \in Listed : KnownKeys(view, Row(u)) # {}}}

(* _build_callback_aware_snapshot_execution_state(): one row for each      *)
(* order of the query, and one for each open order only callbacks know.    *)
Snapshot ==
  LET view == CallbackView
      listed == {o \in Listed : LET r == MergedRow(view, o) IN
                   r = Row(o) \/ ~IsTerminal(r.status)}
      emitted == {Primary(MergedRow(view, o)) : o \in listed}
      extra == {k \in DOMAIN view.byPrimary \ (Consumed(view) \cup emitted) :
                  ~IsTerminal(view.byPrimary[k].status)} IN
    {<<"query", MergedRow(view, o)>> : o \in listed}
      \cup {<<"callbacks", view.byPrimary[k]>> : k \in extra}

(* _lifecycle_identity_tokens() and the closure they lead to.              *)
Tokens(o, kinds) == [i \in DOMAIN kinds |-> <<o, kinds[i]>>]

Closure(tokens) ==
  LET known == Range(tokens) \cap (DOMAIN closures \cup DOMAIN aliases)
      token == FirstKey(tokens, known) IN
    IF known = {} THEN tokens[1]
    ELSE IF token \in DOMAIN closures THEN token ELSE aliases[token]

Fact(ack, last, final) == [ack |-> ack, last |-> last, final |-> final]
Newer(s, t) == IF s > t THEN s ELSE t
Together(a, b) == Fact(a.ack \/ b.ack, Newer(a.last, b.last), a.final \/ b.final)

(* Mutant: every callback closes its order.                                *)
RecordFinal(tokens, fact) ==
  LET c == Closure(tokens)
      closed == [fact EXCEPT !.final = TRUE] IN
    /\ closures' = Put(closures, {c}, IF c \in DOMAIN closures
                                      THEN Together(closures[c], closed) ELSE closed)
    /\ aliases' = Put(aliases, Range(tokens) \ {c}, c)

(* _update_lifecycle_closure_from_callback()                               *)
Record(tokens, fact) ==
  LET c == Closure(tokens) IN
    /\ closures' = Put(closures, {c}, IF c \in DOMAIN closures
                                      THEN Together(closures[c], fact) ELSE fact)
    /\ aliases' = Put(aliases, Range(tokens) \ {c}, c)

(* The broker and its library.                                             *)
NextTimes == {clock, clock + 1} \cap 0..MaxClock

BrokerReports(o, t, s) ==
  \E sysid \in (IF LateIds THEN BOOLEAN ELSE {TRUE}),
     remark \in (IF MissingRemarks THEN BOOLEAN ELSE {TRUE}) :
    /\ truth[o].sysid => sysid
    /\ clock' = t
    /\ truth' = [truth EXCEPT ![o] = [status |-> s, ts |-> t, sysid |-> sysid]]
    /\ flight' = flight \cup {[order |-> o, status |-> s, ts |-> t, sysid |-> sysid,
                               remark |-> remark]}
    /\ UNCHANGED <<received, queried, closures, aliases, acked>>

Accept(o) == truth[o] = Unborn /\ \E t \in NextTimes : BrokerReports(o, t, "reported")
Advance(o) ==
  \E s \in StatusFlow(truth[o].status), t \in NextTimes : BrokerReports(o, t, s)

Lose(r) ==
  /\ flight' = flight \ {r}
  /\ UNCHANGED <<clock, truth, received, queried, closures, aliases, acked>>

(* on_stock_order()                                                        *)
OnStockOrder(r) ==
  /\ Cardinality({i \in DOMAIN received : received[i].order = r.order}) < MaxReports
  /\ flight' = flight \ {r}
  /\ received' = Append(received, r)
  /\ Record(Tokens(r.order, (IF r.remark THEN <<"remark">> ELSE <<>>)
                             \o (IF r.sysid THEN <<"sysid">> ELSE <<>>) \o <<"id">>),
            Fact(FALSE, r.ts, IsTerminal(r.status)))
  /\ UNCHANGED <<clock, truth, queried, acked>>

(* on_order_stock_async_response(): the acknowledgement has the remark and *)
(* the sequence number of the request, and often no order id.              *)
OnSubmitAck(o) ==
  /\ o \notin acked /\ truth[o] # Unborn
  /\ acked' = acked \cup {o}
  /\ Record(Tokens(o, <<"remark", "seq">>), Fact(TRUE, NoTime, FALSE))
  /\ UNCHANGED <<clock, truth, flight, received, queried>>

ClockTicks ==
  /\ clock < MaxClock
  /\ clock' = clock + 1
  /\ UNCHANGED <<truth, flight, received, queried, closures, aliases, acked>>

(* query_stock_orders(): callbacks go on arriving before it is merged.     *)
QueryOrders ==
  /\ queried' = truth
  /\ UNCHANGED <<clock, truth, flight, received, closures, aliases, acked>>

ViewsNext ==
  \/ ClockTicks \/ QueryOrders
  \/ \E o \in Watched : Accept(o) \/ Advance(o) \/ OnSubmitAck(o)
  \/ \E r \in flight : OnStockOrder(r) \/ Lose(r)

ViewsSpec == ViewsInit /\ [][ViewsNext]_viewVars

(* _determine_execution_sync_mode() of an incremental synchronisation with *)
(* a live consumer.                                                        *)
Unsettled(c) == ~c.final /\ ~(c.last # NoTime /\ clock - c.last <= MaxGap)
AckedClosures == {t \in DOMAIN closures : closures[t].ack}
CallbacksSuffice == AckedClosures # {} /\ \A t \in AckedClosures : ~Unsettled(closures[t])

ReceivedOf(o) == {received[i] : i \in {j \in DOMAIN received : received[j].order = o}}
KnownFinal(o) ==
  IsTerminal(queried[o].status) \/ \E r \in ReceivedOf(o) : IsTerminal(r.status)
RowsOf(o) == {r \in Snapshot : r[2].order = o}

(* An order that the query or any callback says is over is not shown open, *)
(* whatever arrived before, after or between, in any order.                *)
FinalOrdersNotShownOpen ==
  \A o \in Watched : KnownFinal(o) => \A r \in RowsOf(o) : IsTerminal(r[2].status)

(* An order known to be open, from the query or from callbacks, is shown   *)
(* once: neither lost between the two sources nor counted twice.           *)
OpenOrdersShownOnce ==
  \A o \in Watched :
    (o \in Listed \/ ReceivedOf(o) # {}) /\ ~KnownFinal(o) => Cardinality(RowsOf(o)) = 1

(* The broker is not left out of a synchronisation while it acknowledged   *)
(* an order whose callbacks fell silent before the order was over, however *)
(* incompletely the callbacks identified the order.                        *)
SilentOrdersAreQueried ==
  CallbacksSuffice =>
    \A o \in acked : \E r \in ReceivedOf(o) : IsTerminal(r.status) \/ clock - r.ts <= MaxGap

(* An order known to be over is not shown open, one known to be open is    *)
(* shown once, and the broker is queried about one that fell silent.       *)
OpenOrdersAreShown ==
  FinalOrdersNotShownOpen /\ OpenOrdersShownOnce /\ SilentOrdersAreQueried
=============================================================================
