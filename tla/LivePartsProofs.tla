--------------------------- MODULE LivePartsProofs ---------------------------
(***************************************************************************)
(* Safety of parts of the live system that share no state: the comparison  *)
(* of orders with the broker's, for any number of orders, any clock and    *)
(* any number of lost reports; the synchronisation of broker callbacks,    *)
(* the real submission, the way from a backtest to its engine, and the     *)
(* ticks of an engine with their log.  MCLiveParts runs them on small      *)
(* bounds; LedgerProofs has what replaying does.                           *)
(***************************************************************************)
EXTENDS Reconcile, CallbackSync, QMTRealSubmit, DeployChain, TickLedger, LedgerProofs

-----------------------------------------------------------------------------
(* The comparison of orders                                                *)

(* What the broker says of an order; each status ranks above the ones the  *)
(* order can have had before.                                              *)
Spoken == {"reported", "reported_cancel_pending", "partially_filled",
           "partially_filled_cancel_pending", "filled", "canceled", "partially_canceled"}
NotAhead(s, t) == s = t \/ Rank(s) < Rank(t)

Times == 0..brokerClock
Reports == [order : BrokerOrders, status : Spoken, ts : Times]
Rows == [status : Spoken, ts : Times]

ReconcileTypes ==
  /\ brokerClock \in Nat /\ lost \in Nat
  /\ atBroker \in [BrokerOrders -> Spoken \cup {"none"}]
  /\ said \in SUBSET Reports /\ bundle \in SUBSET Reports
  /\ rows \in [BrokerOrders -> Rows \cup {NoRow}]
  /\ syncing \in BOOLEAN /\ moved \in BOOLEAN
  /\ ~syncing => bundle = {} /\ ~moved

(* No report and no entry is ahead of the broker, cancel requests aside.     *)
NothingIsAhead ==
  /\ \A r \in said \cup bundle : NotAhead(r.status, atBroker[r.order])
  /\ \A o \in BrokerOrders :
       rows[o] # NoRow => NotAhead(Comparable(rows[o].status), Comparable(atBroker[o]))

(* When nothing is lost: a report of an order is there only with one of    *)
(* its present status, at least as late.                                   *)
UpToDate(reports) ==
  \A r \in reports : \E q \in reports :
    q.order = r.order /\ q.status = atBroker[r.order] /\ q.ts >= r.ts
ReportsAreUpToDate ==
  lost = 0 => UpToDate(said) /\ (~moved => UpToDate(bundle))

(* What is yet to be read.                                                 *)
Pending == IF ~syncing THEN said ELSE IF moved THEN said \cup bundle ELSE bundle

(* When nothing is lost, an order is as its entry says, or its report is on  *)
(* the way.                                                                *)
Covered(o) ==
  \/ Comparable(rows[o].status) = Comparable(atBroker[o])
  \/ \E r \in Pending : r.order = o /\ r.status = atBroker[o]
NothingIsMissed == lost = 0 => \A o \in BrokerOrders : Covered(o)

ReconcileInv == ReconcileTypes /\ NothingIsAhead /\ ReportsAreUpToDate /\ NothingIsMissed

-----------------------------------------------------------------------------
(* Statuses                                                                *)

LEMMA SpokenRanks ==
  /\ Rank("none") = 0
  /\ \A s \in Spoken : Rank(s) \in 1..30 /\ s # "none" /\ Comparable(s) \in Spoken
  /\ \A s \in Spoken \cup {"none"} : Rank(s) \in 0..30 /\ Comparable(s) \in Spoken \cup {"none"}
  /\ \A s \in Spoken \cup {"none"} : Open(s) <=> Rank(s) \in 1..29
BY DEF Spoken, Rank, Comparable, Open, IsTerminal, TerminalStatuses, TerminalRank

(* The broker only moves forward.                                          *)
LEMMA BrokerMovesOn ==
  ASSUME NEW s \in DOMAIN Stages, NEW t \in Stages[s]
  PROVE  /\ t \in Spoken /\ Rank(s) < Rank(t) /\ t # s
         /\ Comparable(s) = Comparable(t) \/ Rank(Comparable(s)) < Rank(Comparable(t))
<1>1. DOMAIN Stages = {"none", "reported", "reported_cancel_pending", "partially_filled",
                       "partially_filled_cancel_pending"}
  BY DEF Stages
<1>2. /\ Stages["none"] = {"reported"}
      /\ Stages["reported"] = {"reported_cancel_pending", "partially_filled", "filled", "canceled"}
      /\ Stages["reported_cancel_pending"] = {"canceled", "filled"}
      /\ Stages["partially_filled"] = {"partially_filled_cancel_pending", "filled"}
      /\ Stages["partially_filled_cancel_pending"] = {"partially_canceled", "filled"}
  BY DEF Stages
<1> QED
  BY <1>1, <1>2 DEF Spoken, Rank, Comparable, TerminalStatuses, TerminalRank

-----------------------------------------------------------------------------
(* The latest of several reports                                           *)

(* A set of naturals with an upper bound has a greatest element.           *)
LEMMA GreatestExists ==
  ASSUME NEW n \in Nat, NEW T \in SUBSET (0..n), T # {}
  PROVE  \E m \in T : \A k \in T : k <= m
<1> DEFINE U == {n - k : k \in T}
           Less == OpToRel(<, Nat)
<1>1. U \subseteq Nat /\ U # {}
  <2>1. PICK k \in T : TRUE
    OBVIOUS
  <2>2. n - k \in U
    BY <2>1
  <2>3. \A i \in T : n - i \in Nat
    OBVIOUS
  <2>4. QED
    BY <2>2, <2>3
<1>2. \A x, y \in Nat : y < x => <<y, x>> \in Less
  BY DEF OpToRel
<1>3. PICK x \in U : \A y \in U : ~(<<y, x>> \in Less)
  <2>1. IsWellFoundedOn(Less, Nat)
    BY NatLessThanWellFounded
  <2> HIDE DEF U, Less
  <2>2. QED
    BY <1>1, <2>1, WFMin
<1>4. \A y \in U : x <= y
  <2> HIDE DEF Less, U
  <2> SUFFICES ASSUME NEW y \in U PROVE ~(y < x)
    BY <1>1
  <2>1. x \in Nat /\ y \in Nat
    BY <1>1
  <2>2. y < x => <<y, x>> \in Less
    BY <1>2, <2>1
  <2>3. QED
    BY <1>3, <2>2
<1>5. PICK m \in T : x = n - m
  OBVIOUS
<1>6. QED
  <2> SUFFICES ASSUME NEW k \in T PROVE k <= m
    OBVIOUS
  <2>1. n - m <= n - k
    BY <1>4, <1>5
  <2>2. QED
    BY <2>1

(* Latest() finds one, if ranks and times are bounded.                     *)
LEMMA LatestIsLast ==
  ASSUME NEW S, S # {}, NEW n \in Nat,
         \A r \in S : r.ts \in 0..n /\ Rank(r.status) \in 0..30
  PROVE  Latest(S) \in S /\ \A s \in S : Later(Latest(S), s)
<1> DEFINE Ranks == {Rank(r.status) : r \in S}
<1>1. PICK m \in Ranks : \A k \in Ranks : k <= m
  <2>1. Ranks \in SUBSET (0..30) /\ Ranks # {}
    OBVIOUS
  <2> HIDE DEF Ranks
  <2> QED
    BY <2>1, GreatestExists
<1> DEFINE Foremost == {r \in S : Rank(r.status) = m}
           Stamps == {r.ts : r \in Foremost}
<1>2. PICK t \in Stamps : \A k \in Stamps : k <= t
  <2>1. Stamps \in SUBSET (0..n) /\ Stamps # {}
    OBVIOUS
  <2> HIDE DEF Stamps
  <2> QED
    BY <2>1, GreatestExists
<1>3. PICK l \in Foremost : l.ts = t
  OBVIOUS
<1>4. \A s \in S : Later(l, s)
  <2> SUFFICES ASSUME NEW s \in S PROVE Later(l, s)
    OBVIOUS
  <2>1. Rank(s.status) <= Rank(l.status)
    BY <1>1
  <2>2. Rank(s.status) = Rank(l.status) => s.ts <= l.ts
    BY <1>2, <1>3
  <2>3. Rank(s.status) \in 0..30 /\ Rank(l.status) \in 0..30 /\ s.ts \in 0..n /\ l.ts \in 0..n
    OBVIOUS
  <2> QED
    BY <2>1, <2>2, <2>3 DEF Later
<1> QED
  BY <1>4 DEF Latest

-----------------------------------------------------------------------------
(* What is stored and what is compared                                     *)

(* The reports of an order, as they are and as its entry takes them.         *)
LEMMA ReportsHaveTypes ==
  ASSUME ReconcileTypes, NEW o \in BrokerOrders
  PROVE  /\ rows[o] \in Rows \cup {NoRow}
         /\ atBroker[o] \in Spoken \cup {"none"}
         /\ \A r \in ReportsOf(o) :
              r \in bundle /\ r \in Reports /\ r.order = o /\ Kept(o, r) \in Rows
<1>1. rows[o] \in Rows \cup {NoRow} /\ atBroker[o] \in Spoken \cup {"none"}
  BY DEF ReconcileTypes
<1>2. ASSUME NEW r \in ReportsOf(o)
      PROVE  r \in bundle /\ r \in Reports /\ r.order = o /\ Kept(o, r) \in Rows
  <2>1. r \in bundle /\ r.order = o
    BY DEF ReportsOf
  <2>2. r \in Reports
    BY <2>1 DEF ReconcileTypes
  <2> QED
    BY <2>1, <2>2 DEF Kept, Reports, Rows, Spoken
<1> QED
  BY <1>1, <1>2

(* Of a entry and of what is told, the foremost is taken.                    *)
LEMMA ForemostIsTaken ==
  ASSUME ReconcileTypes, NEW entry \in Rows \cup {NoRow},
         NEW S, \A r \in S : r.status \in Spoken /\ r.ts \in Times
  PROVE  LET later == {r \in S : entry = NoRow \/ Later(r, entry)}
             taken == IF later = {} THEN entry ELSE Latest(later) IN
         /\ taken \in S \cup {entry}
         /\ \A y \in S \cup {entry} : Rank(y.status) <= Rank(taken.status)
<1> DEFINE later == {r \in S : entry = NoRow \/ Later(r, entry)}
           taken == IF later = {} THEN entry ELSE Latest(later)
<1>1. /\ NoRow.status = "none" /\ NoRow.ts = -1 /\ brokerClock \in Nat
      /\ entry # NoRow => entry.status \in Spoken /\ entry.ts \in 0..brokerClock
      /\ \A r \in S : r.status \in Spoken /\ r.ts \in 0..brokerClock
  BY DEF NoRow, Rows, Times, ReconcileTypes
<1>2. /\ entry = NoRow => Rank(entry.status) = 0
      /\ Rank(entry.status) \in 0..30
      /\ \A r \in S : Rank(r.status) \in 1..30
  BY <1>1, SpokenRanks
<1>3. \A y \in S : y \notin later => Rank(y.status) <= Rank(entry.status)
  BY <1>1, <1>2 DEF Later
<1>4. \A y \in later : Rank(entry.status) <= Rank(y.status)
  BY <1>1, <1>2 DEF Later
<1>5. CASE later = {}
  BY <1>2, <1>3, <1>5
<1>6. CASE later # {}
  <2>1. later \subseteq S /\ \A r \in later : r.ts \in 0..brokerClock /\ Rank(r.status) \in 0..30
    BY <1>1, <1>2
  <2> HIDE DEF later
  <2>2. taken \in later /\ \A s \in later : Later(taken, s)
    BY <1>1, <1>6, <2>1, LatestIsLast
  <2> HIDE DEF taken
  <2>3. \A s \in later : Rank(s.status) <= Rank(taken.status)
    BY <2>1, <2>2 DEF Later
  <2>4. \A y \in S : Rank(y.status) <= Rank(taken.status)
    BY <1>2, <1>3, <1>4, <2>1, <2>2, <2>3
  <2>5. taken \in S /\ Rank(entry.status) <= Rank(taken.status)
    BY <1>4, <2>1, <2>2
  <2> QED
    BY <2>4, <2>5 DEF taken, later
<1> QED
  BY <1>5, <1>6

(* The entry becomes the foremost of itself and what it is told.             *)
LEMMA UpsertedIsForemost ==
  ASSUME ReconcileTypes, NEW o \in BrokerOrders
  PROVE  LET kept == {Kept(o, r) : r \in ReportsOf(o)} IN
         /\ Upserted(o) \in kept \cup {rows[o]}
         /\ \A y \in kept \cup {rows[o]} : Rank(y.status) <= Rank(Upserted(o).status)
         /\ Upserted(o) \in Rows \cup {NoRow}
<1> DEFINE kept == {Kept(o, r) : r \in ReportsOf(o)}
           later == {r \in kept : rows[o] = NoRow \/ Later(r, rows[o])}
           taken == IF later = {} THEN rows[o] ELSE Latest(later)
<1>1. rows[o] \in Rows \cup {NoRow} /\ kept \subseteq Rows
  BY ReportsHaveTypes
<1>2. \A r \in kept : r.status \in Spoken /\ r.ts \in Times
  BY <1>1 DEF Rows
<1>3. Upserted(o) = taken
  BY DEF Upserted
<1> HIDE DEF kept
<1>4. /\ taken \in kept \cup {rows[o]}
      /\ \A y \in kept \cup {rows[o]} : Rank(y.status) <= Rank(taken.status)
  BY <1>1, <1>2, ForemostIsTaken
<1> HIDE DEF taken
<1> QED
  BY <1>1, <1>3, <1>4 DEF kept

(* And the merged status is the foremost of the entry's and the reports'.    *)
LEMMA MergedIsForemost ==
  ASSUME ReconcileTypes, NEW o \in BrokerOrders
  PROVE  LET known == ReportsOf(o) \cup {rows[o]} IN
         /\ \E x \in known : MergedStatus(o) = x.status
         /\ \A y \in known : Rank(y.status) <= Rank(MergedStatus(o))
<1> DEFINE news == {r \in ReportsOf(o) : rows[o] = NoRow \/ Later(r, rows[o])}
           taken == IF news = {} THEN rows[o] ELSE Latest(news)
<1>1. /\ rows[o] \in Rows \cup {NoRow}
      /\ \A r \in ReportsOf(o) : r.status \in Spoken /\ r.ts \in Times
  BY ReportsHaveTypes DEF Reports
<1>2. MergedStatus(o) = taken.status
  BY DEF MergedStatus
<1>3. /\ taken \in ReportsOf(o) \cup {rows[o]}
      /\ \A y \in ReportsOf(o) \cup {rows[o]} : Rank(y.status) <= Rank(taken.status)
  BY <1>1, ForemostIsTaken
<1> HIDE DEF taken
<1> QED
  BY <1>2, <1>3

(* A comparison that uses the reports uses the foremost one.               *)
LEMMA SeenIsForemost ==
  ASSUME ReconcileTypes, NEW o \in BrokerOrders, NEW status
  PROVE  /\ ReportsOf(o) = {} => Seen(o, status) = status
         /\ ReportsOf(o) # {} =>
              \E l \in ReportsOf(o) :
                /\ Seen(o, status) = l.status
                /\ \A r \in ReportsOf(o) : Rank(r.status) <= Rank(l.status)
<1>1. ASSUME ReportsOf(o) # {}
      PROVE  \E l \in ReportsOf(o) :
                /\ Seen(o, status) = l.status
                /\ \A r \in ReportsOf(o) : Rank(r.status) <= Rank(l.status)
  <2>1. \A r \in ReportsOf(o) : r.ts \in 0..brokerClock /\ r.status \in Spoken
    BY ReportsHaveTypes DEF Reports, Times
  <2>2. \A r \in ReportsOf(o) : r.ts \in 0..brokerClock /\ Rank(r.status) \in 0..30
    BY <2>1, SpokenRanks
  <2>3. /\ Latest(ReportsOf(o)) \in ReportsOf(o)
        /\ \A s \in ReportsOf(o) : Later(Latest(ReportsOf(o)), s)
    BY <1>1, <2>2, LatestIsLast DEF ReconcileTypes
  <2>4. Seen(o, status) = Latest(ReportsOf(o)).status
    BY <1>1 DEF Seen
  <2>5. \A r \in ReportsOf(o) : Rank(r.status) <= Rank(Latest(ReportsOf(o)).status)
    BY <2>2, <2>3 DEF Later
  <2> QED
    BY <2>3, <2>4, <2>5
<1> QED
  BY <1>1 DEF Seen

-----------------------------------------------------------------------------
(* What a comparison finds                                                 *)

LEMMA OpenAtBroker ==
  ASSUME ReconcileTypes, NothingIsAhead, NEW o \in BrokerOrders
  PROVE  o \in BrokerOpen <=> Open(atBroker[o])
<1>1. ASSUME Open(atBroker[o]) PROVE Open(Seen(o, atBroker[o]))
  <2>1. CASE ReportsOf(o) = {}
    BY <1>1, <2>1, SeenIsForemost
  <2>2. CASE ReportsOf(o) # {}
    <3>1. PICK l \in ReportsOf(o) : Seen(o, atBroker[o]) = l.status
      BY <2>2, SeenIsForemost
    <3>2. l.status \in Spoken /\ NotAhead(l.status, atBroker[o])
      BY ReportsHaveTypes DEF Reports, NothingIsAhead
    <3>3. atBroker[o] \in Spoken \cup {"none"}
      BY ReportsHaveTypes
    <3>4. Rank(l.status) \in 1..30 /\ Rank(atBroker[o]) \in 1..29
      BY <1>1, <3>2, <3>3, SpokenRanks
    <3>5. Rank(l.status) \in 1..29
      BY <3>2, <3>4 DEF NotAhead
    <3> QED
      BY <3>1, <3>2, <3>5, SpokenRanks
  <2> QED
    BY <2>1, <2>2
<1> QED
  BY <1>1 DEF BrokerOpen

(* An order is over in the rows that a comparison saves if it is over in   *)
(* its entry or in any of its reports.                                       *)
LEMMA OpenLocally ==
  ASSUME ReconcileTypes, NEW o \in BrokerOrders
  PROVE  o \in LocalOpen <=> Open(Upserted(o).status)
<1> DEFINE kept == {Kept(o, r) : r \in ReportsOf(o)}
           m == MergedStatus(o)
           u == Upserted(o).status
           entry == rows[o].status
<1>1. /\ entry \in Spoken \cup {"none"}
      /\ \A r \in ReportsOf(o) : r.status \in Spoken /\ Kept(o, r).status \in Spoken
  BY ReportsHaveTypes DEF Reports, Rows, NoRow
<1>2. /\ \A y \in kept : Rank(y.status) <= Rank(u)
      /\ Rank(entry) <= Rank(u)
      /\ u = entry \/ \E r \in ReportsOf(o) : u = Kept(o, r).status
  BY UpsertedIsForemost
<1>3. /\ \A r \in ReportsOf(o) : Rank(r.status) <= Rank(m)
      /\ Rank(entry) <= Rank(m)
      /\ m = entry \/ \E r \in ReportsOf(o) : m = r.status
  BY MergedIsForemost
<1>4. \A r \in ReportsOf(o) :
        Rank(r.status) \in 1..30 /\ (Rank(r.status) = 30 <=> Rank(Kept(o, r).status) = 30)
  BY <1>1 DEF Kept, Spoken, Rank, TerminalStatuses, TerminalRank
<1>5. \A r \in ReportsOf(o) : Rank(Kept(o, r).status) \in 1..30
  BY <1>1, SpokenRanks
<1>6. u \in Spoken \cup {"none"} /\ m \in Spoken \cup {"none"}
  BY <1>1, <1>2, <1>3
<1>7. Rank(u) \in 0..30 /\ Rank(m) \in 0..30 /\ Rank(entry) \in 0..30
  BY <1>1, <1>6, SpokenRanks
<1> HIDE DEF m, u, entry
<1>8. \A r \in ReportsOf(o) : Rank(Kept(o, r).status) <= Rank(u)
  BY <1>2 DEF kept
<1>9. Rank(u) = 30 <=> Rank(m) = 30
  BY <1>2, <1>3, <1>4, <1>5, <1>7, <1>8
<1>10. Rank(u) = 0 <=> Rank(m) = 0
  BY <1>2, <1>3, <1>4, <1>5, <1>7, <1>8
<1>11. Open(u) <=> Open(m)
  BY <1>6, <1>7, <1>9, <1>10, SpokenRanks
<1>12. ASSUME Open(m) PROVE Open(Seen(o, m))
  <2>1. CASE ReportsOf(o) = {}
    BY <1>12, <2>1, SeenIsForemost
  <2>2. CASE ReportsOf(o) # {}
    <3>1. PICK l \in ReportsOf(o) : Seen(o, m) = l.status
      BY <2>2, SeenIsForemost
    <3>2. Rank(l.status) \in 1..29
      BY <1>3, <1>4, <1>6, <1>7, <1>12, SpokenRanks
    <3> QED
      BY <1>1, <3>1, <3>2, SpokenRanks
  <2> QED
    BY <2>1, <2>2
<1> QED
  BY <1>11, <1>12 DEF LocalOpen, m, u

LEMMA AgreementIsReal ==
  ReconcileTypes /\ NothingIsAhead => AgreedOrdersAreOpen
<1> SUFFICES ASSUME ReconcileTypes, NothingIsAhead, OrderStatus = "ok", NEW o \in BrokerOrders
             PROVE  Open(atBroker[o]) <=> Open(Upserted(o).status)
  BY DEF AgreedOrdersAreOpen
<1>1. LocalOpen = BrokerOpen
  BY DEF OrderStatus
<1> QED
  BY <1>1, OpenAtBroker, OpenLocally

(* If nothing was lost and the broker waited, the entry or the latest report *)
(* of an order is what the broker has.                                     *)
LEMMA DriftIsExplained == ReconcileInv => DriftIsReal
<1> SUFFICES ASSUME ReconcileInv, syncing, ~moved, ~(lost > 0) PROVE OrderStatus = "ok"
  BY DEF DriftIsReal, OrderStatus
<1>1. ReconcileTypes /\ NothingIsAhead /\ lost = 0
  BY DEF ReconcileInv, ReconcileTypes
<1>2. ASSUME NEW o \in BrokerOrders
      PROVE  /\ o \in LocalOpen <=> o \in BrokerOpen
             /\ Comparable(Seen(o, MergedStatus(o))) = Comparable(Seen(o, atBroker[o]))
  <2>1. /\ atBroker[o] \in Spoken \cup {"none"} /\ rows[o] \in Rows \cup {NoRow}
        /\ \A r \in ReportsOf(o) : r \in bundle /\ r.order = o /\ r.status \in Spoken
    BY <1>1, ReportsHaveTypes DEF Reports
  <2>2. o \in BrokerOpen <=> Open(atBroker[o])
    BY <1>1, OpenAtBroker
  <2>3. CASE ReportsOf(o) = {}
    <3>1. Comparable(rows[o].status) = Comparable(atBroker[o])
      BY <1>1, <2>3 DEF ReconcileInv, NothingIsMissed, Covered, Pending, ReportsOf
    <3>2. MergedStatus(o) = rows[o].status
      BY <2>3, <1>1, MergedIsForemost
    <3>3. rows[o].status \in Spoken \cup {"none"}
      BY <2>1 DEF Rows, NoRow
    <3>4. Open(rows[o].status) <=> Open(atBroker[o])
      BY <2>1, <3>1, <3>3
         DEF Comparable, Open, Spoken, IsTerminal, TerminalStatuses
    <3>5. /\ Seen(o, MergedStatus(o)) = rows[o].status
          /\ Seen(o, atBroker[o]) = atBroker[o]
      BY <1>1, <2>3, <3>2, SeenIsForemost
    <3>6. o \in LocalOpen <=> Open(rows[o].status)
      BY <3>2, <3>5 DEF LocalOpen
    <3> QED
      BY <2>2, <3>1, <3>4, <3>5, <3>6
  <2>4. CASE ReportsOf(o) # {}
    <3>1. PICK q \in bundle : q.order = o /\ q.status = atBroker[o]
      BY <1>1, <2>1, <2>4 DEF ReconcileInv, ReportsAreUpToDate, UpToDate
    <3>2. q \in ReportsOf(o)
      BY <3>1 DEF ReportsOf
    <3>3. Seen(o, MergedStatus(o)) = Seen(o, atBroker[o])
      BY <2>4 DEF Seen
    <3>4. \A r \in ReportsOf(o) : NotAhead(r.status, atBroker[o])
      BY <1>1, <2>1 DEF NothingIsAhead
    <3>5. /\ atBroker[o] \in Spoken /\ Rank(atBroker[o]) \in 1..30
          /\ \A r \in ReportsOf(o) : Rank(r.status) \in 1..30
      BY <2>1, <3>1, <3>2, SpokenRanks
    <3>6. \A r \in ReportsOf(o) : Rank(r.status) <= Rank(atBroker[o])
      BY <3>4, <3>5 DEF NotAhead
    <3>7. rows[o] # NoRow => NotAhead(Comparable(rows[o].status), Comparable(atBroker[o]))
      BY <1>1 DEF NothingIsAhead
    <3>8. rows[o].status \in Spoken \cup {"none"}
      BY <2>1 DEF Rows, NoRow
    <3>9. Rank(rows[o].status) = 30 => Rank(atBroker[o]) = 30
      <4>1. CASE rows[o] = NoRow
        BY <4>1, SpokenRanks DEF NoRow
      <4>2. CASE rows[o] # NoRow
        BY <3>5, <3>7, <3>8, <4>2
           DEF NotAhead, Comparable, Rank, Spoken, TerminalStatuses, TerminalRank
      <4> QED
        BY <4>1, <4>2
    <3>10. /\ \E x \in ReportsOf(o) \cup {rows[o]} : MergedStatus(o) = x.status
           /\ Rank(atBroker[o]) <= Rank(MergedStatus(o))
      BY <1>1, <3>1, <3>2, MergedIsForemost
    <3>11. MergedStatus(o) \in Spoken \cup {"none"}
      BY <2>1, <3>8, <3>10
    <3>12. Rank(MergedStatus(o)) = 30 <=> Rank(atBroker[o]) = 30
      BY <3>5, <3>6, <3>9, <3>10, <3>11, SpokenRanks
    <3>13. Open(MergedStatus(o)) <=> Open(atBroker[o])
      BY <3>5, <3>10, <3>11, <3>12, SpokenRanks
    <3> QED
      BY <2>2, <3>3, <3>13 DEF LocalOpen, BrokerOpen
  <2> QED
    BY <2>3, <2>4
<1>3. LocalOpen = BrokerOpen
  BY <1>2 DEF LocalOpen, BrokerOpen
<1>4. LocalOpen \subseteq BrokerOrders
  BY DEF LocalOpen
<1> QED
  BY <1>2, <1>3, <1>4 DEF OrderStatus

-----------------------------------------------------------------------------
(* The invariant                                                           *)

LEMMA ReconcileStarts == ReconcileInit => ReconcileInv
<1> SUFFICES ASSUME ReconcileInit PROVE ReconcileInv
  OBVIOUS
<1>1. ReconcileTypes
  BY DEF ReconcileInit, ReconcileTypes
<1>2. NothingIsAhead /\ ReportsAreUpToDate
  BY DEF ReconcileInit, NothingIsAhead, ReportsAreUpToDate, UpToDate
<1>3. NothingIsMissed
  BY DEF ReconcileInit, NothingIsMissed, Covered, NoRow
<1> QED
  BY <1>1, <1>2, <1>3 DEF ReconcileInv

(* The broker moves an order, and says so or not.                          *)
LEMMA BrokerMovesSteps ==
  ASSUME ReconcileInv, NEW o \in BrokerOrders, NEW s \in Statuses, NEW reported \in BOOLEAN,
         BrokerMoves(o, s, reported)
  PROVE  ReconcileInv'
<1> DEFINE news == [order |-> o, status |-> s, ts |-> brokerClock]
<1>1. /\ UNCHANGED <<brokerClock, rows, syncing, bundle>> /\ moved' = syncing
      /\ atBroker' = [atBroker EXCEPT ![o] = s]
      /\ said' = IF reported THEN said \cup {news} ELSE said
      /\ lost' = IF reported THEN lost ELSE lost + 1
  BY DEF BrokerMoves
<1>2. /\ s \in Spoken /\ Rank(atBroker[o]) < Rank(s)
      /\ \/ Comparable(atBroker[o]) = Comparable(s)
         \/ Rank(Comparable(atBroker[o])) < Rank(Comparable(s))
  BY BrokerMovesOn DEF BrokerMoves
<1>3. ReconcileTypes
  BY DEF ReconcileInv
<1>4. news \in Reports /\ news.order = o /\ news.status = s /\ news.ts = brokerClock
  BY <1>2, <1>3 DEF ReconcileTypes, Reports, Times
<1> HIDE DEF news
<1>5. /\ atBroker'[o] = s
      /\ \A p \in BrokerOrders : p # o => atBroker'[p] = atBroker[p]
  BY <1>1, <1>3 DEF ReconcileTypes
<1>6. Times' = Times /\ Reports' = Reports /\ Rows' = Rows
  BY <1>1 DEF Times, Reports, Rows
<1>7. ReconcileTypes'
  BY <1>1, <1>2, <1>3, <1>4, <1>6 DEF ReconcileTypes
<1>8. \A r \in said \cup bundle : r \in Reports
  BY <1>3 DEF ReconcileTypes
<1>9. NothingIsAhead'
  <2>1. ASSUME NEW r \in said' \cup bundle' PROVE NotAhead(r.status, atBroker'[r.order])
    <3>1. CASE r = news
      BY <1>4, <1>5, <3>1 DEF NotAhead
    <3>2. CASE r \in said \cup bundle
      <4>1. NotAhead(r.status, atBroker[r.order]) /\ r.order \in BrokerOrders /\ r.status \in Spoken
        BY <1>8, <3>2 DEF ReconcileInv, NothingIsAhead, Reports
      <4>2. CASE r.order = o
        <5>1. Rank(r.status) \in 0..30 /\ Rank(s) \in 0..30 /\ Rank(atBroker[o]) \in 0..30
          BY <1>2, <1>3, <4>1, SpokenRanks DEF ReconcileTypes
        <5> QED
          BY <1>2, <1>5, <4>1, <4>2, <5>1 DEF NotAhead
      <4> QED
        BY <1>5, <4>1, <4>2
    <3> QED
      BY <1>1, <2>1, <3>1, <3>2
  <2>2. ASSUME NEW p \in BrokerOrders, rows'[p] # NoRow
        PROVE  NotAhead(Comparable(rows'[p].status), Comparable(atBroker'[p]))
    <3>1. /\ NotAhead(Comparable(rows[p].status), Comparable(atBroker[p]))
          /\ rows[p].status \in Spoken
      BY <1>1, <1>3, <2>2 DEF ReconcileInv, NothingIsAhead, ReconcileTypes, Rows
    <3>2. CASE p = o
      <4>1. /\ Comparable(rows[p].status) \in Spoken
            /\ Comparable(atBroker[p]) \in Spoken \cup {"none"} /\ Comparable(s) \in Spoken
        BY <1>2, <1>3, <3>1, SpokenRanks DEF ReconcileTypes
      <4>2. /\ Rank(Comparable(rows[p].status)) \in 0..30
            /\ Rank(Comparable(atBroker[p])) \in 0..30 /\ Rank(Comparable(s)) \in 0..30
        BY <4>1, SpokenRanks
      <4> QED
        BY <1>1, <1>2, <1>5, <3>1, <3>2, <4>2 DEF NotAhead
    <3> QED
      BY <1>1, <1>5, <3>1, <3>2
  <2> QED
    BY <2>1, <2>2 DEF NothingIsAhead
<1>10. ASSUME lost' = 0 PROVE lost = 0 /\ reported /\ said' = said \cup {news}
  BY <1>1, <1>3, <1>10 DEF ReconcileTypes
<1>11. ReportsAreUpToDate'
  <2> SUFFICES ASSUME lost' = 0 PROVE UpToDate(said)' /\ (~moved' => UpToDate(bundle)')
    BY DEF ReportsAreUpToDate
  <2>1. UpToDate(said)
    BY <1>10 DEF ReconcileInv, ReportsAreUpToDate
  <2>2. UpToDate(said)'
    <3> SUFFICES ASSUME NEW r \in said'
                 PROVE  \E q \in said' :
                          q.order = r.order /\ q.status = atBroker'[r.order] /\ q.ts >= r.ts
      BY DEF UpToDate
    <3>1. r \in Reports /\ r.ts <= brokerClock /\ r.ts \in Nat /\ brokerClock \in Nat
      BY <1>3, <1>4, <1>8, <1>10 DEF Reports, Times, ReconcileTypes
    <3>2. CASE r.order = o
      BY <1>4, <1>5, <1>10, <3>1, <3>2
    <3>3. CASE r.order # o
      <4>1. r \in said /\ r.order \in BrokerOrders
        BY <1>4, <1>10, <3>1, <3>3 DEF Reports
      <4>2. PICK q \in said : q.order = r.order /\ q.status = atBroker[r.order] /\ q.ts >= r.ts
        BY <2>1, <4>1 DEF UpToDate
      <4> QED
        BY <1>5, <1>10, <3>3, <4>1, <4>2
    <3> QED
      BY <3>2, <3>3
  <2>3. ~moved' => bundle' = {}
    BY <1>1, <1>3 DEF ReconcileTypes
  <2>4. ~moved' => UpToDate(bundle)'
    BY <2>3 DEF UpToDate
  <2> QED
    BY <2>2, <2>4
<1>12. NothingIsMissed'
  <2> SUFFICES ASSUME lost' = 0, NEW p \in BrokerOrders PROVE Covered(p)'
    BY DEF NothingIsMissed
  <2>1. Covered(p)
    BY <1>10 DEF ReconcileInv, NothingIsMissed
  <2>2. Pending \subseteq Pending' /\ news \in Pending'
    BY <1>1, <1>3, <1>10 DEF Pending, ReconcileTypes
  <2>3. CASE p = o
    BY <1>4, <1>5, <2>2, <2>3 DEF Covered
  <2>4. CASE p # o
    BY <1>1, <1>5, <2>1, <2>2, <2>4 DEF Covered
  <2> QED
    BY <2>3, <2>4
<1> QED
  BY <1>7, <1>9, <1>11, <1>12 DEF ReconcileInv

(* What a report or a entry shows does not depend on the time.               *)
LEMMA RowsRest ==
  ASSUME ReconcileInv, UNCHANGED <<atBroker, said, bundle, lost, syncing, moved>>,
         rows' = rows
  PROVE  NothingIsAhead' /\ ReportsAreUpToDate' /\ NothingIsMissed'
BY DEF ReconcileInv, NothingIsAhead, ReportsAreUpToDate, UpToDate, NothingIsMissed, Covered,
       Pending

LEMMA RequestCancelSteps ==
  ASSUME ReconcileInv, NEW o \in BrokerOrders, RequestCancel(o)
  PROVE  ReconcileInv'
<1> DEFINE status == IF rows[o].status = "reported" THEN "reported_cancel_pending"
                     ELSE "partially_filled_cancel_pending"
<1>1. /\ UNCHANGED <<brokerClock, atBroker, said, lost, syncing, bundle, moved>>
      /\ rows[o].status \in {"reported", "partially_filled"}
      /\ rows' = [rows EXCEPT ![o].status = status]
  BY DEF RequestCancel
<1>2. ReconcileTypes
  BY DEF ReconcileInv
<1>3. rows[o] # NoRow /\ rows[o] \in Rows
  BY <1>1, <1>2 DEF ReconcileTypes, NoRow
<1>4. /\ rows' = [rows EXCEPT ![o] = [rows[o] EXCEPT !.status = status]]
      /\ status \in Spoken /\ Comparable(status) = Comparable(rows[o].status)
  BY <1>1 DEF Spoken, Comparable
<1> HIDE DEF status
<1>5. /\ [rows[o] EXCEPT !.status = status] \in Rows
      /\ [rows[o] EXCEPT !.status = status].status = status
  BY <1>3, <1>4 DEF Rows
<1>6. /\ rows' \in [BrokerOrders -> Rows \cup {NoRow}]
      /\ rows'[o].status = status
      /\ \A p \in BrokerOrders : p # o => rows'[p] = rows[p]
  BY <1>2, <1>4, <1>5 DEF ReconcileTypes
<1>7. ReconcileTypes'
  BY <1>1, <1>2, <1>6 DEF ReconcileTypes, Rows, Reports, Times
<1>8. \A p \in BrokerOrders : Comparable(rows'[p].status) = Comparable(rows[p].status)
  BY <1>4, <1>6
<1>9. NothingIsAhead'
  BY <1>1, <1>3, <1>6, <1>8 DEF ReconcileInv, NothingIsAhead
<1>10. ReportsAreUpToDate'
  BY <1>1 DEF ReconcileInv, ReportsAreUpToDate, UpToDate
<1>11. NothingIsMissed'
  BY <1>1, <1>8 DEF ReconcileInv, NothingIsMissed, Covered, Pending
<1> QED
  BY <1>7, <1>9, <1>10, <1>11 DEF ReconcileInv

LEMMA CollectSteps ==
  ASSUME ReconcileInv, Collect
  PROVE  ReconcileInv'
<1>1. /\ UNCHANGED <<brokerClock, atBroker, lost, rows>>
      /\ ~syncing /\ syncing' = TRUE /\ moved' = FALSE /\ bundle' = said
      /\ said' = {r \in said : \A other \in said : other.ts <= r.ts}
  BY DEF Collect
<1>2. ReconcileTypes'
  BY <1>1 DEF ReconcileInv, ReconcileTypes, Rows, Reports, Times
<1>3. NothingIsAhead'
  BY <1>1 DEF ReconcileInv, NothingIsAhead
<1>4. ReportsAreUpToDate'
  <2> SUFFICES ASSUME lost' = 0 PROVE UpToDate(said)' /\ UpToDate(bundle)'
    BY DEF ReportsAreUpToDate
  <2>1. UpToDate(said)
    BY <1>1 DEF ReconcileInv, ReportsAreUpToDate
  <2>2. UpToDate(said)'
    <3> SUFFICES ASSUME NEW r \in said'
                 PROVE  \E q \in said' :
                          q.order = r.order /\ q.status = atBroker'[r.order] /\ q.ts >= r.ts
      BY DEF UpToDate
    <3>1. r \in said /\ \A other \in said : other.ts <= r.ts
      BY <1>1
    <3>2. PICK q \in said : q.order = r.order /\ q.status = atBroker[r.order] /\ q.ts >= r.ts
      BY <2>1, <3>1 DEF UpToDate
    <3>3. \A other \in said : other.ts \in Nat
      BY DEF ReconcileInv, ReconcileTypes, Reports, Times
    <3>4. q \in said'
      BY <1>1, <3>1, <3>2, <3>3
    <3> QED
      BY <1>1, <3>2, <3>4
  <2> QED
    BY <1>1, <2>1, <2>2 DEF UpToDate
<1>5. NothingIsMissed'
  BY <1>1 DEF ReconcileInv, NothingIsMissed, Covered, Pending
<1> QED
  BY <1>2, <1>3, <1>4, <1>5 DEF ReconcileInv

(* A entry that takes what it is told stays behind the broker, and reaches   *)
(* it if the report of the present status is among the ones it is told.    *)
LEMMA CompareSteps ==
  ASSUME ReconcileInv, Compare
  PROVE  ReconcileInv'
<1>1. /\ UNCHANGED <<brokerClock, atBroker, said, lost>>
      /\ syncing /\ syncing' = FALSE /\ bundle' = {} /\ moved' = FALSE
      /\ rows' = [o \in BrokerOrders |-> Upserted(o)]
  BY DEF Compare
<1>2. ReconcileTypes /\ NothingIsAhead
  BY DEF ReconcileInv
<1>3. ReconcileTypes'
  BY <1>1, <1>2, UpsertedIsForemost DEF ReconcileTypes, Rows, Reports, Times
<1>4. ASSUME NEW o \in BrokerOrders
      PROVE  /\ Upserted(o) # NoRow =>
                  NotAhead(Comparable(Upserted(o).status), Comparable(atBroker[o]))
             /\ Comparable(rows[o].status) = Comparable(atBroker[o]) =>
                  Comparable(Upserted(o).status) = Comparable(atBroker[o])
             /\ (\E r \in bundle : r.order = o /\ r.status = atBroker[o]) =>
                  Comparable(Upserted(o).status) = Comparable(atBroker[o])
  <2> DEFINE kept == {Kept(o, r) : r \in ReportsOf(o)}
             u == Upserted(o)
             there == atBroker[o]
  <2>1. /\ rows[o] \in Rows \cup {NoRow} /\ there \in Spoken \cup {"none"}
        /\ \A r \in ReportsOf(o) :
             r.status \in Spoken /\ NotAhead(r.status, there) /\ Kept(o, r) \in Rows
    BY <1>2, ReportsHaveTypes DEF Reports, NothingIsAhead
  <2>2. /\ u \in kept \cup {rows[o]}
        /\ \A y \in kept \cup {rows[o]} : Rank(y.status) <= Rank(u.status)
        /\ u \in Rows \cup {NoRow}
    BY <1>2, UpsertedIsForemost
  <2>3. \A r \in ReportsOf(o) :
          \/ Kept(o, r).status = r.status
          \/ Kept(o, r).status = "partially_filled_cancel_pending" /\ r.status = "partially_filled"
    BY DEF Kept
  <2>4. \A r \in ReportsOf(o) : NotAhead(Comparable(Kept(o, r).status), Comparable(there))
    <3> SUFFICES ASSUME NEW r \in ReportsOf(o)
                 PROVE  NotAhead(Comparable(Kept(o, r).status), Comparable(there))
      OBVIOUS
    <3>1. Comparable(Kept(o, r).status) = Comparable(r.status)
      BY <2>3 DEF Comparable
    <3>2. r.status \in Spoken /\ there \in Spoken \cup {"none"} /\ NotAhead(r.status, there)
      BY <2>1
    <3> HIDE DEF there
    <3> QED
      BY <3>1, <3>2 DEF NotAhead, Comparable, Rank, Spoken, TerminalStatuses, TerminalRank
  <2>5. rows[o] # NoRow => NotAhead(Comparable(rows[o].status), Comparable(there))
    BY <1>2 DEF NothingIsAhead
  <2>6. u # NoRow => NotAhead(Comparable(u.status), Comparable(there))
    <3> HIDE DEF u, there
    <3> QED
      BY <2>2, <2>4, <2>5
  <2>7. /\ rows[o].status \in Spoken \cup {"none"}
        /\ u.status \in Spoken \cup {"none"}
        /\ rows[o] = NoRow \/ rows[o].status \in Spoken
        /\ Rank(rows[o].status) <= Rank(u.status)
    BY <2>1, <2>2 DEF Rows, NoRow
  <2>8. u = NoRow => rows[o] = NoRow
    <3> HIDE DEF u
    <3>1. Rank("none") = 0 /\ \A s \in Spoken : Rank(s) \in 1..30
      BY SpokenRanks
    <3> QED
      BY <2>7, <3>1 DEF NoRow
  <2>9. Comparable(rows[o].status) = Comparable(there) => Comparable(u.status) = Comparable(there)
    <3>1. CASE u = NoRow
      BY <2>8, <3>1
    <3>2. CASE u # NoRow
      <4> DEFINE entry == rows[o].status
                 status == u.status
      <4>1. /\ entry \in Spoken \cup {"none"} /\ status \in Spoken \cup {"none"}
            /\ there \in Spoken \cup {"none"} /\ Rank(entry) <= Rank(status)
            /\ NotAhead(Comparable(status), Comparable(there))
        BY <2>1, <2>6, <2>7, <3>2
      <4> HIDE DEF entry, status, there
      <4>2. Comparable(entry) = Comparable(there) => Comparable(status) = Comparable(there)
        BY <4>1 DEF NotAhead, Comparable, Rank, Spoken, TerminalStatuses, TerminalRank
      <4> QED
        BY <4>2 DEF entry, status
    <3> QED
      BY <3>1, <3>2
  <2>10. ASSUME NEW r \in bundle, r.order = o, r.status = there
         PROVE  Comparable(u.status) = Comparable(there)
    <3>1. r \in ReportsOf(o)
      BY <2>10 DEF ReportsOf
    <3>2. there \in Spoken /\ Rank(there) <= Rank(u.status)
      <4>1. there \in Spoken /\ Rank(Kept(o, r).status) <= Rank(u.status)
        BY <2>1, <2>2, <2>10, <3>1
      <4>2. \/ Kept(o, r).status = there
            \/ Kept(o, r).status = "partially_filled_cancel_pending" /\ there = "partially_filled"
        BY <2>3, <2>10, <3>1
      <4>3. /\ Rank(u.status) \in 0..30 /\ Rank(there) \in 0..30
            /\ Rank(Kept(o, r).status) \in 0..30
            /\ Rank("partially_filled_cancel_pending") = 22 /\ Rank("partially_filled") = 20
        <5>1. Rank("partially_filled_cancel_pending") = 22 /\ Rank("partially_filled") = 20
          BY DEF Rank, TerminalStatuses
        <5>2. Kept(o, r).status \in Spoken
          BY <2>1, <3>1 DEF Rows
        <5> QED
          BY <2>7, <4>1, <5>1, <5>2, SpokenRanks
      <4> QED
        BY <4>1, <4>2, <4>3
    <3>3. u # NoRow
      <4>1. Rank(there) \in 1..30 /\ Rank("none") = 0
        BY <3>2, SpokenRanks
      <4> QED
        BY <3>2, <4>1 DEF NoRow
    <3>4. u.status \in Spoken \cup {"none"} /\ NotAhead(Comparable(u.status), Comparable(there))
      BY <2>6, <2>7, <3>3
    <3> DEFINE status == u.status
    <3>5. /\ there \in Spoken /\ Rank(there) <= Rank(status) /\ status \in Spoken \cup {"none"}
          /\ NotAhead(Comparable(status), Comparable(there))
      BY <3>2, <3>4
    <3> HIDE DEF status, there
    <3>6. Comparable(status) = Comparable(there)
      BY <3>5 DEF NotAhead, Comparable, Rank, Spoken, TerminalStatuses, TerminalRank
    <3> QED
      BY <3>6 DEF status
  <2> QED
    BY <2>6, <2>9, <2>10
<1>5. NothingIsAhead'
  <2>1. \A r \in said : NotAhead(r.status, atBroker[r.order])
    BY <1>2 DEF NothingIsAhead
  <2> QED
    BY <1>1, <1>4, <2>1 DEF NothingIsAhead
<1>6. ReportsAreUpToDate'
  BY <1>1 DEF ReconcileInv, ReportsAreUpToDate, UpToDate
<1>7. NothingIsMissed'
  <2> SUFFICES ASSUME lost' = 0, NEW o \in BrokerOrders PROVE Covered(o)'
    BY DEF NothingIsMissed
  <2>1. Covered(o)
    BY <1>1 DEF ReconcileInv, NothingIsMissed
  <2>2. rows'[o] = Upserted(o) /\ Pending' = said /\ atBroker' = atBroker
    BY <1>1 DEF Pending
  <2>3. CASE Comparable(rows[o].status) = Comparable(atBroker[o])
    BY <1>4, <2>2, <2>3 DEF Covered
  <2>4. CASE \E r \in Pending : r.order = o /\ r.status = atBroker[o]
    <3>1. PICK r \in said \cup bundle : r.order = o /\ r.status = atBroker[o]
      BY <1>1, <2>4 DEF Pending
    <3> QED
      BY <1>4, <2>2, <3>1 DEF Covered
  <2> QED
    BY <2>1, <2>3, <2>4 DEF Covered
<1> QED
  BY <1>3, <1>5, <1>6, <1>7 DEF ReconcileInv

LEMMA ReconcileSteps == ReconcileInv /\ [ReconcileNext]_reconcileVars => ReconcileInv'
<1> SUFFICES ASSUME ReconcileInv, [ReconcileNext]_reconcileVars PROVE ReconcileInv'
  OBVIOUS
<1>1. CASE Elapse
  <2>1. ReconcileTypes'
    BY <1>1 DEF Elapse, ReconcileInv, ReconcileTypes, Rows, Reports, Times
  <2> QED
    BY <1>1, <2>1, RowsRest DEF Elapse, ReconcileInv
<1>2. CASE UNCHANGED reconcileVars
  <2>1. ReconcileTypes'
    BY <1>2 DEF reconcileVars, ReconcileInv, ReconcileTypes, Rows, Reports, Times
  <2> QED
    BY <1>2, <2>1, RowsRest DEF reconcileVars, ReconcileInv
<1>3. CASE Collect
  BY <1>3, CollectSteps
<1>4. CASE Compare
  BY <1>4, CompareSteps
<1>5. ASSUME NEW o \in BrokerOrders, RequestCancel(o) PROVE ReconcileInv'
  BY <1>5, RequestCancelSteps
<1>6. ASSUME NEW o \in BrokerOrders, NEW s \in Statuses, NEW reported \in BOOLEAN,
             BrokerMoves(o, s, reported)
      PROVE  ReconcileInv'
  BY <1>6, BrokerMovesSteps
<1> QED
  BY <1>1, <1>2, <1>3, <1>4, <1>5, <1>6 DEF ReconcileNext

(* A comparison finds a drift only if the broker lost a report or changed  *)
(* while it was read; and when it finds none, the rows it saves have the   *)
(* orders open that the broker has.                                        *)
THEOREM VerdictsOnOrdersAreReal == ReconcileSpec => []OrderDriftIsReal
<1>1. ReconcileInv => OrderDriftIsReal
  BY AgreementIsReal, DriftIsExplained DEF ReconcileInv, OrderDriftIsReal
<1> QED
  BY <1>1, ReconcileStarts, ReconcileSteps, PTL DEF ReconcileSpec

-----------------------------------------------------------------------------
(* The maximum of the community modules is one, where there is one.        *)
LEMMA MaxIsMember ==
  ASSUME NEW n \in Nat, NEW T \in SUBSET (0..n), T # {}
  PROVE  Max(T) \in T
<1>1. PICK m \in T : \A k \in T : k <= m
  BY GreatestExists
<1>2. \A k \in T : m >= k
  BY <1>1, SMT
<1> QED
  BY <1>2, Zenon DEF Max

-----------------------------------------------------------------------------
(* The synchronisation of callbacks                                        *)

Cursors == Nat \cup {NoSeq}
CursorRows == [scoped : BOOLEAN, shadow : Cursors, real : Cursors]
Callbacks == [role : Roles, session : Nat, seq : Nat, time : Nat]
Pumps == [at : {"collected", "saved", "savedReal"}, events : SUBSET Callbacks, cursor : Cursors]

SyncTypes ==
  /\ session \in [Roles -> Nat] /\ sessions \in Nat
  /\ journal \in [Roles -> Seq(Nat)] /\ arrived \in Nat
  /\ engine \in {"none", "attaching", "loaded"}
  /\ row \in CursorRows /\ base \in [Roles -> Cursors]
  /\ pump \in Pumps \cup {NoPump}

Opened == engine # "none" => \A r \in Roles : session[r] # 0

(* The ghost follows the cursor that a client inherits or sets first.      *)
CursorsStart == \A r \in Roles : base[r] # NoSeq => Scope(row, r) # NoSeq

(* A cursor that was inherited from an earlier client may lie beyond the   *)
(* journal of the new one; every later cursor lies inside.                 *)
CursorsStayInside ==
  \A r \in Roles :
    session[r] # 0 /\ base[r] # NoSeq =>
      Scope(row, r) = base[r] \/ Scope(row, r) <= Len(journal[r])

NoneSkipped ==
  \A r \in Roles : \A n \in DOMAIN journal[r] :
    session[r] # 0 /\ base[r] # NoSeq /\ base[r] < n /\ n <= Scope(row, r)
      => Callback(r, n) \in eventLog

(* What lies between the persisted cursor of the shadow broker and the     *)
(* cursor a pump will persist is in the hands of that pump, and in the log *)
(* as soon as it has saved its events.                                     *)
PumpCovers ==
  LET c == Scope(row, "shadow") IN
    c # NoSeq =>
      /\ pump.cursor = c \/ pump.cursor \in DOMAIN journal["shadow"]
      /\ \A n \in DOMAIN journal["shadow"] :
           c < n /\ n <= pump.cursor => Callback("shadow", n) \in pump.events
PumpHolds ==
  pump # NoPump =>
    /\ engine = "loaded"
    /\ pump.at # "collected" => pump.events \subseteq eventLog
    /\ PumpCovers

SyncInv ==
  SyncTypes /\ Opened /\ CursorsStart /\ CursorsStayInside /\ NoneSkipped /\ PumpHolds

LEMMA NoPumpIsNone == NoPump \notin Pumps
  BY SMT DEF NoPump, Pumps

LEMMA FieldSet ==
  ASSUME NEW S, NEW T, NEW r \in [scoped : S, shadow : T, real : T], NEW b \in S
  PROVE  /\ [r EXCEPT !.scoped = b] \in [scoped : S, shadow : T, real : T]
         /\ [r EXCEPT !.scoped = b].scoped = b
         /\ [r EXCEPT !.scoped = b].shadow = r.shadow
         /\ [r EXCEPT !.scoped = b].real = r.real
  BY SMT

(* Writing one scope of the row leaves the other alone, also the first     *)
(* time, when a flat cursor is turned into scopes.                         *)
LEMMA MergedKeepsTheOther ==
  ASSUME NEW r \in CursorRows, NEW role \in Roles, NEW c \in Cursors
  PROVE  /\ Merged(r, role, c) \in CursorRows
         /\ Scope(Merged(r, role, c), role) = c
         /\ \A q \in Roles : q # role => Scope(Merged(r, role, c), q) = Scope(r, q)
<1>1. NoSeq \in Cursors
  BY DEF Cursors
<1>2. CASE role = "shadow" /\ ~r.scoped
  <2>1. Merged(r, role, c) = Flat(c)
    BY <1>2 DEF Merged
  <2>2. Flat(c) \in CursorRows /\ ~Flat(c).scoped /\ Flat(c).shadow = c
    BY <1>1, SMT DEF Flat, CursorRows
  <2> QED
    BY <1>2, <2>1, <2>2, SMT DEF Scope, Roles
<1>3. CASE role = "shadow" /\ r.scoped
  <2> DEFINE m == [r EXCEPT !.scoped = TRUE, !["shadow"] = c]
  <2>1. Merged(r, role, c) = m
    BY <1>3 DEF Merged
  <2> DEFINE s == [r EXCEPT !.scoped = TRUE]
  <2>2. s \in CursorRows /\ s.scoped = TRUE /\ s.real = r.real
    BY FieldSet DEF CursorRows
  <2>3. m = [s EXCEPT !["shadow"] = c]
    OBVIOUS
  <2>4. m \in CursorRows /\ m.scoped = TRUE /\ m["shadow"] = c /\ m["real"] = r["real"]
    <3> HIDE DEF s
    <3> QED
      BY <2>2, <2>3, SMT DEF CursorRows
  <2> HIDE DEF m
  <2> QED
    BY <1>3, <2>1, <2>4, SMT DEF Scope, Roles
<1>4. CASE role = "real"
  <2> DEFINE m == [r EXCEPT !.scoped = TRUE, !["real"] = c]
  <2>1. Merged(r, role, c) = m
    BY <1>4 DEF Merged
  <2> DEFINE s == [r EXCEPT !.scoped = TRUE]
  <2>2. s \in CursorRows /\ s.scoped = TRUE /\ s.shadow = r.shadow
    BY FieldSet DEF CursorRows
  <2>3. m = [s EXCEPT !["real"] = c]
    OBVIOUS
  <2>4. m \in CursorRows /\ m.scoped = TRUE /\ m["real"] = c /\ m["shadow"] = r["shadow"]
    <3> HIDE DEF s
    <3> QED
      BY <2>2, <2>3, SMT DEF CursorRows
  <2> HIDE DEF m
  <2> QED
    BY <1>4, <2>1, <2>4, SMT DEF Scope, Roles
<1> QED
  BY <1>2, <1>3, <1>4 DEF Roles

(* A cursor moves to a callback of the journal, or stays.                  *)
LEMMA NextCursorStays ==
  ASSUME SyncTypes, NEW r \in Roles, NEW c \in Cursors
  PROVE  /\ NextCursor(r, c) \in Cursors
         /\ c # NoSeq => NextCursor(r, c) = c \/ NextCursor(r, c) \in DOMAIN journal[r]
<1> USE SyncAssumption DEF Cursors
<1>1. journal[r] \in Seq(Nat) /\ Len(journal[r]) \in Nat
      /\ DOMAIN journal[r] = 1..Len(journal[r])
  BY DEF SyncTypes
<1>2. Beyond(r, c) \subseteq DOMAIN journal[r]
  BY DEF Beyond
<1>3. CASE Beyond(r, c) = {}
  BY <1>3 DEF NextCursor
<1>4. CASE Beyond(r, c) # {}
  <2> DEFINE T == Beyond(r, c) \cup (IF c = NoSeq THEN {} ELSE {c})
  <2>1. NextCursor(r, c) = Max(T)
    BY <1>4 DEF NextCursor
  <2>2. PICK n \in Nat : T \subseteq 0..n
    <3>1. CASE c = NoSeq
      BY <1>1, <1>2, <3>1
    <3>2. CASE c # NoSeq
      <4>1. c \in Nat /\ c + Len(journal[r]) \in Nat
        BY <1>1, <3>2
      <4>2. T \subseteq 0..(c + Len(journal[r]))
        <5> SUFFICES ASSUME NEW x \in T PROVE x \in 0..(c + Len(journal[r]))
          OBVIOUS
        <5>1. x \in DOMAIN journal[r] \/ x = c
          BY <1>2, <3>2
        <5> QED
          BY <1>1, <4>1, <5>1, SMT
      <4> QED
        BY <4>1, <4>2
    <3> QED
      BY <3>1, <3>2
  <2>3. T # {}
    BY <1>4
  <2>4. Max(T) \in T
    <3> HIDE DEF T
    <3> QED
      BY <2>2, <2>3, MaxIsMember
  <2>5. Max(T) \in DOMAIN journal[r] \/ (c # NoSeq /\ Max(T) = c)
    <3>1. T \subseteq Beyond(r, c) \cup {c} /\ (c = NoSeq => T = Beyond(r, c))
      OBVIOUS
    <3> DEFINE x == Max(T)
    <3> HIDE DEF T
    <3>2. x \in T
      BY <2>4
    <3> HIDE DEF x
    <3>3. ASSUME c = NoSeq PROVE x \in DOMAIN journal[r]
      BY <1>2, <3>1, <3>2, <3>3, Zenon
    <3>4. ASSUME c # NoSeq PROVE x \in DOMAIN journal[r] \/ x = c
      BY <1>2, <3>1, <3>2, <3>4, Zenon
    <3> QED
      BY <3>3, <3>4 DEF x
  <2> QED
    BY <1>1, <2>1, <2>5
<1> QED
  BY <1>3, <1>4

LEMMA CallbackTyped ==
  ASSUME SyncTypes, NEW r \in Roles, NEW n \in DOMAIN journal[r]
  PROVE  Callback(r, n) \in Callbacks
<1>1. session[r] \in Nat /\ n \in Nat /\ journal[r][n] \in Nat
  BY DEF SyncTypes
<1> QED
  BY <1>1, SMT DEF Callback, Callbacks
LEMMA SyncStarts == SyncInit => SyncInv
<1> SUFFICES ASSUME SyncInit PROVE SyncInv
  OBVIOUS
<1> USE SyncAssumption DEF Cursors
<1>1. row \in CursorRows /\ base = [r \in Roles |-> NoSeq]
  BY SMT DEF SyncInit, CursorRows, Flat
<1>2. SyncTypes
  <2>1. <<>> \in Seq(Nat)
    OBVIOUS
  <2> QED
    BY <1>1, <2>1 DEF SyncInit, SyncTypes
<1>3. CursorsStart /\ CursorsStayInside /\ NoneSkipped
  BY <1>1 DEF CursorsStart, CursorsStayInside, NoneSkipped
<1>4. Opened /\ PumpHolds
  BY DEF SyncInit, Opened, PumpHolds
<1> QED
  BY <1>2, <1>3, <1>4 DEF SyncInv

CursorsHold == CursorsStart /\ CursorsStayInside /\ NoneSkipped

(* A step that only adds to the log, or closes sessions, disturbs none.    *)
LEMMA CursorsRest ==
  ASSUME SyncInv, UNCHANGED <<journal, row, base>>, eventLog \subseteq eventLog',
         \A r \in Roles : session'[r] # 0 => session'[r] = session[r]
  PROVE  CursorsHold'
<1>1. CursorsStart'
  BY DEF SyncInv, CursorsStart
<1>2. CursorsStayInside'
  BY DEF SyncInv, CursorsStayInside
<1>3. NoneSkipped'
  BY DEF SyncInv, NoneSkipped, Callback
<1> QED
  BY <1>1, <1>2, <1>3 DEF CursorsHold

(* One role's cursor is written after what it passes was logged.           *)
LEMMA CursorMoves ==
  ASSUME SyncInv, NEW role \in Roles, NEW c \in Cursors,
         row' = Merged(row, role, c), base' = Based(role, c),
         UNCHANGED <<session, journal>>, eventLog \subseteq eventLog',
         Scope(row, role) # NoSeq =>
           /\ c = Scope(row, role) \/ c \in DOMAIN journal[role]
           /\ \A n \in DOMAIN journal[role] :
                Scope(row, role) < n /\ n <= c => Callback(role, n) \in eventLog'
  PROVE  /\ row' \in CursorRows /\ base' \in [Roles -> Cursors]
         /\ \A q \in Roles : q # role => Scope(row', q) = Scope(row, q)
         /\ CursorsHold'
<1> USE SyncAssumption
<1>1. /\ row' \in CursorRows /\ Scope(row', role) = c
      /\ \A q \in Roles : q # role => Scope(row', q) = Scope(row, q)
  BY MergedKeepsTheOther DEF SyncInv, SyncTypes
<1>2. /\ base' \in [Roles -> Cursors]
      /\ \A q \in Roles : q # role => base'[q] = base[q]
      /\ base[role] = NoSeq => base'[role] = c
      /\ base[role] # NoSeq => base'[role] = base[role]
  BY DEF SyncInv, SyncTypes, Based
<1>3. \A q \in Roles : DOMAIN journal[q] = 1..Len(journal[q]) /\ Len(journal[q]) \in Nat
  BY DEF SyncInv, SyncTypes
<1>4. base[role] # NoSeq => Scope(row, role) # NoSeq
  BY DEF SyncInv, CursorsStart
<1>5. Scope(row, role) # NoSeq => c # NoSeq
  <2>1. \A n \in DOMAIN journal[role] : n \in Nat
    BY <1>3
  <2> QED
    BY <2>1
<1>6. CursorsStart'
  BY <1>1, <1>2, <1>4, <1>5 DEF SyncInv, CursorsStart
<1>7. CursorsStayInside'
  <2> SUFFICES ASSUME NEW q \in Roles, session'[q] # 0, base'[q] # NoSeq
               PROVE  Scope(row', q) = base'[q] \/ Scope(row', q) <= Len(journal'[q])
    BY DEF CursorsStayInside
  <2>1. CASE q # role
    BY <1>1, <1>2, <2>1 DEF SyncInv, CursorsStayInside
  <2>2. CASE q = role /\ base[role] = NoSeq
    BY <1>1, <1>2, <2>2
  <2>3. CASE q = role /\ base[role] # NoSeq
    <3>1. c = Scope(row, role) \/ c <= Len(journal[role])
      BY <1>3, <1>4, <2>3
    <3>2. Scope(row, role) = base[role] \/ Scope(row, role) <= Len(journal[role])
      BY <2>3 DEF SyncInv, CursorsStayInside
    <3> QED
      BY <1>1, <1>2, <2>3, <3>1, <3>2
  <2> QED
    BY <2>1, <2>2, <2>3
<1>8. NoneSkipped'
  <2> SUFFICES ASSUME NEW q \in Roles, NEW n \in DOMAIN journal[q], session[q] # 0,
                      base'[q] # NoSeq, base'[q] < n, n <= Scope(row', q)
               PROVE  Callback(q, n) \in eventLog'
    BY DEF NoneSkipped, Callback
  <2>1. CASE q # role
    BY <1>1, <1>2, <2>1 DEF SyncInv, NoneSkipped
  <2>2. CASE q = role /\ base[role] = NoSeq
    <3>1. base'[q] \in Nat /\ n \in Nat /\ n <= base'[q]
      BY <1>1, <1>2, <1>3, <2>2 DEF Cursors
    <3> QED
      BY <3>1
  <2>3. CASE q = role /\ base[role] # NoSeq
    <3>1. Scope(row, role) \in Cursors
      BY MergedKeepsTheOther DEF SyncInv, SyncTypes, CursorRows, Scope, Roles, Cursors
    <3>2. Scope(row, role) \in Nat /\ n \in Nat
      BY <1>3, <1>4, <2>3, <3>1 DEF Cursors
    <3>3. CASE n <= Scope(row, role)
      BY <1>2, <2>3, <3>3 DEF SyncInv, NoneSkipped
    <3>4. CASE Scope(row, role) < n
      BY <1>1, <1>4, <2>3, <3>4
    <3> QED
      BY <3>2, <3>3, <3>4
  <2> QED
    BY <2>1, <2>2, <2>3
<1> QED
  BY <1>1, <1>2, <1>6, <1>7, <1>8 DEF CursorsHold

LEMMA ScopeIsCursor ==
  ASSUME NEW r \in CursorRows, NEW role \in Roles
  PROVE  Scope(r, role) \in Cursors
  BY DEF CursorRows, Scope, Roles, Cursors

LEMMA SaveRealMoves ==
  ASSUME SyncInv, SaveReal, UNCHANGED <<session, journal>>
  PROVE  /\ row' \in CursorRows /\ base' \in [Roles -> Cursors] /\ eventLog \subseteq eventLog'
         /\ Scope(row', "shadow") = Scope(row, "shadow")
         /\ CursorsHold'
<1> DEFINE c == Scope(row, "real")
           next == NextCursor("real", c)
<1>1. "real" \in Roles /\ "shadow" \in Roles /\ "real" # "shadow"
  BY DEF Roles
<1>2. c \in Cursors
  BY <1>1, ScopeIsCursor DEF SyncInv, SyncTypes
<1>3. next \in Cursors /\ (c # NoSeq => next = c \/ next \in DOMAIN journal["real"])
  BY <1>1, <1>2, NextCursorStays DEF SyncInv
<1>4. /\ eventLog' = eventLog \cup Pulled("real", c)
      /\ row' = Merged(row, "real", next) /\ base' = Based("real", next)
  BY DEF SaveReal
<1>5. c # NoSeq =>
        \A n \in DOMAIN journal["real"] :
          c < n /\ n <= next => Callback("real", n) \in eventLog'
  <2> SUFFICES ASSUME c # NoSeq, NEW n \in DOMAIN journal["real"], c < n
               PROVE  Callback("real", n) \in eventLog'
    OBVIOUS
  <2>1. n \in Beyond("real", c)
    <3>1. journal["real"] \in Seq(Nat)
      BY <1>1 DEF SyncInv, SyncTypes
    <3>2. n \in Nat /\ c \in Nat
      BY <1>2, <3>1 DEF Cursors
    <3> QED
      BY <3>2 DEF Beyond
  <2> QED
    BY <1>4, <2>1 DEF Pulled
<1> HIDE DEF next, c
<1>6. /\ row' \in CursorRows /\ base' \in [Roles -> Cursors] /\ CursorsHold'
      /\ \A q \in Roles : q # "real" => Scope(row', q) = Scope(row, q)
  BY <1>1, <1>3, <1>4, <1>5, CursorMoves DEF c
<1> QED
  BY <1>1, <1>4, <1>6

(* The pump still covers its stretch of the journal.                       *)
LEMMA PumpRests ==
  ASSUME SyncInv, pump # NoPump, pump' # NoPump,
         pump'.events = pump.events, pump'.cursor = pump.cursor,
         UNCHANGED <<session, journal>>, Scope(row', "shadow") = Scope(row, "shadow")
  PROVE  PumpCovers'
  BY DEF SyncInv, PumpHolds, PumpCovers, Callback

LEMMA SyncSteps == SyncInv /\ [SyncNext]_syncVars => SyncInv'
<1> SUFFICES ASSUME SyncInv, [SyncNext]_syncVars PROVE SyncInv'
  OBVIOUS
<1> USE SyncAssumption, NoPumpIsNone
<1>0. SyncTypes /\ Opened /\ CursorsHold /\ PumpHolds
  BY DEF SyncInv, CursorsHold
<1>a. SyncTypes' /\ Opened' /\ CursorsHold' /\ PumpHolds' => SyncInv'
  BY DEF SyncInv, CursorsHold
<1>b. /\ "shadow" \in Roles /\ "real" \in Roles /\ Scope(row, "shadow") \in Cursors
      /\ \A r \in Roles : journal[r] \in Seq(Nat) /\ Len(journal[r]) \in Nat
                         /\ DOMAIN journal[r] = 1..Len(journal[r])
  BY <1>0, ScopeIsCursor DEF SyncTypes, Roles
<1>1. CASE AttachBegin
  <2> USE <1>1 DEF AttachBegin
  <2>1. \A r \in Roles :
          /\ session'[r] # 0
          /\ session[r] = 0 => base'[r] = NoSeq
          /\ session[r] # 0 => session'[r] = session[r] /\ journal'[r] = journal[r]
                              /\ base'[r] = base[r]
    BY <1>0 DEF SyncTypes
  <2>2. SyncTypes'
    <3>1. <<>> \in Seq(Nat) /\ NoSeq \in Cursors
      BY DEF Cursors
    <3> QED
      BY <1>0, <3>1 DEF SyncTypes
  <2>3. CursorsHold'
    <3>1. CursorsStart' /\ CursorsStayInside'
      BY <1>0, <2>1 DEF CursorsHold, CursorsStart, CursorsStayInside
    <3>2. NoneSkipped'
      BY <1>0, <2>1 DEF CursorsHold, NoneSkipped, Callback
    <3> QED
      BY <3>1, <3>2 DEF CursorsHold
  <2>4. Opened' /\ PumpHolds'
    BY <1>0, <2>1 DEF Opened, PumpHolds
  <2> QED
    BY <1>a, <2>2, <2>3, <2>4
<1>2. CASE AttachEnd
  <2> USE <1>2 DEF AttachEnd
  <2>1. /\ row' \in CursorRows /\ base' \in [Roles -> Cursors] /\ CursorsHold'
    BY SaveRealMoves
  <2>2. SyncTypes'
    BY <1>0, <2>1 DEF SyncTypes
  <2>3. Opened' /\ PumpHolds'
    BY <1>0 DEF Opened, PumpHolds
  <2> QED
    BY <1>a, <2>1, <2>2, <2>3
<1>3. ASSUME NEW r \in Roles, Arrive(r) PROVE SyncInv'
  <2> USE <1>3 DEF Arrive
  <2>1. /\ arrived' \in Nat /\ journal' \in [Roles -> Seq(Nat)]
        /\ \A q \in Roles :
             /\ Len(journal[q]) <= Len(journal'[q])
             /\ \A n \in DOMAIN journal[q] :
                  n \in DOMAIN journal'[q] /\ journal'[q][n] = journal[q][n]
             /\ \A n \in DOMAIN journal'[q] \ DOMAIN journal[q] :
                  n \in Nat /\ n > Len(journal[q])
    BY <1>0, <1>b DEF SyncTypes
  <2>2. \A q \in Roles : \A n \in DOMAIN journal[q] : Callback(q, n)' = Callback(q, n)
    BY <2>1 DEF Callback
  <2>3. SyncTypes'
    BY <1>0, <2>1 DEF SyncTypes
  <2>4. CursorsStart' /\ CursorsStayInside'
    <3>1. \A q \in Roles : Scope(row, q) \in Cursors /\ Len(journal'[q]) \in Nat
      BY <1>0, <2>1, ScopeIsCursor DEF SyncTypes
    <3> QED
      BY <1>0, <1>b, <2>1, <3>1
      DEF CursorsHold, CursorsStart, CursorsStayInside, Cursors
  <2>5. NoneSkipped'
    <3> SUFFICES ASSUME NEW q \in Roles, NEW n \in DOMAIN journal'[q], session[q] # 0,
                        base[q] # NoSeq, base[q] < n, n <= Scope(row, q)
                 PROVE  Callback(q, n)' \in eventLog
      BY DEF NoneSkipped
    <3>1. CASE n \in DOMAIN journal[q]
      BY <1>0, <2>2, <3>1 DEF CursorsHold, NoneSkipped
    <3>2. CASE n \notin DOMAIN journal[q]
      <4>1. n \in Nat /\ n > Len(journal[q])
        BY <2>1, <3>2
      <4>2. Scope(row, q) \in Nat /\ base[q] \in Nat
        BY <1>0, ScopeIsCursor DEF CursorsHold, CursorsStart, SyncTypes, Cursors
      <4>3. Scope(row, q) = base[q] \/ Scope(row, q) <= Len(journal[q])
        BY <1>0 DEF CursorsHold, CursorsStayInside
      <4> QED
        BY <1>b, <4>1, <4>2, <4>3
    <3> QED
      BY <3>1, <3>2
  <2>6. PumpHolds'
    <3> SUFFICES ASSUME pump # NoPump PROVE PumpHolds'
      BY DEF PumpHolds
    <3>1. PumpCovers /\ engine = "loaded" /\ (pump.at # "collected" => pump.events \subseteq eventLog)
      BY <1>0 DEF PumpHolds
    <3> DEFINE c == Scope(row, "shadow")
    <3>2. ASSUME c # NoSeq, NEW n \in DOMAIN journal'["shadow"], c < n, n <= pump.cursor
          PROVE  Callback("shadow", n)' \in pump.events
      <4>1. CASE n \in DOMAIN journal["shadow"]
        BY <1>b, <2>2, <3>1, <3>2, <4>1 DEF PumpCovers
      <4>2. CASE n \notin DOMAIN journal["shadow"]
        <5>1. n \in Nat /\ n > Len(journal["shadow"]) /\ c \in Nat
          BY <1>b, <2>1, <3>2, <4>2 DEF Cursors
        <5>2. pump.cursor = c \/ pump.cursor \in DOMAIN journal["shadow"]
          BY <3>1, <3>2 DEF PumpCovers
        <5> QED
          BY <1>b, <3>2, <5>1, <5>2
      <4> QED
        BY <4>1, <4>2
    <3>3. PumpCovers'
      <4>1. c # NoSeq => pump.cursor = c \/ pump.cursor \in DOMAIN journal'["shadow"]
        BY <1>b, <2>1, <3>1 DEF PumpCovers
      <4> QED
        BY <3>2, <4>1 DEF PumpCovers
    <3> QED
      BY <3>1, <3>3 DEF PumpHolds
  <2>7. Opened'
    BY <1>0 DEF Opened
  <2> QED
    BY <1>a, <2>3, <2>4, <2>5, <2>6, <2>7 DEF CursorsHold
<1>4. ASSUME NEW e \in pushed, Push(e) PROVE SyncInv'
  <2> USE <1>4 DEF Push
  <2>1. eventLog \subseteq eventLog'
    OBVIOUS
  <2>2. CursorsHold'
    BY <2>1, CursorsRest
  <2>3. SyncTypes' /\ Opened' /\ PumpHolds'
    BY <1>0 DEF SyncTypes, Opened, PumpHolds
  <2> QED
    BY <1>a, <2>2, <2>3
<1>5. CASE PumpCollect
  <2> USE <1>5 DEF PumpCollect
  <2> DEFINE c == Scope(row, "shadow")
  <2>1. NextCursor("shadow", c) \in Cursors
        /\ (c # NoSeq => NextCursor("shadow", c) = c
                          \/ NextCursor("shadow", c) \in DOMAIN journal["shadow"])
    BY <1>0, <1>b, NextCursorStays
  <2>2. Pulled("shadow", c) \in SUBSET Callbacks
    BY <1>0, <1>b, CallbackTyped DEF Pulled, Beyond
  <2>3. /\ pump' = [at |-> "collected", events |-> Pulled("shadow", c),
                    cursor |-> NextCursor("shadow", c)]
    OBVIOUS
  <2>4. pump' \in Pumps /\ pump'.at = "collected" /\ pump'.events = Pulled("shadow", c)
        /\ pump'.cursor = NextCursor("shadow", c)
    <3> HIDE DEF c
    <3> QED
      BY <2>1, <2>2, <2>3, SMT DEF Pumps
  <2>5. PumpCovers'
    <3>1. ASSUME c # NoSeq, NEW n \in DOMAIN journal["shadow"], c < n
          PROVE  Callback("shadow", n) \in pump'.events
      <4>1. n \in Beyond("shadow", c)
        BY <1>b, <3>1 DEF Beyond, Cursors
      <4> QED
        BY <2>4, <4>1 DEF Pulled
    <3> QED
      BY <2>1, <2>4, <3>1 DEF PumpCovers, Callback
  <2>6. CursorsHold'
    BY CursorsRest
  <2>7. SyncTypes'
    BY <1>0, <2>4 DEF SyncTypes
  <2>8. Opened' /\ PumpHolds'
    BY <1>0, <2>4, <2>5 DEF Opened, PumpHolds
  <2> QED
    BY <1>a, <2>6, <2>7, <2>8
<1>6. CASE PumpSave
  <2> USE <1>6 DEF PumpSave
  <2>0. pump # NoPump
    BY DEF NoPump
  <2>1. pump \in Pumps
    BY <1>0, <2>0 DEF SyncTypes
  <2>2. pump' \in Pumps /\ pump'.at = "saved" /\ pump'.events = pump.events
        /\ pump'.cursor = pump.cursor
    BY <2>1, SMT DEF Pumps
  <2>3. PumpCovers'
    BY <2>0, <2>2, PumpRests
  <2>4. CursorsHold'
    BY CursorsRest
  <2>5. SyncTypes'
    BY <1>0, <2>2 DEF SyncTypes
  <2>6. Opened' /\ PumpHolds'
    BY <1>0, <2>0, <2>2, <2>3 DEF Opened, PumpHolds
  <2> QED
    BY <1>a, <2>4, <2>5, <2>6
<1>7. CASE PumpSaveReal
  <2> USE <1>7 DEF PumpSaveReal
  <2>0. pump # NoPump
    BY DEF NoPump
  <2>1. pump \in Pumps
    BY <1>0, <2>0 DEF SyncTypes
  <2>2. pump' \in Pumps /\ pump'.at = "savedReal" /\ pump'.events = pump.events
        /\ pump'.cursor = pump.cursor
    BY <2>1, SMT DEF Pumps
  <2>3. /\ row' \in CursorRows /\ base' \in [Roles -> Cursors] /\ eventLog \subseteq eventLog'
        /\ Scope(row', "shadow") = Scope(row, "shadow") /\ CursorsHold'
    BY SaveRealMoves
  <2>4. PumpCovers'
    BY <2>0, <2>2, <2>3, PumpRests
  <2>5. SyncTypes'
    BY <1>0, <2>2, <2>3 DEF SyncTypes
  <2>6. Opened' /\ PumpHolds'
    BY <1>0, <2>0, <2>2, <2>3, <2>4 DEF Opened, PumpHolds
  <2> QED
    BY <1>a, <2>3, <2>5, <2>6
<1>8. CASE PumpPersistCursor
  <2> USE <1>8 DEF PumpPersistCursor
  <2>0. pump # NoPump
    BY DEF NoPump
  <2>1. pump.cursor \in Cursors
    BY <1>0, <2>0 DEF SyncTypes, Pumps
  <2>2. pump.events \subseteq eventLog /\ PumpCovers
    BY <1>0, <2>0 DEF PumpHolds
  <2>3. row' \in CursorRows /\ base' \in [Roles -> Cursors] /\ CursorsHold'
    BY <1>b, <2>1, <2>2, CursorMoves DEF PumpCovers
  <2>4. SyncTypes' /\ Opened' /\ PumpHolds'
    BY <1>0, <2>3 DEF SyncTypes, Opened, PumpHolds
  <2> QED
    BY <1>a, <2>3, <2>4
<1>9. CASE PumpFails
  <2>1. CursorsHold'
    BY <1>9, CursorsRest DEF PumpFails
  <2> QED
    BY <1>0, <1>9, <1>a, <2>1 DEF PumpFails, SyncTypes, Opened, PumpHolds
<1>10. CASE Unload
  <2>1. PICK closed \in SUBSET Roles :
          session' = [r \in Roles |-> IF r \in closed THEN 0 ELSE session[r]]
    BY <1>10 DEF Unload
  <2>2. /\ session' \in [Roles -> Nat]
        /\ \A r \in Roles : session'[r] # 0 => session'[r] = session[r]
    BY <1>0, <2>1 DEF SyncTypes
  <2>3. CursorsHold'
    BY <1>10, <2>2, CursorsRest DEF Unload
  <2> QED
    BY <1>0, <1>10, <1>a, <2>2, <2>3 DEF Unload, SyncTypes, Opened, PumpHolds
<1>11. CASE SyncCrash
  <2>1. \A r \in Roles : session'[r] = 0
    BY <1>11 DEF SyncCrash
  <2>2. CursorsHold'
    BY <1>11, <2>1, CursorsRest DEF SyncCrash
  <2> QED
    BY <1>0, <1>11, <1>a, <2>2 DEF SyncCrash, SyncTypes, Opened, PumpHolds
<1>12. CASE UNCHANGED syncVars
  <2>1. CursorsHold'
    BY <1>12, CursorsRest DEF syncVars
  <2> QED
    BY <1>0, <1>12, <1>a, <2>1
    DEF syncVars, SyncTypes, Opened, PumpHolds, PumpCovers, Callback
<1> QED
  BY <1>1, <1>2, <1>3, <1>4, <1>5, <1>6, <1>7, <1>8, <1>9, <1>10, <1>11, <1>12 DEF SyncNext

(* A persisted cursor never passes a callback that is not in the log.      *)
THEOREM CursorsPassNothing == SyncSpec => []PullKeepsUp
<1>1. SyncInv => PullKeepsUp
  BY DEF SyncInv, NoneSkipped, PullKeepsUp, Skipped
<1> QED
  BY <1>1, SyncStarts, SyncSteps, PTL DEF SyncSpec

-----------------------------------------------------------------------------
(* The real submission                                                     *)

Fields == {"session", "consumer", "totalAsset", "gates", "projection"}
BareTicks == {NoTick, [at |-> "saved"], [at |-> "projecting"], [at |-> "failed"]}
Pumping == [at : {"pumping", "stored", "pumped"}, obs : Observations]
Submitting == [at : {"submitting"}, obs : Observations, next : Nat \ {0}]

SubmitTypes ==
  /\ today \in Days /\ lastDate \in Nat
  /\ DOMAIN store = Fields /\ store.gates \in [Days -> {None, "open", "blocked"}]
  /\ placed \in [Orders -> Nat]
  /\ tick \in BareTicks \cup Pumping \cup Submitting
  /\ DOMAIN process = {"up", "deaths"} /\ process.deaths \in Nat

GatesAreDated == \A d \in Days : d > today => store.gates[d] = None

(* What an open gate vouches for, given what the pump of the tick found.   *)
Vetted ==
  terms.verdict = "passed" /\ terms.policy.enabled /\ store.gates[today] = "open"
Sound(obs) ==
  /\ Ready(obs.session, obs.consumer)
  /\ PreflightOk(terms.policy, [id |-> "a", totalAsset |-> obs.totalAsset,
                                initialCash |-> DeploymentCash])

(* The projection that a tick reads was made from what its own pump stored,*)
(* so the broker's gate is opened by it alone, and shut before another one *)
(* begins.                                                                 *)
PumpIsStored ==
  tick.at = "stored" =>
    /\ store.session = tick.obs.session /\ store.consumer = tick.obs.consumer
    /\ store.totalAsset = tick.obs.totalAsset
GateIsDated ==
  tick.at \in {"stored", "pumped", "submitting", "saved"} => store.gates[today] # None
GateIsEarned ==
  /\ tick.at = "pumped" /\ GateOpen(store.projection) => Vetted /\ Sound(tick.obs)
  /\ tick.at = "submitting" => Vetted /\ Sound(tick.obs)
  /\ submitGate => Vetted /\ tick.at \in {"submitting", "saved", "projecting", "failed"}

GateInv == SubmitTypes /\ GatesAreDated /\ PumpIsStored /\ GateIsDated /\ GateIsEarned

LEMMA TickKinds ==
  ASSUME NEW t \in BareTicks \cup Pumping \cup Submitting
  PROVE  /\ t.at = "idle" <=> t = NoTick
         /\ t.at \in {"pumping", "stored", "pumped"} => t \in Pumping
         /\ t.at = "submitting" => t \in Submitting
         /\ t.at \in {"idle", "saved", "projecting", "failed", "pumping", "stored", "pumped",
                     "submitting"}
  BY SMT DEF BareTicks, Pumping, Submitting, NoTick

(* The first comparison of a day is the one that stays.                    *)
LEMMA StoredFields ==
  ASSUME SubmitTypes, NEW obs
  PROVE  /\ DOMAIN Stored(obs) = Fields
         /\ Stored(obs).session = obs.session /\ Stored(obs).consumer = obs.consumer
         /\ Stored(obs).totalAsset = obs.totalAsset
         /\ Stored(obs).gates \in [Days -> {None, "open", "blocked"}]
         /\ Stored(obs).gates[today] # None
         /\ store.gates[today] # None => Stored(obs).gates[today] = store.gates[today]
         /\ \A d \in Days : d # today => Stored(obs).gates[d] = store.gates[d]
<1> DEFINE H == HardGate(obs.reconciles)
           G == [store.gates EXCEPT ![today] = IF store.gates[today] = None THEN H
                                              ELSE store.gates[today]]
<1>1. H \in {"open", "blocked"} /\ None \notin {"open", "blocked"}
  BY DEF HardGate, None
<1>2. /\ DOMAIN Stored(obs) = Fields
      /\ Stored(obs).session = obs.session /\ Stored(obs).consumer = obs.consumer
      /\ Stored(obs).totalAsset = obs.totalAsset /\ Stored(obs).gates = G
  <2> HIDE DEF H
  <2> QED
    BY SMT DEF SubmitTypes, Fields, Stored, H
<1>3. /\ G \in [Days -> {None, "open", "blocked"}] /\ G[today] # None
      /\ store.gates[today] # None => G[today] = store.gates[today]
      /\ \A d \in Days : d # today => G[d] = store.gates[d]
  <2> HIDE DEF H
  <2> QED
    BY <1>1, SMT DEF SubmitTypes
<1> QED
  BY <1>2, <1>3

LEMMA LatestIsToday ==
  ASSUME SubmitTypes, SubmitAssumption, GatesAreDated, store.gates[today] # None
  PROVE  LatestGate = store.gates[today]
<1> DEFINE recorded == {d \in Days : store.gates[d] # None}
<1>1. today \in recorded /\ Days \subseteq Nat
  BY DEF SubmitTypes, Days
<1>2. \A e \in recorded : e <= today
  BY <1>1 DEF GatesAreDated
<1>3. \A d \in recorded : (\A e \in recorded : e <= d) => d = today
  BY <1>1, <1>2
<1>4. (CHOOSE d \in recorded : \A e \in recorded : e <= d) = today
  <2> HIDE DEF recorded
  <2> QED
    BY <1>1, <1>2, <1>3
<1> QED
  BY <1>1, <1>4 DEF LatestGate

(* A projection with an open gate: everything it was made of is in order.  *)
LEMMA OpenProjection ==
  ASSUME SubmitTypes, SubmitAssumption, GatesAreDated, store.gates[today] # None,
         GateOpen(Projection)
  PROVE  Vetted /\ Sound(store)
<1> DEFINE preflight == PreflightOk(terms.policy, [id |-> "a", totalAsset |-> store.totalAsset,
                                                   initialCash |-> DeploymentCash])
           ready == Ready(store.session, store.consumer)
           submit == SubmitGate(terms.policy, ready, preflight, LatestGate)
           release == ReleaseGate("running", terms.verdict, submit)
<1>1. Projection = [submit |-> submit, release |-> release]
  BY DEF Projection
<1>2. submit.canSubmitNow /\ release.eligible
  <2> HIDE DEF submit, release
  <2> QED
    BY <1>1 DEF GateOpen
<1>3. LatestGate # "blocked" /\ terms.policy.enabled /\ ready /\ preflight
  <2> HIDE DEF ready, preflight
  <2> QED
    BY <1>2 DEF SubmitGate
<1>4. terms.verdict = "passed"
  <2> HIDE DEF submit
  <2> QED
    BY <1>2 DEF ReleaseGate
<1>5. store.gates[today] = "open"
  BY <1>3, LatestIsToday DEF SubmitTypes
<1> QED
  BY <1>3, <1>4, <1>5 DEF Vetted, Sound

LEMMA GateStarts == SubmitInit => GateInv
<1> SUFFICES ASSUME SubmitInit PROVE GateInv
  OBVIOUS
<1>1. today \in Days /\ lastDate \in Nat
  BY SubmitAssumption DEF SubmitInit, Days
<1>2. DOMAIN store = Fields /\ store.gates = [d \in Days |-> None]
  BY SMT DEF SubmitInit, Fields
<1>3. placed \in [Orders -> Nat] /\ tick = NoTick
  BY DEF SubmitInit
<1>4. DOMAIN process = {"up", "deaths"} /\ process.deaths = 0
  BY SMT DEF SubmitInit
<1>5. SubmitTypes
  BY <1>1, <1>2, <1>3, <1>4 DEF SubmitTypes, BareTicks
<1> QED
  BY <1>2, <1>3, <1>5
  DEF SubmitInit, GateInv, GatesAreDated, PumpIsStored, GateIsDated, GateIsEarned, NoTick

(* A step that leaves the gates of the store and the terms alone, and ends *)
(* in a state in which no gate is about to open.                           *)
LEMMA GateRests ==
  ASSUME GateInv, UNCHANGED <<today, terms>>, store'.gates = store.gates, SubmitTypes',
         tick'.at \notin {"stored", "pumped", "submitting"},
         tick'.at = "saved" => tick.at = "submitting",
         submitGate' => submitGate /\ tick'.at \in {"saved", "projecting", "failed"}
  PROVE  GateInv'
  BY DEF GateInv, GatesAreDated, PumpIsStored, GateIsDated, GateIsEarned, Vetted

LEMMA GateSteps == GateInv /\ [SubmitNext]_submitVars => GateInv'
<1> SUFFICES ASSUME GateInv, [SubmitNext]_submitVars PROVE GateInv'
  OBVIOUS
<1> USE SubmitAssumption
<1>0. SubmitTypes /\ GatesAreDated /\ PumpIsStored /\ GateIsDated /\ GateIsEarned
  BY DEF GateInv
<1>a. Days \subseteq Nat /\ Orders = Days \X (1..OrdersPerDay)
  BY DEF Days, Orders
<1>b. /\ tick.at = "idle" <=> tick = NoTick
      /\ tick.at \in {"pumping", "stored", "pumped"} => tick \in Pumping
      /\ tick.at = "submitting" => tick \in Submitting
  BY <1>0, TickKinds DEF SubmitTypes
<1>c. /\ [at |-> "saved"] \in BareTicks /\ [at |-> "saved"].at = "saved"
      /\ [at |-> "projecting"] \in BareTicks /\ [at |-> "projecting"].at = "projecting"
      /\ [at |-> "failed"] \in BareTicks /\ [at |-> "failed"].at = "failed"
      /\ NoTick \in BareTicks /\ NoTick.at = "idle"
  BY DEF BareTicks, NoTick
<1>d. \A p : /\ DOMAIN [store EXCEPT !.projection = p] = Fields
             /\ [store EXCEPT !.projection = p].projection = p
             /\ [store EXCEPT !.projection = p].gates = store.gates
             /\ [store EXCEPT !.projection = p].session = store.session
             /\ [store EXCEPT !.projection = p].consumer = store.consumer
             /\ [store EXCEPT !.projection = p].totalAsset = store.totalAsset
  BY <1>0, SMT DEF SubmitTypes, Fields
<1>1. ASSUME NEW obs \in Observations, PumpStores(obs) PROVE GateInv'
  <2> USE <1>1 DEF PumpStores
  <2>1. ~submitGate /\ ~submitGate'
    BY <1>0, <1>c DEF GateIsEarned
  <2>2. /\ tick' \in Pumping /\ tick'.at \in {"pumping", "stored"} /\ tick'.obs = obs
    BY SMT DEF Pumping
  <2>3. SubmitTypes'
    BY <1>0, <2>2, StoredFields DEF SubmitTypes
  <2>4. GatesAreDated'
    <3>1. \A d \in Days : d > today => d # today
      BY <1>0, <1>a DEF SubmitTypes
    <3> QED
      BY <1>0, <3>1, StoredFields DEF GatesAreDated
  <2>5. PumpIsStored' /\ GateIsDated'
    BY <1>0, <2>2, StoredFields DEF PumpIsStored, GateIsDated
  <2>6. GateIsEarned'
    BY <2>1, <2>2 DEF GateIsEarned
  <2> QED
    BY <2>3, <2>4, <2>5, <2>6 DEF GateInv
<1>2. ASSUME NEW obs \in Observations, TickAfter(obs) PROVE GateInv'
  <2> USE <1>2 DEF TickAfter
  <2>1. CASE UNCHANGED store /\ tick' = [at |-> "failed"]
    <3>1. SubmitTypes'
      BY <1>0, <1>c, <2>1 DEF SubmitTypes
    <3> QED
      BY <1>c, <2>1, <3>1, GateRests
  <2>2. CASE /\ store' = [Stored(obs) EXCEPT !.projection = store.projection]
             /\ tick' = [at |-> "projecting"]
    <3>1. store.gates[today] # None
      BY <1>0 DEF GateIsDated
    <3>2. /\ DOMAIN Stored(obs) = Fields /\ Stored(obs).gates = store.gates
      <4>1. /\ DOMAIN Stored(obs) = Fields /\ DOMAIN Stored(obs).gates = Days
            /\ \A d \in Days : Stored(obs).gates[d] = store.gates[d]
            /\ Stored(obs).gates \in [Days -> {None, "open", "blocked"}]
        BY <1>0, <3>1, StoredFields
      <4> QED
        BY <1>0, <4>1 DEF SubmitTypes
    <3>3. DOMAIN store' = Fields /\ store'.gates = store.gates
      BY <2>2, <3>2, SMT DEF Fields
    <3>4. SubmitTypes'
      BY <1>0, <1>c, <2>2, <3>3 DEF SubmitTypes
    <3> QED
      BY <1>c, <2>2, <3>3, <3>4, GateRests
  <2> QED
    BY <2>1, <2>2
<1>3. CASE PumpProjects
  <2> USE <1>3 DEF PumpProjects
  <2>1. DOMAIN store' = Fields /\ store'.gates = store.gates
    BY <1>0, <1>d DEF SubmitTypes
  <2>2. SubmitTypes'
    BY <1>0, <1>c, <2>1 DEF SubmitTypes
  <2>3. ~submitGate
    BY <1>0 DEF GateIsEarned
  <2> QED
    BY <1>c, <2>1, <2>2, <2>3, GateRests
<1>4. CASE TickProjects
  <2> USE <1>4 DEF TickProjects
  <2>1. DOMAIN store' = Fields /\ store'.gates = store.gates
    BY <1>0, <1>d DEF SubmitTypes
  <2>2. ~submitGate
    BY <1>0 DEF GateIsEarned
  <2>3. CASE tick' = [at |-> "failed"]
    <3>1. SubmitTypes'
      BY <1>0, <1>c, <2>1, <2>3 DEF SubmitTypes
    <3> QED
      BY <1>c, <2>1, <2>2, <2>3, <3>1, GateRests
  <2>4. CASE store' = [store EXCEPT !.projection = Projection]
             /\ tick' = [tick EXCEPT !.at = "pumped"]
    <3>1. tick' \in Pumping /\ tick'.at = "pumped" /\ tick'.obs = tick.obs
      BY <1>b, <2>4, SMT DEF Pumping
    <3>2. SubmitTypes'
      BY <1>0, <2>1, <3>1 DEF SubmitTypes
    <3>3. store'.projection = Projection
      BY <1>d, <2>4
    <3>4. GateOpen(Projection) => Vetted /\ Sound(store)
      BY <1>0, OpenProjection DEF GateIsDated
    <3>5. Sound(store) => Sound(tick.obs)
      BY <1>0 DEF PumpIsStored, Sound
    <3>6. GateIsEarned'
      BY <2>1, <2>2, <3>1, <3>3, <3>4, <3>5 DEF GateIsEarned, Vetted, Sound
    <3>7. GatesAreDated' /\ PumpIsStored' /\ GateIsDated'
      BY <1>0, <2>1, <3>1 DEF GatesAreDated, PumpIsStored, GateIsDated
    <3> QED
      BY <3>2, <3>6, <3>7 DEF GateInv
  <2> QED
    BY <2>3, <2>4
<1>5. CASE TickOpensGate
  <2> USE <1>5 DEF TickOpensGate
  <2>1. CASE ~GateOpen(store.projection)
    <3>1. SubmitTypes'
      BY <1>0, <1>c, <2>1 DEF SubmitTypes
    <3> QED
      BY <1>0, <1>c, <2>1, <3>1, GateRests DEF GateIsEarned
  <2>2. CASE GateOpen(store.projection)
    <3>1. /\ tick' \in Submitting /\ tick'.at = "submitting" /\ tick'.obs = tick.obs
      <4>1. tick.obs \in Observations
        BY <1>b DEF Pumping
      <4>2. tick' = [at |-> "submitting", obs |-> tick.obs, next |-> 1]
        BY <2>2
      <4> QED
        BY <4>1, <4>2, SMT DEF Submitting
    <3>2. Vetted /\ Sound(tick.obs)
      BY <1>0, <2>2 DEF GateIsEarned
    <3>3. SubmitTypes'
      BY <1>0, <3>1 DEF SubmitTypes
    <3> QED
      BY <1>0, <3>1, <3>2, <3>3
      DEF GateInv, GatesAreDated, PumpIsStored, GateIsDated, GateIsEarned, Vetted, Sound
  <2> QED
    BY <2>1, <2>2
<1>6. CASE Submit
  <2> USE <1>6 DEF Submit
  <2>1. placed' \in [Orders -> Nat]
    BY <1>0 DEF SubmitTypes
  <2>2. CASE tick' = [at |-> "failed"]
    <3>1. SubmitTypes'
      BY <1>0, <1>c, <2>1, <2>2 DEF SubmitTypes
    <3> QED
      BY <1>c, <2>2, <3>1, GateRests
  <2>3. CASE tick' = [tick EXCEPT !.next = @ + 1]
    <3>1. tick' \in Submitting /\ tick'.at = "submitting" /\ tick'.obs = tick.obs
      BY <1>b, <2>3, SMT DEF Submitting
    <3>2. SubmitTypes'
      BY <1>0, <2>1, <3>1 DEF SubmitTypes
    <3> QED
      BY <1>0, <3>1, <3>2
      DEF GateInv, GatesAreDated, PumpIsStored, GateIsDated, GateIsEarned, Vetted, Sound
  <2> QED
    BY <2>2, <2>3
<1>7. CASE TickSaves
  <2> USE <1>7 DEF TickSaves
  <2>1. SubmitTypes'
    BY <1>0, <1>a, <1>c DEF SubmitTypes
  <2> QED
    BY <1>c, <2>1, GateRests
<1>8. CASE TickEnds
  <2> USE <1>8 DEF TickEnds
  <2>1. DOMAIN store' = Fields /\ store'.gates = store.gates
    BY <1>0, <1>d DEF SubmitTypes
  <2>2. SubmitTypes'
    BY <1>0, <1>c, <2>1 DEF SubmitTypes
  <2> QED
    BY <1>c, <2>1, <2>2, GateRests
<1>9. CASE TickFails
  <2> USE <1>9 DEF TickFails
  <2>1. SubmitTypes'
    BY <1>0, <1>a, <1>c DEF SubmitTypes
  <2> QED
    BY <1>c, <2>1, GateRests
<1>10. CASE NewDay
  <2> USE <1>10 DEF NewDay
  <2>1. ~submitGate
    BY <1>0, <1>c DEF GateIsEarned
  <2>2. today' \in Days /\ today' > today
    BY <1>0 DEF SubmitTypes, Days
  <2>3. SubmitTypes'
    BY <1>0, <2>2 DEF SubmitTypes
  <2>4. GatesAreDated'
    <3>1. \A d \in Days : d > today' => d > today
      BY <1>0, <1>a, <2>2 DEF SubmitTypes
    <3> QED
      BY <1>0, <3>1 DEF GatesAreDated
  <2> QED
    BY <1>c, <2>1, <2>3, <2>4 DEF GateInv, PumpIsStored, GateIsDated, GateIsEarned
<1>11. CASE ProcessDies
  <2> USE <1>11 DEF ProcessDies
  <2>1. process' = [up |-> FALSE, deaths |-> process.deaths + 1]
    OBVIOUS
  <2>2. DOMAIN process' = {"up", "deaths"} /\ process'.deaths \in Nat
    BY <1>0, <2>1, SMT DEF SubmitTypes
  <2>3. SubmitTypes'
    BY <1>0, <1>c, <2>2 DEF SubmitTypes
  <2> QED
    BY <1>c, <2>3, GateRests
<1>12. CASE ProcessRestarts
  <2> USE <1>12 DEF ProcessRestarts
  <2>1. DOMAIN process' = {"up", "deaths"} /\ process'.deaths = process.deaths
    BY <1>0, SMT DEF SubmitTypes
  <2>2. SubmitTypes'
    BY <1>0, <2>1 DEF SubmitTypes
  <2> QED
    BY <1>0, <2>2
    DEF GateInv, GatesAreDated, PumpIsStored, GateIsDated, GateIsEarned, Vetted, Sound
<1>13. CASE UNCHANGED submitVars
  BY <1>0, <1>13
  DEF submitVars, GateInv, SubmitTypes, GatesAreDated, PumpIsStored, GateIsDated, GateIsEarned,
    Vetted, Sound
<1> QED
  BY <1>1, <1>2, <1>3, <1>4, <1>5, <1>6, <1>7, <1>8, <1>9, <1>10, <1>11, <1>12, <1>13
  DEF SubmitNext

(* An open gate rests on the checks of the tick that opened it; whatever   *)
(* fails, also the record of a failure.                                    *)
THEOREM GatesAreChecked == SubmitSpec => []SubmitsBehindGates
<1>1. GateInv => SubmitsBehindGates
  BY DEF GateInv, GateIsEarned, Vetted, Sound, SubmitsBehindGates
<1> QED
  BY <1>1, GateStarts, GateSteps, PTL DEF SubmitSpec

(* An order not yet given to the broker by this process.                   *)
Ungiven(o) == placed[o] <= process.deaths

(* A day that is not marked as processed has orders to give; a day that    *)
(* has not come has none given at all.                                     *)
DayIsOpen ==
  /\ tick.at \in {"stored", "pumped", "submitting"} => lastDate < today
  /\ tick.at \in {"saved", "projecting"} => lastDate = today
OrdersRemain ==
  \A i \in 1..OrdersPerDay :
    /\ lastDate < today /\ tick.at \in {"idle", "pumping", "stored", "pumped"}
         => Ungiven(<<today, i>>)
    /\ tick.at = "submitting" /\ tick.next <= i => Ungiven(<<today, i>>)
LaterDaysWait ==
  \A d \in Days, i \in 1..OrdersPerDay : d > today => placed[<<d, i>>] = 0

DayInv == DayIsOpen /\ OrdersRemain /\ LaterDaysWait /\ GivenOncePerProcess

LEMMA DayStarts == SubmitInit => DayInv
<1> SUFFICES ASSUME SubmitInit PROVE DayInv
  OBVIOUS
<1>1. \A o \in Orders : placed[o] = 0
  BY DEF SubmitInit
<1>2. process.deaths = 0 /\ tick = NoTick /\ today \in Days
  BY SubmitAssumption DEF SubmitInit, Days
<1> QED
  BY <1>1, <1>2, SubmitAssumption
  DEF DayInv, DayIsOpen, OrdersRemain, LaterDaysWait, GivenOncePerProcess, Ungiven, NoTick, Orders

(* A step that gives no order and opens no day.                            *)
LEMMA DayRests ==
  ASSUME DayInv, UNCHANGED <<today, placed>>, process'.deaths = process.deaths,
         tick'.at \in {"idle", "pumping", "stored", "pumped"} /\ lastDate' < today =>
           lastDate < today /\ tick.at \in {"idle", "pumping", "stored", "pumped"},
         tick'.at \in {"stored", "pumped", "submitting"} => lastDate' < today,
         tick'.at \in {"saved", "projecting"} => lastDate' = today,
         tick'.at # "submitting"
  PROVE  DayInv'
  BY DEF DayInv, DayIsOpen, OrdersRemain, LaterDaysWait, GivenOncePerProcess, Ungiven

LEMMA DaySteps ==
  ASSUME RecordFails = FALSE, GateInv, DayInv, [SubmitNext]_submitVars
  PROVE  DayInv'
<1> USE SubmitAssumption
<1>0. DayIsOpen /\ OrdersRemain /\ LaterDaysWait /\ GivenOncePerProcess /\ SubmitTypes
  BY DEF DayInv, GateInv
<1>a. /\ today \in Nat /\ lastDate \in Nat /\ process.deaths \in Nat /\ Days \subseteq Nat
      /\ Orders = Days \X (1..OrdersPerDay)
      /\ \A o \in Orders : placed[o] \in Nat
  BY <1>0 DEF SubmitTypes, Days, Orders
<1>b. /\ tick.at = "idle" <=> tick = NoTick
      /\ tick.at \in {"pumping", "stored", "pumped"} => tick \in Pumping
      /\ tick.at = "submitting" => tick \in Submitting
  BY <1>0, TickKinds DEF SubmitTypes
<1>c. /\ [at |-> "saved"].at = "saved" /\ [at |-> "projecting"].at = "projecting"
      /\ [at |-> "failed"].at = "failed" /\ NoTick.at = "idle"
  BY DEF NoTick
<1>1. ASSUME NEW obs \in Observations, PumpStores(obs) PROVE DayInv'
  <2>1. tick'.at = "pumping" \/ (lastDate < today /\ tick'.at = "stored")
    BY <1>1, SMT DEF PumpStores
  <2> QED
    BY <1>1, <1>c, <2>1, DayRests DEF PumpStores
<1>2. ASSUME NEW obs \in Observations, TickAfter(obs) PROVE DayInv'
  BY <1>0, <1>2, <1>c, DayRests DEF TickAfter, DayIsOpen
<1>3. CASE PumpProjects
  BY <1>3, <1>c, DayRests DEF PumpProjects
<1>4. CASE TickProjects
  <2>1. CASE tick' = [at |-> "failed"]
    BY <1>4, <1>c, <2>1, DayRests DEF TickProjects
  <2>2. CASE tick' = [tick EXCEPT !.at = "pumped"]
    <3>1. tick'.at = "pumped"
      BY <1>4, <1>b, <2>2, SMT DEF TickProjects, Pumping
    <3> QED
      BY <1>0, <1>4, <3>1, DayRests DEF TickProjects, DayIsOpen
  <2> QED
    BY <1>4, <2>1, <2>2 DEF TickProjects
<1>5. CASE TickOpensGate
  <2>1. CASE tick' = [at |-> "failed"]
    BY <1>5, <1>c, <2>1, DayRests DEF TickOpensGate
  <2>2. CASE tick' = [at |-> "submitting", obs |-> tick.obs, next |-> 1]
    <3>1. tick'.at = "submitting" /\ tick'.next = 1
      BY <2>2
    <3> QED
      BY <1>0, <1>5, <3>1
      DEF TickOpensGate, DayInv, DayIsOpen, OrdersRemain, LaterDaysWait, GivenOncePerProcess,
        Ungiven
  <2> QED
    BY <1>5, <2>1, <2>2 DEF TickOpensGate
<1>6. CASE Submit
  <2> USE <1>6 DEF Submit
  <2>o. PICK given : given = <<today, tick.next>>
    OBVIOUS
  <2>0. tick.next \in Nat \ {0} /\ tick.next <= OrdersPerDay /\ tick.at = "submitting"
    BY <1>b DEF Submitting
  <2>1. given \in Orders /\ placed[given] <= process.deaths
    BY <1>0, <1>a, <2>o, <2>0 DEF OrdersRemain, Ungiven, SubmitTypes
  <2>2. \A q \in Orders : /\ placed'[q] <= 1 + process.deaths
                          /\ q # given => placed'[q] = placed[q]
    <3>1. CASE placed' = [placed EXCEPT ![given] = @ + 1]
      BY <1>0, <1>a, <2>1, <3>1 DEF GivenOncePerProcess, SubmitTypes
    <3>2. CASE placed' = placed
      BY <1>0, <3>2 DEF GivenOncePerProcess
    <3> QED
      BY <2>o, <3>1, <3>2
  <2>3. LaterDaysWait' /\ GivenOncePerProcess'
    <3>1. \A d \in Days, i \in 1..OrdersPerDay : d > today => <<d, i>> # given /\ <<d, i>> \in Orders
      BY <1>a, <2>o
    <3>2. UNCHANGED <<today, process>>
      OBVIOUS
    <3>3. LaterDaysWait'
      BY <1>0, <2>2, <3>1, <3>2 DEF LaterDaysWait
    <3> QED
      BY <2>2, <3>2, <3>3 DEF GivenOncePerProcess
  <2>4. CASE tick' = [at |-> "failed"]
    BY <1>c, <2>3, <2>4 DEF DayInv, DayIsOpen, OrdersRemain
  <2>5. CASE tick' = [tick EXCEPT !.next = @ + 1]
    <3>1. tick'.at = "submitting" /\ tick'.next = tick.next + 1
      BY <1>b, <2>5, SMT DEF Submitting
    <3>2. ASSUME NEW i \in 1..OrdersPerDay, tick.next + 1 <= i
          PROVE  placed'[<<today, i>>] <= process.deaths
      <4>1. <<today, i>> \in Orders /\ <<today, i>> # given
        BY <1>0, <1>a, <2>o, <2>0, <3>2 DEF SubmitTypes
      <4>2. placed[<<today, i>>] <= process.deaths
        BY <1>0, <2>0, <3>2 DEF OrdersRemain, Ungiven
      <4>3. placed'[<<today, i>>] = placed[<<today, i>>]
        BY <2>2, <4>1
      <4> QED
        BY <4>2, <4>3
    <3> QED
      BY <1>0, <2>3, <3>1, <3>2 DEF DayInv, DayIsOpen, OrdersRemain, Ungiven
  <2> QED
    BY <2>4, <2>5
<1>7. CASE TickSaves
  BY <1>7, <1>c, DayRests DEF TickSaves
<1>8. CASE TickEnds
  <2>1. lastDate' = today /\ tick'.at \in {"idle", "failed"}
    BY <1>0, <1>8, <1>c DEF TickEnds, DayIsOpen
  <2> QED
    BY <1>8, <1>a, <2>1, DayRests DEF TickEnds
<1>9. CASE TickFails
  <2>1. lastDate' = today /\ tick'.at = "idle"
    BY <1>9, <1>c DEF TickFails
  <2> QED
    BY <1>9, <1>a, <2>1, DayRests DEF TickFails
<1>10. CASE NewDay
  <2> USE <1>10 DEF NewDay
  <2>1. today' \in Days /\ today' > today
    BY <1>0 DEF SubmitTypes, Days
  <2>2. \A i \in 1..OrdersPerDay : placed[<<today', i>>] = 0
    BY <1>0, <2>1 DEF LaterDaysWait
  <2>3. LaterDaysWait'
    <3>1. \A d \in Days : d > today' => d > today
      BY <1>a, <2>1
    <3> QED
      BY <1>0, <3>1 DEF LaterDaysWait
  <2>4. OrdersRemain'
    BY <1>a, <1>c, <2>2 DEF OrdersRemain, Ungiven
  <2> QED
    BY <1>0, <1>c, <2>3, <2>4 DEF DayInv, DayIsOpen, GivenOncePerProcess
<1>11. CASE ProcessDies
  <2> USE <1>11 DEF ProcessDies
  <2>1. process' = [up |-> FALSE, deaths |-> process.deaths + 1]
    OBVIOUS
  <2>2. process'.deaths = process.deaths + 1
    BY <2>1, SMT
  <2>3. \A q \in Orders : placed[q] <= process'.deaths
    BY <1>0, <1>a, <2>2 DEF GivenOncePerProcess
  <2>4. GivenOncePerProcess'
    BY <1>a, <2>2, <2>3 DEF GivenOncePerProcess
  <2>5. OrdersRemain'
    BY <1>0, <1>a, <1>c, <2>3 DEF OrdersRemain, Ungiven, SubmitTypes
  <2> QED
    BY <1>0, <1>c, <2>4, <2>5 DEF DayInv, DayIsOpen, LaterDaysWait
<1>12. CASE ProcessRestarts
  <2>1. process'.deaths = process.deaths
    BY <1>0, <1>12, SMT DEF ProcessRestarts, SubmitTypes
  <2> QED
    BY <1>0, <1>12, <2>1
    DEF ProcessRestarts, DayInv, DayIsOpen, OrdersRemain, LaterDaysWait, GivenOncePerProcess,
      Ungiven
<1>13. CASE UNCHANGED submitVars
  BY <1>0, <1>13
  DEF submitVars, DayInv, DayIsOpen, OrdersRemain, LaterDaysWait, GivenOncePerProcess, Ungiven
<1> QED
  BY <1>1, <1>2, <1>3, <1>4, <1>5, <1>6, <1>7, <1>8, <1>9, <1>10, <1>11, <1>12, <1>13
  DEF SubmitNext

(* Behind its gates, and once per process: as long as a failed day can be  *)
(* marked as processed.                                                    *)
THEOREM OrdersLeaveOnce ==
  ASSUME RecordFails = FALSE
  PROVE  SubmitSpec => []GivenBehindGates
<1>1. SubmitInit => GateInv /\ DayInv
  BY GateStarts, DayStarts
<1>2. (GateInv /\ DayInv) /\ [SubmitNext]_submitVars => (GateInv /\ DayInv)'
  BY GateSteps, DaySteps
<1>3. GateInv /\ DayInv => GivenBehindGates
  BY DEF GateInv, GateIsEarned, Vetted, Sound, DayInv, SubmitsBehindGates, GivenBehindGates
<1> QED
  BY <1>1, <1>2, <1>3, PTL DEF SubmitSpec

-----------------------------------------------------------------------------
(* From a backtest to its engine                                           *)

RunFields == {"saved", "config", "good", "wf", "executed"}
RecordFields == {"status", "spec_id", "source", "tested"}

RunIsFaithful(run) ==
  /\ DOMAIN run = RunFields
  /\ run.executed.market = run.config.market /\ run.executed.rules = run.config._cost
  /\ run.executed.optimizer = run.config._optimizer

Agrees(spec, tested) ==
  /\ spec.market = tested.market /\ spec.rules = tested.rules
  /\ spec.t_plus_1 = (tested.market = "cn") /\ spec.optimizer = tested.optimizer

Created(d) == deployments[d].status # "none"

ChainTypes ==
  /\ DOMAIN runs = Runs /\ DOMAIN deployments = Deployments
  /\ DOMAIN verdict = Deployments /\ DOMAIN engines = Deployments

(* A stored configuration says what was executed, a spec is found under    *)
(* its own hash, and is of the old kind or what its deployment was tested  *)
(* with.                                                                   *)
RunsAreFaithful == \A r \in Runs : runs[r].saved => RunIsFaithful(runs[r])
SpecsAreKeyed == \A id \in DOMAIN specs : SpecId(specs[id]) = id
SpecOf(d) == specs[deployments[d].spec_id]
SpecsAreTested ==
  \A d \in Deployments :
    Created(d) =>
      /\ DOMAIN deployments[d] = RecordFields
      /\ deployments[d].spec_id \in DOMAIN specs
      /\ Mismatched(SpecOf(d)) \/ Agrees(SpecOf(d), deployments[d].tested)
VerdictsHaveRecords == \A d \in Deployments : verdict[d] # "none" => Created(d)
EnginesAgree ==
  \A d \in Deployments :
    engines[d].runs => Created(d) /\ Agrees(engines[d], deployments[d].tested)

ChainInv ==
  /\ ChainTypes /\ RunsAreFaithful /\ SpecsAreKeyed /\ SpecsAreTested
  /\ VerdictsHaveRecords /\ EnginesAgree

LEMMA ChainStarts == ChainInit => ChainInv
<1> SUFFICES ASSUME ChainInit PROVE ChainInv
  OBVIOUS
<1>1. ChainTypes
  BY DEF ChainInit, ChainTypes
<1>2. RunsAreFaithful /\ EnginesAgree
  BY DEF ChainInit, RunsAreFaithful, EnginesAgree, NoRun, NoEngine
<1>3. DOMAIN specs = {SpecId(OldSpec)} /\ specs[SpecId(OldSpec)] = OldSpec
  BY DEF ChainInit
<1>4. Mismatched(OldSpec)
  BY DEF Mismatched, OldSpec, CnRules
<1>5. SpecsAreTested
  <2> SUFFICES ASSUME NEW d \in Deployments, Created(d)
               PROVE  /\ DOMAIN deployments[d] = RecordFields
                      /\ deployments[d].spec_id \in DOMAIN specs
                      /\ Mismatched(SpecOf(d))
    BY DEF SpecsAreTested
  <2>1. CASE d = Old
    <3>1. deployments[d] = [status |-> "approved", spec_id |-> SpecId(OldSpec), source |-> Old,
                            tested |-> OldExecuted]
      BY <2>1 DEF ChainInit
    <3>2. DOMAIN deployments[d] = RecordFields /\ deployments[d].spec_id = SpecId(OldSpec)
      BY <3>1 DEF RecordFields
    <3> QED
      BY <1>3, <1>4, <3>2 DEF SpecOf
  <2>2. CASE d # Old
    BY <2>2 DEF ChainInit, Created, NoDeployment
  <2> QED
    BY <2>1, <2>2
<1>6. SpecsAreKeyed
  BY <1>3 DEF SpecsAreKeyed
<1>7. VerdictsHaveRecords
  BY DEF ChainInit, VerdictsHaveRecords
<1> QED
  BY <1>1, <1>2, <1>5, <1>6, <1>7 DEF ChainInv

(* The record of a run gives the spec that was executed.                   *)
LEMMA SpecAgrees ==
  ASSUME NEW run, RunIsFaithful(run)
  PROVE  Agrees(SpecFromRun(run), run.executed)
  BY DEF RunIsFaithful, Agrees, SpecFromRun

(* The hash covers all that an engine is built from.                       *)
LEMMA SameHashSameTerms ==
  ASSUME NEW s, NEW t, SpecId(s) = SpecId(t), NEW tested, Agrees(t, tested)
  PROVE  Agrees(s, tested)
  BY SMT DEF SpecId, Agrees

LEMMA EngineOfSpec ==
  ASSUME NEW spec, NEW tested, Agrees(spec, tested)
  PROVE  Agrees(Engine(spec), tested)
  BY DEF Agrees, Engine

LEMMA RunsFaithful ==
  ASSUME ChainInv, NEW r \in Runs, NEW req
  PROVE  RunIsFaithful([saved |-> TRUE, config |-> Config(req), good |-> req.good, wf |-> "none",
                        executed |-> Executed(req)])
  BY DEF RunIsFaithful, RunFields, Config, Executed

(* A step that leaves the specifications, the verdicts and the engines.    *)
LEMMA RecordsRest ==
  ASSUME ChainInv, UNCHANGED <<specs, deployments, verdict, engines>>, DOMAIN runs' = Runs,
         RunsAreFaithful'
  PROVE  ChainInv'
  BY DEF ChainInv, ChainTypes, SpecsAreKeyed, SpecsAreTested, SpecOf, Created,
    VerdictsHaveRecords, EnginesAgree

LEMMA ChainSteps == ChainInv /\ [ChainNext]_chainVars => ChainInv'
<1> SUFFICES ASSUME ChainInv, [ChainNext]_chainVars PROVE ChainInv'
  OBVIOUS
<1>0. /\ ChainTypes /\ RunsAreFaithful /\ SpecsAreKeyed /\ SpecsAreTested
      /\ VerdictsHaveRecords /\ EnginesAgree
  BY DEF ChainInv
<1>1. ASSUME NEW r \in Runs, NEW req \in Requests, RunPortfolio(r, req) PROVE ChainInv'
  <2> DEFINE stored == [saved |-> TRUE, config |-> Config(req), good |-> req.good, wf |-> "none",
                        executed |-> Executed(req)]
  <2>1. RunIsFaithful(stored)
    BY RunsFaithful
  <2> HIDE DEF stored
  <2>2. runs' = [runs EXCEPT ![r] = stored] /\ UNCHANGED <<specs, deployments, verdict, engines>>
    BY <1>1 DEF RunPortfolio, Saved, stored
  <2>3. DOMAIN runs' = Runs /\ RunsAreFaithful'
    BY <1>0, <2>1, <2>2 DEF ChainTypes, RunsAreFaithful
  <2> QED
    BY <2>2, <2>3, RecordsRest
<1>2. ASSUME NEW r \in Runs, NEW passes \in BOOLEAN, WalkForward(r, passes) PROVE ChainInv'
  <2>1. PICK wf : runs' = Proven(r, wf)
    BY <1>2 DEF WalkForward
  <2>2. CASE runs' = runs
    BY <1>0, <1>2, <2>2, RecordsRest DEF WalkForward, ChainTypes, RunsAreFaithful
  <2>3. CASE runs[r].saved /\ runs' = [runs EXCEPT ![r].wf = wf]
    <3>1. RunIsFaithful(runs[r])
      BY <1>0, <2>3 DEF RunsAreFaithful
    <3>2. RunIsFaithful([runs[r] EXCEPT !.wf = wf])
      BY <3>1, SMT DEF RunIsFaithful, RunFields
    <3>3. /\ DOMAIN runs' = Runs /\ runs'[r] = [runs[r] EXCEPT !.wf = wf]
          /\ \A q \in Runs : q # r => runs'[q] = runs[q]
      BY <1>0, <2>3 DEF ChainTypes
    <3>4. RunsAreFaithful'
      BY <1>0, <3>2, <3>3 DEF RunsAreFaithful
    <3> QED
      BY <1>2, <3>3, <3>4, RecordsRest DEF WalkForward
  <2> QED
    BY <2>1, <2>2, <2>3 DEF Proven
<1>3. ASSUME NEW r \in Runs, DeleteRun(r) PROVE ChainInv'
  BY <1>0, <1>3, RecordsRest DEF DeleteRun, ChainTypes, RunsAreFaithful, NoRun
<1>4. ASSUME NEW d \in Deployments, NEW r \in Runs, CreateDeployment(d, r) PROVE ChainInv'
  <2> DEFINE spec == SpecFromRun(runs[r])
             record == [status |-> "pending", spec_id |-> SpecId(spec), source |-> r,
                        tested |-> runs[r].executed]
  <2>1. /\ ~Created(d) /\ runs[r].saved
        /\ specs' = [id \in DOMAIN specs \cup {SpecId(spec)} |->
                       IF id \in DOMAIN specs THEN specs[id] ELSE spec]
        /\ deployments' = [deployments EXCEPT ![d] = record]
        /\ UNCHANGED <<runs, verdict, engines>>
    BY <1>4 DEF CreateDeployment, Created
  <2>2. /\ DOMAIN record = RecordFields /\ record.spec_id = SpecId(spec)
        /\ record.tested = runs[r].executed /\ record.status # "none"
    <3> HIDE DEF spec
    <3> QED
      BY DEF RecordFields
  <2>3. Agrees(spec, record.tested)
    BY <1>0, <2>1, <2>2, SpecAgrees DEF RunsAreFaithful
  <2> HIDE DEF spec, record
  <2>4. /\ DOMAIN specs' = DOMAIN specs \cup {SpecId(spec)}
        /\ \A id \in DOMAIN specs : specs'[id] = specs[id]
        /\ SpecId(spec) \notin DOMAIN specs => specs'[SpecId(spec)] = spec
    BY <2>1
  <2>5. SpecsAreKeyed'
    BY <1>0, <2>4 DEF SpecsAreKeyed
  <2>6. Agrees(specs'[SpecId(spec)], record.tested)
    <3>1. SpecId(specs'[SpecId(spec)]) = SpecId(spec)
      BY <2>4, <2>5 DEF SpecsAreKeyed
    <3> QED
      BY <2>3, <3>1, SameHashSameTerms
  <2>7. /\ DOMAIN deployments' = Deployments /\ deployments'[d] = record
        /\ \A e \in Deployments : e # d => deployments'[e] = deployments[e]
    BY <1>0, <2>1 DEF ChainTypes
  <2>8. SpecsAreTested'
    <3> SUFFICES ASSUME NEW e \in Deployments, Created(e)'
                 PROVE  /\ DOMAIN deployments'[e] = RecordFields
                        /\ deployments'[e].spec_id \in DOMAIN specs'
                        /\ Mismatched(SpecOf(e)') \/ Agrees(SpecOf(e)', deployments'[e].tested)
      BY DEF SpecsAreTested, Mismatched, Agrees
    <3>1. CASE e = d
      BY <2>2, <2>4, <2>6, <2>7, <3>1 DEF SpecOf
    <3>2. CASE e # d
      <4>1. deployments'[e] = deployments[e] /\ Created(e)
        BY <2>7, <3>2 DEF Created
      <4>2. deployments[e].spec_id \in DOMAIN specs
        BY <1>0, <4>1 DEF SpecsAreTested
      <4>3. SpecOf(e)' = SpecOf(e)
        BY <2>4, <4>1, <4>2 DEF SpecOf
      <4> QED
        BY <1>0, <2>4, <4>1, <4>2, <4>3 DEF SpecsAreTested
    <3> QED
      BY <3>1, <3>2
  <2>9. \A e \in Deployments : Created(e) => Created(e)' /\ deployments'[e] = deployments[e]
    BY <2>1, <2>7 DEF Created
  <2>10. VerdictsHaveRecords' /\ EnginesAgree'
    BY <1>0, <2>1, <2>9 DEF VerdictsHaveRecords, EnginesAgree, Agrees
  <2> QED
    BY <1>0, <2>1, <2>5, <2>7, <2>8, <2>10 DEF ChainInv, ChainTypes, RunsAreFaithful
<1>5. ASSUME NEW d \in Deployments, ApproveEvaluates(d) PROVE ChainInv'
  <2>1. Created(d) /\ UNCHANGED <<runs, specs, deployments, engines>>
        /\ DOMAIN verdict' = Deployments
        /\ \A e \in Deployments : e # d => verdict'[e] = verdict[e]
    BY <1>0, <1>5 DEF ApproveEvaluates, Created, ChainTypes
  <2> QED
    BY <1>0, <2>1
    DEF ChainInv, ChainTypes, RunsAreFaithful, SpecsAreKeyed, SpecsAreTested, SpecOf, Created,
      VerdictsHaveRecords, EnginesAgree
<1>6. ASSUME NEW d \in Deployments, ApproveCommits(d) PROVE ChainInv'
  <2>1. Created(d)
    BY <1>0, <1>6 DEF ApproveCommits, VerdictsHaveRecords
  <2>2. /\ DOMAIN deployments' = Deployments
        /\ \A e \in Deployments :
             Created(e) => /\ DOMAIN deployments'[e] = RecordFields /\ Created(e)'
                           /\ deployments'[e].spec_id = deployments[e].spec_id
                           /\ deployments'[e].tested = deployments[e].tested
        /\ \A e \in Deployments : Created(e)' => Created(e)
    <3>1. CASE deployments' = deployments
      BY <1>0, <3>1 DEF SpecsAreTested, ChainTypes, Created
    <3>2. CASE deployments' = [deployments EXCEPT ![d].status = "approved"]
      BY <1>0, <2>1, <3>2, SMT DEF SpecsAreTested, ChainTypes, Created, RecordFields
    <3> QED
      BY <1>6, <3>1, <3>2 DEF ApproveCommits
  <2>3. UNCHANGED <<runs, specs, engines>> /\ DOMAIN verdict' = Deployments
        /\ \A e \in Deployments : verdict'[e] # "none" => verdict[e] # "none"
    BY <1>0, <1>6 DEF ApproveCommits, ChainTypes
  <2>4. SpecsAreTested'
    BY <1>0, <2>2, <2>3 DEF SpecsAreTested, SpecOf
  <2>5. VerdictsHaveRecords' /\ EnginesAgree'
    BY <1>0, <2>2, <2>3 DEF VerdictsHaveRecords, EnginesAgree
  <2> QED
    BY <1>0, <2>2, <2>3, <2>4, <2>5 DEF ChainInv, ChainTypes, RunsAreFaithful, SpecsAreKeyed
<1>7. ASSUME NEW d \in Deployments, Start(d) PROVE ChainInv'
  <2>1. /\ Created(d) /\ ~Mismatched(SpecOf(d))
        /\ engines' = [engines EXCEPT ![d] = Engine(SpecOf(d))]
        /\ deployments' = [deployments EXCEPT ![d].status = "running"]
        /\ UNCHANGED <<runs, specs, verdict>>
    BY <1>7 DEF Start, Created, SpecOf
  <2>2. /\ DOMAIN deployments' = Deployments
        /\ \A e \in Deployments :
             Created(e) => /\ DOMAIN deployments'[e] = RecordFields /\ Created(e)'
                           /\ deployments'[e].spec_id = deployments[e].spec_id
                           /\ deployments'[e].tested = deployments[e].tested
        /\ \A e \in Deployments : Created(e)' => Created(e)
    BY <1>0, <2>1, SMT DEF SpecsAreTested, ChainTypes, Created, RecordFields
  <2>3. Agrees(Engine(SpecOf(d)), deployments[d].tested)
    BY <1>0, <2>1, EngineOfSpec DEF SpecsAreTested
  <2>4. SpecsAreTested'
    BY <1>0, <2>1, <2>2 DEF SpecsAreTested, SpecOf
  <2>5. /\ DOMAIN engines' = Deployments /\ engines'[d] = Engine(SpecOf(d))
        /\ \A e \in Deployments : e # d => engines'[e] = engines[e]
    BY <1>0, <2>1 DEF ChainTypes
  <2>6. EnginesAgree'
    BY <1>0, <2>1, <2>2, <2>3, <2>5 DEF EnginesAgree
  <2>7. VerdictsHaveRecords'
    BY <1>0, <2>1, <2>2 DEF VerdictsHaveRecords
  <2> QED
    BY <1>0, <2>1, <2>2, <2>4, <2>5, <2>6, <2>7
    DEF ChainInv, ChainTypes, RunsAreFaithful, SpecsAreKeyed
<1>8. CASE ChainRestart
  BY <1>0, <1>8
  DEF ChainRestart, NoEngine, ChainInv, ChainTypes, RunsAreFaithful, SpecsAreKeyed,
    SpecsAreTested, SpecOf, Created, VerdictsHaveRecords, EnginesAgree
<1>9. CASE UNCHANGED chainVars
  BY <1>0, <1>9
  DEF chainVars, ChainInv, ChainTypes, RunsAreFaithful, SpecsAreKeyed, SpecsAreTested, SpecOf,
    Created, VerdictsHaveRecords, EnginesAgree
<1> QED
  BY <1>1, <1>2, <1>3, <1>4, <1>5, <1>6, <1>7, <1>8, <1>9 DEF ChainNext

(* An engine trades the market, by the rules and with the optimizer that   *)
(* its source run was tested with.                                         *)
THEOREM EnginesTradeAsTested == ChainSpec => []EngineTradesAsTested
<1>1. ChainInv => EngineTradesAsTested
  BY DEF ChainInv, EnginesAgree, Agrees, EngineTradesAsTested
<1> QED
  BY <1>1, ChainStarts, ChainSteps, PTL DEF ChainSpec

-----------------------------------------------------------------------------
(* The ticks of an engine and their log                                    *)

(* The status an event gives its order, and the log entries of a tick.     *)
EventStatus(e) ==
  CASE e.kind = "submitted" -> "submitted"
    [] e.kind = "rejected" -> "rejected"
    [] e.kind = "partial_fill" -> "partially_filled"
    [] e.kind = "fill" -> "filled"
    [] OTHER -> "submitted"
LocalStatuses == {"submitted", "partially_filled", "filled", "rejected"}

OrderKinds == {"submitted", "rejected", "partial_fill", "fill", "report"}
OrderEvent(e) ==
  /\ e.kind \in OrderKinds
  /\ e.kind = "report" => e.word = "reported" /\ e.filled = FALSE /\ e.remaining = TRUE
TickEvent(e) == e.ts \in Nat /\ (e.kind = "snapshot" \/ OrderEvent(e))
TickEvents(S) == IsFiniteSet(S) /\ \A e \in S : TickEvent(e)

Concerns(e, o) == OrderEvent(e) /\ e.order = o

LEMMA EventStatusType ==
  ASSUME NEW e, OrderEvent(e)
  PROVE  /\ EventStatus(e) \in LocalStatuses
         /\ LocalRank(EventStatus(e)) \in {10, 20, 30}
BY DEF OrderEvent, OrderKinds, EventStatus, LocalStatuses, LocalRank, LocalTerminalRank

(* A state whose order statuses are the furthest ones of the events in A.  *)
ShowsFurthest(s, A) ==
  /\ s = [cash |-> s.cash, shares |-> s.shares, local |-> s.local, broker |-> s.broker]
  /\ \A o : o \in DOMAIN s.local <=> \E e \in A : Concerns(e, o)
  /\ \A o \in DOMAIN s.local :
       /\ \E e \in A : Concerns(e, o) /\ s.local[o] = EventStatus(e)
       /\ \A e \in A : Concerns(e, o) => LocalRank(EventStatus(e)) <= LocalRank(s.local[o])

LEMMA AdvanceLocalIsFurthest ==
  ASSUME NEW A, NEW l, l \notin A, OrderEvent(l), \A e \in A : TickEvent(e),
         NEW s, ShowsFurthest(s, A)
  PROVE  ShowsFurthest(AdvanceLocal(s, l.order, EventStatus(l)), A \cup {l})
<1> DEFINE o == l.order
           t == AdvanceLocal(s, o, EventStatus(l))
<1>1. \A e \in A \cup {l} : OrderEvent(e) => LocalRank(EventStatus(e)) \in {10, 20, 30}
  BY EventStatusType
<1>2. \A p \in DOMAIN s.local : LocalRank(s.local[p]) \in {10, 20, 30}
  BY <1>1 DEF ShowsFurthest, Concerns
<1>3. Concerns(l, o) /\ \A p : Concerns(l, p) => p = o
  BY DEF Concerns
<1>4. CASE o \in DOMAIN s.local /\ ~LocalCanTransition(s.local[o], EventStatus(l))
  <2>1. t = s
    BY <1>4 DEF AdvanceLocal
  <2>2. LocalRank(EventStatus(l)) <= LocalRank(s.local[o])
    BY <1>1, <1>2, <1>4 DEF LocalCanTransition, LocalTerminalRank
  <2> QED
    BY <1>3, <1>4, <2>1, <2>2 DEF ShowsFurthest
<1>5. CASE ~(o \in DOMAIN s.local /\ ~LocalCanTransition(s.local[o], EventStatus(l)))
  <2>1. t = [s EXCEPT !.local = With(s.local, o, EventStatus(l))]
    BY <1>5 DEF AdvanceLocal
  <2>2. t = [cash |-> s.cash, shares |-> s.shares,
             local |-> With(s.local, o, EventStatus(l)), broker |-> s.broker]
    BY <2>1 DEF ShowsFurthest
  <2>3. t.local = With(s.local, o, EventStatus(l))
    BY <2>2
  <2>4. /\ DOMAIN t.local = DOMAIN s.local \cup {o}
        /\ t.local[o] = EventStatus(l)
        /\ \A p \in DOMAIN s.local : p # o => t.local[p] = s.local[p]
    BY <2>3 DEF With
  <2>5. o \in DOMAIN s.local => LocalRank(s.local[o]) <= LocalRank(EventStatus(l))
    BY <1>1, <1>2, <1>5 DEF LocalCanTransition
  <2>6. \A e \in A : Concerns(e, o) => LocalRank(EventStatus(e)) <= LocalRank(EventStatus(l))
    BY <1>1, <1>2, <2>5 DEF ShowsFurthest, Concerns
  <2> HIDE DEF t
  <2>7. t = [cash |-> t.cash, shares |-> t.shares, local |-> t.local, broker |-> t.broker]
    BY <2>2
  <2>8. \A p : p \in DOMAIN t.local <=> \E e \in A \cup {l} : Concerns(e, p)
    BY <1>3, <2>4 DEF ShowsFurthest
  <2>9. ASSUME NEW p \in DOMAIN t.local
        PROVE  /\ \E e \in A \cup {l} : Concerns(e, p) /\ t.local[p] = EventStatus(e)
               /\ \A e \in A \cup {l} : Concerns(e, p) =>
                    LocalRank(EventStatus(e)) <= LocalRank(t.local[p])
    <3>1. CASE p = o
      BY <1>1, <1>3, <2>4, <2>6, <3>1
    <3>2. CASE p # o
      BY <1>3, <2>4, <3>2 DEF ShowsFurthest
    <3> QED
      BY <3>1, <3>2
  <2>10. ShowsFurthest(t, A \cup {l})
    BY <2>7, <2>8, <2>9 DEF ShowsFurthest
  <2> QED
    BY <2>10 DEF t
<1> QED
  BY <1>4, <1>5

(* An event of a tick moves only the status of its order, a checkpoint     *)
(* none; fills move cash and shares beside it.                             *)
LEMMA TickEventApplied ==
  ASSUME NEW A, NEW l, l \notin A, TickEvent(l), \A e \in A : TickEvent(e),
         NEW s, ShowsFurthest(s, A)
  PROVE  ShowsFurthest(ApplyEvent(s, l), A \cup {l})
<1>1. ASSUME NEW t, t = [cash |-> t.cash, shares |-> t.shares, local |-> s.local,
                         broker |-> t.broker]
      PROVE  ShowsFurthest(t, A)
  <2>1. t.local = s.local
    BY <1>1
  <2> QED
    BY <1>1, <2>1 DEF ShowsFurthest
<1>2. s = [cash |-> s.cash, shares |-> s.shares, local |-> s.local, broker |-> s.broker]
  BY DEF ShowsFurthest
<1>3. CASE l.kind = "snapshot"
  <2> DEFINE t == ApplyEvent(s, l)
  <2>1. t = [cash |-> l.cash, shares |-> l.shares, local |-> s.local, broker |-> s.broker]
    BY <1>2, <1>3 DEF ApplyEvent, Checkpoint
  <2>2. t = [cash |-> t.cash, shares |-> t.shares, local |-> s.local, broker |-> t.broker]
    BY <2>1
  <2> HIDE DEF t
  <2>3. ShowsFurthest(t, A)
    BY <1>1, <2>2
  <2>4. \A p : ~Concerns(l, p)
    BY <1>3 DEF Concerns, OrderEvent, OrderKinds
  <2> QED
    BY <2>3, <2>4 DEF ShowsFurthest, t
<1>4. CASE l.kind \in {"submitted", "rejected"}
  <2>1. ApplyEvent(s, l) = AdvanceLocal(s, l.order, EventStatus(l))
    BY <1>4 DEF ApplyEvent, EventStatus
  <2>2. OrderEvent(l)
    BY <1>4 DEF TickEvent
  <2> QED
    BY <2>1, <2>2, AdvanceLocalIsFurthest
<1>5. CASE l.kind \in {"partial_fill", "fill"}
  <2>1. ApplyEvent(s, l) = AdvanceLocal(Trade(s, l), l.order, EventStatus(l))
    BY <1>5 DEF ApplyEvent, EventStatus
  <2> DEFINE t == Trade(s, l)
  <2>2. t = [cash |-> t.cash, shares |-> t.shares, local |-> s.local, broker |-> t.broker]
    <3>1. CASE l.side = "buy"
      <4>1. t = [cash |-> s.cash - (l.shares + l.cost), shares |-> s.shares + l.shares,
                 local |-> s.local, broker |-> s.broker]
        BY <1>2, <3>1 DEF Trade
      <4> QED
        BY <4>1
    <3>2. CASE l.side # "buy"
      <4>1. t = [cash |-> s.cash + (l.shares - l.cost),
                 shares |-> IF s.shares > l.shares THEN s.shares - l.shares ELSE 0,
                 local |-> s.local, broker |-> s.broker]
        BY <1>2, <3>2 DEF Trade
      <4> QED
        BY <4>1
    <3> QED
      BY <3>1, <3>2
  <2> HIDE DEF t
  <2>3. ShowsFurthest(t, A)
    BY <1>1, <2>2
  <2>4. OrderEvent(l)
    BY <1>5 DEF TickEvent
  <2>5. ShowsFurthest(AdvanceLocal(t, l.order, EventStatus(l)), A \cup {l})
    BY <2>3, <2>4, AdvanceLocalIsFurthest
  <2> QED
    BY <2>1, <2>5 DEF t
<1>6. CASE l.kind = "report"
  <2>1. OrderEvent(l)
    BY <1>6 DEF TickEvent
  <2>2. Normalize(l.word, l.filled, l.remaining) = "reported"
    BY <1>6, <2>1 DEF OrderEvent, Normalize, Aliases, Statuses, OpenStatuses
  <2> DEFINE t == AdvanceBroker(s, l.order, "reported", l.ts)
  <2>3. ApplyEvent(s, l) = AdvanceLocal(t, l.order, EventStatus(l))
    BY <1>6, <2>2 DEF ApplyEvent, Reported, EventStatus, ToOrderStatus
  <2>4. t = [cash |-> t.cash, shares |-> t.shares, local |-> s.local, broker |-> t.broker]
    <3>1. CASE t = s
      BY <1>2, <3>1
    <3>2. CASE t = [s EXCEPT !.broker =
                      With(s.broker, l.order, [status |-> "reported", ts |-> l.ts])]
      <4>1. t = [cash |-> s.cash, shares |-> s.shares, local |-> s.local,
                 broker |-> With(s.broker, l.order, [status |-> "reported", ts |-> l.ts])]
        BY <1>2, <3>2
      <4> QED
        BY <4>1
    <3> QED
      BY <3>1, <3>2 DEF AdvanceBroker
  <2> HIDE DEF t
  <2>5. ShowsFurthest(t, A)
    BY <1>1, <2>4
  <2>6. ShowsFurthest(AdvanceLocal(t, l.order, EventStatus(l)), A \cup {l})
    BY <2>1, <2>5, AdvanceLocalIsFurthest
  <2> QED
    BY <2>3, <2>6
<1> QED
  BY <1>3, <1>4, <1>5, <1>6 DEF TickEvent, OrderEvent, OrderKinds

LEMMA TickEventsAreOrdered ==
  ASSUME NEW S, TickEvents(S)
  PROVE  Ordered(S)
BY DEF TickEvents, TickEvent, OrderEvent, OrderKinds, Ordered, Priority

(* The replayed log shows of each order its furthest event.                *)
LEMMA ReplayShowsFurthest ==
  ASSUME NEW S, TickEvents(S), NEW cash, NEW shares
  PROVE  ShowsFurthest(Replay(S, Fresh(cash, shares)), S)
<1> DEFINE st(A) == Replay(A, Fresh(cash, shares))
           Right == {A \in SUBSET S : ShowsFurthest(st(A), A)}
<1>1. \A A \in SUBSET S : IsFiniteSet(A) /\ Ordered(A) /\ TickEvents(A)
  BY TickEventsAreOrdered, FS_Subset DEF TickEvents
<1>2. {} \in Right
  <2>1. IsFiniteSet({}) /\ Ordered({})
    BY <1>1
  <2>2. Replay({}, Fresh(cash, shares)) = Fresh(cash, shares)
    BY <2>1, ReplayStep
  <2>3. ShowsFurthest(Fresh(cash, shares), {})
    BY DEF ShowsFurthest, Fresh, NoOrders
  <2> QED
    BY <2>2, <2>3
<1>3. ASSUME NEW A \in SUBSET S, A # {}, A \ {LastOf(A)} \in Right
      PROVE  A \in Right
  <2> DEFINE l == LastOf(A)
             B == A \ {l}
  <2>1. l \in A
    BY <1>1, <1>3, LastOfIsLast
  <2>2. ShowsFurthest(st(B), B)
    BY <1>3
  <2>3. st(A) = ApplyEvent(st(B), l)
    BY <1>1, <1>3, ReplayStep
  <2> HIDE DEF l, st
  <2>4. l \notin B /\ TickEvent(l) /\ (\A e \in B : TickEvent(e)) /\ B \cup {l} = A
    BY <2>1 DEF TickEvents
  <2> HIDE DEF B
  <2>5. ShowsFurthest(ApplyEvent(st(B), l), B \cup {l})
    BY <2>2, <2>4, TickEventApplied
  <2> QED
    BY <2>3, <2>4, <2>5
<1> HIDE DEF Right
<1>4. IsFiniteSet(S) /\ Ordered(S)
  BY <1>1
<1>5. \A A \in SUBSET S : A \in Right
  BY <1>2, <1>3, <1>4, LogInduction
<1> QED
  BY <1>5 DEF Right

(* When the last event is a checkpoint, the account is the one it saved.   *)
LEMMA ReplayedCheckpoint ==
  ASSUME NEW S, TickEvents(S), NEW c \in S, c.kind = "snapshot",
         \A e \in S : e # c => e.ts < c.ts, NEW cash, NEW shares
  PROVE  /\ Replay(S, Fresh(cash, shares)).cash = c.cash
         /\ Replay(S, Fresh(cash, shares)).shares = c.shares
<1>1. IsFiniteSet(S) /\ Ordered(S)
  BY TickEventsAreOrdered DEF TickEvents
<1>2. LastOf(S) \in S /\ ~Before(LastOf(S), c)
  BY <1>1, LastOfIsLast
<1>3. LastOf(S) = c
  BY <1>2 DEF Before
<1> DEFINE s == Replay(S \ {c}, Fresh(cash, shares))
<1>4. TickEvents(S \ {c})
  BY FS_Subset DEF TickEvents
<1>5. ShowsFurthest(s, S \ {c})
  BY <1>4, ReplayShowsFurthest
<1>6. Replay(S, Fresh(cash, shares)) = ApplyEvent(s, c)
  BY <1>1, <1>3, ReplayStep
<1> HIDE DEF s
<1>7. ApplyEvent(s, c) = [cash |-> c.cash, shares |-> c.shares, local |-> s.local,
                          broker |-> s.broker]
  BY <1>5 DEF ShowsFurthest, ApplyEvent, Checkpoint
<1> QED
  BY <1>6, <1>7

(* The log of an engine: entries date from before the tick to come, and    *)
(* two entries of one order that rank alike say the same.                  *)
LogTypes ==
  /\ ticks \in Nat
  /\ TickEvents(log)
  /\ \A e \in log : e.ts < Now
  /\ \A e \in log : OrderEvent(e) =>
       \E t \in Nat, n \in {1, 2} : t < ticks /\ e.order = [tick |-> t, no |-> n]
OneOutcome ==
  \A e, f \in log :
    /\ OrderEvent(e) /\ OrderEvent(f) /\ e.order = f.order
    /\ LocalRank(EventStatus(e)) = LocalRank(EventStatus(f))
    => EventStatus(e) = EventStatus(f)

(* A status is the furthest the log has of the order, if it has any.       *)
IsFurthest(o, status) ==
  (\E e \in log : Concerns(e, o)) =>
    /\ \E e \in log : Concerns(e, o) /\ EventStatus(e) = status
    /\ \A e \in log : Concerns(e, o) =>
         EventStatus(e) = status \/ LocalRank(EventStatus(e)) < LocalRank(status)

EngineKnows(a) ==
  /\ a = [cash |-> a.cash, shares |-> a.shares, local |-> a.local]
  /\ \A o \in DOMAIN a.local :
       /\ \E t \in Nat, n \in {1, 2} : t < ticks /\ o = [tick |-> t, no |-> n]
       /\ IsFurthest(o, a.local[o])

(* The last entry is the checkpoint of the last committed tick.            *)
EndsWithCheckpoint ==
  \/ log = {} /\ saved.cash = InitialCash /\ saved.shares = 0
  \/ \E c \in log : /\ c.kind = "snapshot"
                    /\ c.cash = saved.cash /\ c.shares = saved.shares
                    /\ \A e \in log : e # c => e.ts < c.ts

TickInv ==
  /\ LogTypes /\ OneOutcome
  /\ EngineKnows(account) /\ EngineKnows(saved) /\ EndsWithCheckpoint

LEMMA RecoveredIsFurthest ==
  ASSUME TickInv
  PROVE  EngineKnows(Recovered)
<1> DEFINE s == Replay(log, Fresh(InitialCash, 0))
<1>1. ShowsFurthest(s, log)
  BY ReplayShowsFurthest DEF TickInv, LogTypes
<1>2. Recovered = [cash |-> s.cash, shares |-> s.shares, local |-> s.local]
  BY DEF Recovered
<1> HIDE DEF s
<1>3. Recovered.local = s.local
  BY <1>2
<1>4. ASSUME NEW o \in DOMAIN s.local
      PROVE  /\ \E t \in Nat, n \in {1, 2} : t < ticks /\ o = [tick |-> t, no |-> n]
             /\ IsFurthest(o, s.local[o])
  <2>1. PICK e \in log : Concerns(e, o) /\ s.local[o] = EventStatus(e)
    BY <1>1 DEF ShowsFurthest
  <2>2. ASSUME NEW f \in log, Concerns(f, o)
        PROVE  EventStatus(f) = s.local[o] \/ LocalRank(EventStatus(f)) < LocalRank(s.local[o])
    <3>1. LocalRank(EventStatus(f)) <= LocalRank(s.local[o])
      BY <1>1, <2>2 DEF ShowsFurthest
    <3>2. LocalRank(EventStatus(f)) \in {10, 20, 30} /\ LocalRank(EventStatus(e)) \in {10, 20, 30}
      BY <2>1, <2>2, EventStatusType DEF Concerns
    <3>3. LocalRank(EventStatus(f)) = LocalRank(EventStatus(e)) => EventStatus(f) = EventStatus(e)
      BY <2>1, <2>2 DEF TickInv, OneOutcome, Concerns
    <3> QED
      BY <2>1, <3>1, <3>2, <3>3
  <2>3. IsFurthest(o, s.local[o])
    BY <2>1, <2>2 DEF IsFurthest
  <2>4. \E t \in Nat, n \in {1, 2} : t < ticks /\ o = [tick |-> t, no |-> n]
    BY <2>1 DEF TickInv, LogTypes, Concerns
  <2> QED
    BY <2>3, <2>4
<1> QED
  BY <1>2, <1>3, <1>4 DEF EngineKnows

LEMMA TickInvRecovers ==
  ASSUME TickInv
  PROVE  LogRecoversTheTick
<1> DEFINE s == Replay(log, Fresh(InitialCash, 0))
<1>0. Recovered.cash = s.cash /\ Recovered.shares = s.shares /\ Recovered.local = s.local
  BY DEF Recovered
<1> HIDE DEF s
<1>1. s.cash = saved.cash /\ s.shares = saved.shares
  <2>1. CASE log = {} /\ saved.cash = InitialCash /\ saved.shares = 0
    <3>1. IsFiniteSet({}) /\ Ordered({})
      BY FS_EmptySet DEF Ordered
    <3>2. s = Fresh(InitialCash, 0)
      BY <2>1, <3>1, ReplayStep DEF s
    <3> QED
      BY <2>1, <3>2 DEF Fresh
  <2>2. ASSUME NEW c \in log, c.kind = "snapshot", c.cash = saved.cash,
               c.shares = saved.shares, \A e \in log : e # c => e.ts < c.ts
        PROVE  s.cash = saved.cash /\ s.shares = saved.shares
    <3>1. TickEvents(log)
      BY DEF TickInv, LogTypes
    <3> QED
      BY <2>2, <3>1, ReplayedCheckpoint DEF s
  <2> QED
    BY <2>1, <2>2 DEF TickInv, EndsWithCheckpoint
<1>2. ASSUME NEW o \in DOMAIN saved.local, o \in DOMAIN s.local
      PROVE  s.local[o] = saved.local[o]
  <2>1. ShowsFurthest(s, log)
    BY ReplayShowsFurthest DEF TickInv, LogTypes, s
  <2>2. PICK e \in log : Concerns(e, o) /\ s.local[o] = EventStatus(e)
    BY <1>2, <2>1 DEF ShowsFurthest
  <2>3. IsFurthest(o, saved.local[o])
    BY DEF TickInv, EngineKnows
  <2>4. PICK f \in log : Concerns(f, o) /\ EventStatus(f) = saved.local[o]
    BY <2>2, <2>3 DEF IsFurthest
  <2>5. EventStatus(e) = EventStatus(f) \/ LocalRank(EventStatus(e)) < LocalRank(EventStatus(f))
    BY <2>2, <2>3, <2>4 DEF IsFurthest
  <2>6. LocalRank(EventStatus(f)) <= LocalRank(EventStatus(e))
    BY <1>2, <2>1, <2>2, <2>4 DEF ShowsFurthest
  <2>7. LocalRank(EventStatus(f)) \in {10, 20, 30} /\ LocalRank(EventStatus(e)) \in {10, 20, 30}
    BY <2>2, <2>4, EventStatusType DEF Concerns
  <2> QED
    BY <2>2, <2>4, <2>5, <2>6, <2>7
<1> QED
  BY <1>0, <1>1, <1>2 DEF LogRecoversTheTick, RecoversSavedAccount, RecoversOrderStatuses

(* The entries a tick writes but for its checkpoint.                       *)
NewEvents(E) ==
  /\ IsFiniteSet(E)
  /\ \A e \in E : /\ OrderEvent(e) /\ e.ts \in Now..(Now + Skew)
                  /\ \E n \in {1, 2} : e.order = [tick |-> ticks, no |-> n]
  /\ \A e, f \in E :
       e.order = f.order /\ LocalRank(EventStatus(e)) = LocalRank(EventStatus(f))
       => EventStatus(e) = EventStatus(f)

(* The sum of the slices filled so far.                                    *)
LEMMA FilledSoFar ==
  ASSUME NEW asked \in Nat, NEW slices \in Slices(asked), NEW i \in 1..Len(slices)
  PROVE  /\ slices \in Seq(1..asked) /\ Len(slices) \in 0..2
         /\ SharesOf(slices) \in Nat \ {0}
         /\ i = Len(slices) => SharesOf(SubSeq(slices, 1, i)) = SharesOf(slices)
         /\ i < Len(slices) => SharesOf(SubSeq(slices, 1, i)) < SharesOf(slices)
         /\ SharesOf(SubSeq(slices, 1, i)) \in Nat
<1> DEFINE q == SubSeq(slices, 1, i)
<1>1. slices \in Seq(1..asked) /\ Len(slices) \in 1..2
  <2>1. CASE slices = <<>>
    BY <2>1
  <2>2. ASSUME NEW a \in 1..asked, slices = <<a>>
        PROVE  slices \in Seq(1..asked) /\ Len(slices) = 1
    BY <2>2
  <2>3. ASSUME NEW a \in 1..asked, NEW b \in 1..asked, slices = <<a, b>>
        PROVE  slices \in Seq(1..asked) /\ Len(slices) = 2
    BY <2>3
  <2> QED
    BY <2>1, <2>2, <2>3 DEF Slices
<1>2. q \in Seq(1..asked) /\ Len(q) = i /\ \A j \in 1..i : q[j] = slices[j]
  BY <1>1
<1>3. slices # <<>> /\ q # <<>>
  BY <1>1, <1>2
<1>4. SharesOf(slices) = IF Len(slices) = 1 THEN slices[1] ELSE slices[1] + slices[2]
  BY <1>3 DEF SharesOf
<1>5. SharesOf(q) = IF Len(q) = 1 THEN q[1] ELSE q[1] + q[2]
  BY <1>3 DEF SharesOf
<1>6. slices[1] \in 1..asked /\ (Len(slices) = 2 => slices[2] \in 1..asked)
  BY <1>1
<1> HIDE DEF q
<1>7. /\ i = Len(slices) => SharesOf(q) = SharesOf(slices)
      /\ i < Len(slices) => SharesOf(q) = slices[1] /\ Len(slices) = 2
  BY <1>1, <1>2, <1>4, <1>5
<1>8. /\ SharesOf(slices) \in Nat \ {0} /\ SharesOf(q) \in Nat
      /\ i < Len(slices) => SharesOf(q) < SharesOf(slices)
  BY <1>1, <1>4, <1>6, <1>7
<1> QED
  BY <1>1, <1>7, <1>8 DEF q

(* The entries of the tick's own order, when it came to a status.          *)
AreEventsOf(E, status) ==
  /\ IsFiniteSet(E)
  /\ \A e \in E : /\ OrderEvent(e) /\ e.ts \in Now..(Now + Skew)
                  /\ e.order = Order
                  /\ EventStatus(e) = status \/ LocalRank(EventStatus(e)) < LocalRank(status)
  /\ \A e, f \in E :
       LocalRank(EventStatus(e)) = LocalRank(EventStatus(f)) => EventStatus(e) = EventStatus(f)
  /\ \E e \in E : EventStatus(e) = status

LEMMA OrdersEvents ==
  ASSUME ticks \in Nat, NEW side, NEW asked \in Nat, NEW slices \in Slices(asked),
         NEW step \in 0..1, SharesOf(slices) <= asked
  PROVE  AreEventsOf(OrderEvents(side, asked, slices, step), OutcomeStatus(asked, slices))
<1> DEFINE E == OrderEvents(side, asked, slices, step)
           status == OutcomeStatus(asked, slices)
           submitted == [kind |-> "submitted", order |-> Order, ts |-> Now]
           rejected == [kind |-> "rejected", order |-> Order, ts |-> Now + step]
           fill(i) == [kind |-> FillKind(SharesOf(SubSeq(slices, 1, i)), asked),
                       order |-> Order, ts |-> Now + step * i, no |-> i, side |-> side,
                       shares |-> slices[i], cost |-> Fee]
           fills == {fill(i) : i \in 1..Len(slices)}
<1>0. Now \in Nat /\ Now + step \in Now..(Now + Skew)
      /\ \A i \in 1..2 : Now + step * i \in Now..(Now + Skew)
  BY DEF Now, TickGap, Skew
<1>1. /\ OrderEvent(submitted) /\ EventStatus(submitted) = "submitted"
      /\ submitted.ts \in Now..(Now + Skew) /\ submitted.order = Order
      /\ OrderEvent(rejected) /\ EventStatus(rejected) = "rejected"
      /\ rejected.ts \in Now..(Now + Skew) /\ rejected.order = Order
  BY <1>0 DEF OrderEvent, OrderKinds, EventStatus, Skew
<1>2. CASE slices = <<>>
  <2>1. E = {submitted, rejected}
    BY <1>2 DEF OrderEvents
  <2>2. SharesOf(slices) = 0
    BY <1>2 DEF SharesOf
  <2>3. status = "rejected"
    BY <2>2 DEF OutcomeStatus
  <2> HIDE DEF submitted, rejected, E, status
  <2>4. IsFiniteSet({submitted, rejected})
    <3>1. IsFiniteSet({submitted})
      BY FS_Singleton
    <3>2. IsFiniteSet({submitted} \cup {rejected})
      BY <3>1, FS_AddElement
    <3> QED
      BY <3>2
  <2>5. LocalRank("submitted") = 10 /\ LocalRank("rejected") = 30
    BY DEF LocalRank, LocalTerminalRank
  <2>6. AreEventsOf(E, status)
    BY <1>1, <2>1, <2>3, <2>4, <2>5 DEF AreEventsOf
  <2> QED
    BY <2>6 DEF E, status
<1>3. CASE slices # <<>>
  <2>0. Len(slices) \in 1..2
    <3>1. ASSUME NEW a \in 1..asked, slices = <<a>> PROVE Len(slices) = 1
      BY <3>1
    <3>2. ASSUME NEW a \in 1..asked, NEW b \in 1..asked, slices = <<a, b>>
          PROVE  Len(slices) = 2
      BY <3>2
    <3> QED
      BY <1>3, <3>1, <3>2 DEF Slices
  <2>1. E = {submitted} \cup fills
    BY <1>3 DEF OrderEvents
  <2>2. SharesOf(slices) \in Nat \ {0}
    BY <2>0, FilledSoFar
  <2>3. status = IF SharesOf(slices) < asked THEN "partially_filled" ELSE "filled"
    BY <2>2 DEF OutcomeStatus
  <2>4. ASSUME NEW i \in 1..Len(slices)
        PROVE  /\ OrderEvent(fill(i)) /\ fill(i).ts \in Now..(Now + Skew)
               /\ fill(i).order = Order
               /\ EventStatus(fill(i)) = IF i = Len(slices) THEN status ELSE "partially_filled"
    <3>1. /\ i = Len(slices) => SharesOf(SubSeq(slices, 1, i)) = SharesOf(slices)
          /\ i < Len(slices) => SharesOf(SubSeq(slices, 1, i)) < SharesOf(slices)
          /\ SharesOf(SubSeq(slices, 1, i)) \in Nat
      BY FilledSoFar
    <3>2. FillKind(SharesOf(SubSeq(slices, 1, i)), asked) =
            IF i = Len(slices) /\ SharesOf(slices) >= asked THEN "fill" ELSE "partial_fill"
      BY <2>0, <2>2, <3>1 DEF FillKind
    <3> DEFINE kind == FillKind(SharesOf(SubSeq(slices, 1, i)), asked)
               f == fill(i)
    <3>3. f.kind = kind /\ f.order = Order /\ f.ts = Now + step * i
      OBVIOUS
    <3> HIDE DEF f, kind
    <3>4. kind \in {"fill", "partial_fill"}
          /\ kind = IF i = Len(slices) /\ SharesOf(slices) >= asked THEN "fill" ELSE "partial_fill"
      BY <3>2 DEF kind
    <3>5. OrderEvent(f) /\ EventStatus(f) = IF kind = "fill" THEN "filled" ELSE "partially_filled"
      BY <3>3, <3>4 DEF OrderEvent, OrderKinds, EventStatus
    <3>6. f.ts \in Now..(Now + Skew)
      <4>1. i \in 1..2
        <5>1. PICK n \in 1..2 : n = Len(slices)
          BY <2>0
        <5>2. i \in 1..n
          BY <5>1
        <5> QED
          BY <5>2
      <4>2. Now + step * i \in Now..(Now + Skew)
        BY <1>0, <4>1
      <4> QED
        BY <3>3, <4>2
    <3> QED
      BY <2>2, <2>3, <3>3, <3>4, <3>5, <3>6 DEF f
  <2>5. IsFiniteSet(fills)
    <3> HIDE DEF fill
    <3>1. 1..Len(slices) = {1} \/ 1..Len(slices) = {1, 2}
      <4>1. Len(slices) = 1 \/ Len(slices) = 2
        BY <2>0
      <4>2. 1..1 = {1} /\ 1..2 = {1, 2}
        OBVIOUS
      <4> QED
        BY <4>1, <4>2
    <3>2. fills = {fill(1)} \/ fills = {fill(1)} \cup {fill(2)}
      BY <3>1
    <3>3. IsFiniteSet({fill(1)})
      BY FS_Singleton
    <3>4. IsFiniteSet({fill(1)} \cup {fill(2)})
      BY <3>3, FS_AddElement
    <3> HIDE DEF fills
    <3> QED
      BY <3>2, <3>3, <3>4
  <2>6. IsFiniteSet({submitted} \cup fills)
    <3> HIDE DEF fills, submitted
    <3>1. IsFiniteSet(fills \cup {submitted})
      BY <2>5, FS_AddElement
    <3>2. {submitted} \cup fills = fills \cup {submitted}
      OBVIOUS
    <3> QED
      BY <3>1, <3>2
  <2> HIDE DEF fill, submitted
  <2>7. \A e \in E : \/ e = submitted
                     \/ \E i \in 1..Len(slices) : e = fill(i)
    BY <2>1
  <2> HIDE DEF fills, status
  <2>8. fill(Len(slices)) \in E
    BY <2>0, <2>1 DEF fills
  <2> HIDE DEF E
  <2>9. \A e \in E : /\ OrderEvent(e) /\ e.ts \in Now..(Now + Skew)
                     /\ e.order = Order
                     /\ EventStatus(e) \in {"submitted", "partially_filled", status}
    BY <1>1, <2>4, <2>7
  <2>10. LocalRank("submitted") = 10 /\ LocalRank("partially_filled") = 20
         /\ LocalRank("filled") = 30
    BY DEF LocalRank, LocalTerminalRank
  <2>11. \E e \in E : EventStatus(e) = status
    BY <2>0, <2>4, <2>8
  <2>12. IsFiniteSet(E)
    BY <2>1, <2>6
  <2>13. AreEventsOf(E, status)
    BY <2>3, <2>9, <2>10, <2>11, <2>12 DEF AreEventsOf
  <2> QED
    BY <2>13 DEF E, status
<1> QED
  BY <1>2, <1>3

(* What a committed tick leaves behind when its entries are E.             *)
LEMMA CommitKeepsInv ==
  ASSUME TickInv, ticks' = ticks + 1, NEW E, NewEvents(E), NEW a,
         log' = log \cup Sequenced(E, a), saved' = a, account' = a,
         a = [cash |-> a.cash, shares |-> a.shares,
                     local |-> a.local],
         \A o \in DOMAIN a.local :
           \/ o \in DOMAIN account.local /\ a.local[o] = account.local[o]
           \/ /\ o = Order
              /\ \E e \in E : e.order = o /\ EventStatus(e) = a.local[o]
              /\ \A e \in E : e.order = o =>
                   EventStatus(e) = a.local[o]
                   \/ LocalRank(EventStatus(e)) < LocalRank(a.local[o])
  PROVE  TickInv'
<1> DEFINE c == [kind |-> "snapshot", cash |-> a.cash, shares |-> a.shares,
                 ts |-> LatestTime(E) + 1]
<1>1. log' = log \cup E \cup {c}
  BY DEF Sequenced
<1>2. ticks \in Nat /\ Now \in Nat /\ Now' = Now + 10
  BY DEF TickInv, LogTypes, Now, TickGap
<1>3. LatestTime(E) \in Now..(Now + Skew) /\ \A e \in E : e.ts <= LatestTime(E)
  <2> DEFINE T == {Now} \cup {e.ts : e \in E}
  <2>1. T \in SUBSET (0..(Now + Skew)) /\ T # {} /\ T \in SUBSET (Now..(Now + Skew))
    BY <1>2 DEF NewEvents, Skew
  <2>2. Now + Skew \in Nat
    BY <1>2 DEF Skew
  <2> HIDE DEF T
  <2>3. Max(T) \in T /\ \A t \in T : t <= Max(T)
    <3>1. PICK m \in T : \A k \in T : k <= m
      BY <2>1, <2>2, GreatestExists
    <3>2. \A k \in T : m >= k
      BY <3>1, <2>1, SMT
    <3>3. Max(T) \in T /\ \A k \in T : Max(T) >= k
      BY <3>2, Zenon DEF Max
    <3>4. \A k \in T : k \in Nat
      BY <1>2, <2>1
    <3> QED
      BY <3>3, <3>4
  <2>4. LatestTime(E) = Max(T)
    BY DEF LatestTime, T
  <2>5. \A e \in E : e.ts \in T
    BY DEF T
  <2> QED
    BY <2>1, <2>3, <2>4, <2>5
<1>4. c.kind = "snapshot" /\ c.cash = a.cash /\ c.shares = a.shares
      /\ c.ts \in Nat /\ c.ts < Now' /\ (\A e \in log \cup E : e.ts < c.ts)
      /\ c.ts = LatestTime(E) + 1
  <2>1. c.kind = "snapshot" /\ c.cash = a.cash /\ c.shares = a.shares
        /\ c.ts = LatestTime(E) + 1
    OBVIOUS
  <2> HIDE DEF c
  <2>2. \A e \in log : e.ts \in Nat /\ e.ts < Now
    BY DEF TickInv, LogTypes, TickEvents, TickEvent
  <2>3. \A e \in E : e.ts \in Nat
    BY <1>2 DEF NewEvents
  <2> QED
    BY <1>2, <1>3, <2>1, <2>2, <2>3 DEF Skew
<1> HIDE DEF c
<1>5. ~OrderEvent(c)
  BY <1>4 DEF OrderEvent, OrderKinds
<1>6. \A e \in E : /\ OrderEvent(e) /\ e.ts \in Nat /\ e.ts < Now'
                   /\ \E n \in {1, 2} : e.order = [tick |-> ticks, no |-> n]
  BY <1>2 DEF NewEvents, Skew
<1>7. ASSUME NEW t \in Nat, t < ticks, NEW n \in {1, 2}, NEW e \in log',
             Concerns(e, [tick |-> t, no |-> n])
      PROVE  e \in log /\ e \notin E
  <2>1. e \in E => e.order.tick = ticks
    BY <1>6
  <2>2. e.order.tick = t
    BY <1>7 DEF Concerns
  <2>3. e # c
    BY <1>5, <1>7 DEF Concerns
  <2> QED
    BY <1>1, <1>2, <1>7, <2>1, <2>2, <2>3
<1>8. \A e \in log : OrderEvent(e) =>
        \E t \in Nat, n \in {1, 2} : t < ticks /\ e.order = [tick |-> t, no |-> n]
  BY DEF TickInv, LogTypes
<1>9. LogTypes'
  <2>1. IsFiniteSet(log')
    <3>1. IsFiniteSet(log \cup E)
      BY FS_Union DEF TickInv, LogTypes, TickEvents, NewEvents
    <3> QED
      BY <1>1, <3>1, FS_AddElement
  <2>2. ASSUME NEW e \in log'
        PROVE  /\ TickEvent(e) /\ e.ts < Now'
               /\ OrderEvent(e) =>
                    \E t \in Nat, n \in {1, 2} : t < ticks' /\ e.order = [tick |-> t, no |-> n]
    <3>1. CASE e \in log
      <4>1. TickEvent(e) /\ e.ts < Now /\ e.ts \in Nat
        BY <3>1 DEF TickInv, LogTypes, TickEvents, TickEvent
      <4>2. OrderEvent(e) =>
              \E t \in Nat, n \in {1, 2} : t < ticks' /\ e.order = [tick |-> t, no |-> n]
        <5>1. \A t \in Nat : t < ticks => t < ticks'
          BY <1>2
        <5> QED
          BY <1>8, <3>1, <5>1
      <4> QED
        BY <1>2, <4>1, <4>2
    <3>2. CASE e \in E
      <4>1. ticks < ticks'
        BY <1>2
      <4> QED
        BY <1>2, <1>6, <3>2, <4>1 DEF TickEvent
    <3>3. CASE e = c
      BY <1>4, <1>5, <3>3 DEF TickEvent
    <3> QED
      BY <1>1, <3>1, <3>2, <3>3
  <2>3. TickEvents(log')
    BY <2>1, <2>2 DEF TickEvents
  <2>4. ticks' \in Nat
    BY <1>2
  <2> QED
    BY <2>2, <2>3, <2>4 DEF LogTypes
<1>10. OneOutcome'
  <2> SUFFICES ASSUME NEW e \in log', NEW f \in log', OrderEvent(e), OrderEvent(f),
                      e.order = f.order,
                      LocalRank(EventStatus(e)) = LocalRank(EventStatus(f))
               PROVE  EventStatus(e) = EventStatus(f)
    BY DEF OneOutcome
  <2>1. e \in log \cup E /\ f \in log \cup E
    BY <1>1, <1>5
  <2>2. ASSUME NEW g \in log, OrderEvent(g) PROVE g.order.tick # ticks
    <3>1. PICK t \in Nat, n \in {1, 2} : t < ticks /\ g.order = [tick |-> t, no |-> n]
      BY <1>8, <2>2
    <3>2. g.order.tick = t
      BY <3>1
    <3> QED
      BY <1>2, <3>1, <3>2
  <2>3. \A g \in E : g.order.tick = ticks
    BY <1>6
  <2>4. CASE e \in log /\ f \in log
    BY <2>4 DEF TickInv, OneOutcome
  <2>5. CASE e \in E /\ f \in E
    BY <2>5 DEF NewEvents
  <2> QED
    BY <2>1, <2>2, <2>3, <2>4, <2>5
<1>11. EngineKnows(account)'
  <2>1. ASSUME NEW o \in DOMAIN a.local
        PROVE  /\ \E t \in Nat, n \in {1, 2} : t < ticks' /\ o = [tick |-> t, no |-> n]
               /\ IsFurthest(o, a.local[o])'
    <3>1. CASE o \in DOMAIN account.local /\ a.local[o] = account.local[o]
      <4>1. PICK t \in Nat, n \in {1, 2} : t < ticks /\ o = [tick |-> t, no |-> n]
        BY <3>1 DEF TickInv, EngineKnows
      <4>2. IsFurthest(o, a.local[o])
        BY <3>1 DEF TickInv, EngineKnows
      <4>3. \A e : e \in log' /\ Concerns(e, o) <=> e \in log /\ Concerns(e, o)
        BY <1>1, <1>7, <4>1
      <4>4. IsFurthest(o, a.local[o])'
        BY <4>2, <4>3 DEF IsFurthest
      <4>5. t < ticks'
        BY <1>2, <4>1
      <4> QED
        BY <4>1, <4>4, <4>5
    <3>2. CASE /\ o = Order
               /\ \E e \in E : e.order = o /\ EventStatus(e) = a.local[o]
               /\ \A e \in E : e.order = o =>
                   EventStatus(e) = a.local[o]
                   \/ LocalRank(EventStatus(e)) < LocalRank(a.local[o])
      <4>1. o = [tick |-> ticks, no |-> 1]
        BY <3>2 DEF Order
      <4>2. \A e : e \in log' /\ Concerns(e, o) <=> e \in E /\ e.order = o
        <5>1. ASSUME NEW e \in log, Concerns(e, o) PROVE FALSE
          <6>1. PICK t \in Nat, n \in {1, 2} : t < ticks /\ e.order = [tick |-> t, no |-> n]
            BY <1>8, <5>1 DEF Concerns
          <6>2. e.order.tick = t /\ o.tick = ticks /\ e.order = o
            BY <4>1, <5>1, <6>1 DEF Concerns
          <6> QED
            BY <1>2, <6>1, <6>2
        <5>2. ~Concerns(c, o)
          BY <1>5 DEF Concerns
        <5>3. \A e \in E : Concerns(e, o) <=> e.order = o
          BY <1>6 DEF Concerns
        <5> QED
          BY <1>1, <5>1, <5>2, <5>3
      <4>3. IsFurthest(o, a.local[o])'
        BY <3>2, <4>2 DEF IsFurthest
      <4>4. ticks < ticks'
        BY <1>2
      <4> QED
        BY <1>2, <4>1, <4>3, <4>4
    <3> QED
      BY <3>1, <3>2
  <2> QED
    BY <2>1 DEF EngineKnows
<1>12. EngineKnows(saved)'
  BY <1>11 DEF EngineKnows
<1>13. EndsWithCheckpoint'
  <2>1. c \in log' /\ \A e \in log' : e # c => e.ts < c.ts
    BY <1>1, <1>4
  <2> QED
    BY <1>4, <2>1 DEF EndsWithCheckpoint
<1> QED
  BY <1>9, <1>10, <1>11, <1>12, <1>13 DEF TickInv

(* A failed tick leaves an order of its own that the log does not have.    *)
LEMMA FailKeepsInv ==
  ASSUME TickInv, ticks' = ticks + 1, NEW a, account' = a, UNCHANGED <<log, saved>>,
         a = [cash |-> a.cash, shares |-> a.shares, local |-> a.local],
         \A o \in DOMAIN a.local :
           o = Order \/ (o \in DOMAIN account.local /\ a.local[o] = account.local[o])
  PROVE  TickInv'
<1>1. ticks \in Nat /\ Now \in Nat /\ Now' = Now + 10
      /\ \A t \in Nat : t < ticks => t < ticks'
  BY DEF TickInv, LogTypes, Now, TickGap
<1>2. \A e \in log : e.ts \in Nat /\ e.ts < Now
  BY DEF TickInv, LogTypes, TickEvents, TickEvent
<1>3. \A e \in log : e.ts < Now'
  BY <1>1, <1>2
<1>4. LogTypes'
  <2>1. \A e \in log : OrderEvent(e) =>
          \E t \in Nat, n \in {1, 2} : t < ticks' /\ e.order = [tick |-> t, no |-> n]
    BY <1>1 DEF TickInv, LogTypes
  <2> QED
    BY <1>1, <1>3, <2>1 DEF TickInv, LogTypes
<1>5. OneOutcome' /\ EndsWithCheckpoint'
  BY DEF TickInv, OneOutcome, EndsWithCheckpoint
<1>6. \A o, s : IsFurthest(o, s)' <=> IsFurthest(o, s)
  BY DEF IsFurthest
<1>7. EngineKnows(saved)'
  <2>1. \A o \in DOMAIN saved.local :
          \E t \in Nat, n \in {1, 2} : t < ticks' /\ o = [tick |-> t, no |-> n]
    BY <1>1 DEF TickInv, EngineKnows
  <2>2. \A o \in DOMAIN saved.local : IsFurthest(o, saved.local[o])'
    BY <1>6 DEF TickInv, EngineKnows
  <2> QED
    BY <2>1, <2>2 DEF TickInv, EngineKnows
<1>8. EngineKnows(account)'
  <2>1. ASSUME NEW o \in DOMAIN a.local
        PROVE  /\ \E t \in Nat, n \in {1, 2} : t < ticks' /\ o = [tick |-> t, no |-> n]
               /\ IsFurthest(o, a.local[o])'
    <3>1. CASE o \in DOMAIN account.local /\ a.local[o] = account.local[o]
      <4>1. IsFurthest(o, a.local[o])
        BY <3>1 DEF TickInv, EngineKnows
      <4>2. \E t \in Nat, n \in {1, 2} : t < ticks' /\ o = [tick |-> t, no |-> n]
        BY <1>1, <3>1 DEF TickInv, EngineKnows
      <4> QED
        BY <1>6, <4>1, <4>2
    <3>2. CASE o = Order
      <4>1. o = [tick |-> ticks, no |-> 1] /\ ticks < ticks'
        BY <1>1, <3>2 DEF Order
      <4>2. ASSUME NEW e \in log, Concerns(e, o) PROVE FALSE
        <5>1. PICK t \in Nat, n \in {1, 2} : t < ticks /\ e.order = [tick |-> t, no |-> n]
          BY <4>2 DEF TickInv, LogTypes, Concerns
        <5>2. e.order.tick = t /\ o.tick = ticks /\ e.order = o
          BY <4>1, <4>2, <5>1 DEF Concerns
        <5> QED
          BY <1>1, <5>1, <5>2
      <4>3. IsFurthest(o, a.local[o])
        BY <4>2 DEF IsFurthest
      <4> QED
        BY <1>1, <1>6, <4>1, <4>3
    <3> QED
      BY <2>1, <3>1, <3>2
  <2> QED
    BY <2>1 DEF EngineKnows
<1> QED
  BY <1>4, <1>5, <1>7, <1>8 DEF TickInv

(* The report of another order of the tick is one more entry.              *)
LEMMA WithBrokerEvents ==
  ASSUME ticks \in Nat, NEW E, IsFiniteSet(E), NEW more \in BrokerEvents,
         \A e \in E : OrderEvent(e) /\ e.ts \in Now..(Now + Skew) /\ e.order = Order,
         \A e, f \in E : LocalRank(EventStatus(e)) = LocalRank(EventStatus(f))
                         => EventStatus(e) = EventStatus(f)
  PROVE  NewEvents(E \cup more) /\ \A e \in more : e.order # Order
<1> DEFINE r == [kind |-> "report", order |-> [tick |-> ticks, no |-> 2],
                 ts |-> Now + Skew, word |-> "reported", filled |-> FALSE, remaining |-> TRUE]
<1>1. more = {} \/ more = {r}
  BY DEF BrokerEvents
<1>2. /\ OrderEvent(r) /\ r.ts \in Now..(Now + Skew) /\ r.order = [tick |-> ticks, no |-> 2]
      /\ r.order # Order
  <2>1. r.kind = "report" /\ r.word = "reported" /\ r.filled = FALSE /\ r.remaining = TRUE
    OBVIOUS
  <2>2. OrderEvent(r)
    BY <2>1 DEF OrderEvent, OrderKinds
  <2>3. [tick |-> ticks, no |-> 2] # Order
    <3>1. [tick |-> ticks, no |-> 2].no = 2 /\ Order.no = 1
      BY DEF Order
    <3> QED
      BY <3>1
  <2> QED
    BY <2>2, <2>3 DEF Now, TickGap, Skew
<1> HIDE DEF r
<1>3. IsFiniteSet(E \cup more)
  BY <1>1, FS_AddElement
<1>4. Order = [tick |-> ticks, no |-> 1]
  BY DEF Order
<1>5. \A e \in E \cup more : /\ OrderEvent(e) /\ e.ts \in Now..(Now + Skew)
                             /\ \E n \in {1, 2} : e.order = [tick |-> ticks, no |-> n]
  BY <1>1, <1>2, <1>4
<1>6. \A e, f \in E \cup more :
        e.order = f.order /\ LocalRank(EventStatus(e)) = LocalRank(EventStatus(f))
        => EventStatus(e) = EventStatus(f)
  BY <1>1, <1>2
<1> QED
  BY <1>1, <1>2, <1>3, <1>5, <1>6 DEF NewEvents

LEMMA RebalanceKeepsInv ==
  ASSUME TickInv, NEW side, NEW asked \in Nat, NEW slices \in Slices(asked),
         NEW step \in 0..1, Rebalance(side, asked, slices, step)
  PROVE  TickInv'
<1>0. ticks \in Nat /\ ticks' = ticks + 1 /\ SharesOf(slices) <= asked
  BY DEF TickInv, LogTypes, Rebalance
<1> DEFINE status == OutcomeStatus(asked, slices)
           E == OrderEvents(side, asked, slices, step)
<1>1. PICK a : a = Traded(side, asked, slices)
  OBVIOUS
<1>2. account' = a
  BY <1>1 DEF Rebalance
<1>3. /\ a = [cash |-> a.cash, shares |-> a.shares, local |-> a.local]
      /\ a.local = With(account.local, Order, status)
  BY <1>1 DEF Traded
<1>4. /\ DOMAIN a.local = DOMAIN account.local \cup {Order}
      /\ a.local[Order] = status
      /\ \A o \in DOMAIN account.local : o # Order => a.local[o] = account.local[o]
  BY <1>3 DEF With
<1> HIDE DEF E, status
<1>5. CASE Fail
  <2>1. \A o \in DOMAIN a.local :
          o = Order \/ (o \in DOMAIN account.local /\ a.local[o] = account.local[o])
    BY <1>4
  <2> QED
    BY <1>0, <1>2, <1>3, <1>5, <2>1, FailKeepsInv DEF Fail
<1>6. CASE Commit(E)
  <2>1. PICK more \in BrokerEvents :
          log' = log \cup Sequenced(E \cup more, account') /\ saved' = account'
    BY <1>6 DEF Commit
  <2>2. AreEventsOf(E, status)
    BY <1>0, OrdersEvents DEF E, status
  <2>3. NewEvents(E \cup more) /\ \A e \in more : e.order # Order
    BY <1>0, <2>2, WithBrokerEvents DEF AreEventsOf
  <2>4. PICK F : F = E \cup more
    OBVIOUS
  <2>5. \A o \in DOMAIN a.local :
           \/ o \in DOMAIN account.local /\ a.local[o] = account.local[o]
           \/ /\ o = Order
              /\ \E e \in F : e.order = o /\ EventStatus(e) = a.local[o]
              /\ \A e \in F : e.order = o =>
                   EventStatus(e) = a.local[o]
                   \/ LocalRank(EventStatus(e)) < LocalRank(a.local[o])
    BY <1>4, <2>2, <2>3, <2>4 DEF AreEventsOf
  <2>6. log' = log \cup Sequenced(F, a) /\ saved' = a /\ NewEvents(F)
    BY <1>2, <2>1, <2>3, <2>4
  <2> QED
    BY <1>0, <1>2, <1>3, <2>5, <2>6, CommitKeepsInv
<1> QED
  BY <1>5, <1>6 DEF Rebalance, E

LEMMA HoldKeepsInv ==
  ASSUME TickInv, NEW sold, HoldOrEmergencySell(sold)
  PROVE  TickInv'
<1>0. ticks \in Nat /\ ticks' = ticks + 1
  BY DEF TickInv, LogTypes, HoldOrEmergencySell
<1>1. PICK a : a = [account EXCEPT !.cash = @ + Proceeds(sold), !.shares = @ - sold]
  OBVIOUS
<1>2. account' = a
  BY <1>1 DEF HoldOrEmergencySell
<1>3. account = [cash |-> account.cash, shares |-> account.shares, local |-> account.local]
  BY DEF TickInv, EngineKnows
<1>4. a = [cash |-> account.cash + Proceeds(sold), shares |-> account.shares - sold,
           local |-> account.local]
  BY <1>1, <1>3
<1>5. /\ a = [cash |-> a.cash, shares |-> a.shares, local |-> a.local]
      /\ a.local = account.local
  BY <1>4
<1>6. CASE Fail
  BY <1>0, <1>2, <1>5, <1>6, FailKeepsInv DEF Fail
<1>7. CASE Commit({})
  <2>1. PICK more \in BrokerEvents :
          log' = log \cup Sequenced({} \cup more, account') /\ saved' = account'
    BY <1>7 DEF Commit
  <2>2. IsFiniteSet({})
    BY FS_EmptySet
  <2>3. NewEvents({} \cup more)
    BY <1>0, <2>2, WithBrokerEvents
  <2>4. PICK F : F = {} \cup more
    OBVIOUS
  <2>5. log' = log \cup Sequenced(F, a) /\ saved' = a /\ NewEvents(F)
    BY <1>2, <2>1, <2>3, <2>4
  <2> QED
    BY <1>0, <1>2, <1>5, <2>5, CommitKeepsInv
<1> QED
  BY <1>6, <1>7 DEF HoldOrEmergencySell

LEMMA RestartKeepsInv ==
  ASSUME TickInv, Restart
  PROVE  TickInv'
<1>1. PICK a : a = Recovered
  OBVIOUS
<1>2. account' = a /\ UNCHANGED <<log, saved, ticks>>
  BY <1>1 DEF Restart
<1>3. EngineKnows(a)
  BY <1>1, RecoveredIsFurthest
<1>4. EngineKnows(account)'
  BY <1>2, <1>3 DEF EngineKnows, IsFurthest
<1> QED
  BY <1>2, <1>4 DEF TickInv, LogTypes, Now, OneOutcome, EngineKnows, IsFurthest,
                    EndsWithCheckpoint

LEMMA TickInvStarts == TickInit => TickInv
<1> SUFFICES ASSUME TickInit PROVE TickInv
  OBVIOUS
<1>1. log = {} /\ ticks = 0 /\ account = Empty /\ saved = Empty
  BY DEF TickInit
<1>2. /\ Empty = [cash |-> Empty.cash, shares |-> Empty.shares, local |-> Empty.local]
      /\ Empty.cash = InitialCash /\ Empty.shares = 0 /\ DOMAIN Empty.local = {}
  BY DEF Empty, NoOrders
<1>3. LogTypes /\ OneOutcome
  BY <1>1, FS_EmptySet DEF LogTypes, TickEvents, OneOutcome
<1>4. EngineKnows(account) /\ EngineKnows(saved)
  BY <1>1, <1>2 DEF EngineKnows
<1>5. EndsWithCheckpoint
  BY <1>1, <1>2 DEF EndsWithCheckpoint
<1> QED
  BY <1>3, <1>4, <1>5 DEF TickInv

LEMMA TickSteps == TickInv /\ [TickNext]_tickVars => TickInv'
<1> SUFFICES ASSUME TickInv, [TickNext]_tickVars PROVE TickInv'
  OBVIOUS
<1>1. CASE UNCHANGED tickVars
  BY <1>1 DEF tickVars, TickInv, LogTypes, Now, OneOutcome, EngineKnows, IsFurthest,
              EndsWithCheckpoint
<1>2. ASSUME NEW side \in Sides, NEW asked \in 1..MaxShares, NEW step \in 0..1,
             NEW slices \in Slices(asked), Rebalance(side, asked, slices, step)
      PROVE  TickInv'
  <2>1. asked \in Nat
    OBVIOUS
  <2> QED
    BY <1>2, <2>1, RebalanceKeepsInv
<1>3. ASSUME NEW sold \in 0..MaxShares, HoldOrEmergencySell(sold) PROVE TickInv'
  BY <1>3, HoldKeepsInv
<1>4. CASE Restart
  BY <1>4, RestartKeepsInv
<1> QED
  BY <1>1, <1>2, <1>3, <1>4 DEF TickNext

(* The log always replays to the account of the last committed tick and to *)
(* the order statuses the engine had then, for any cash, fee and order     *)
(* size and any number of ticks, failures and restarts.                    *)
THEOREM LogAlwaysRecovers == TickSpec => []LogRecoversTheTick
<1>1. TickSpec => []TickInv
  BY TickInvStarts, TickSteps, PTL DEF TickSpec
<1>2. TickInv => LogRecoversTheTick
  BY TickInvRecovers
<1> QED
  BY <1>1, <1>2, PTL
=============================================================================
