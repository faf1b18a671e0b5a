-------------------------- MODULE OrderIdentityProofs --------------------------
(***************************************************************************)
(* Which order a report is of.  The row of a client order is fed by that   *)
(* order only, for any number of orders, any clock, any number of reports  *)
(* in a pull and any gap after which a broker id proves nothing, as long   *)
(* as pulls do not mix orders; and the snapshot of the orders, merged from *)
(* a query and the callbacks, shows each open order once, for any orders,  *)
(* clock, number of callbacks and gap that makes a callback old.           *)
(***************************************************************************)
EXTENDS OrderIdentity, CallbackViews, LedgerProofs, FiniteSetTheorems,
        SequenceTheorems, TLAPS

OpenOnes == {"reported", "partially_filled"}
FinalOnes == {"filled", "canceled", "partially_canceled"}
(* "none" is the symbol before any order.                                  *)
Names == Symbols \cup {"none"}
LinkRows == [status : OpenOnes \cup FinalOnes, ts : Nat, symbol : Names, of : SUBSET Nat]
IdentityReports ==
  [order : Nat \ {0}, symbol : Names, status : OpenOnes \cup FinalOnes, ts : Nat,
   named : BOOLEAN]
PulledReports == [row : Nat, report : IdentityReports]

LinksTyped == \A c \in DOMAIN links : links[c] \in LinkRows /\ links[c].of # {}
LatestOrders ==
  [symbol : Names, status : OpenOnes \cup FinalOnes \cup {"unreported"}, ts : Int]

RowTypes ==
  /\ day \in Nat /\ newest \in Nat
  /\ latest \in LatestOrders
  /\ latest.ts <= day /\ (newest > 0 => latest.ts \in Nat)
  /\ DOMAIN links \subseteq 0..newest
  /\ LinksTyped
  /\ handed \subseteq IdentityReports
QueueTypes ==
  /\ waiting \in Seq(IdentityReports) /\ pulled \in Seq(PulledReports)
  /\ ~Idle => waiting = <<>>

(* Rows of other clients that a report of q could be taken for.            *)
Older(q, t) == {c \in DOMAIN links \ {ShadowId, q} : t - links[c].ts <= MatchGap}

HandedBy(q, symbol, t, over) ==
  \A r \in handed : r.order = q /\ r.symbol = symbol /\ r.ts = t /\ (IsTerminal(r.status) => over)
RowsUpTo(q, t) ==
  \A c \in DOMAIN links : c <= q /\ links[c].ts <= t /\ links[c].of \subseteq 1..q
OlderAreOver(q, t) ==
  /\ \A c \in Older(q, t) : IsTerminal(links[c].status)
  /\ \A c, d \in Older(q, t) : c = d
(* A row of q, its own or the shadow row, is no older than those of other  *)
(* orders: it is found whenever one of them is.                            *)
Anchored(q, symbol, t) ==
  \E h \in {ShadowId, q} \cap DOMAIN links :
    /\ links[h].symbol = symbol /\ q \in links[h].of
    /\ \A c \in Older(q, t) : links[c].ts <= links[h].ts
(* Unless the shadow row is shared with other orders, the row of q has all *)
(* of its reports; a shadow row of its own comes after its end.            *)
OwnRow(q, symbol, t, over) ==
  ShadowId \notin DOMAIN links \/ links[ShadowId].of = {q} =>
    /\ q \in DOMAIN links /\ links[q].symbol = symbol /\ links[q].ts = t
    /\ IsTerminal(links[q].status) <=> over
    /\ ShadowId \in DOMAIN links => over /\ links[ShadowId].ts = t
EndIsKept(q, t, over) ==
  over => \E h \in {ShadowId, q} \cap DOMAIN links :
            IsTerminal(links[h].status) /\ links[h].ts = t /\ q \in links[h].of

(* The state of the rows once a report of q, the order placed last, was    *)
(* saved: the last one is of time t and is final exactly when over.        *)
Told(q, symbol, t, over) ==
  /\ HandedBy(q, symbol, t, over)
  /\ RowsUpTo(q, t)
  /\ OlderAreOver(q, t)
  /\ Anchored(q, symbol, t)
  /\ OwnRow(q, symbol, t, over)
  /\ EndIsKept(q, t, over)

(* Of the rows within reach of a report made at s, one is the finished row *)
(* of p; another can only be the shadow row, as late as that.              *)
Aside(p, t, s) ==
  s - t <= MatchGap =>
    /\ p \in DOMAIN links /\ IsTerminal(links[p].status) /\ links[p].ts = t
    /\ \A c \in DOMAIN links \ {p} :
         s - links[c].ts <= MatchGap => c = ShadowId /\ links[c].ts = t

Succeeding(p, t, s) ==
  t < s /\ Aside(p, t, s) /\ \E symbol \in Names : Told(p, symbol, t, TRUE)

Reports == [i \in DOMAIN pulled |-> pulled[i].report]
(* Reports in the order they are saved in.                                 *)
Unsaved == IF Idle THEN waiting ELSE Reports

(* A report of q that is not saved yet: one given again, or the next.      *)
Coming(r, q, symbol, t, over) ==
  /\ r.order = q /\ r.symbol = symbol
  /\ \/ r.ts = t /\ (IsTerminal(r.status) => over)
     \/ ~over /\ t <= r.ts /\ (r.status = "partially_filled" \/ r.status \in FinalOnes)

(* The row a report was resolved to.                                       *)
Fits(e, q, over) ==
  e.row \in {ShadowId, q} /\ (e.row = ShadowId /\ ShadowId \notin DOMAIN links => over)

Follow(queue, t, over) ==
  /\ \A i \in DOMAIN queue : Coming(queue[i], newest, latest.symbol, t, over) /\ queue[i].ts <= latest.ts
  /\ \A i, j \in DOMAIN queue : i < j =>
       queue[i].ts <= queue[j].ts /\ (~over => ~IsTerminal(queue[i].status))
  /\ IsTerminal(latest.status) <=> over \/ \E i \in DOMAIN queue : IsTerminal(queue[i].status)
  /\ IF queue = <<>> THEN t = latest.ts ELSE queue[Len(queue)].ts = latest.ts

(* A row was told of the latest order.                                     *)
Begun(t, over) ==
  /\ Heard /\ t <= latest.ts
  /\ Told(newest, latest.symbol, t, over)
  /\ Follow(Unsaved, t, over)
  /\ Idle /\ ~over => day - t <= MatchGap
  /\ \A i \in DOMAIN pulled : Fits(pulled[i], newest, over)

(* Reports of an order placed at s that no row was told of, behind those   *)
(* of the order before.                                                    *)
First(r, s) ==
  /\ r.order = newest /\ r.symbol = latest.symbol /\ r.named /\ s <= r.ts /\ r.ts <= latest.ts
  /\ r.status \in OpenOnes
FirstFits(e) ==
  \/ e.row = newest
  \/ /\ e.row = ShadowId /\ ShadowId \in DOMAIN links
     /\ e.report.ts - links[ShadowId].ts <= MatchGap
FirstFollow(queue, s) ==
  /\ \A i \in DOMAIN queue : queue[i] \in handed \/ (First(queue[i], s) /\ Heard)
  /\ \A i, j \in DOMAIN queue : (i < j /\ queue[i].order = newest) =>
       /\ queue[j].order = newest /\ queue[i].ts <= queue[j].ts
       /\ queue[j].status = "partially_filled"
  /\ (queue # <<>> /\ queue[Len(queue)].order = newest) => queue[Len(queue)].ts = latest.ts

Behind(t, s) ==
  \/ newest = 1 /\ DOMAIN links = {} /\ handed = {}
  \/ newest > 1 /\ Succeeding(newest - 1, t, s)
Unbegun(t, s) ==
  /\ ~IsTerminal(latest.status) /\ s <= latest.ts
  /\ Behind(t, s)
  /\ FirstFollow(Unsaved, s)
  /\ \A i \in DOMAIN waiting : waiting[i].order = newest
  /\ \A i \in DOMAIN pulled :
       IF pulled[i].report.order = newest THEN FirstFits(pulled[i])
       ELSE Fits(pulled[i], newest - 1, TRUE)

(* An open order is never silent for longer than MatchGap.                 *)
OpenOrdersSpeak == newest > 0 /\ ~IsTerminal(latest.status) => day - latest.ts <= MatchGap

(* Before the first order nothing is known; of the latest order a row was  *)
(* told, or it is unheard of behind one that is over and aside.            *)
IdentityInv ==
  /\ RowTypes /\ QueueTypes /\ OpenOrdersSpeak
  /\ OneOrderPerRow
  /\ newest = 0 =>
       latest = NoOrder /\ DOMAIN links = {} /\ handed = {} /\ waiting = <<>> /\ pulled = <<>>
  /\ newest > 0 =>
       \/ \E t \in Nat, over \in BOOLEAN : Begun(t, over)
       \/ \E t, s \in Nat : Unbegun(t, s)

-----------------------------------------------------------------------------
(* Statuses, rows and the resolution of a report                           *)

LEMMA OnesRanks ==
  /\ \A s \in OpenOnes : ~IsTerminal(s) /\ Rank(s) \in {12, 20}
  /\ \A s \in FinalOnes : IsTerminal(s) /\ Rank(s) = 30
  /\ Rank("partially_filled") = 20
  /\ "unreported" \notin OpenOnes \cup FinalOnes /\ ~IsTerminal("unreported")
BY DEF OpenOnes, FinalOnes, IsTerminal, Rank, TerminalStatuses, TerminalRank

(* What a report does to the row it is stored in.                          *)
LEMMA StoreEffect ==
  ASSUME LinksTyped, NEW k, NEW r \in IdentityReports, Store(k, r)
  PROVE  /\ DOMAIN links' = DOMAIN links \cup {k}
         /\ \A c \in DOMAIN links \ {k} : links'[c] = links[c]
         /\ links'[k] \in LinkRows
         /\ links'[k].symbol = r.symbol /\ r.order \in links'[k].of
         /\ k \notin DOMAIN links =>
              links'[k].status = r.status /\ links'[k].ts = r.ts /\ links'[k].of = {r.order}
         /\ k \in DOMAIN links =>
              /\ links'[k].of = links[k].of \cup {r.order}
              /\ \/ links'[k].status = r.status /\ links'[k].ts = r.ts
                 \/ links'[k].status = links[k].status /\ links'[k].ts = links[k].ts
              /\ IsTerminal(links[k].status) => IsTerminal(links'[k].status)
              /\ IsTerminal(links[k].status) /\ ~IsTerminal(r.status) =>
                   links'[k].status = links[k].status /\ links'[k].ts = links[k].ts
              /\ /\ r.ts >= links[k].ts
                 /\ \/ IsTerminal(r.status)
                    \/ r.status = "partially_filled" /\ ~IsTerminal(links[k].status)
                 => links'[k].status = r.status /\ links'[k].ts = r.ts
<1>1. /\ DOMAIN links' = DOMAIN links \cup {k}
      /\ \A c \in DOMAIN links \ {k} : links'[c] = links[c]
      /\ links'[k] = RowUpserted(k, r)
  BY DEF Store
<1>2. r.order \in Nat /\ r.status \in OpenOnes \cup FinalOnes /\ r.ts \in Nat /\ r.symbol \in Names
  BY DEF IdentityReports
<1>3. CASE k \notin DOMAIN links
  <2>1. RowUpserted(k, r) = [status |-> r.status, ts |-> r.ts, symbol |-> r.symbol, of |-> {r.order}]
    BY <1>3 DEF RowUpserted
  <2> QED
    BY <1>1, <1>2, <1>3, <2>1 DEF LinkRows
<1>4. CASE k \in DOMAIN links
  <2> DEFINE row == links[k]
             advances == \/ Rank(r.status) > Rank(row.status)
                         \/ Rank(r.status) = Rank(row.status) /\ r.ts >= row.ts
  <2>1. RowUpserted(k, r) =
          [status |-> IF advances THEN r.status ELSE row.status,
           ts |-> IF advances THEN r.ts ELSE row.ts,
           symbol |-> r.symbol, of |-> row.of \cup {r.order}]
    BY <1>4 DEF RowUpserted
  <2>2. row \in LinkRows
    BY <1>4 DEF LinksTyped
  <2>3. row.status \in OpenOnes \cup FinalOnes /\ row.ts \in Nat /\ row.of \in SUBSET Nat
    BY <2>2 DEF LinkRows
  <2> HIDE DEF row
  <2>4. /\ IsTerminal(row.status) /\ ~IsTerminal(r.status) => ~advances
        /\ IsTerminal(row.status) /\ advances => IsTerminal(r.status)
        /\ r.ts >= row.ts /\ (\/ IsTerminal(r.status)
                              \/ r.status = "partially_filled" /\ ~IsTerminal(row.status))
             => advances
    BY <1>2, <2>3, OnesRanks
  <2> HIDE DEF advances
  <2>5. /\ links'[k].status = IF advances THEN r.status ELSE row.status
        /\ links'[k].ts = IF advances THEN r.ts ELSE row.ts
        /\ links'[k].symbol = r.symbol /\ links'[k].of = row.of \cup {r.order}
    BY <1>1, <2>1
  <2>6. links'[k] \in LinkRows
    BY <1>1, <1>2, <2>1, <2>3 DEF LinkRows
  <2> QED
    BY <1>1, <1>4, <2>4, <2>5, <2>6 DEF row
<1> QED
  BY <1>3, <1>4

LEMMA RowsAreFinite ==
  ASSUME RowTypes, NEW S \in SUBSET (DOMAIN links)
  PROVE  IsFiniteSet(S) /\ Cardinality(S) \in Nat
<1>1. IsFiniteSet(0..newest)
  BY FS_Interval DEF RowTypes
<1>2. S \subseteq 0..newest
  BY DEF RowTypes
<1> QED
  BY <1>1, <1>2, FS_Subset, FS_CardinalityType

LEMMA AtMostOne ==
  ASSUME NEW S, IsFiniteSet(S)
  PROVE  /\ Cardinality(S) <= 1 => \A x, y \in S : x = y
         /\ (\A x, y \in S : x = y) => Cardinality(S) <= 1
         /\ (\A x, y \in S : x = y) /\ S # {} => Cardinality(S) = 1
<1>1. Cardinality(S) \in Nat /\ (Cardinality(S) = 0 <=> S = {})
  BY FS_CardinalityType, FS_EmptySet
<1>2. Cardinality(S) = 1 <=> \E x : S = {x}
  BY FS_Singleton
<1>3. ASSUME Cardinality(S) <= 1 PROVE \A x, y \in S : x = y
  <2>1. Cardinality(S) = 0 \/ Cardinality(S) = 1
    BY <1>1, <1>3
  <2> QED
    BY <1>1, <1>2, <2>1, Zenon
<1>4. ASSUME \A x, y \in S : x = y, S # {} PROVE Cardinality(S) = 1
  <2>1. PICK x \in S : TRUE
    BY <1>4
  <2>2. S = {x}
    BY <1>4, <2>1
  <2> QED
    BY <1>2, <2>2
<1> QED
  BY <1>1, <1>3, <1>4

(* Which row is reused: never a third one.                                 *)
LEMMA ReusedRows ==
  ASSUME RowTypes, NEW r
  PROVE  /\ Viable(r) \subseteq DOMAIN links /\ ViableTerminal(r) \subseteq DOMAIN links
         /\ Reusable(r) \subseteq Viable(r) \cup ViableTerminal(r)
         /\ \A h \in Viable(r) : Reusable(r) \subseteq {h}
         /\ \A h \in ViableTerminal(r) : Reusable(r) \subseteq Viable(r) \cup {h}
         /\ \/ Resolved(r) \in Reusable(r)
            \/ Reusable(r) = {} /\ Resolved(r) = IF r.named THEN r.order ELSE ShadowId
         /\ \A h \in Viable(r) :
              Viable(r) \subseteq {h} /\ (\A c, d \in ViableTerminal(r) : c = d) => Resolved(r) = h
<1>1. /\ Viable(r) \subseteq DOMAIN links /\ ViableTerminal(r) \subseteq DOMAIN links
      /\ Reusable(r) \subseteq Viable(r) \cup ViableTerminal(r)
  BY DEF Viable, ViableTerminal, Candidates, Reusable
<1>2. IsFiniteSet(Viable(r)) /\ IsFiniteSet(ViableTerminal(r))
  BY <1>1, RowsAreFinite
<1>3. Cardinality(ViableTerminal(r)) \in Nat /\ Cardinality(Viable(r)) \in Nat
  BY <1>1, RowsAreFinite
<1>4. ASSUME NEW h \in Viable(r) PROVE Reusable(r) \subseteq {h}
  <2>1. Reusable(r) \subseteq {c \in Viable(r) : Cardinality(Viable(r)) = 1}
    BY DEF Reusable
  <2>2. Cardinality(Viable(r)) = 1 => \A c \in Viable(r) : c = h
    BY <1>2, AtMostOne
  <2> QED
    BY <2>1, <2>2
<1>5. ASSUME NEW h \in ViableTerminal(r) PROVE Reusable(r) \subseteq Viable(r) \cup {h}
  <2>1. CASE Cardinality(ViableTerminal(r)) > 1
    BY <2>1 DEF Reusable
  <2>2. CASE Cardinality(ViableTerminal(r)) <= 1
    <3>1. \A c \in ViableTerminal(r) : c = h
      BY <1>2, <2>2, AtMostOne
    <3> QED
      BY <1>1, <3>1
  <2> QED
    BY <1>3, <2>1, <2>2
<1>6. Resolved(r) \in Reusable(r) \/ (Reusable(r) = {} /\ Resolved(r) = IF r.named THEN r.order ELSE ShadowId)
  BY DEF Resolved
<1>7. ASSUME NEW h \in Viable(r), Viable(r) \subseteq {h}, \A c, d \in ViableTerminal(r) : c = d
      PROVE  Resolved(r) = h
  <2>1. Cardinality(ViableTerminal(r)) <= 1
    BY <1>2, <1>7, AtMostOne
  <2>2. Cardinality(Viable(r)) = 1
    <3>1. \A x, y \in Viable(r) : x = y
      BY <1>7
    <3> QED
      BY <1>2, <1>7, <3>1, AtMostOne
  <2>3. Reusable(r) = {h}
    BY <1>3, <1>7, <2>1, <2>2 DEF Reusable
  <2> QED
    BY <2>3 DEF Resolved
<1> QED
  BY <1>1, <1>4, <1>5, <1>6, <1>7

(* A report of q finds rows of q before those of other orders.             *)
LEMMA ComingFinds ==
  ASSUME RowTypes, NEW q \in Nat \ {0}, NEW symbol, NEW t \in Nat, NEW over \in BOOLEAN,
         Told(q, symbol, t, over), NEW r \in IdentityReports, Coming(r, q, symbol, t, over)
  PROVE  /\ Viable(r) \subseteq {ShadowId, q}
         /\ ViableTerminal(r) \subseteq Older(q, t) \cup {ShadowId, q}
         /\ Reusable(r) \subseteq {ShadowId, q}
<1>1. MatchGap \in Nat /\ r.ts \in Nat /\ t <= r.ts /\ r.symbol = symbol
  BY IdentityAssumption DEF Coming, IdentityReports
<1>2. \A c \in DOMAIN links : links[c].ts \in Nat /\ links[c].ts <= t
  BY DEF RowTypes, LinksTyped, LinkRows, Told, RowsUpTo
<1>3. ASSUME NEW c \in DOMAIN links PROVE Distance(r.ts, links[c].ts) = r.ts - links[c].ts
  BY <1>1, <1>2 DEF Distance
<1>4. ASSUME NEW c \in DOMAIN links \ {ShadowId, q}, r.ts - links[c].ts <= MatchGap
      PROVE  c \in Older(q, t)
  BY <1>1, <1>2, <1>4 DEF Older
<1>5. Viable(r) \subseteq {ShadowId, q}
  <2> SUFFICES ASSUME NEW c \in Viable(r), c \notin {ShadowId, q} PROVE FALSE
    OBVIOUS
  <2>1. c \in DOMAIN links /\ ~IsTerminal(links[c].status) /\ r.ts - links[c].ts <= MatchGap
    BY DEF Viable, Candidates
  <2> QED
    BY <1>4, <2>1 DEF Told, OlderAreOver
<1>6. ViableTerminal(r) \subseteq Older(q, t) \cup {ShadowId, q}
  BY <1>3, <1>4 DEF ViableTerminal, Candidates
<1>7. PICK h \in {ShadowId, q} \cap DOMAIN links :
        links[h].symbol = symbol /\ \A c \in Older(q, t) : links[c].ts <= links[h].ts
  BY DEF Told, Anchored
<1>8. CASE ViableTerminal(r) \subseteq {ShadowId, q}
  BY <1>5, <1>8, ReusedRows
<1>9. ASSUME NEW c \in ViableTerminal(r), c \notin {ShadowId, q} PROVE Reusable(r) \subseteq {ShadowId, q}
  <2>1. c \in Older(q, t) /\ c \in DOMAIN links
    BY <1>6, <1>9 DEF ViableTerminal, Candidates
  <2>2. /\ r.ts <= links[c].ts \/ IsTerminal(r.status)
        /\ r.ts - links[c].ts <= MatchGap
    BY <1>3, <1>9, <2>1 DEF ViableTerminal
  <2>3. /\ links[c].ts <= links[h].ts /\ links[h].ts <= r.ts
        /\ links[c].ts \in Nat /\ links[h].ts \in Nat
    BY <1>1, <1>2, <1>7, <2>1
  <2>4. r.ts - links[h].ts <= MatchGap /\ (r.ts <= links[h].ts \/ IsTerminal(r.status))
    BY <1>1, <2>2, <2>3
  <2>5. CASE IsTerminal(links[h].status)
    <3>1. h \in ViableTerminal(r)
      BY <1>1, <1>3, <1>7, <2>4, <2>5 DEF ViableTerminal, Candidates
    <3> QED
      BY <1>5, <3>1, ReusedRows
  <2>6. CASE ~IsTerminal(links[h].status)
    <3>1. h \in Viable(r)
      BY <1>1, <1>7, <2>3, <2>4, <2>6 DEF Viable, Candidates
    <3> QED
      BY <3>1, ReusedRows
  <2> QED
    BY <2>5, <2>6
<1> QED
  BY <1>5, <1>6, <1>8, <1>9

LEMMA ComingStays ==
  ASSUME RowTypes, NEW q \in Nat \ {0}, NEW symbol, NEW t \in Nat, NEW over \in BOOLEAN,
         Told(q, symbol, t, over), NEW r \in IdentityReports, Coming(r, q, symbol, t, over),
         ~over => r.ts - t <= MatchGap
  PROVE  /\ Resolved(r) \in {ShadowId, q}
         /\ Resolved(r) = ShadowId /\ ShadowId \notin DOMAIN links => over
<1>1. r.order = q /\ r.ts \in Nat /\ t <= r.ts /\ r.symbol = symbol
  BY DEF Coming, IdentityReports
<1>2. Resolved(r) \in {ShadowId, q}
  BY <1>1, ComingFinds, ReusedRows
<1>3. ASSUME ShadowId \notin DOMAIN links, ~over PROVE Resolved(r) = q
  <2>1. /\ q \in DOMAIN links /\ links[q].ts = t /\ links[q].symbol = symbol
        /\ ~IsTerminal(links[q].status)
    BY <1>3 DEF Told, OwnRow
  <2>2. q \in Viable(r)
    BY <1>1, <1>3, <2>1 DEF Viable, Candidates
  <2>3. Viable(r) \subseteq {q} /\ ViableTerminal(r) \subseteq Older(q, t)
    <3>1. Viable(r) \subseteq DOMAIN links /\ ViableTerminal(r) \subseteq DOMAIN links
      BY ReusedRows
    <3>2. q \notin ViableTerminal(r)
      BY <2>1 DEF ViableTerminal
    <3> QED
      BY <1>3, <3>1, <3>2, ComingFinds
  <2> QED
    BY <2>2, <2>3, ReusedRows DEF Told, OlderAreOver
<1> QED
  BY <1>2, <1>3 DEF ShadowId

-----------------------------------------------------------------------------
(* What a report of q, given again or made anew, leaves behind             *)

(* The rows stay what they are, whichever of its two q's report is kept in.*)
LEMMA KeptRows ==
  ASSUME RowTypes, OneOrderPerRow, NEW q \in Nat \ {0}, NEW k \in {ShadowId, q},
         NEW r \in IdentityReports, r.order = q, Store(k, r)
  PROVE  LinksTyped' /\ OneOrderPerRow'
<1>1. LinksTyped
  BY DEF RowTypes
<1>2. /\ DOMAIN links' = DOMAIN links \cup {k}
      /\ \A c \in DOMAIN links \ {k} : links'[c] = links[c]
      /\ links'[k] \in LinkRows /\ q \in links'[k].of
      /\ k \notin DOMAIN links => links'[k].of = {q}
      /\ k \in DOMAIN links => links'[k].of = links[k].of \cup {q}
  BY <1>1, StoreEffect
<1>3. LinksTyped'
  BY <1>1, <1>2 DEF LinksTyped
<1>4. ASSUME NEW c \in DOMAIN links' \ {ShadowId} PROVE links'[c].of = {c}
  <2>1. CASE c # k
    BY <1>4, <1>2, <2>1 DEF OneOrderPerRow
  <2>2. CASE c = k
    BY <1>4, <1>2, <2>2 DEF OneOrderPerRow
  <2> QED
    BY <2>1, <2>2
<1> QED
  BY <1>3, <1>4 DEF OneOrderPerRow, ShadowId

(* The row of q keeps its end, and other rows their time.                  *)
KeepsAside(q, t) ==
  /\ q \in DOMAIN links =>
       /\ q \in DOMAIN links' /\ (IsTerminal(links[q].status) => IsTerminal(links'[q].status))
       /\ links[q].ts = t => links'[q].ts = t
  /\ \A c \in DOMAIN links' \ {q} :
       (c \in DOMAIN links /\ links'[c].ts = links[c].ts) \/ (c = ShadowId /\ links'[c].ts = t)

LEMMA AgainKeepsTold ==
  ASSUME RowTypes, NEW q \in Nat \ {0}, NEW symbol, NEW t \in Nat, NEW over \in BOOLEAN,
         Told(q, symbol, t, over), NEW r \in IdentityReports, r.order = q, r.symbol = symbol,
         r.ts = t, IsTerminal(r.status) => over,
         NEW k \in {ShadowId, q}, k = ShadowId /\ ShadowId \notin DOMAIN links => over,
         Store(k, r), HandOver(r)
  PROVE  Told(q, symbol, t, over)' /\ KeepsAside(q, t)
<1>1. LinksTyped /\ q # ShadowId
  BY DEF RowTypes, ShadowId
<1>2. \A c \in DOMAIN links : links[c].ts \in Nat /\ links[c].ts <= t /\ c <= q /\ links[c].of \subseteq 1..q
  BY <1>1 DEF LinksTyped, LinkRows, Told, RowsUpTo
<1>3. /\ DOMAIN links' = DOMAIN links \cup {k}
      /\ \A c \in DOMAIN links \ {k} : links'[c] = links[c]
      /\ links'[k].symbol = symbol /\ q \in links'[k].of
      /\ k \notin DOMAIN links =>
           links'[k].status = r.status /\ links'[k].ts = t /\ links'[k].of = {q}
      /\ k \in DOMAIN links =>
           /\ links'[k].of = links[k].of \cup {q}
           /\ links'[k].ts = t \/ links'[k].ts = links[k].ts
           /\ IsTerminal(links[k].status) => IsTerminal(links'[k].status)
           /\ ~IsTerminal(links[k].status) /\ ~IsTerminal(r.status) => ~IsTerminal(links'[k].status)
  BY <1>1, StoreEffect
<1>4. Older(q, t)' = Older(q, t) /\ k \notin Older(q, t) /\ \A c \in Older(q, t) : links'[c] = links[c]
  BY <1>3 DEF Older
<1>5. HandedBy(q, symbol, t, over)'
  BY DEF Told, HandedBy, HandOver
<1>6. RowsUpTo(q, t)'
  BY <1>2, <1>3 DEF RowsUpTo, ShadowId
<1>7. OlderAreOver(q, t)'
  BY <1>4 DEF Told, OlderAreOver
<1>8. Anchored(q, symbol, t)'
  <2>1. PICK h \in {ShadowId, q} \cap DOMAIN links :
           /\ links[h].symbol = symbol /\ q \in links[h].of
           /\ \A c \in Older(q, t) : links[c].ts <= links[h].ts
    BY DEF Told, Anchored
  <2>2. h \in DOMAIN links' /\ links'[h].symbol = symbol /\ q \in links'[h].of
    BY <1>3, <2>1
  <2>3. \A c \in Older(q, t)' : links'[c].ts <= links'[h].ts
    <3> SUFFICES ASSUME NEW c \in Older(q, t) PROVE links[c].ts <= links'[h].ts
      BY <1>4
    <3>1. links[c].ts <= links[h].ts /\ links[c].ts <= t
      BY <1>2, <2>1 DEF Older
    <3>2. links'[h].ts = links[h].ts \/ links'[h].ts = t
      BY <1>3, <2>1
    <3> QED
      BY <3>1, <3>2
  <2> QED
    BY <2>2, <2>3 DEF Anchored
<1>9. ASSUME q \in DOMAIN links
      PROVE  /\ q \in DOMAIN links' /\ (IsTerminal(links[q].status) => IsTerminal(links'[q].status))
             /\ links[q].ts = t => links'[q].ts = t
             /\ links[q].symbol = symbol => links'[q].symbol = symbol
             /\ ~over /\ ~IsTerminal(links[q].status) => ~IsTerminal(links'[q].status)
  BY <1>3, <1>9
<1>10. OwnRow(q, symbol, t, over)'
  <2> SUFFICES ASSUME ShadowId \notin DOMAIN links' \/ links'[ShadowId].of = {q}
               PROVE  /\ q \in DOMAIN links' /\ links'[q].symbol = symbol /\ links'[q].ts = t
                      /\ IsTerminal(links'[q].status) <=> over
                      /\ ShadowId \in DOMAIN links' => over /\ links'[ShadowId].ts = t
    BY DEF OwnRow
  <2>1. ShadowId \notin DOMAIN links \/ links[ShadowId].of = {q}
    <3> SUFFICES ASSUME ShadowId \in DOMAIN links, links'[ShadowId].of = {q} PROVE links[ShadowId].of = {q}
      BY <1>3
    <3>1. links[ShadowId].of # {} /\ links[ShadowId].of \subseteq links'[ShadowId].of
      BY <1>1, <1>3 DEF LinksTyped
    <3> QED
      BY <3>1
  <2>2. /\ q \in DOMAIN links /\ links[q].symbol = symbol /\ links[q].ts = t
        /\ IsTerminal(links[q].status) <=> over
        /\ ShadowId \in DOMAIN links => over /\ links[ShadowId].ts = t
    BY <2>1 DEF Told, OwnRow
  <2>3. ASSUME ShadowId \in DOMAIN links' PROVE over /\ links'[ShadowId].ts = t
    BY <1>3, <2>2, <2>3
  <2> QED
    BY <1>9, <2>2, <2>3
<1>11. EndIsKept(q, t, over)'
  <2> SUFFICES ASSUME over
               PROVE  \E h \in {ShadowId, q} \cap DOMAIN links' :
                        IsTerminal(links'[h].status) /\ links'[h].ts = t /\ q \in links'[h].of
    BY DEF EndIsKept
  <2>1. PICK h \in {ShadowId, q} \cap DOMAIN links :
          IsTerminal(links[h].status) /\ links[h].ts = t /\ q \in links[h].of
    BY DEF Told, EndIsKept
  <2>2. h \in DOMAIN links' /\ IsTerminal(links'[h].status) /\ links'[h].ts = t /\ q \in links'[h].of
    BY <1>3, <2>1
  <2> QED
    BY <2>2
<1>12. ASSUME NEW c \in DOMAIN links' \ {q}
       PROVE  (c \in DOMAIN links /\ links'[c].ts = links[c].ts) \/ (c = ShadowId /\ links'[c].ts = t)
  <2>1. CASE c = k
    BY <1>3, <1>12, <2>1
  <2>2. CASE c # k
    BY <1>3, <1>12, <2>2
  <2> QED
    BY <2>1, <2>2
<1> QED
  BY <1>5, <1>6, <1>7, <1>8, <1>9, <1>10, <1>11, <1>12 DEF Told, KeepsAside

(* The next report of q.                                                   *)
LEMMA NextKeepsTold ==
  ASSUME RowTypes, NEW q \in Nat \ {0}, NEW symbol, NEW t \in Nat,
         NEW before \in BOOLEAN, ~before, Told(q, symbol, t, before),
         NEW r \in IdentityReports, r.order = q, r.symbol = symbol, t <= r.ts,
         r.status = "partially_filled" \/ r.status \in FinalOnes,
         NEW over \in BOOLEAN, over = IsTerminal(r.status),
         NEW k \in {ShadowId, q}, k = ShadowId => ShadowId \in DOMAIN links,
         Store(k, r), HandOver(r)
  PROVE  Told(q, symbol, r.ts, over)'
<1>1. LinksTyped /\ r.ts \in Nat /\ MatchGap \in Nat /\ q # ShadowId
  BY IdentityAssumption DEF RowTypes, IdentityReports, ShadowId
<1>2. \A c \in DOMAIN links :
         links[c].ts \in Nat /\ links[c].ts <= t /\ c <= q /\ links[c].of \subseteq 1..q
  BY <1>1 DEF LinksTyped, LinkRows, Told, RowsUpTo
<1>3. /\ DOMAIN links' = DOMAIN links \cup {k}
      /\ \A c \in DOMAIN links \ {k} : links'[c] = links[c]
      /\ links'[k].symbol = symbol /\ q \in links'[k].of
      /\ k \notin DOMAIN links =>
           links'[k].status = r.status /\ links'[k].ts = r.ts /\ links'[k].of = {q}
      /\ k \in DOMAIN links =>
           /\ links'[k].of = links[k].of \cup {q}
           /\ links'[k].ts = r.ts \/ links'[k].ts = links[k].ts
           /\ r.ts >= links[k].ts /\ (over \/ (r.status = "partially_filled" /\ ~IsTerminal(links[k].status)))
              => links'[k].status = r.status /\ links'[k].ts = r.ts
  BY <1>1, StoreEffect
<1>4. /\ Older(q, r.ts)' \subseteq Older(q, t)
      /\ \A c \in Older(q, r.ts)' : links'[c] = links[c] /\ c \in DOMAIN links
  BY <1>1, <1>2, <1>3 DEF Older
<1>5. HandedBy(q, symbol, r.ts, over)'
  <2> SUFFICES ASSUME NEW p \in handed'
               PROVE  p.order = q /\ p.symbol = symbol /\ p.ts = r.ts /\ (IsTerminal(p.status) => over)
    BY DEF HandedBy
  <2>1. CASE p = r
    BY <2>1
  <2>2. CASE p \in handed /\ p.ts = r.ts
    BY <2>2 DEF Told, HandedBy
  <2> QED
    BY <2>1, <2>2 DEF HandOver
<1>6. RowsUpTo(q, r.ts)'
  <2>1. ASSUME NEW c \in DOMAIN links'
        PROVE  c <= q /\ links'[c].ts <= r.ts /\ links'[c].of \subseteq 1..q
    <3>1. CASE c = k
      BY <1>1, <1>2, <1>3, <3>1 DEF ShadowId
    <3>2. CASE c # k
      BY <1>1, <1>2, <1>3, <2>1, <3>2
    <3> QED
      BY <3>1, <3>2
  <2> QED
    BY <2>1 DEF RowsUpTo
<1>7. OlderAreOver(q, r.ts)'
  BY <1>4 DEF Told, OlderAreOver
<1>8. Anchored(q, symbol, r.ts)'
  <2>1. PICK h \in {ShadowId, q} \cap DOMAIN links :
           /\ links[h].symbol = symbol /\ q \in links[h].of
           /\ \A c \in Older(q, t) : links[c].ts <= links[h].ts
    BY DEF Told, Anchored
  <2>2. h \in DOMAIN links' /\ links'[h].symbol = symbol /\ q \in links'[h].of
    BY <1>3, <2>1
  <2>3. \A c \in Older(q, r.ts)' : links'[c].ts <= links'[h].ts
    <3> SUFFICES ASSUME NEW c \in Older(q, r.ts)' PROVE links[c].ts <= links'[h].ts
      BY <1>4
    <3>1. links[c].ts <= links[h].ts /\ links[c].ts <= t /\ links[c].ts \in Nat
      BY <1>2, <1>4, <2>1
    <3>2. links'[h].ts = links[h].ts \/ links'[h].ts = r.ts
      BY <1>3, <2>1
    <3> QED
      BY <1>1, <3>1, <3>2
  <2> QED
    BY <2>2, <2>3 DEF Anchored
<1>9. OwnRow(q, symbol, r.ts, over)'
  <2> SUFFICES ASSUME ShadowId \notin DOMAIN links' \/ links'[ShadowId].of = {q}
               PROVE  /\ q \in DOMAIN links' /\ links'[q].symbol = symbol /\ links'[q].ts = r.ts
                      /\ IsTerminal(links'[q].status) <=> over
                      /\ ShadowId \notin DOMAIN links'
    BY DEF OwnRow
  <2>1. ShadowId \notin DOMAIN links
    <3> SUFFICES ASSUME ShadowId \in DOMAIN links, links'[ShadowId].of = {q} PROVE FALSE
      BY <1>3
    <3>1. links[ShadowId].of # {} /\ links[ShadowId].of \subseteq links'[ShadowId].of
      BY <1>1, <1>3 DEF LinksTyped
    <3>2. links[ShadowId].of = {q}
      BY <3>1
    <3> QED
      BY <3>2 DEF Told, OwnRow
  <2>2. q \in DOMAIN links /\ ~IsTerminal(links[q].status) /\ k = q
    BY <2>1 DEF Told, OwnRow
  <2>3. r.ts >= links[q].ts /\ (over \/ r.status = "partially_filled")
    BY <1>1, <1>2, <2>2, OnesRanks
  <2>4. links'[q].status = r.status /\ links'[q].ts = r.ts
    BY <1>3, <2>2, <2>3
  <2> QED
    BY <1>1, <1>3, <2>1, <2>2, <2>4
<1>10. EndIsKept(q, r.ts, over)'
  <2> SUFFICES ASSUME over
               PROVE  /\ k \in {ShadowId, q} \cap DOMAIN links'
                      /\ IsTerminal(links'[k].status) /\ links'[k].ts = r.ts /\ q \in links'[k].of
    BY DEF EndIsKept
  <2>1. k \in DOMAIN links => r.ts >= links[k].ts
    BY <1>1, <1>2
  <2> QED
    BY <1>3, <2>1
<1> QED
  BY <1>5, <1>6, <1>7, <1>8, <1>9, <1>10 DEF Told

(* What a new order finds.                                                 *)
Unheard(n, s) ==
  /\ \A r \in handed : r.ts < s
  /\ \A c \in DOMAIN links : c < n /\ links[c].ts < s /\ links[c].of \subseteq 1..(n - 1)
  /\ \A c \in DOMAIN links \ {ShadowId} :
       s - links[c].ts <= MatchGap => IsTerminal(links[c].status)
  /\ \A c, d \in DOMAIN links \ {ShadowId} :
       s - links[c].ts <= MatchGap /\ s - links[d].ts <= MatchGap => c = d
  /\ ShadowId \in DOMAIN links /\ s - links[ShadowId].ts <= MatchGap =>
       \A c \in DOMAIN links : links[c].ts <= links[ShadowId].ts

LEMMA SucceedingIsUnheard ==
  ASSUME RowTypes, NEW p \in Nat \ {0}, NEW t \in Nat, NEW s \in Nat, Succeeding(p, t, s)
  PROVE  Unheard(p + 1, s)
<1>1. PICK symbol \in Names : Told(p, symbol, t, TRUE)
  BY DEF Succeeding
<1>2. t < s /\ Aside(p, t, s) /\ MatchGap \in Nat
  BY IdentityAssumption DEF Succeeding
<1>3. \A c \in DOMAIN links :
        links[c].ts \in Nat /\ links[c].ts <= t /\ c <= p /\ links[c].of \subseteq 1..p /\ c \in Nat
  BY <1>1 DEF RowTypes, LinksTyped, LinkRows, Told, RowsUpTo
<1>4. \A r \in handed : r.ts < s
  BY <1>1, <1>2 DEF Told, HandedBy
<1>5. \A c \in DOMAIN links :
        c < p + 1 /\ links[c].ts < s /\ links[c].of \subseteq 1..((p + 1) - 1)
  BY <1>2, <1>3
<1>6. \A c \in DOMAIN links : s - links[c].ts <= MatchGap =>
        (c = p /\ IsTerminal(links[p].status)) \/ (c = ShadowId /\ links[c].ts = t)
  BY <1>2, <1>3 DEF Aside
<1>7. ShadowId \in DOMAIN links /\ s - links[ShadowId].ts <= MatchGap =>
        \A c \in DOMAIN links : links[c].ts <= links[ShadowId].ts
  BY <1>3, <1>6 DEF ShadowId
<1> QED
  BY <1>4, <1>5, <1>6, <1>7 DEF Unheard

(* The first report of an order, kept in a row of its own or in a shadow   *)
(* row within its reach.                                                   *)
LEMMA FirstReportTells ==
  ASSUME RowTypes, NEW n \in Nat \ {0}, NEW s \in Nat, Unheard(n, s), NEW symbol,
         NEW r \in IdentityReports, r.order = n, r.symbol = symbol,
         s <= r.ts, r.status \in OpenOnes,
         NEW over \in BOOLEAN, ~over,
         NEW k, \/ k = n
                \/ k = ShadowId /\ ShadowId \in DOMAIN links /\ r.ts - links[ShadowId].ts <= MatchGap,
         Store(k, r), HandOver(r)
  PROVE  Told(n, symbol, r.ts, over)'
<1>1. LinksTyped /\ r.ts \in Nat /\ MatchGap \in Nat /\ ~IsTerminal(r.status)
  BY IdentityAssumption, OnesRanks DEF RowTypes, IdentityReports
<1>2. \A c \in DOMAIN links :
        links[c].ts \in Nat /\ c < n /\ links[c].ts < s /\ links[c].of \subseteq 1..(n - 1) /\ c \in Nat
  BY <1>1 DEF LinksTyped, LinkRows, Unheard, RowTypes
<1>3. /\ DOMAIN links' = DOMAIN links \cup {k}
      /\ \A c \in DOMAIN links \ {k} : links'[c] = links[c]
      /\ links'[k].symbol = symbol /\ n \in links'[k].of
      /\ k \notin DOMAIN links => links'[k].of = {n} /\ links'[k].status = r.status /\ links'[k].ts = r.ts
      /\ k \in DOMAIN links =>
           /\ links'[k].of = links[k].of \cup {n}
           /\ links'[k].ts = r.ts \/ links'[k].ts = links[k].ts
  BY <1>1, StoreEffect
<1>4. n \notin DOMAIN links /\ n # ShadowId
  BY <1>2 DEF ShadowId
<1>5. Older(n, r.ts)' \subseteq {c \in DOMAIN links \ {ShadowId} : s - links[c].ts <= MatchGap}
  <2> SUFFICES ASSUME NEW c \in Older(n, r.ts)'
               PROVE  c \in DOMAIN links \ {ShadowId} /\ s - links[c].ts <= MatchGap
    OBVIOUS
  <2>1. c \in DOMAIN links \ {ShadowId} /\ c # k /\ r.ts - links'[c].ts <= MatchGap
    BY <1>3, <1>4 DEF Older
  <2>2. links'[c] = links[c]
    BY <1>3, <2>1
  <2> QED
    BY <1>1, <1>2, <2>1, <2>2
<1>6. \A c \in Older(n, r.ts)' : links'[c] = links[c]
  BY <1>3, <1>5 DEF Older
<1>7. HandedBy(n, symbol, r.ts, over)'
  <2> SUFFICES ASSUME NEW p \in handed' PROVE p = r
    BY <1>1 DEF HandedBy
  <2>1. ASSUME p \in handed, p.ts = r.ts PROVE FALSE
    BY <1>1, <2>1 DEF Unheard
  <2> QED
    BY <2>1 DEF HandOver
<1>8. RowsUpTo(n, r.ts)'
  <2>1. ASSUME NEW c \in DOMAIN links'
        PROVE  c <= n /\ links'[c].ts <= r.ts /\ links'[c].of \subseteq 1..n
    <3>1. CASE c \in DOMAIN links /\ c # k
      <4>1. links'[c] = links[c] /\ c < n /\ links[c].ts < s /\ links[c].ts \in Nat
            /\ links[c].of \subseteq 1..(n - 1) /\ c \in Nat
        BY <1>2, <1>3, <3>1
      <4> QED
        BY <1>1, <4>1
    <3>2. CASE c = k /\ k \in DOMAIN links
      <4>1. /\ c < n /\ links[c].ts < s /\ links[c].ts \in Nat /\ c \in Nat
            /\ links[c].of \subseteq 1..(n - 1) /\ links'[c].of = links[c].of \cup {n}
            /\ links'[c].ts = r.ts \/ links'[c].ts = links[c].ts
        BY <1>2, <1>3, <3>2
      <4> QED
        BY <1>1, <4>1
    <3>3. CASE c = k /\ k \notin DOMAIN links
      BY <1>1, <1>3, <3>3
    <3> QED
      BY <1>3, <2>1, <3>1, <3>2, <3>3
  <2> QED
    BY <2>1 DEF RowsUpTo
<1>9. OlderAreOver(n, r.ts)'
  <2>1. \A c \in Older(n, r.ts)' : IsTerminal(links'[c].status)
    BY <1>5, <1>6 DEF Unheard
  <2>2. \A c, d \in Older(n, r.ts)' : c = d
    BY <1>5 DEF Unheard
  <2> QED
    BY <2>1, <2>2 DEF OlderAreOver
<1>10. Anchored(n, symbol, r.ts)'
  <2>1. k \in {ShadowId, n} \cap DOMAIN links'
    BY <1>3
  <2>2. \A c \in Older(n, r.ts)' : links'[c].ts <= links'[k].ts
    <3> SUFFICES ASSUME NEW c \in Older(n, r.ts)' PROVE links[c].ts <= links'[k].ts
      BY <1>6
    <3>1. c \in DOMAIN links /\ links[c].ts < s /\ links[c].ts \in Nat
      BY <1>2, <1>5
    <3>2. CASE links'[k].ts = r.ts
      BY <1>1, <3>1, <3>2
    <3>3. CASE links'[k].ts # r.ts
      <4>1. k = ShadowId /\ k \in DOMAIN links /\ links'[k].ts = links[k].ts
        BY <1>3, <1>4, <3>3
      <4>2. s - links[ShadowId].ts <= MatchGap
        BY <1>1, <1>2, <1>4, <4>1
      <4> QED
        BY <3>1, <4>1, <4>2 DEF Unheard
    <3> QED
      BY <3>2, <3>3
  <2> QED
    BY <1>3, <2>1, <2>2 DEF Anchored
<1>11. OwnRow(n, symbol, r.ts, over)'
  <2> SUFFICES ASSUME ShadowId \notin DOMAIN links' \/ links'[ShadowId].of = {n}
               PROVE  /\ n \in DOMAIN links' /\ links'[n].symbol = symbol /\ links'[n].ts = r.ts
                      /\ ~IsTerminal(links'[n].status) /\ ShadowId \notin DOMAIN links'
    BY DEF OwnRow
  <2>1. ShadowId \notin DOMAIN links
    <3> SUFFICES ASSUME ShadowId \in DOMAIN links, links'[ShadowId].of = {n} PROVE FALSE
      BY <1>3
    <3>1. links[ShadowId].of # {} /\ links[ShadowId].of \subseteq links'[ShadowId].of
      BY <1>1, <1>3 DEF LinksTyped
    <3>2. n \notin links[ShadowId].of
      BY <1>2
    <3> QED
      BY <3>1, <3>2
  <2> QED
    BY <1>1, <1>3, <1>4, <2>1
<1>12. EndIsKept(n, r.ts, over)'
  BY DEF EndIsKept
<1> QED
  BY <1>7, <1>8, <1>9, <1>10, <1>11, <1>12 DEF Told

(* The first report finds no row of its own, and no finished one.          *)
LEMMA FirstReportFinds ==
  ASSUME RowTypes, NEW n \in Nat \ {0}, NEW s \in Nat, Unheard(n, s),
         NEW r \in IdentityReports, r.order = n, s <= r.ts, r.status \in OpenOnes, r.named
  PROVE  \/ Resolved(r) = n
         \/ /\ Resolved(r) = ShadowId /\ ShadowId \in DOMAIN links
            /\ r.ts - links[ShadowId].ts <= MatchGap
<1>1. r.ts \in Nat /\ MatchGap \in Nat /\ ~IsTerminal(r.status)
  BY IdentityAssumption, OnesRanks DEF RowTypes, IdentityReports
<1>2. \A c \in DOMAIN links : links[c].ts \in Nat /\ links[c].ts < s
  BY DEF RowTypes, LinksTyped, LinkRows, Unheard
<1>3. ViableTerminal(r) = {}
  BY <1>1, <1>2 DEF ViableTerminal, Candidates
<1>4. Viable(r) \subseteq {ShadowId}
  <2> SUFFICES ASSUME NEW c \in Viable(r), c # ShadowId PROVE FALSE
    OBVIOUS
  <2>1. c \in DOMAIN links \ {ShadowId} /\ ~IsTerminal(links[c].status) /\ r.ts - links[c].ts <= MatchGap
    BY DEF Viable, Candidates
  <2>2. s - links[c].ts <= MatchGap
    BY <1>1, <1>2, <2>1
  <2> QED
    BY <2>1, <2>2 DEF Unheard
<1>5. Reusable(r) \subseteq {ShadowId} \cap Viable(r)
  BY <1>3, <1>4, ReusedRows
<1>6. Resolved(r) = n \/ (Resolved(r) = ShadowId /\ ShadowId \in Viable(r))
  BY <1>5, ReusedRows
<1> QED
  BY <1>6 DEF Viable, Candidates


-----------------------------------------------------------------------------
(* The queue of reports that are not saved                                 *)

(* rest is queue without its head.                                         *)
RestOf(queue, rest) ==
  /\ queue \in Seq(IdentityReports) /\ rest \in Seq(IdentityReports)
  /\ DOMAIN queue = 1..Len(queue) /\ DOMAIN rest = 1..Len(rest)
  /\ Len(queue) \in Nat \ {0} /\ Len(rest) = Len(queue) - 1
  /\ \A i \in 1..Len(rest) : rest[i] = queue[i + 1]

QueueFacts ==
  /\ Unsaved \in Seq(IdentityReports)
  /\ DOMAIN Unsaved = 1..Len(Unsaved) /\ Len(Unsaved) \in Nat
  /\ \A i \in DOMAIN Unsaved : Unsaved[i] \in IdentityReports
  /\ DOMAIN pulled = 1..Len(pulled) /\ Len(pulled) \in Nat
  /\ \A i \in DOMAIN pulled : pulled[i] \in PulledReports
  /\ Idle <=> Len(pulled) = 0
  /\ ~Idle => Len(Unsaved) = Len(pulled) /\ \A i \in DOMAIN pulled : Unsaved[i] = pulled[i].report
  /\ Unsaved = <<>> <=> Len(Unsaved) = 0

LEMMA UnsavedIs == QueueTypes => QueueFacts
<1> SUFFICES ASSUME QueueTypes PROVE QueueFacts
  OBVIOUS
<1>1. waiting \in Seq(IdentityReports) /\ pulled \in Seq(PulledReports)
  BY DEF QueueTypes
<1>2. /\ DOMAIN pulled = 1..Len(pulled) /\ Len(pulled) \in Nat
      /\ \A i \in DOMAIN pulled : pulled[i] \in PulledReports
  BY <1>1, LenProperties, ElementOfSeq
<1>3. Idle <=> Len(pulled) = 0
  BY <1>1, EmptySeq DEF Idle
<1>4. Reports \in [1..Len(pulled) -> IdentityReports]
  BY <1>2 DEF Reports, PulledReports
<1>5. Reports \in Seq(IdentityReports)
  BY <1>2, <1>4, SeqDef
<1>6. DOMAIN Reports = 1..Len(Reports) /\ Len(Reports) \in Nat
  BY <1>5, LenProperties
<1>7. Len(Reports) = Len(pulled)
  BY <1>2, <1>4, <1>6
<1>8. \A i \in DOMAIN pulled : Reports[i] = pulled[i].report
  BY DEF Reports
<1>9. Unsaved \in Seq(IdentityReports)
  BY <1>1, <1>5 DEF Unsaved
<1>10. /\ DOMAIN Unsaved = 1..Len(Unsaved) /\ Len(Unsaved) \in Nat
       /\ \A i \in DOMAIN Unsaved : Unsaved[i] \in IdentityReports
       /\ Unsaved = <<>> <=> Len(Unsaved) = 0
  BY <1>9, LenProperties, ElementOfSeq, EmptySeq
<1> QED
  BY <1>2, <1>3, <1>7, <1>8, <1>9, <1>10 DEF Unsaved, QueueFacts

LEMMA TailUnsaved ==
  ASSUME QueueTypes, ~Idle, pulled' = Tail(pulled), waiting' = waiting
  PROVE  /\ QueueTypes'
         /\ 1 \in DOMAIN pulled /\ Head(pulled) = pulled[1] /\ pulled[1] \in PulledReports
         /\ RestOf(Unsaved, Unsaved') /\ Unsaved[1] = pulled[1].report
         /\ Idle' <=> Len(Unsaved') = 0
         /\ \A i \in DOMAIN pulled' : i \in Nat /\ i + 1 \in DOMAIN pulled /\ pulled'[i] = pulled[i + 1]
         /\ ~Idle' => /\ DOMAIN Unsaved' = DOMAIN pulled'
                      /\ \A i \in DOMAIN pulled' : Unsaved'[i] = pulled'[i].report
<1>1. /\ pulled \in Seq(PulledReports) /\ pulled # <<>> /\ waiting = <<>>
      /\ waiting \in Seq(IdentityReports)
  BY DEF QueueTypes, Idle
<1>2. /\ Tail(pulled) \in Seq(PulledReports) /\ Len(Tail(pulled)) = Len(pulled) - 1
      /\ \A i \in 1..Len(Tail(pulled)) : Tail(pulled)[i] = pulled[i + 1]
  BY <1>1, HeadTailProperties
<1>3. QueueTypes'
  BY <1>1, <1>2 DEF QueueTypes
<1>4. Head(pulled) = pulled[1]
  BY <1>1
<1>5. /\ Unsaved \in Seq(IdentityReports)
      /\ DOMAIN Unsaved = 1..Len(Unsaved) /\ Len(Unsaved) \in Nat
      /\ DOMAIN pulled = 1..Len(pulled) /\ Len(pulled) \in Nat /\ Len(pulled) # 0
      /\ \A i \in DOMAIN pulled : pulled[i] \in PulledReports
      /\ Len(Unsaved) = Len(pulled) /\ \A i \in DOMAIN pulled : Unsaved[i] = pulled[i].report
  BY UnsavedIs DEF QueueFacts
<1>6. /\ Unsaved' \in Seq(IdentityReports)
      /\ DOMAIN Unsaved' = 1..Len(Unsaved') /\ Len(Unsaved') \in Nat
      /\ DOMAIN pulled' = 1..Len(pulled') /\ Len(pulled') \in Nat
      /\ Idle' <=> Len(pulled') = 0
      /\ ~Idle' => Len(Unsaved') = Len(pulled') /\ \A i \in DOMAIN pulled' : Unsaved'[i] = pulled'[i].report
  <2>1. (QueueTypes => QueueFacts)'
    BY UnsavedIs, PTL
  <2> QED
    BY <1>3, <2>1 DEF QueueFacts
<1>7. Idle' => Len(Unsaved') = 0
  <2>1. Idle' => Unsaved' = <<>>
    BY <1>1 DEF Unsaved
  <2> QED
    BY <2>1
<1>8. Len(pulled') = Len(pulled) - 1 /\ \A i \in 1..Len(pulled') : pulled'[i] = pulled[i + 1]
  BY <1>2
<1>9. Len(Unsaved') = Len(Unsaved) - 1
  BY <1>5, <1>6, <1>7, <1>8
<1>10. \A i \in 1..Len(Unsaved') : Unsaved'[i] = Unsaved[i + 1]
  <2> SUFFICES ASSUME NEW i \in 1..Len(Unsaved') PROVE Unsaved'[i] = Unsaved[i + 1]
    OBVIOUS
  <2> DEFINE n == Len(Unsaved')
             m == Len(pulled')
  <2>1. ~Idle' /\ n = m /\ i \in 1..n
    <3>1. n # 0
      BY <1>6
    <3> QED
      BY <1>6, <1>7, <3>1
  <2>2. i \in 1..Len(pulled') /\ i + 1 \in 1..Len(pulled)
    BY <1>5, <1>6, <1>8, <2>1
  <2>5. ~Idle' /\ i \in DOMAIN pulled' /\ i + 1 \in DOMAIN pulled
    BY <1>5, <1>6, <2>1, <2>2
  <2>4. Unsaved'[i] = pulled'[i].report /\ pulled'[i] = pulled[i + 1]
    BY <1>6, <1>8, <2>2, <2>5
  <2>3. Unsaved[i + 1] = pulled[i + 1].report
    BY <1>5, <2>5
  <2> QED
    BY <2>4, <2>3
<1>11. RestOf(Unsaved, Unsaved')
  BY <1>5, <1>6, <1>9, <1>10 DEF RestOf
<1>12. \A i \in DOMAIN pulled' : i \in Nat /\ i + 1 \in DOMAIN pulled /\ pulled'[i] = pulled[i + 1]
  <2> SUFFICES ASSUME NEW i \in DOMAIN pulled'
               PROVE  i \in Nat /\ i + 1 \in DOMAIN pulled /\ pulled'[i] = pulled[i + 1]
    OBVIOUS
  <2>1. i \in 1..Len(pulled')
    BY <1>6
  <2>2. PICK m \in Nat, n \in Nat : m = Len(pulled') /\ n = Len(pulled)
    BY <1>5, <1>6
  <2>3. m = n - 1 /\ i \in 1..m
    BY <1>8, <2>1, <2>2
  <2>4. i \in Nat /\ i + 1 \in 1..n
    BY <2>3
  <2>5. i \in Nat /\ i + 1 \in 1..Len(pulled)
    BY <2>2, <2>4
  <2> QED
    BY <1>5, <1>8, <2>1, <2>5
<1>13. 1 \in DOMAIN pulled /\ pulled[1] \in PulledReports /\ Unsaved[1] = pulled[1].report
  BY <1>5
<1>14. Idle' <=> Len(Unsaved') = 0
  BY <1>6, <1>7
<1>15. ~Idle' => DOMAIN Unsaved' = DOMAIN pulled' /\ \A i \in DOMAIN pulled' : Unsaved'[i] = pulled'[i].report
  BY <1>6
<1> QED
  BY <1>3, <1>4, <1>11, <1>12, <1>13, <1>14, <1>15

(* The head of the queue is saved: it is one of the reports given again or *)
(* the next one of the order.                                              *)
LEMMA FollowTail ==
  ASSUME NEW queue, NEW rest, RestOf(queue, rest), NEW t \in Nat, NEW over \in BOOLEAN,
         NEW now \in BOOLEAN, Follow(queue, t, over), queue[1].ts \in Nat,
         \A i \in DOMAIN rest : rest[i].ts \in Nat
  PROVE  /\ queue[1].ts = t /\ (IsTerminal(queue[1].status) => over) => Follow(rest, t, over)
         /\ /\ ~(queue[1].ts = t /\ (IsTerminal(queue[1].status) => over))
            /\ now = IsTerminal(queue[1].status)
            => ~over /\ Follow(rest, queue[1].ts, now)
<1>1. /\ DOMAIN queue = 1..Len(queue) /\ DOMAIN rest = 1..Len(rest)
      /\ Len(queue) \in Nat \ {0} /\ Len(rest) = Len(queue) - 1
      /\ \A i \in DOMAIN rest : rest[i] = queue[i + 1] /\ i + 1 \in DOMAIN queue /\ i \in Nat \ {0}
  BY DEF RestOf
<1>2. /\ 1 \in DOMAIN queue /\ Len(queue) \in DOMAIN queue
      /\ rest = <<>> <=> Len(queue) = 1
      /\ rest # <<>> => Len(rest) \in DOMAIN rest /\ rest[Len(rest)] = queue[Len(queue)]
      /\ queue # <<>> /\ \A i \in DOMAIN queue : i = 1 \/ (i - 1 \in DOMAIN rest /\ rest[i - 1] = queue[i])
  <2>1. rest = <<>> <=> Len(rest) = 0
    BY EmptySeq DEF RestOf
  <2>2. queue # <<>>
    BY EmptySeq DEF RestOf
  <2>3. ASSUME NEW i \in DOMAIN queue, i # 1 PROVE i - 1 \in DOMAIN rest /\ rest[i - 1] = queue[i]
    <3>1. i - 1 \in DOMAIN rest /\ (i - 1) + 1 = i
      BY <1>1, <2>3
    <3> QED
      BY <1>1, <3>1
  <2>4. rest # <<>> => Len(rest) \in DOMAIN rest /\ Len(rest) + 1 = Len(queue)
    BY <1>1, <2>1
  <2>5. rest # <<>> => rest[Len(rest)] = queue[Len(queue)]
    BY <1>1, <2>4
  <2>6. 1 \in DOMAIN queue /\ Len(queue) \in DOMAIN queue /\ (rest = <<>> <=> Len(queue) = 1)
    BY <1>1, <2>1
  <2> QED
    BY <2>2, <2>3, <2>4, <2>5, <2>6
<1>3. /\ \A i \in DOMAIN queue :
           Coming(queue[i], newest, latest.symbol, t, over) /\ queue[i].ts <= latest.ts
      /\ \A i, j \in DOMAIN queue : i < j =>
           queue[i].ts <= queue[j].ts /\ (~over => ~IsTerminal(queue[i].status))
      /\ IsTerminal(latest.status) <=> over \/ \E i \in DOMAIN queue : IsTerminal(queue[i].status)
      /\ queue[Len(queue)].ts = latest.ts
  BY <1>2 DEF Follow
<1>4. /\ \A i, j \in DOMAIN rest : i < j =>
           rest[i].ts <= rest[j].ts /\ (~over => ~IsTerminal(rest[i].status))
      /\ \A i \in DOMAIN rest : queue[1].ts <= rest[i].ts /\ (~over => ~IsTerminal(queue[1].status))
  <2>1. ASSUME NEW i \in DOMAIN rest, NEW j \in DOMAIN rest, i < j
        PROVE  rest[i].ts <= rest[j].ts /\ (~over => ~IsTerminal(rest[i].status))
    <3>1. i + 1 < j + 1
      BY <1>1, <2>1
    <3> QED
      BY <1>1, <1>3, <2>1, <3>1
  <2>2. ASSUME NEW i \in DOMAIN rest
        PROVE  queue[1].ts <= rest[i].ts /\ (~over => ~IsTerminal(queue[1].status))
    <3>1. 1 < i + 1
      BY <1>1, <2>2
    <3> QED
      BY <1>1, <1>2, <1>3, <2>2, <3>1
  <2> QED
    BY <2>1, <2>2
<1>5. (\E i \in DOMAIN queue : IsTerminal(queue[i].status)) <=>
        IsTerminal(queue[1].status) \/ \E i \in DOMAIN rest : IsTerminal(rest[i].status)
  BY <1>1, <1>2
<1>6. IF rest = <<>> THEN queue[1].ts = latest.ts ELSE rest[Len(rest)].ts = latest.ts
  BY <1>2, <1>3
<1>7. ASSUME queue[1].ts = t, IsTerminal(queue[1].status) => over PROVE Follow(rest, t, over)
  <2>1. \A i \in DOMAIN rest :
          Coming(rest[i], newest, latest.symbol, t, over) /\ rest[i].ts <= latest.ts
    BY <1>1, <1>3
  <2>2. IsTerminal(latest.status) <=> over \/ \E i \in DOMAIN rest : IsTerminal(rest[i].status)
    BY <1>3, <1>5, <1>7
  <2> QED
    BY <1>4, <1>6, <1>7, <2>1, <2>2 DEF Follow
<1>8. ASSUME ~(queue[1].ts = t /\ (IsTerminal(queue[1].status) => over)),
             now = IsTerminal(queue[1].status)
      PROVE  ~over /\ Follow(rest, queue[1].ts, now)
  <2>1. ~over /\ t <= queue[1].ts
    BY <1>2, <1>3, <1>8 DEF Coming
  <2>2. rest # <<>> => ~now
    <3>1. ASSUME NEW i \in DOMAIN rest PROVE ~now
      BY <1>4, <1>8, <2>1, <3>1
    <3> QED
      BY <1>2, <3>1
  <2>3. ASSUME NEW i \in DOMAIN rest
        PROVE  Coming(rest[i], newest, latest.symbol, queue[1].ts, now) /\ rest[i].ts <= latest.ts
    <3>1. Coming(rest[i], newest, latest.symbol, t, over) /\ rest[i].ts <= latest.ts
      BY <1>1, <1>3, <2>3
    <3>2. queue[1].ts <= rest[i].ts /\ ~now
      BY <1>1, <1>2, <1>4, <2>2, <2>3
    <3>3. rest[i].ts = t => rest[i].ts = queue[1].ts
      BY <2>1, <2>3, <3>2
    <3> QED
      BY <2>1, <3>1, <3>2, <3>3 DEF Coming
  <2>4. IsTerminal(latest.status) <=> now \/ \E i \in DOMAIN rest : IsTerminal(rest[i].status)
    BY <1>3, <1>5, <1>8, <2>1
  <2>5. \A i, j \in DOMAIN rest : i < j =>
          rest[i].ts <= rest[j].ts /\ (~now => ~IsTerminal(rest[i].status))
    BY <1>4, <2>1
  <2> QED
    BY <1>6, <2>1, <2>3, <2>4, <2>5 DEF Follow
<1> QED
  BY <1>7, <1>8

-----------------------------------------------------------------------------
(* The steps                                                               *)

LEMMA ToldRests ==
  ASSUME NEW q, NEW symbol, NEW t, NEW over, Told(q, symbol, t, over), UNCHANGED <<handed, links>>
  PROVE  Told(q, symbol, t, over)'
BY DEF Told, HandedBy, RowsUpTo, OlderAreOver, Older, Anchored, OwnRow, EndIsKept

LEMMA BehindRests ==
  ASSUME NEW t, NEW s, Behind(t, s), UNCHANGED <<newest, handed, links>>
  PROVE  Behind(t, s)'
<1>1. CASE newest = 1
  BY <1>1 DEF Behind
<1>2. CASE newest # 1
  <2>1. PICK p : p = newest - 1
    OBVIOUS
  <2>2. newest > 1 /\ t < s /\ Aside(p, t, s)
    BY <1>2, <2>1 DEF Behind, Succeeding
  <2>3. PICK symbol \in Names : Told(p, symbol, t, TRUE)
    BY <1>2, <2>1 DEF Behind, Succeeding
  <2>4. Told(p, symbol, t, TRUE)'
    BY <2>3, ToldRests
  <2>5. Aside(p, t, s)'
    BY <2>2 DEF Aside
  <2>6. Succeeding(p, t, s)'
    BY <2>2, <2>4, <2>5 DEF Succeeding
  <2>7. newest' - 1 = p /\ newest' > 1
    BY <2>1, <2>2
  <2> QED
    BY <2>6, <2>7 DEF Behind
<1> QED
  BY <1>1, <1>2

LEMMA BehindIsUnheard ==
  ASSUME RowTypes, newest > 0, NEW t \in Nat, NEW s \in Nat, Behind(t, s)
  PROVE  /\ Unheard(newest, s)
         /\ \A r \in handed : newest > 1 /\ r.order = newest - 1 /\ r.order # newest
         /\ ~HasRow
<1>1. newest \in Nat \ {0}
  BY DEF RowTypes
<1>2. CASE newest = 1
  BY <1>1, <1>2 DEF Behind, Unheard, HasRow
<1>3. CASE newest > 1
  <2>1. PICK p \in Nat \ {0} : p = newest - 1
    BY <1>1, <1>3
  <2>2. Succeeding(p, t, s)
    BY <1>1, <1>3, <2>1 DEF Behind
  <2>3. newest = p + 1
    BY <1>1, <2>1
  <2>4. Unheard(p + 1, s)
    BY <2>2, SucceedingIsUnheard
  <2>5. PICK symbol \in Names : Told(p, symbol, t, TRUE)
    BY <2>2 DEF Succeeding
  <2>6. \A r \in handed : r.order = p
    BY <2>5 DEF Told, HandedBy
  <2>7. \A c \in DOMAIN links : links[c].of \subseteq 1..p
    BY <2>5 DEF Told, RowsUpTo
  <2>8. ~HasRow
    BY <2>3, <2>7 DEF HasRow
  <2> QED
    BY <1>1, <1>3, <2>1, <2>3, <2>4, <2>6, <2>8
<1> QED
  BY <1>1, <1>2, <1>3 DEF Behind

(* The types after a report of an order no newer than the latest.          *)
LEMMA StoreTypes ==
  ASSUME RowTypes, OneOrderPerRow, NEW q \in Nat \ {0}, q <= newest, NEW k \in {ShadowId, q},
         NEW r \in IdentityReports, r.order = q, Store(k, r), HandOver(r), UNCHANGED <<newest, day>>,
         latest' \in LatestOrders, latest'.ts <= day, latest'.ts \in Nat
  PROVE  RowTypes' /\ OneOrderPerRow'
<1>1. LinksTyped' /\ OneOrderPerRow'
  BY KeptRows
<1>2. DOMAIN links' = DOMAIN links \cup {k}
  BY StoreEffect DEF RowTypes
<1>3. DOMAIN links' \subseteq 0..newest'
  <2>1. newest \in Nat /\ newest' = newest /\ DOMAIN links \subseteq 0..newest
    BY DEF RowTypes
  <2>2. k \in 0..newest
    BY <2>1 DEF ShadowId
  <2> QED
    BY <1>2, <2>1, <2>2
<1>4. handed' \subseteq IdentityReports
  BY DEF RowTypes, HandOver
<1> QED
  BY <1>1, <1>3, <1>4 DEF RowTypes

LEMMA ReportedLatest ==
  ASSUME RowTypes, NEW s \in OpenOnes \cup FinalOnes,
         latest' = [latest EXCEPT !.status = s, !.ts = day], UNCHANGED <<newest, day>>
  PROVE  /\ latest' \in LatestOrders /\ latest'.ts <= day /\ latest'.ts \in Nat /\ Heard'
         /\ latest'.ts = day /\ latest'.status = s /\ latest'.symbol = latest.symbol
         /\ OpenOrdersSpeak'
<1> DEFINE Known == OpenOnes \cup FinalOnes \cup {"unreported"}
<1>1. latest \in [symbol : Names, status : Known, ts : Int] /\ day \in Nat /\ MatchGap \in Nat
  BY IdentityAssumption DEF RowTypes, LatestOrders
<1>2. s \in Known /\ s # "unreported"
  BY OnesRanks
<1> HIDE DEF Known
<1>3. latest'.ts = day /\ latest'.status = s /\ latest'.symbol = latest.symbol
  BY <1>1
<1>4. latest' \in [symbol : Names, status : Known, ts : Int]
  <2>1. latest' = [symbol |-> latest.symbol, status |-> s, ts |-> day]
    BY <1>1
  <2>2. latest.symbol \in Names /\ day \in Int
    BY <1>1
  <2> QED
    BY <1>2, <2>1, <2>2
<1>5. latest' \in LatestOrders
  BY <1>4 DEF LatestOrders, Known
<1> QED
  BY <1>1, <1>2, <1>3, <1>5 DEF Heard, OpenOrdersSpeak

(* A report of the latest order, made today.                               *)
LEMMA MadeToday ==
  ASSUME RowTypes, newest > 0, NEW s \in OpenOnes \cup FinalOnes, NEW named \in BOOLEAN
  PROVE  \E r \in IdentityReports, n \in Nat \ {0}, symbol \in Names :
           /\ r = ReportOf(s, day, named) /\ n = newest /\ symbol = latest.symbol
           /\ r.order = n /\ r.symbol = symbol /\ r.status = s /\ r.ts = day /\ r.named = named
           /\ latest.ts \in Nat /\ latest.ts <= r.ts
<1>1. newest \in Nat \ {0} /\ latest.symbol \in Names /\ latest.ts \in Nat /\ day \in Nat /\ latest.ts <= day
  BY DEF RowTypes, LatestOrders
<1>2. ReportOf(s, day, named) \in IdentityReports
  BY <1>1 DEF ReportOf, IdentityReports
<1> QED
  BY <1>1, <1>2 DEF ReportOf

(* The statuses an order can go to.                                        *)
LEMMA NextOnes ==
  ASSUME NEW now \in DOMAIN NextStatuses, NEW s \in NextStatuses[now]
  PROVE  /\ s \in OpenOnes \cup FinalOnes /\ ~IsTerminal(now)
         /\ now = "unreported" => s \in OpenOnes
         /\ now # "unreported" => s = "partially_filled" \/ s \in FinalOnes
BY OnesRanks DEF NextStatuses, OpenOnes, FinalOnes

LEMMA NothingFollows ==
  ASSUME waiting \in Seq(IdentityReports), waiting = <<>>, Idle
  PROVE  Unsaved = <<>> /\ DOMAIN Unsaved = {} /\ DOMAIN pulled = {} /\ DOMAIN waiting = {}
BY DEF Unsaved, Idle

LEMMA IdentityStarts == IdentityInit => IdentityInv
<1> SUFFICES ASSUME IdentityInit PROVE IdentityInv
  OBVIOUS
<1>1. /\ DOMAIN links = {} /\ handed = {} /\ newest = 0 /\ day = 0 /\ latest = NoOrder
      /\ waiting = <<>> /\ pulled = <<>>
  BY DEF IdentityInit
<1>2. RowTypes
  BY <1>1 DEF RowTypes, LinksTyped, NoOrder, LatestOrders, Names, FinalOnes
<1>3. QueueTypes
  BY <1>1, EmptySeq DEF QueueTypes
<1> QED
  BY <1>1, <1>2, <1>3 DEF IdentityInv, OneOrderPerRow, OpenOrdersSpeak

LEMMA NextDaySteps ==
  ASSUME IdentityInv, NextDay
  PROVE  IdentityInv'
<1>1. /\ Idle
      /\ \/ IsTerminal(latest.status) /\ waiting = <<>>
         \/ /\ day - latest.ts < MatchGap
            /\ HasRow => \E c \in DOMAIN links : newest \in links[c].of /\ day - links[c].ts < MatchGap
      /\ day' = day + 1
      /\ newest' = newest /\ latest' = latest /\ handed' = handed /\ links' = links
      /\ waiting' = waiting /\ pulled' = pulled
  BY DEF NextDay
<1>2. RowTypes /\ QueueTypes /\ day \in Nat /\ latest.ts \in Int /\ MatchGap \in Nat
  BY IdentityAssumption DEF IdentityInv, RowTypes, LatestOrders
<1>3. RowTypes' /\ QueueTypes' /\ OpenOrdersSpeak' /\ OneOrderPerRow'
  <2>1. OpenOrdersSpeak'
    BY <1>1, <1>2 DEF OpenOrdersSpeak
  <2>2. RowTypes'
    BY <1>1, <1>2 DEF RowTypes, LinksTyped
  <2> QED
    BY <1>1, <1>2, <2>1, <2>2 DEF QueueTypes, Idle, IdentityInv, OneOrderPerRow
<1>4. Unsaved' = Unsaved
  BY <1>1 DEF Unsaved, Idle, Reports
<1>5. ASSUME NEW t \in Nat, NEW over \in BOOLEAN, newest > 0, Begun(t, over) PROVE Begun(t, over)'
  <2>1. PICK q, symbol : q = newest /\ symbol = latest.symbol
    OBVIOUS
  <2>2. Told(q, symbol, t, over)
    BY <1>5, <2>1 DEF Begun
  <2>3. Told(q, symbol, t, over)'
    BY <1>1, <2>2, ToldRests
  <2>4. Follow(Unsaved, t, over)'
    BY <1>1, <1>4, <1>5 DEF Begun, Follow, Coming
  <2>5. ~over => day' - t <= MatchGap
    <3> SUFFICES ASSUME ~over PROVE day' - t <= MatchGap
      OBVIOUS
    <3>1. \A c \in DOMAIN links : links[c].ts \in Nat /\ links[c].ts <= t
      BY <1>2, <2>2 DEF RowTypes, LinksTyped, LinkRows, Told, RowsUpTo
    <3>2. HasRow
      BY <2>1, <2>2 DEF Told, Anchored, HasRow
    <3>3. ~(IsTerminal(latest.status) /\ waiting = <<>>)
      <4> SUFFICES ASSUME waiting = <<>> PROVE ~IsTerminal(latest.status)
        OBVIOUS
      <4>1. DOMAIN Unsaved = {}
        BY <1>1, <1>2, NothingFollows DEF QueueTypes
      <4> QED
        BY <1>5, <4>1 DEF Begun, Follow
    <3>4. PICK c \in DOMAIN links : day - links[c].ts < MatchGap
      BY <1>1, <3>2, <3>3
    <3> QED
      BY <1>1, <1>2, <3>1, <3>4
  <2>6. Heard' /\ t <= latest'.ts /\ DOMAIN pulled' = {}
    BY <1>1, <1>5 DEF Begun, Heard, Idle
  <2>7. newest' = q /\ latest'.symbol = symbol
    BY <1>1, <2>1
  <2> QED
    BY <2>3, <2>4, <2>5, <2>6, <2>7 DEF Begun
<1>6. ASSUME NEW t \in Nat, NEW s \in Nat, Unbegun(t, s) PROVE Unbegun(t, s)'
  <2>1. Behind(t, s)'
    BY <1>1, <1>6, BehindRests DEF Unbegun
  <2>2. FirstFollow(Unsaved, s)'
    BY <1>1, <1>4, <1>6 DEF Unbegun, FirstFollow, First, Heard
  <2>3. DOMAIN pulled' = {}
    BY <1>1 DEF Idle
  <2> QED
    BY <1>1, <1>6, <2>1, <2>2, <2>3 DEF Unbegun
<1>7. CASE newest = 0
  BY <1>1, <1>3, <1>7 DEF IdentityInv
<1>8. CASE newest > 0
  BY <1>1, <1>3, <1>5, <1>6, <1>8 DEF IdentityInv
<1> QED
  BY <1>7, <1>8, <1>2 DEF RowTypes

(* At most one order is recent, so that every row within reach is of it.   *)
LEMMA RecentIsAside ==
  ASSUME RowTypes, OneOrderPerRow, NEW p \in Nat \ {0}, NEW symbol, NEW t \in Nat,
         Told(p, symbol, t, TRUE), Cardinality(Recent) <= 1, NEW s \in Nat, s = day
  PROVE  Aside(p, t, s)
<1> SUFFICES ASSUME s - t <= MatchGap
             PROVE  /\ p \in DOMAIN links /\ IsTerminal(links[p].status) /\ links[p].ts = t
                    /\ \A c \in DOMAIN links \ {p} :
                         s - links[c].ts <= MatchGap => c = ShadowId /\ links[c].ts = t
  BY DEF Aside
<1>1. LinksTyped /\ \A c \in DOMAIN links : links[c].ts \in Nat
  BY DEF RowTypes, LinksTyped, LinkRows
<1>2. \A c \in DOMAIN links : s - links[c].ts <= MatchGap => links[c].of \subseteq Recent
  BY DEF Recent
<1>3. PICK h \in {ShadowId, p} \cap DOMAIN links :
        IsTerminal(links[h].status) /\ links[h].ts = t /\ p \in links[h].of
  BY DEF Told, EndIsKept
<1>4. p \in Recent
  BY <1>2, <1>3
<1>5. \A x \in Recent : x = p
  <2>1. \A c \in DOMAIN links : links[c].of \subseteq 1..p
    BY DEF Told, RowsUpTo
  <2>2. Recent \subseteq 1..p
    BY <2>1 DEF Recent
  <2>3. IsFiniteSet(Recent)
    <3>1. IsFiniteSet(1..p)
      BY FS_Interval
    <3> QED
      BY <2>2, <3>1, FS_Subset
  <2> QED
    BY <1>4, <2>3, AtMostOne
<1>6. ASSUME NEW c \in DOMAIN links, s - links[c].ts <= MatchGap
      PROVE  links[c].of = {p}
  BY <1>1, <1>2, <1>5, <1>6 DEF LinksTyped
<1>7. ASSUME ShadowId \in DOMAIN links, s - links[ShadowId].ts <= MatchGap
      PROVE  /\ p \in DOMAIN links /\ IsTerminal(links[p].status) /\ links[p].ts = t
             /\ links[ShadowId].ts = t
  BY <1>6, <1>7 DEF Told, OwnRow
<1>8. p \in DOMAIN links /\ IsTerminal(links[p].status) /\ links[p].ts = t
  <2>1. CASE h = p
    BY <1>3, <2>1
  <2>2. CASE h = ShadowId
    BY <1>3, <1>7, <2>2
  <2> QED
    BY <1>3, <2>1, <2>2
<1>9. ASSUME NEW c \in DOMAIN links \ {p, ShadowId}, s - links[c].ts <= MatchGap PROVE FALSE
  <2>1. links[c].of = {c} /\ links[c].of = {p}
    BY <1>6, <1>9 DEF OneOrderPerRow
  <2> QED
    BY <1>9, <2>1
<1> QED
  BY <1>7, <1>8, <1>9

LEMMA PlaceSteps ==
  ASSUME MixedBundles = FALSE, IdentityInv, NEW symbol \in Symbols, Place(symbol)
  PROVE  IdentityInv'
<1>1. /\ newest' = newest + 1 /\ latest' = [symbol |-> symbol, status |-> "unreported", ts |-> day]
      /\ day' = day /\ handed' = handed /\ links' = links /\ waiting' = waiting /\ pulled' = pulled
      /\ IsTerminal(latest.status) /\ latest.ts < day /\ Cardinality(Recent) <= 1
      /\ Idle /\ waiting = <<>>
  BY DEF Place
<1>2. /\ newest \in Nat /\ day \in Nat /\ RowTypes /\ QueueTypes /\ LinksTyped /\ MatchGap \in Nat
      /\ OneOrderPerRow /\ waiting \in Seq(IdentityReports)
  BY IdentityAssumption DEF IdentityInv, RowTypes, QueueTypes
<1>3. latest'.symbol = symbol /\ latest'.status = "unreported" /\ latest'.ts = day
  BY <1>1
<1>4. RowTypes'
  <2>1. latest' \in LatestOrders
    BY <1>1, <1>2 DEF LatestOrders, Names
  <2>2. DOMAIN links' \subseteq 0..newest'
    BY <1>1, <1>2 DEF RowTypes
  <2> QED
    BY <1>1, <1>2, <1>3, <2>1, <2>2 DEF RowTypes, LinksTyped
<1>5. QueueTypes' /\ OneOrderPerRow' /\ OpenOrdersSpeak' /\ newest' > 0
  BY <1>1, <1>2, <1>3 DEF QueueTypes, Idle, OneOrderPerRow, OpenOrdersSpeak
<1>6. Unsaved = <<>> /\ DOMAIN Unsaved = {} /\ DOMAIN pulled = {} /\ DOMAIN waiting = {}
  BY <1>1, <1>2, NothingFollows
<1>7. Unsaved' = <<>> /\ DOMAIN Unsaved' = {} /\ DOMAIN pulled' = {} /\ DOMAIN waiting' = {}
  BY <1>1, <1>6 DEF Unsaved, Idle
<1>8. ASSUME NEW t \in Nat, Behind(t, day)' PROVE IdentityInv'
  <2>1. FirstFollow(Unsaved, day)'
    BY <1>7 DEF FirstFollow
  <2>2. ~IsTerminal(latest'.status) /\ day' <= latest'.ts
    BY <1>1, <1>2, <1>3, OnesRanks
  <2>3. Unbegun(t, day)'
    BY <1>7, <1>8, <2>1, <2>2 DEF Unbegun
  <2>4. \E s \in Nat : Unbegun(t, s)'
    <3>1. PICK s \in Nat : s = day'
      BY <1>1, <1>2
    <3>2. Unbegun(t, s)'
      BY <2>3, <3>1 DEF Unbegun, Behind, FirstFollow, First, Succeeding, Aside
    <3> QED
      BY <3>2
  <2> QED
    BY <1>4, <1>5, <2>4 DEF IdentityInv
<1>9. CASE newest = 0
  <2>1. Behind(0, day)'
    BY <1>1, <1>9 DEF IdentityInv, Behind
  <2> QED
    BY <1>8, <2>1
<1>10. CASE newest > 0
  <2>1. PICK t \in Nat, over \in BOOLEAN : Begun(t, over)
    BY <1>1, <1>10 DEF IdentityInv, Unbegun
  <2>2. over /\ t = latest.ts
    BY <1>1, <1>6, <2>1 DEF Begun, Follow
  <2>3. PICK p \in Nat \ {0}, old \in Names, s \in Nat : p = newest /\ old = latest.symbol /\ s = day
    BY <1>2, <1>10 DEF RowTypes, LatestOrders
  <2>4. over = TRUE /\ t < s
    BY <1>1, <2>2, <2>3
  <2>5. Told(p, old, t, TRUE)
    BY <2>1, <2>3, <2>4 DEF Begun
  <2>6. Told(p, old, t, TRUE)'
    BY <1>1, <2>5, ToldRests
  <2>7. Aside(p, t, s)
    BY <1>1, <1>2, <2>3, <2>5, RecentIsAside
  <2>8. Aside(p, t, s)'
    BY <1>1, <2>7 DEF Aside
  <2>9. Succeeding(p, t, s)'
    BY <2>4, <2>6, <2>8 DEF Succeeding
  <2>10. newest' > 1 /\ newest' - 1 = p /\ day' = s
    BY <1>1, <1>2, <1>10, <2>3
  <2>11. Behind(t, day)'
    BY <2>9, <2>10 DEF Behind
  <2> QED
    BY <1>8, <2>11
<1> QED
  BY <1>2, <1>9, <1>10

LEMMA AcknowledgeSteps ==
  ASSUME IdentityInv, Acknowledge
  PROVE  IdentityInv'
<1>1. /\ newest > 0 /\ ~Heard /\ "reported" \in OpenOnes /\ Idle
      /\ UNCHANGED <<day, newest, waiting, pulled>>
      /\ latest' = [latest EXCEPT !.status = "reported", !.ts = day]
  BY DEF Acknowledge, OpenOnes
<1>2. /\ RowTypes /\ QueueTypes /\ OneOrderPerRow /\ waiting \in Seq(IdentityReports)
      /\ day \in Nat /\ MatchGap \in Nat
  BY IdentityAssumption DEF IdentityInv, RowTypes, QueueTypes
<1>3. PICK named \in BOOLEAN, s \in OpenOnes \cup FinalOnes : named = TRUE /\ s = "reported"
  BY <1>1
<1>4. PICK r \in IdentityReports, n \in Nat \ {0}, symbol \in Names :
        /\ r = ReportOf(s, day, named) /\ n = newest /\ symbol = latest.symbol
        /\ r.order = n /\ r.symbol = symbol /\ r.status = s /\ r.ts = day /\ r.named = named
        /\ latest.ts \in Nat /\ latest.ts <= r.ts
  BY <1>1, <1>2, MadeToday
<1>5. PICK t \in Nat, first \in Nat : Unbegun(t, first)
  BY <1>1 DEF IdentityInv, Begun
<1>6. first <= latest.ts /\ Behind(t, first)
  BY <1>5 DEF Unbegun
<1>7. Unheard(n, first) /\ \A old \in handed : old.order # n
  BY <1>1, <1>2, <1>4, <1>6, BehindIsUnheard
<1>8. waiting = <<>>
  <2>1. Unsaved = waiting
    BY <1>1 DEF Unsaved
  <2>2. \A i \in DOMAIN waiting : waiting[i] \in handed /\ waiting[i].order = n
    BY <1>1, <1>4, <1>5, <2>1 DEF Unbegun, FirstFollow
  <2>3. DOMAIN waiting = {}
    BY <1>7, <2>2
  <2>4. DOMAIN waiting = 1..Len(waiting) /\ Len(waiting) \in Nat
    BY <1>2, LenProperties
  <2>5. Len(waiting) = 0
    BY <2>3, <2>4
  <2> QED
    BY <1>2, <2>5, EmptySeq
<1>9. Unsaved' = <<>> /\ DOMAIN Unsaved' = {} /\ DOMAIN pulled' = {}
  BY <1>1, <1>8 DEF Unsaved, Idle
<1>10. Store(n, r) /\ HandOver(r)
  <2>1. r = ReportOf("reported", day, TRUE)
    BY <1>3, <1>4
  <2> QED
    BY <1>4, <2>1 DEF Acknowledge
<1>11. /\ latest' \in LatestOrders /\ latest'.ts <= day /\ latest'.ts \in Nat /\ Heard'
       /\ latest'.ts = day /\ latest'.status = s /\ latest'.symbol = latest.symbol
       /\ OpenOrdersSpeak'
  BY <1>1, <1>2, <1>3, ReportedLatest
<1>12. RowTypes' /\ OneOrderPerRow'
  <2>1. n <= newest
    BY <1>4
  <2> QED
    BY <1>1, <1>2, <1>4, <1>10, <1>11, <2>1, StoreTypes
<1>13. PICK over \in BOOLEAN : ~over
  OBVIOUS
<1>14. Told(n, symbol, r.ts, over)'
  <2>1. first <= r.ts
    BY <1>4, <1>6, <1>2
  <2>2. r.status \in OpenOnes
    BY <1>1, <1>3, <1>4
  <2> QED
    BY <1>2, <1>4, <1>7, <1>10, <1>13, <2>1, <2>2, FirstReportTells
<1>15. Begun(r.ts, over)'
  <2>1. ~IsTerminal(latest'.status)
    BY <1>1, <1>3, <1>11, OnesRanks
  <2>2. Follow(Unsaved, r.ts, over)'
    BY <1>4, <1>9, <1>11, <1>13, <2>1 DEF Follow
  <2>3. day' - r.ts <= MatchGap /\ r.ts <= latest'.ts
    BY <1>1, <1>2, <1>4, <1>11
  <2>4. newest' = n /\ latest'.symbol = symbol
    BY <1>1, <1>4, <1>11
  <2> QED
    BY <1>9, <1>11, <1>14, <2>2, <2>3, <2>4 DEF Begun
<1>16. QueueTypes' /\ r.ts \in Nat /\ newest' > 0
  BY <1>1, <1>2, <1>4 DEF QueueTypes, Idle
<1> QED
  BY <1>11, <1>12, <1>15, <1>16 DEF IdentityInv

(* One more report waits for the next pull.                                *)
LEMMA AppendUnsaved ==
  ASSUME QueueTypes, Idle, NEW e \in IdentityReports, waiting' = Append(waiting, e), pulled' = pulled
  PROVE  /\ QueueTypes' /\ Idle' /\ DOMAIN pulled' = {}
         /\ Unsaved = waiting /\ Unsaved' = waiting' /\ waiting' # <<>>
         /\ DOMAIN waiting = 1..Len(waiting) /\ DOMAIN waiting' = 1..Len(waiting')
         /\ Len(waiting) \in Nat /\ Len(waiting') = Len(waiting) + 1
         /\ \A i \in DOMAIN waiting : waiting'[i] = waiting[i] /\ waiting[i] \in IdentityReports
         /\ waiting'[Len(waiting')] = e
<1>1. waiting \in Seq(IdentityReports)
  BY DEF QueueTypes
<1>2. /\ Append(waiting, e) \in Seq(IdentityReports) /\ Append(waiting, e) # <<>>
      /\ Len(Append(waiting, e)) = Len(waiting) + 1
      /\ \A i \in 1..Len(waiting) : Append(waiting, e)[i] = waiting[i]
      /\ Append(waiting, e)[Len(waiting) + 1] = e
  BY <1>1, AppendProperties
<1>3. DOMAIN waiting = 1..Len(waiting) /\ Len(waiting) \in Nat
  BY <1>1, LenProperties
<1>4. DOMAIN waiting' = 1..Len(waiting')
  BY <1>2, LenProperties
<1>5. Idle' /\ DOMAIN pulled' = {} /\ Unsaved = waiting /\ Unsaved' = waiting'
  BY DEF Idle, Unsaved
<1>6. QueueTypes'
  BY <1>2, <1>5 DEF QueueTypes
<1>7. \A i \in DOMAIN waiting : waiting[i] \in IdentityReports
  BY <1>1, <1>3, ElementOfSeq
<1> QED
  BY <1>2, <1>3, <1>4, <1>5, <1>6, <1>7

LEMMA ReportSteps ==
  ASSUME MixedBundles = FALSE, IdentityInv, NEW s \in Statuses, NEW named \in BOOLEAN, Report(s, named)
  PROVE  IdentityInv'
<1>1. /\ Idle /\ latest.status \in DOMAIN NextStatuses /\ s \in NextStatuses[latest.status]
      /\ named \/ Heard
      /\ HasRow \/ (named /\ ~IsTerminal(s))
      /\ waiting' = Append(waiting, ReportOf(s, day, named))
      /\ latest' = [latest EXCEPT !.status = s, !.ts = day]
      /\ day' = day /\ newest' = newest /\ handed' = handed /\ links' = links /\ pulled' = pulled
  BY DEF Report
<1>2. /\ s \in OpenOnes \cup FinalOnes /\ ~IsTerminal(latest.status)
      /\ ~Heard => s \in OpenOnes
      /\ Heard => s = "partially_filled" \/ s \in FinalOnes
  BY <1>1, NextOnes DEF Heard
<1>3. /\ newest > 0 /\ RowTypes /\ QueueTypes /\ OneOrderPerRow
      /\ day \in Nat /\ MatchGap \in Nat /\ latest.ts \in Int /\ latest.ts <= day
  <2>1. latest # NoOrder
    BY <1>2, OnesRanks DEF NoOrder, FinalOnes
  <2> QED
    BY <2>1, IdentityAssumption DEF IdentityInv, RowTypes, LatestOrders
<1>4. PICK r \in IdentityReports, n \in Nat \ {0}, symbol \in Names :
        /\ r = ReportOf(s, day, named) /\ n = newest /\ symbol = latest.symbol
        /\ r.order = n /\ r.symbol = symbol /\ r.status = s /\ r.ts = day /\ r.named = named
        /\ latest.ts \in Nat /\ latest.ts <= r.ts
  BY <1>2, <1>3, MadeToday
<1>5. /\ latest' \in LatestOrders /\ latest'.ts <= day /\ latest'.ts \in Nat /\ Heard'
      /\ latest'.ts = day /\ latest'.status = s /\ latest'.symbol = latest.symbol
      /\ OpenOrdersSpeak'
  BY <1>1, <1>2, <1>3, ReportedLatest
<1>6. PICK queue : queue = waiting' /\ waiting' = Append(waiting, r)
  BY <1>1, <1>4
<1>7. /\ QueueTypes' /\ Idle' /\ DOMAIN pulled' = {}
      /\ Unsaved = waiting /\ Unsaved' = queue /\ queue # <<>>
      /\ DOMAIN waiting = 1..Len(waiting) /\ DOMAIN queue = 1..Len(queue)
      /\ Len(waiting) \in Nat /\ Len(queue) = Len(waiting) + 1
      /\ \A i \in DOMAIN waiting : queue[i] = waiting[i] /\ waiting[i] \in IdentityReports
      /\ queue[Len(queue)] = r
  BY <1>1, <1>3, <1>6, AppendUnsaved
<1>8. RowTypes' /\ OneOrderPerRow' /\ newest' > 0
  BY <1>1, <1>3, <1>5 DEF RowTypes, LinksTyped, OneOrderPerRow
<1>9. /\ \A i \in DOMAIN queue : i \in DOMAIN waiting \/ queue[i] = r
      /\ DOMAIN waiting \subseteq DOMAIN queue /\ Len(queue) \in DOMAIN queue
      /\ \A i, j \in DOMAIN queue : i < j => i \in DOMAIN waiting
  <2>1. PICK m \in Nat : m = Len(waiting)
    BY <1>7
  <2>2. DOMAIN waiting = 1..m /\ DOMAIN queue = 1..(m + 1) /\ queue[m + 1] = r
    BY <1>7, <2>1
  <2> QED
    BY <1>7, <2>1, <2>2
<1>10. ASSUME NEW t \in Nat, NEW over \in BOOLEAN, Begun(t, over) PROVE Begun(t, over)'
  <2>1. Heard /\ t <= latest.ts /\ Told(n, symbol, t, over) /\ Follow(waiting, t, over)
    BY <1>4, <1>7, <1>10 DEF Begun
  <2>2. ~over /\ \A i \in DOMAIN waiting : ~IsTerminal(waiting[i].status)
    BY <1>2, <2>1 DEF Follow
  <2>3. Coming(r, n, symbol, t, over)
    BY <1>2, <1>3, <1>4, <2>1, <2>2 DEF Coming
  <2>4. \A i \in DOMAIN queue : Coming(queue[i], n, symbol, t, over) /\ queue[i].ts <= day
    <3>1. ASSUME NEW i \in DOMAIN waiting
          PROVE  Coming(queue[i], n, symbol, t, over) /\ queue[i].ts <= day
      <4>1. queue[i] = waiting[i] /\ waiting[i].ts \in Nat
        BY <1>7 DEF IdentityReports
      <4> QED
        BY <1>3, <1>4, <2>1, <4>1 DEF Follow
    <3> QED
      BY <1>3, <1>4, <1>9, <2>3, <3>1
  <2>5. \A i, j \in DOMAIN queue : i < j =>
          queue[i].ts <= queue[j].ts /\ (~over => ~IsTerminal(queue[i].status))
    <3> SUFFICES ASSUME NEW i \in DOMAIN queue, NEW j \in DOMAIN queue, i < j
                 PROVE  queue[i].ts <= queue[j].ts /\ ~IsTerminal(queue[i].status)
      OBVIOUS
    <3>1. i \in DOMAIN waiting /\ queue[i] = waiting[i]
      BY <1>7, <1>9
    <3>2. CASE j \in DOMAIN waiting
      BY <1>7, <2>1, <2>2, <3>1, <3>2 DEF Follow
    <3>3. CASE queue[j] = r
      BY <1>4, <2>2, <2>4, <3>1, <3>3
    <3> QED
      BY <1>9, <3>2, <3>3
  <2>6. IsTerminal(s) <=> over \/ \E i \in DOMAIN queue : IsTerminal(queue[i].status)
    BY <1>4, <1>7, <1>9, <2>2
  <2>7. Follow(queue, t, over)'
    BY <1>1, <1>4, <1>5, <1>7, <2>4, <2>5, <2>6 DEF Follow, Coming
  <2>8. Told(n, symbol, t, over)'
    BY <1>1, <2>1, ToldRests
  <2>9. day' - t <= MatchGap /\ t <= latest'.ts
    BY <1>1, <1>3, <1>5, <1>10, <2>1, <2>2 DEF Begun
  <2>10. newest' = n /\ latest'.symbol = symbol /\ Follow(Unsaved, t, over)'
    BY <1>1, <1>4, <1>5, <1>7, <2>7 DEF Follow, Coming
  <2> QED
    BY <1>5, <1>7, <2>8, <2>9, <2>10 DEF Begun
<1>11. ASSUME NEW t \in Nat, NEW first \in Nat, Unbegun(t, first) PROVE Unbegun(t, first)'
  <2>1. first <= latest.ts /\ Behind(t, first) /\ FirstFollow(waiting, first)
        /\ \A i \in DOMAIN waiting : waiting[i].order = n
    BY <1>4, <1>7, <1>11 DEF Unbegun
  <2>2. ~HasRow /\ \A old \in handed : old.order # n
    BY <1>3, <1>4, <2>1, BehindIsUnheard
  <2>3. named /\ ~IsTerminal(s) /\ s \in OpenOnes
    BY <1>1, <1>2, <2>2, OnesRanks
  <2>4. \A i \in DOMAIN waiting : First(waiting[i], first) /\ Heard
    BY <2>1, <2>2 DEF FirstFollow
  <2>5. \A i \in DOMAIN queue : First(queue[i], first)' /\ queue[i].order = n
    <3>1. ASSUME NEW i \in DOMAIN waiting PROVE First(queue[i], first)' /\ queue[i].order = n
      <4>1. queue[i] = waiting[i] /\ waiting[i].ts \in Nat
        BY <1>7 DEF IdentityReports
      <4> QED
        BY <1>1, <1>3, <1>5, <2>1, <2>4, <4>1 DEF First
    <3>2. ASSUME NEW i \in DOMAIN queue, queue[i] = r
          PROVE  First(queue[i], first)' /\ queue[i].order = n
      <4>1. first <= r.ts /\ r.ts <= latest'.ts
        BY <1>3, <1>4, <1>5, <2>1
      <4>2. r.named
        BY <1>4, <2>3, Zenon
      <4>3. r.order = newest' /\ r.symbol = latest'.symbol /\ r.status \in OpenOnes /\ r.order = n
        BY <1>1, <1>4, <1>5, <2>3
      <4> QED
        BY <3>2, <4>1, <4>2, <4>3 DEF First
    <3> QED
      BY <1>9, <3>1, <3>2
  <2>6. \A i, j \in DOMAIN queue : i < j =>
          queue[i].ts <= queue[j].ts /\ queue[j].status = "partially_filled"
    <3> SUFFICES ASSUME NEW i \in DOMAIN queue, NEW j \in DOMAIN queue, i < j
                 PROVE  queue[i].ts <= queue[j].ts /\ queue[j].status = "partially_filled"
      OBVIOUS
    <3>1. i \in DOMAIN waiting /\ queue[i] = waiting[i]
      BY <1>7, <1>9
    <3>2. CASE j \in DOMAIN waiting
      BY <1>4, <1>7, <2>1, <3>1, <3>2 DEF FirstFollow
    <3>3. CASE queue[j] = r
      <4>1. s = "partially_filled"
        BY <1>2, <2>3, <2>4, <3>1, OnesRanks
      <4>2. waiting[i].ts <= latest.ts /\ waiting[i].ts \in Nat
        BY <1>7, <2>4, <3>1 DEF First, IdentityReports
      <4> QED
        BY <1>3, <1>4, <3>1, <3>3, <4>1, <4>2
    <3> QED
      BY <1>9, <3>2, <3>3
  <2>7. FirstFollow(Unsaved, first)'
    <3>1. queue[Len(queue)].ts = latest'.ts
      BY <1>4, <1>5, <1>7
    <3>2. FirstFollow(queue, first)'
      BY <1>1, <1>4, <1>5, <2>5, <2>6, <3>1 DEF FirstFollow
    <3> QED
      BY <1>7, <3>2 DEF FirstFollow
  <2>8. Behind(t, first)'
    BY <1>1, <2>1, BehindRests
  <2>9. ~IsTerminal(latest'.status) /\ first <= latest'.ts
    BY <1>3, <1>5, <2>1, <2>3
  <2> QED
    BY <1>1, <1>4, <1>7, <2>5, <2>7, <2>8, <2>9 DEF Unbegun
<1> QED
  BY <1>3, <1>5, <1>7, <1>8, <1>10, <1>11 DEF IdentityInv

(* What a pull brings: old reports, then those that waited.                *)
LEMMA PulledQueue ==
  ASSUME RowTypes, QueueTypes, NEW old \in Repeats, Pull(old)
  PROVE  \E queue \in Seq(IdentityReports), n \in Nat :
           /\ ~Idle' /\ queue # <<>> /\ queue = old \o waiting
           /\ DOMAIN queue = 1..Len(queue) /\ Len(queue) \in Nat \ {0}
           /\ DOMAIN waiting = 1..Len(waiting) /\ Len(waiting) \in Nat
           /\ Len(queue) = n + Len(waiting) /\ (waiting = <<>> <=> Len(waiting) = 0)
           /\ \A i \in DOMAIN queue :
                /\ i <= n => queue[i] \in handed
                /\ i > n => i - n \in DOMAIN waiting /\ queue[i] = waiting[i - n]
           /\ pulled' = [i \in DOMAIN queue |-> [row |-> Resolved(queue[i]), report |-> queue[i]]]
           /\ Unsaved' = queue
<1>1. PICK n \in 0..MaxRepeats : old \in [1..n -> handed]
  BY DEF Repeats
<1>2. n \in Nat /\ old \in Seq(handed) /\ waiting \in Seq(IdentityReports) /\ handed \subseteq IdentityReports
  BY <1>1, SeqDef, IdentityAssumption DEF RowTypes, QueueTypes
<1>3. old \in Seq(IdentityReports) /\ Len(old) = n
  <2>1. old \in Seq(IdentityReports)
    BY <1>2, SeqMonotonic
  <2>2. Len(old) \in Nat /\ DOMAIN old = 1..Len(old) /\ DOMAIN old = 1..n
    BY <1>1, <2>1, LenProperties
  <2>3. PICK m \in Nat : m = Len(old) /\ 1..m = 1..n
    BY <2>2
  <2>4. m = n
    BY <1>2, <2>3
  <2> QED
    BY <2>1, <2>3, <2>4
<1>4. PICK queue : queue = old \o waiting
  OBVIOUS
<1>5. /\ queue \in Seq(IdentityReports) /\ Len(queue) = n + Len(waiting)
      /\ \A i \in 1..(n + Len(waiting)) : queue[i] = IF i <= n THEN old[i] ELSE waiting[i - n]
  BY <1>2, <1>3, <1>4, ConcatProperties
<1>6. /\ DOMAIN queue = 1..Len(queue) /\ Len(queue) \in Nat /\ queue \in [1..Len(queue) -> IdentityReports]
      /\ DOMAIN waiting = 1..Len(waiting) /\ Len(waiting) \in Nat
  BY <1>2, <1>5, LenProperties
<1>7. queue # <<>> /\ Len(queue) # 0 /\ (waiting = <<>> <=> Len(waiting) = 0)
  BY <1>2, <1>4, <1>5, EmptySeq DEF Pull
<1>8. ASSUME NEW i \in DOMAIN queue
      PROVE  /\ i <= n => queue[i] \in handed
             /\ i > n => i - n \in DOMAIN waiting /\ queue[i] = waiting[i - n]
  <2>1. i \in 1..(n + Len(waiting)) /\ i \in Nat
    BY <1>5, <1>6
  <2>2. ASSUME i <= n PROVE queue[i] \in handed
    <3>1. i \in 1..n /\ queue[i] = old[i]
      BY <1>5, <2>1, <2>2
    <3> QED
      BY <1>1, <3>1
  <2>3. ASSUME i > n PROVE i - n \in DOMAIN waiting /\ queue[i] = waiting[i - n]
    <3>1. i - n \in 1..Len(waiting) /\ ~(i <= n)
      BY <1>2, <1>6, <2>1, <2>3
    <3> QED
      BY <1>5, <1>6, <2>1, <3>1
  <2> QED
    BY <2>2, <2>3
<1>9. pulled' = [i \in DOMAIN queue |-> [row |-> Resolved(queue[i]), report |-> queue[i]]]
  BY <1>4 DEF Pull
<1>10. ~Idle'
  <2>1. DOMAIN pulled' = 1..Len(queue) /\ 1 \in 1..Len(queue)
    BY <1>6, <1>7, <1>9
  <2>2. pulled' # <<>>
    BY <2>1
  <2> QED
    BY <2>2 DEF Idle
<1>11. Unsaved' = queue
  <2>1. Unsaved' = [i \in DOMAIN queue |-> queue[i]]
    BY <1>9, <1>10 DEF Unsaved, Reports
  <2> QED
    BY <1>6, <2>1
<1> QED
  BY <1>2, <1>4, <1>5, <1>6, <1>7, <1>8, <1>9, <1>10, <1>11

(* Reports are resolved to rows of their order, all by the rows there are. *)
LEMMA PullSteps ==
  ASSUME IdentityInv, NEW old \in Repeats, Pull(old)
  PROVE  IdentityInv'
<1>1. /\ Idle /\ day' = day /\ newest' = newest /\ latest' = latest /\ handed' = handed /\ links' = links
      /\ waiting' = <<>> /\ RowTypes /\ QueueTypes /\ OneOrderPerRow /\ OpenOrdersSpeak
  BY DEF Pull, IdentityInv
<1>2. PICK queue \in Seq(IdentityReports), n \in Nat :
        /\ ~Idle' /\ queue # <<>> /\ queue = old \o waiting
        /\ DOMAIN queue = 1..Len(queue) /\ Len(queue) \in Nat \ {0}
        /\ DOMAIN waiting = 1..Len(waiting) /\ Len(waiting) \in Nat
        /\ Len(queue) = n + Len(waiting) /\ (waiting = <<>> <=> Len(waiting) = 0)
        /\ \A i \in DOMAIN queue :
             /\ i <= n => queue[i] \in handed
             /\ i > n => i - n \in DOMAIN waiting /\ queue[i] = waiting[i - n]
        /\ pulled' = [i \in DOMAIN queue |-> [row |-> Resolved(queue[i]), report |-> queue[i]]]
        /\ Unsaved' = queue
  BY <1>1, PulledQueue
<1>3. PICK bundle : bundle = pulled'
  OBVIOUS
<1>4. /\ \A i \in DOMAIN queue : queue[i] \in IdentityReports
      /\ Unsaved = waiting
      /\ \A i, j \in DOMAIN queue : i < j => i <= n \/ (i > n /\ j > n /\ i - n < j - n)
      /\ \A i \in DOMAIN queue : i <= n \/ i > n
  BY <1>1, <1>2, ElementOfSeq DEF Unsaved
<1>5. RowTypes' /\ OneOrderPerRow' /\ OpenOrdersSpeak' /\ (Heard' <=> Heard)
  BY <1>1 DEF RowTypes, LinksTyped, OneOrderPerRow, OpenOrdersSpeak, Heard
<1>6. newest \in Nat /\ day \in Nat /\ latest.ts \in Int /\ latest.ts <= day /\ MatchGap \in Nat
  BY <1>1, IdentityAssumption DEF RowTypes, LatestOrders
<1>7. newest > 0
  <2>1. ASSUME newest = 0 PROVE FALSE
    <3>1. handed = {} /\ DOMAIN waiting = {}
      BY <2>1 DEF IdentityInv
    <3>2. 1 \in DOMAIN queue
      BY <1>2
    <3> QED
      BY <1>2, <1>4, <3>1, <3>2
  <2> QED
    BY <1>6, <2>1
<1>8. ASSUME \A i \in DOMAIN queue : Resolved(queue[i]) \in {ShadowId, newest, newest - 1},
             newest = 1 => \A i \in DOMAIN queue : Resolved(queue[i]) \in {ShadowId, newest}
      PROVE  QueueTypes'
  <2>1. \A i \in DOMAIN queue : Resolved(queue[i]) \in Nat
    BY <1>6, <1>7, <1>8 DEF ShadowId
  <2>2. pulled' \in [1..Len(queue) -> PulledReports]
    BY <1>2, <1>4, <2>1 DEF PulledReports
  <2>3. pulled' \in Seq(PulledReports)
    <3>1. PICK m \in Nat : m = Len(queue)
      BY <1>2
    <3>2. pulled' \in [1..m -> PulledReports]
      BY <2>2, <3>1
    <3> QED
      BY <3>2, SeqDef
  <2> QED
    BY <1>1, <2>3, EmptySeq DEF QueueTypes
<1>9. ASSUME NEW t \in Nat, NEW over \in BOOLEAN, Begun(t, over)
      PROVE  Begun(t, over)' /\ QueueTypes'
  <2>1. PICK q \in Nat \ {0}, symbol \in Names : q = newest /\ symbol = latest.symbol
    BY <1>1, <1>6, <1>7 DEF RowTypes, LatestOrders
  <2>2. /\ Heard /\ t <= latest.ts /\ Told(q, symbol, t, over) /\ Follow(waiting, t, over)
        /\ ~over => day - t <= MatchGap
    BY <1>1, <1>4, <1>9, <2>1 DEF Begun
  <2>3. ASSUME NEW i \in DOMAIN queue
        PROVE  /\ Coming(queue[i], q, symbol, t, over) /\ queue[i].ts <= latest.ts /\ t <= queue[i].ts
               /\ i <= n => queue[i].ts = t /\ (IsTerminal(queue[i].status) => over)
    <3>1. CASE i <= n
      BY <1>2, <2>2, <3>1, <1>6 DEF Told, HandedBy, Coming
    <3>2. CASE i > n
      <4>1. Coming(queue[i], q, symbol, t, over) /\ queue[i].ts <= latest.ts
        BY <1>2, <2>1, <2>2, <3>2 DEF Follow
      <4>2. t <= queue[i].ts
        BY <4>1 DEF Coming
      <4>3. ~(i <= n)
        BY <1>2, <3>2
      <4> QED
        BY <4>1, <4>2, <4>3
    <3> QED
      BY <1>4, <3>1, <3>2
  <2>4. ASSUME NEW i \in DOMAIN queue, NEW j \in DOMAIN queue, i < j
        PROVE  queue[i].ts <= queue[j].ts /\ (~over => ~IsTerminal(queue[i].status))
    <3>1. CASE i <= n
      BY <2>3, <3>1
    <3>2. CASE i > n /\ j > n /\ i - n < j - n
      BY <1>2, <2>2, <3>2 DEF Follow
    <3> QED
      BY <1>4, <2>4, <3>1, <3>2
  <2>5. \A i \in DOMAIN waiting : i + n \in DOMAIN queue /\ queue[i + n] = waiting[i]
    <3> SUFFICES ASSUME NEW i \in DOMAIN waiting
                 PROVE  i + n \in DOMAIN queue /\ queue[i + n] = waiting[i]
      OBVIOUS
    <3>1. i + n \in DOMAIN queue /\ i + n > n /\ (i + n) - n = i
      BY <1>2
    <3> QED
      BY <1>2, <3>1
  <2>6. IsTerminal(latest.status) <=> over \/ \E i \in DOMAIN queue : IsTerminal(queue[i].status)
    <3>1. IsTerminal(latest.status) <=> over \/ \E i \in DOMAIN waiting : IsTerminal(waiting[i].status)
      BY <2>2 DEF Follow
    <3>2. ASSUME NEW i \in DOMAIN queue, IsTerminal(queue[i].status)
          PROVE  over \/ \E j \in DOMAIN waiting : IsTerminal(waiting[j].status)
      BY <1>2, <1>4, <2>3, <3>2
    <3> QED
      BY <2>5, <3>1, <3>2
  <2>7. queue[Len(queue)].ts = latest.ts
    <3>1. CASE waiting = <<>>
      <4>1. Len(queue) \in DOMAIN queue /\ Len(queue) <= n
        BY <1>2, <3>1
      <4>2. t = latest.ts
        BY <2>2, <3>1 DEF Follow
      <4> QED
        BY <2>3, <4>1, <4>2
    <3>2. CASE waiting # <<>>
      <4>1. Len(waiting) \in DOMAIN waiting /\ Len(waiting) + n = Len(queue)
        BY <1>2, <3>2
      <4>2. queue[Len(queue)] = waiting[Len(waiting)]
        BY <2>5, <4>1
      <4> QED
        BY <2>2, <3>2, <4>2 DEF Follow
    <3> QED
      BY <3>1, <3>2
  <2>8. Follow(queue, t, over)
    BY <1>2, <2>1, <2>3, <2>4, <2>6, <2>7 DEF Follow
  <2>9. Follow(Unsaved, t, over)'
    BY <1>1, <1>2, <2>8 DEF Follow, Coming
  <2>10. ASSUME NEW i \in DOMAIN queue
         PROVE  /\ Resolved(queue[i]) \in {ShadowId, q}
                /\ Resolved(queue[i]) = ShadowId /\ ShadowId \notin DOMAIN links => over
    <3>1. queue[i] \in IdentityReports /\ Coming(queue[i], q, symbol, t, over)
      BY <1>4, <2>3
    <3>2. ~over => queue[i].ts - t <= MatchGap
      <4>1. queue[i].ts \in Nat /\ queue[i].ts <= latest.ts
        BY <2>3, <3>1 DEF IdentityReports
      <4> QED
        BY <1>6, <2>2, <4>1
    <3>3. PICK r \in IdentityReports : r = queue[i]
      BY <3>1
    <3>4. Coming(r, q, symbol, t, over) /\ (~over => r.ts - t <= MatchGap)
      BY <3>1, <3>2, <3>3
    <3>5. /\ Resolved(r) \in {ShadowId, q}
          /\ Resolved(r) = ShadowId /\ ShadowId \notin DOMAIN links => over
      BY <1>1, <2>2, <3>4, ComingStays
    <3> QED
      BY <3>3, <3>5
  <2>11. \A i \in DOMAIN bundle : Fits(bundle[i], q, over)'
    BY <1>1, <1>2, <1>3, <2>10 DEF Fits
  <2>12. Told(q, symbol, t, over)'
    BY <1>1, <2>2, ToldRests
  <2>13. QueueTypes'
    BY <1>8, <2>1, <2>10
  <2>14. newest' = q /\ latest'.symbol = symbol /\ t <= latest'.ts /\ Heard'
    BY <1>1, <1>5, <2>1, <2>2
  <2> QED
    BY <1>2, <1>3, <2>9, <2>11, <2>12, <2>13, <2>14 DEF Begun
<1>10. ASSUME NEW t \in Nat, NEW s \in Nat, Unbegun(t, s)
       PROVE  Unbegun(t, s)' /\ QueueTypes'
  <2>1. PICK q \in Nat \ {0} : q = newest
    BY <1>6, <1>7
  <2>2. /\ ~IsTerminal(latest.status) /\ s <= latest.ts /\ Behind(t, s) /\ FirstFollow(waiting, s)
        /\ \A i \in DOMAIN waiting : waiting[i].order = q
    BY <1>4, <1>10, <2>1 DEF Unbegun
  <2>3. Unheard(q, s) /\ \A r \in handed : newest > 1 /\ r.order = q - 1 /\ r.order # q
    BY <1>1, <1>7, <2>1, <2>2, BehindIsUnheard
  <2>4. ASSUME NEW i \in DOMAIN queue
        PROVE  /\ i <= n => queue[i] \in handed /\ queue[i].order # q
               /\ i > n => /\ i - n \in DOMAIN waiting /\ queue[i] = waiting[i - n]
                           /\ First(queue[i], s) /\ Heard /\ queue[i].order = q
    BY <1>2, <2>2, <2>3 DEF FirstFollow
  <2>5. ASSUME NEW i \in DOMAIN queue, NEW j \in DOMAIN queue, i < j, queue[i].order = q
        PROVE  /\ queue[j].order = q /\ queue[i].ts <= queue[j].ts
               /\ queue[j].status = "partially_filled"
    <3>1. i > n /\ j > n /\ i - n < j - n
      BY <1>4, <2>4, <2>5
    <3>2. /\ i - n \in DOMAIN waiting /\ queue[i] = waiting[i - n]
          /\ j - n \in DOMAIN waiting /\ queue[j] = waiting[j - n]
      BY <2>4, <3>1
    <3> QED
      BY <2>1, <2>2, <2>5, <3>1, <3>2 DEF FirstFollow
  <2>6. ASSUME queue[Len(queue)].order = q PROVE queue[Len(queue)].ts = latest.ts
    <3>1. Len(queue) \in DOMAIN queue
      BY <1>2
    <3>2. Len(queue) > n
      BY <1>4, <2>4, <2>6, <3>1
    <3>3. Len(queue) - n = Len(waiting) /\ waiting # <<>>
      BY <1>2, <3>2
    <3>4. queue[Len(queue)] = waiting[Len(waiting)]
      BY <2>4, <3>1, <3>2, <3>3
    <3> QED
      BY <2>1, <2>2, <2>6, <3>3, <3>4 DEF FirstFollow
  <2>7. FirstFollow(queue, s)
    BY <1>4, <2>1, <2>4, <2>5, <2>6 DEF FirstFollow
  <2>8. FirstFollow(Unsaved, s)'
    <3>1. FirstFollow(queue, s)'
      BY <1>1, <1>5, <2>7 DEF FirstFollow, First
    <3> QED
      BY <1>2, <3>1 DEF FirstFollow
  <2>9. ASSUME NEW i \in DOMAIN queue, i > n
        PROVE  \/ Resolved(queue[i]) = q
               \/ /\ Resolved(queue[i]) = ShadowId /\ ShadowId \in DOMAIN links
                  /\ queue[i].ts - links[ShadowId].ts <= MatchGap
    <3>1. queue[i] \in IdentityReports /\ First(queue[i], s)
      BY <1>4, <2>4, <2>9
    <3>2. queue[i].order = q /\ s <= queue[i].ts /\ queue[i].status \in OpenOnes /\ queue[i].named
      BY <2>1, <3>1 DEF First
    <3> QED
      BY <1>1, <2>3, <3>1, <3>2, FirstReportFinds
  <2>10. ASSUME NEW i \in DOMAIN queue, i <= n
         PROVE  newest > 1 /\ Resolved(queue[i]) \in {ShadowId, q - 1}
    <3>1. queue[i] \in handed /\ newest > 1
      BY <2>3, <2>4, <2>10
    <3>2. PICK p \in Nat \ {0} : p = q - 1
      BY <2>1, <3>1
    <3>3. Succeeding(p, t, s)
      BY <2>1, <2>2, <3>1, <3>2 DEF Behind
    <3>4. PICK symbol \in Names : Told(p, symbol, t, TRUE)
      BY <3>3 DEF Succeeding
    <3>5. PICK over \in BOOLEAN : over = TRUE
      OBVIOUS
    <3>6. Told(p, symbol, t, over) /\ Coming(queue[i], p, symbol, t, over)
      BY <3>1, <3>4, <3>5 DEF Told, HandedBy, Coming
    <3>7. Resolved(queue[i]) \in {ShadowId, p}
      BY <1>1, <1>4, <3>5, <3>6, ComingStays
    <3> QED
      BY <3>1, <3>2, <3>7
  <2>11. ASSUME NEW i \in DOMAIN bundle
         PROVE  IF bundle[i].report.order = newest' THEN FirstFits(bundle[i])'
                ELSE Fits(bundle[i], newest - 1, TRUE)'
    <3>1. i \in DOMAIN queue /\ bundle[i] = [row |-> Resolved(queue[i]), report |-> queue[i]]
      BY <1>2, <1>3
    <3>2. CASE i > n
      <4>1. bundle[i].row = Resolved(queue[i]) /\ bundle[i].report = queue[i]
        BY <3>1
      <4>2. bundle[i].report.order = newest'
        BY <1>1, <2>1, <2>4, <3>1, <3>2, <4>1
      <4>3. FirstFits(bundle[i])'
        BY <1>1, <2>1, <2>9, <3>1, <3>2, <4>1 DEF FirstFits
      <4> QED
        BY <4>2, <4>3
    <3>3. CASE i <= n
      BY <1>1, <2>1, <2>4, <2>10, <3>1, <3>3 DEF Fits
    <3> QED
      BY <1>4, <3>1, <3>2, <3>3
  <2>12. Behind(t, s)'
    BY <1>1, <2>2, BehindRests
  <2>13. QueueTypes'
    BY <1>4, <1>8, <2>1, <2>9, <2>10
  <2>14. DOMAIN waiting' = {}
    BY <1>1
  <2> QED
    BY <1>1, <1>3, <2>2, <2>8, <2>11, <2>12, <2>13, <2>14 DEF Unbegun
<1>11. PICK t \in Nat, over \in BOOLEAN, s \in Nat : Begun(t, over) \/ Unbegun(t, s)
  BY <1>7 DEF IdentityInv
<1>12. newest' > 0
  BY <1>1, <1>7
<1> QED
  BY <1>5, <1>9, <1>10, <1>11, <1>12 DEF IdentityInv

(* A report of the latest order, of which a row was told.                  *)
LEMMA BegunSaves ==
  ASSUME RowTypes, QueueTypes, OpenOrdersSpeak, newest > 0,
         NEW t \in Nat, NEW over \in BOOLEAN, Begun(t, over),
         NEW e \in PulledReports, NEW rest, ~Idle, pulled # <<>>, e = pulled[1],
         1 \in DOMAIN pulled, RestOf(Unsaved, rest), Unsaved[1] = e.report,
         Store(e.row, e.report), HandOver(e.report), UNCHANGED <<day, newest, latest>>,
         NEW q \in Nat \ {0}, q = newest
  PROVE  /\ e.report.order = q /\ e.row \in {ShadowId, q}
         /\ \E u \in Nat, now \in BOOLEAN :
              /\ Heard' /\ u <= latest'.ts /\ Told(newest, latest.symbol, u, now)'
              /\ Follow(rest, u, now)'
              /\ rest = <<>> /\ ~now => day' - u <= MatchGap
              /\ over => now
<1>1. PICK r \in IdentityReports, k \in Nat : r = e.report /\ k = e.row
  BY DEF PulledReports
<1>2. PICK symbol \in Names : symbol = latest.symbol
  BY DEF RowTypes, LatestOrders
<1>3. /\ Heard /\ t <= latest.ts /\ Told(q, symbol, t, over) /\ Follow(Unsaved, t, over)
      /\ Fits(e, q, over)
  BY <1>2 DEF Begun
<1>4. PICK queue \in Seq(IdentityReports) : queue = Unsaved
  BY DEF RestOf
<1>5. /\ RestOf(queue, rest) /\ queue[1] = r /\ Follow(queue, t, over)
      /\ DOMAIN queue = 1..Len(queue) /\ 1 \in DOMAIN queue
      /\ rest \in Seq(IdentityReports) /\ \A i \in DOMAIN rest : rest[i].ts \in Nat
  <2>1. RestOf(queue, rest) /\ queue[1] = r /\ Follow(queue, t, over)
    BY <1>1, <1>3, <1>4
  <2>2. DOMAIN rest = 1..Len(rest) /\ rest \in Seq(IdentityReports)
    BY <2>1 DEF RestOf
  <2>3. \A i \in DOMAIN rest : rest[i] \in IdentityReports
    BY <2>2, ElementOfSeq
  <2>4. \A i \in DOMAIN rest : rest[i].ts \in Nat
    BY <2>3 DEF IdentityReports
  <2>5. DOMAIN queue = 1..Len(queue) /\ Len(queue) \in Nat \ {0}
    BY <2>1 DEF RestOf
  <2>6. 1 \in DOMAIN queue
    BY <2>5
  <2> QED
    BY <2>1, <2>2, <2>4, <2>5, <2>6
<1>6. Coming(r, q, symbol, t, over) /\ r.ts <= latest.ts /\ r.ts \in Nat
  BY <1>2, <1>5 DEF Follow, IdentityReports
<1>7. k \in {ShadowId, q} /\ (k = ShadowId /\ ShadowId \notin DOMAIN links => over)
      /\ r.order = q /\ r.symbol = symbol /\ t <= r.ts
  BY <1>1, <1>3, <1>6 DEF Fits, Coming
<1>8. Store(k, r) /\ HandOver(r) /\ Heard' /\ newest' = q /\ latest'.symbol = symbol
  BY <1>1, <1>2, <1>3 DEF Heard
<1>9. PICK now \in BOOLEAN : now = IsTerminal(r.status)
  <2>1. IsTerminal(r.status) \in BOOLEAN
    BY DEF IsTerminal
  <2> QED
    BY <2>1
<1>10. ASSUME NEW u \in Nat, NEW ended \in BOOLEAN, Follow(rest, u, ended)
       PROVE  Follow(rest, u, ended)' /\ (rest = <<>> /\ ~ended => day' - u <= MatchGap)
  <2>1. Follow(rest, u, ended)'
    BY <1>10 DEF Follow, Coming
  <2>2. ASSUME rest = <<>>, ~ended PROVE day - u <= MatchGap
    <3>1. DOMAIN rest = {}
      BY <2>2
    <3>2. u = latest.ts /\ ~IsTerminal(latest.status)
      BY <1>10, <2>2, <3>1 DEF Follow
    <3> QED
      BY <3>2 DEF OpenOrdersSpeak
  <2> QED
    BY <2>1, <2>2
<1>11. CASE r.ts = t /\ (IsTerminal(r.status) => over)
  <2>1. /\ Told(q, symbol, t, over) /\ r.order = q /\ r.symbol = symbol
        /\ r.ts = t /\ (IsTerminal(r.status) => over)
        /\ k \in {ShadowId, q} /\ (k = ShadowId /\ ShadowId \notin DOMAIN links => over)
        /\ Store(k, r) /\ HandOver(r)
    BY <1>3, <1>7, <1>8, <1>11
  <2>2. Told(q, symbol, t, over)'
    BY <2>1, AgainKeepsTold
  <2>3. Follow(rest, t, over)
    BY <1>5, <1>6, <1>9, <1>11, FollowTail
  <2>4. Follow(rest, t, over)' /\ (rest = <<>> /\ ~over => day' - t <= MatchGap)
    BY <1>10, <2>3
  <2> QED
    BY <1>1, <1>3, <1>7, <1>8, <2>2, <2>4
<1>12. CASE ~(r.ts = t /\ (IsTerminal(r.status) => over))
  <2>1. ~over /\ Follow(rest, r.ts, now)
    BY <1>5, <1>6, <1>9, <1>12, FollowTail
  <2>2. r.status = "partially_filled" \/ r.status \in FinalOnes
    BY <1>6, <1>12, <2>1 DEF Coming
  <2>3. k = ShadowId => ShadowId \in DOMAIN links
    BY <1>7, <2>1
  <2>4. Told(q, symbol, r.ts, now)'
    BY <1>3, <1>6, <1>7, <1>8, <1>9, <2>1, <2>2, <2>3, NextKeepsTold
  <2>5. Follow(rest, r.ts, now)' /\ (rest = <<>> /\ ~now => day' - r.ts <= MatchGap)
    BY <1>6, <1>10, <2>1
  <2> QED
    BY <1>1, <1>6, <1>7, <1>8, <2>1, <2>3, <2>4, <2>5
<1> QED
  BY <1>11, <1>12

(* A report given again of the order before.                               *)
LEMMA OldSaves ==
  ASSUME RowTypes, newest > 1, NEW p \in Nat \ {0}, p = newest - 1,
         NEW t \in Nat, NEW s \in Nat, Succeeding(p, t, s), NEW r \in handed,
         NEW k \in {ShadowId, p}, Store(k, r), HandOver(r)
  PROVE  /\ Succeeding(p, t, s)' /\ handed' = handed
         /\ r \in IdentityReports /\ r.order = p
         /\ DOMAIN links \subseteq DOMAIN links'
         /\ ShadowId \in DOMAIN links =>
              links'[ShadowId].ts \in Nat /\ links[ShadowId].ts <= links'[ShadowId].ts
<1>1. PICK symbol \in Names : Told(p, symbol, t, TRUE)
  BY DEF Succeeding
<1>2. PICK over \in BOOLEAN : over = TRUE
  OBVIOUS
<1>3. Told(p, symbol, t, over) /\ t < s /\ Aside(p, t, s)
  BY <1>1, <1>2 DEF Succeeding
<1>4. /\ r \in IdentityReports /\ r.order = p /\ r.symbol = symbol /\ r.ts = t
      /\ \A other \in handed : other.ts = t
  BY <1>1 DEF RowTypes, Told, HandedBy
<1>5. handed' = handed
  BY <1>4 DEF HandOver
<1>6. Told(p, symbol, t, over)' /\ KeepsAside(p, t)
  BY <1>2, <1>3, <1>4, AgainKeepsTold
<1>7. Aside(p, t, s)'
  BY <1>3, <1>6 DEF Aside, KeepsAside
<1>8. Succeeding(p, t, s)'
  BY <1>2, <1>3, <1>6, <1>7 DEF Succeeding
<1>9. DOMAIN links \subseteq DOMAIN links'
  BY <1>4, StoreEffect DEF RowTypes
<1>10. \A c \in DOMAIN links : links[c].ts \in Nat /\ links[c].ts <= t
  BY <1>1 DEF RowTypes, LinksTyped, LinkRows, Told, RowsUpTo
<1>11. ShadowId \in DOMAIN links => links'[ShadowId].ts = links[ShadowId].ts \/ links'[ShadowId].ts = t
  BY <1>6, <1>9 DEF ShadowId, KeepsAside
<1> QED
  BY <1>4, <1>5, <1>8, <1>9, <1>10, <1>11

LEMMA SaveReportSteps ==
  ASSUME IdentityInv, SaveReport
  PROVE  IdentityInv'
<1>1. /\ ~Idle /\ day' = day /\ newest' = newest /\ latest' = latest /\ waiting' = waiting
      /\ pulled' = Tail(pulled) /\ Store(Head(pulled).row, Head(pulled).report)
      /\ HandOver(Head(pulled).report)
      /\ RowTypes /\ QueueTypes /\ OneOrderPerRow /\ OpenOrdersSpeak /\ pulled # <<>>
  BY DEF SaveReport, IdentityInv, Idle
<1>2. /\ QueueTypes'
      /\ 1 \in DOMAIN pulled /\ Head(pulled) = pulled[1] /\ pulled[1] \in PulledReports
      /\ RestOf(Unsaved, Unsaved') /\ Unsaved[1] = pulled[1].report
      /\ Idle' <=> Len(Unsaved') = 0
      /\ \A i \in DOMAIN pulled' : i \in Nat /\ i + 1 \in DOMAIN pulled /\ pulled'[i] = pulled[i + 1]
      /\ ~Idle' => /\ DOMAIN Unsaved' = DOMAIN pulled'
                   /\ \A i \in DOMAIN pulled' : Unsaved'[i] = pulled'[i].report
  BY <1>1, TailUnsaved
<1>3. PICK rest, later : rest = Unsaved' /\ later = pulled'
  OBVIOUS
<1>4. PICK e \in PulledReports : e = pulled[1] /\ rest = Unsaved' /\ later = pulled'
  BY <1>2, <1>3
<1>5. /\ Store(e.row, e.report) /\ HandOver(e.report) /\ RestOf(Unsaved, rest) /\ Unsaved[1] = e.report
      /\ e.report \in IdentityReports /\ e.row \in Nat
  BY <1>1, <1>2, <1>4 DEF PulledReports
<1>6. newest > 0 /\ newest \in Nat
  <2>1. newest = 0 => pulled = <<>>
    BY DEF IdentityInv
  <2> QED
    BY <1>1, <2>1 DEF RowTypes
<1>7. PICK q \in Nat \ {0} : q = newest
  BY <1>6
<1>8. /\ latest' \in LatestOrders /\ latest'.ts <= day /\ latest'.ts \in Nat /\ OpenOrdersSpeak'
      /\ (Heard' <=> Heard) /\ MatchGap \in Nat /\ latest.ts \in Nat
  BY <1>1, <1>6, IdentityAssumption DEF RowTypes, OpenOrdersSpeak, Heard
<1>9. /\ rest \in Seq(IdentityReports) /\ DOMAIN rest = 1..Len(rest) /\ Len(rest) \in Nat
      /\ rest = <<>> <=> Len(rest) = 0
      /\ \A i \in DOMAIN rest : /\ i \in Nat \ {0} /\ i + 1 \in DOMAIN Unsaved /\ rest[i] = Unsaved[i + 1]
                                /\ rest[i] \in IdentityReports
      /\ 1 \in DOMAIN Unsaved /\ Unsaved # <<>>
      /\ rest # <<>> => rest[Len(rest)] = Unsaved[Len(Unsaved)] /\ Len(rest) \in DOMAIN rest
      /\ rest = <<>> => Unsaved[Len(Unsaved)] = e.report
  <2>1. PICK queue : queue = Unsaved /\ RestOf(queue, rest) /\ queue[1] = e.report
    BY <1>5
  <2>2. Len(queue) \in Nat \ {0} /\ Len(rest) \in Nat /\ Len(rest) = Len(queue) - 1
    <3>1. Len(rest) \in Nat
      BY <2>1, LenProperties DEF RestOf
    <3> QED
      BY <2>1, <3>1 DEF RestOf
  <2>3. PICK m \in Nat : m = Len(rest) /\ m = Len(queue) - 1
    BY <2>2
  <2>4. /\ rest \in Seq(IdentityReports) /\ queue \in Seq(IdentityReports)
        /\ DOMAIN rest = 1..m /\ DOMAIN queue = 1..(m + 1) /\ Len(rest) = m /\ Len(queue) = m + 1
        /\ \A i \in 1..m : rest[i] = queue[i + 1]
    BY <2>3, <2>1, <2>2 DEF RestOf
  <2>5. (rest = <<>> <=> m = 0) /\ queue # <<>>
    BY <2>4, EmptySeq
  <2>6. \A i \in DOMAIN rest : rest[i] \in IdentityReports
    BY <2>4, ElementOfSeq
  <2> QED
    BY <2>3, <2>1, <2>4, <2>5, <2>6
<1>10. /\ DOMAIN later = 1..Len(later) \/ DOMAIN later = {}
       /\ DOMAIN later # {} => rest # <<>> /\ DOMAIN rest = DOMAIN later
       /\ \A i \in DOMAIN later :
            later[i] = pulled[i + 1] /\ i + 1 \in DOMAIN pulled /\ rest[i] = later[i].report
       /\ Idle' <=> rest = <<>>
  <2>1. Idle' => DOMAIN later = {}
    BY <1>4 DEF Idle
  <2>2. Idle' <=> rest = <<>>
    BY <1>2, <1>4, <1>9
  <2>3. ~Idle' => DOMAIN rest = DOMAIN later /\ \A i \in DOMAIN later : rest[i] = later[i].report
    BY <1>2, <1>4
  <2>4. \A i \in DOMAIN later : later[i] = pulled[i + 1] /\ i + 1 \in DOMAIN pulled
    BY <1>2, <1>4
  <2>5. DOMAIN later = 1..Len(later) \/ DOMAIN later = {}
    BY <2>1, <2>3, <1>2, <1>4, LenProperties DEF QueueTypes
  <2> QED
    BY <2>1, <2>2, <2>3, <2>4, <2>5
<1>11. ASSUME NEW p \in Nat \ {0}, p <= newest, e.report.order = p, e.row \in {ShadowId, p}
       PROVE  RowTypes' /\ OneOrderPerRow'
  <2>1. PICK k \in {ShadowId, p}, r \in IdentityReports : k = e.row /\ r = e.report
    BY <1>5, <1>11
  <2>2. Store(k, r) /\ HandOver(r) /\ r.order = p
    BY <1>5, <1>11, <2>1
  <2> QED
    BY <1>1, <1>8, <1>11, <2>1, <2>2, StoreTypes
<1>12. DOMAIN links' = DOMAIN links \cup {e.row}
  BY <1>5 DEF Store
<1>13. ASSUME NEW t \in Nat, NEW over \in BOOLEAN, Begun(t, over) PROVE IdentityInv'
  <2>1. /\ e.report.order = q /\ e.row \in {ShadowId, q}
        /\ \E u \in Nat, now \in BOOLEAN :
             /\ Heard' /\ u <= latest'.ts /\ Told(newest, latest.symbol, u, now)'
             /\ Follow(rest, u, now)'
             /\ rest = <<>> /\ ~now => day' - u <= MatchGap
             /\ over => now
    BY <1>1, <1>2, <1>4, <1>5, <1>6, <1>7, <1>13, BegunSaves
  <2>2. PICK u \in Nat, now \in BOOLEAN :
             /\ Heard' /\ u <= latest'.ts /\ Told(newest, latest.symbol, u, now)'
             /\ Follow(rest, u, now)'
             /\ rest = <<>> /\ ~now => day' - u <= MatchGap
             /\ over => now
    BY <2>1
  <2>3. \A i \in DOMAIN later : Fits(later[i], newest, over)
    BY <1>10, <1>13 DEF Begun
  <2>4. \A i \in DOMAIN later : Fits(later[i], newest, now)'
    BY <1>1, <1>12, <2>2, <2>3 DEF Fits
  <2>5. Follow(Unsaved, u, now)'
    BY <1>4, <2>2 DEF Follow
  <2>6. Begun(u, now)'
    BY <1>4, <1>10, <2>2, <2>4, <2>5 DEF Begun
  <2>7. RowTypes' /\ OneOrderPerRow' /\ newest' > 0
    <3>1. q <= newest
      BY <1>7
    <3> QED
      BY <1>1, <1>6, <1>11, <2>1, <3>1
  <2> QED
    BY <1>2, <1>8, <2>6, <2>7 DEF IdentityInv
<1>14. ASSUME NEW t \in Nat, NEW s \in Nat, Unbegun(t, s) PROVE IdentityInv'
  <2>1. PICK queue : queue = Unsaved
    OBVIOUS
  <2>2. /\ ~IsTerminal(latest.status) /\ s <= latest.ts /\ Behind(t, s) /\ FirstFollow(queue, s)
        /\ \A i \in DOMAIN pulled :
             IF pulled[i].report.order = q THEN FirstFits(pulled[i]) ELSE Fits(pulled[i], q - 1, TRUE)
    BY <1>7, <1>14, <2>1 DEF Unbegun
  <2>3. Unheard(q, s) /\ \A r \in handed : newest > 1 /\ r.order = q - 1 /\ r.order # q
    BY <1>1, <1>6, <1>7, <2>2, BehindIsUnheard
  <2>4. /\ \A i \in DOMAIN queue : queue[i] \in handed \/ (First(queue[i], s) /\ Heard)
        /\ \A i, j \in DOMAIN queue : (i < j /\ queue[i].order = q) =>
             queue[j].order = q /\ queue[i].ts <= queue[j].ts /\ queue[j].status = "partially_filled"
        /\ queue # <<>> /\ (queue[Len(queue)].order = q => queue[Len(queue)].ts = latest.ts)
    BY <1>7, <1>9, <2>1, <2>2 DEF FirstFollow
  <2>5. /\ 1 \in DOMAIN queue /\ queue[1] = e.report
        /\ \A i \in DOMAIN rest : i \in Nat \ {0} /\ i + 1 \in DOMAIN queue /\ rest[i] = queue[i + 1]
        /\ rest # <<>> => rest[Len(rest)] = queue[Len(queue)] /\ Len(rest) \in DOMAIN rest
        /\ rest = <<>> => queue[Len(queue)] = e.report
    BY <1>5, <1>9, <2>1
  <2>6. \A i, j \in DOMAIN rest : i < j => i + 1 < j + 1
    BY <2>5
  <2>7. CASE e.report.order = q
    <3>1. PICK over \in BOOLEAN : ~over
      OBVIOUS
    <3>2. latest.symbol \in Names
      BY <1>1 DEF RowTypes, LatestOrders
    <3>3. PICK r \in IdentityReports, k \in Nat, symbol \in Names :
            r = e.report /\ k = e.row /\ symbol = latest.symbol
      BY <1>5, <3>2
    <3>4. First(r, s) /\ Heard /\ r.order = q /\ r.ts \in Nat
      BY <2>3, <2>4, <2>5, <2>7, <3>3 DEF IdentityReports
    <3>5. \/ k = q
          \/ k = ShadowId /\ ShadowId \in DOMAIN links /\ r.ts - links[ShadowId].ts <= MatchGap
      BY <1>2, <1>4, <2>2, <2>7, <1>7, <3>3 DEF FirstFits
    <3>6. r.symbol = symbol /\ s <= r.ts /\ r.status \in OpenOnes /\ r.ts <= latest.ts
      BY <3>3, <3>4 DEF First
    <3>7. Told(q, symbol, r.ts, over)'
      BY <1>1, <1>5, <2>3, <3>3, <3>1, <3>4, <3>5, <3>6, FirstReportTells
    <3>8. ASSUME NEW i \in DOMAIN rest
          PROVE  /\ rest[i].order = q /\ First(rest[i], s) /\ r.ts <= rest[i].ts
                 /\ rest[i].status = "partially_filled"
      <4>1. 1 < i + 1 /\ i + 1 \in DOMAIN queue /\ rest[i] = queue[i + 1]
        BY <2>5
      <4>2. rest[i].order = q /\ r.ts <= rest[i].ts /\ rest[i].status = "partially_filled"
        BY <2>4, <2>5, <2>7, <3>3, <4>1
      <4> QED
        BY <2>3, <2>4, <4>1, <4>2
    <3>9. Follow(rest, r.ts, over)
      <4>1. \A i \in DOMAIN rest :
               Coming(rest[i], newest, latest.symbol, r.ts, over) /\ rest[i].ts <= latest.ts
        BY <1>7, <3>3, <3>1, <3>8 DEF First, Coming
      <4>2. \A i \in DOMAIN rest : ~IsTerminal(rest[i].status)
        BY <3>8, OnesRanks DEF OpenOnes
      <4>3. \A i, j \in DOMAIN rest : i < j => rest[i].ts <= rest[j].ts
        <5> SUFFICES ASSUME NEW i \in DOMAIN rest, NEW j \in DOMAIN rest, i < j
                     PROVE  rest[i].ts <= rest[j].ts
          OBVIOUS
        <5>1. /\ i + 1 < j + 1 /\ i + 1 \in DOMAIN queue /\ j + 1 \in DOMAIN queue
              /\ rest[i] = queue[i + 1] /\ rest[j] = queue[j + 1] /\ queue[i + 1].order = q
          BY <2>5, <2>6, <3>8
        <5> QED
          BY <2>4, <5>1
      <4>4. IF rest = <<>> THEN r.ts = latest.ts ELSE rest[Len(rest)].ts = latest.ts
        <5>1. CASE rest = <<>>
          BY <2>4, <2>5, <2>7, <3>3, <5>1
        <5>2. CASE rest # <<>>
          BY <2>4, <2>5, <3>8, <5>2
        <5> QED
          BY <5>1, <5>2
      <4> QED
        BY <2>2, <3>1, <4>1, <4>2, <4>3, <4>4 DEF Follow
    <3>10. Follow(Unsaved, r.ts, over)'
      <4>1. Follow(rest, r.ts, over)'
        BY <1>1, <3>9 DEF Follow, Coming
      <4> QED
        BY <1>4, <4>1 DEF Follow
    <3>11. rest = <<>> => day' - r.ts <= MatchGap
      <4>1. rest = <<>> => r.ts = latest.ts
        BY <3>9 DEF Follow
      <4> QED
        BY <1>1, <1>6, <2>2, <4>1 DEF OpenOrdersSpeak
    <3>12. \A i \in DOMAIN later : Fits(later[i], newest, over)'
      <4> SUFFICES ASSUME NEW i \in DOMAIN later PROVE Fits(later[i], newest, over)'
        OBVIOUS
      <4>1. later[i] = pulled[i + 1] /\ i + 1 \in DOMAIN pulled /\ later[i].report.order = q
        BY <1>10, <3>8
      <4>2. FirstFits(later[i])
        BY <2>2, <4>1
      <4> QED
        <5>1. later[i].row = newest \/ (later[i].row = ShadowId /\ ShadowId \in DOMAIN links)
          BY <4>2 DEF FirstFits
        <5>2. newest' = newest /\ DOMAIN links \subseteq DOMAIN links'
          BY <1>1, <1>12
        <5>3. /\ later[i].row \in {ShadowId, newest'}
              /\ ~(later[i].row = ShadowId /\ ShadowId \notin DOMAIN links')
          BY <1>7, <5>1, <5>2 DEF ShadowId
        <5> QED
          BY <5>3 DEF Fits
    <3>13. newest' = q /\ latest'.symbol = symbol /\ r.ts <= latest'.ts
      BY <1>1, <1>7, <3>3, <3>6
    <3>14. Begun(r.ts, over)'
      BY <1>4, <1>8, <1>10, <3>4, <3>1, <3>7, <3>10, <3>11, <3>12, <3>13 DEF Begun
    <3>15. RowTypes' /\ OneOrderPerRow' /\ newest' > 0
      <4>1. q <= newest /\ e.row \in {ShadowId, q}
        BY <1>7, <3>3, <3>5
      <4> QED
        BY <1>1, <1>6, <1>11, <2>7, <4>1
    <3> QED
      BY <1>2, <1>8, <3>4, <3>14, <3>15 DEF IdentityInv
  <2>8. CASE e.report.order # q
    <3>1. e.report \in handed /\ newest > 1
      BY <1>7, <2>3, <2>4, <2>5, <2>8 DEF First
    <3>2. PICK p \in Nat \ {0}, r \in handed : p = newest - 1 /\ r = e.report
      BY <1>6, <3>1
    <3>3. PICK k \in {ShadowId, p} : k = e.row
      BY <1>2, <1>4, <1>7, <2>2, <2>8, <3>2 DEF Fits
    <3>4. Succeeding(p, t, s)
      BY <1>7, <2>2, <3>1, <3>2 DEF Behind
    <3>5. /\ Succeeding(p, t, s)' /\ handed' = handed
          /\ r \in IdentityReports /\ r.order = p
          /\ DOMAIN links \subseteq DOMAIN links'
          /\ ShadowId \in DOMAIN links =>
               links'[ShadowId].ts \in Nat /\ links[ShadowId].ts <= links'[ShadowId].ts
      BY <1>1, <1>5, <3>1, <3>2, <3>3, <3>4, OldSaves
    <3>6. Behind(t, s)'
      BY <1>1, <3>1, <3>2, <3>5 DEF Behind
    <3>7. FirstFollow(rest, s)
      <4>1. \A i \in DOMAIN rest : rest[i] \in handed \/ (First(rest[i], s) /\ Heard)
        BY <2>4, <2>5
      <4>2. \A i, j \in DOMAIN rest : (i < j /\ rest[i].order = q) =>
               rest[j].order = q /\ rest[i].ts <= rest[j].ts /\ rest[j].status = "partially_filled"
        <5> SUFFICES ASSUME NEW i \in DOMAIN rest, NEW j \in DOMAIN rest, i < j, rest[i].order = q
                     PROVE  /\ rest[j].order = q /\ rest[i].ts <= rest[j].ts
                            /\ rest[j].status = "partially_filled"
          OBVIOUS
        <5>1. /\ i + 1 < j + 1 /\ i + 1 \in DOMAIN queue /\ j + 1 \in DOMAIN queue
              /\ rest[i] = queue[i + 1] /\ rest[j] = queue[j + 1] /\ queue[i + 1].order = q
          BY <2>5, <2>6
        <5> QED
          BY <2>4, <5>1
      <4>3. (rest # <<>> /\ rest[Len(rest)].order = q) => rest[Len(rest)].ts = latest.ts
        BY <2>4, <2>5
      <4> QED
        BY <1>7, <4>1, <4>2, <4>3 DEF FirstFollow
    <3>8. FirstFollow(Unsaved, s)'
      <4>1. FirstFollow(rest, s)'
        BY <1>1, <1>8, <3>5, <3>7 DEF FirstFollow, First
      <4> QED
        BY <1>4, <4>1 DEF FirstFollow
    <3>9. ASSUME NEW i \in DOMAIN later
          PROVE  IF later[i].report.order = newest' THEN FirstFits(later[i])'
                 ELSE Fits(later[i], newest - 1, TRUE)'
      <4>1. /\ later[i] = pulled[i + 1] /\ i + 1 \in DOMAIN pulled /\ newest' = q
            /\ later[i].report = rest[i] /\ rest[i].ts \in Nat
        BY <1>1, <1>7, <1>9, <1>10 DEF IdentityReports
      <4>2. CASE later[i].report.order = q
        <5>1. FirstFits(later[i])
          BY <2>2, <4>1, <4>2
        <5>2. ShadowId \in DOMAIN links => links[ShadowId].ts \in Nat
          BY <1>1 DEF RowTypes, LinksTyped, LinkRows
        <5>3. later[i].report.ts \in Nat
          BY <4>1
        <5>4. FirstFits(later[i])'
          BY <1>1, <1>8, <3>5, <5>1, <5>2, <5>3 DEF FirstFits
        <5> QED
          BY <4>1, <4>2, <5>4
      <4>3. CASE later[i].report.order # q
        <5>1. Fits(later[i], q - 1, TRUE)
          BY <2>2, <4>1, <4>3
        <5>2. Fits(later[i], newest - 1, TRUE)'
          BY <1>1, <1>7, <5>1 DEF Fits
        <5> QED
          BY <4>1, <4>3, <5>2
      <4> QED
        BY <4>2, <4>3
    <3>10. DOMAIN waiting' = {}
      BY <1>1 DEF QueueTypes
    <3>11. Unbegun(t, s)'
      BY <1>1, <1>4, <2>2, <3>6, <3>8, <3>9, <3>10 DEF Unbegun
    <3>12. RowTypes' /\ OneOrderPerRow' /\ newest' > 0
      <4>1. p <= newest /\ e.row \in {ShadowId, p} /\ e.report.order = p
        BY <1>6, <3>2, <3>3, <3>5
      <4> QED
        BY <1>1, <1>6, <1>11, <4>1
    <3> QED
      BY <1>2, <1>8, <3>11, <3>12 DEF IdentityInv
  <2> QED
    BY <2>7, <2>8
<1>15. PICK t \in Nat, over \in BOOLEAN, s \in Nat : Begun(t, over) \/ Unbegun(t, s)
  BY <1>6 DEF IdentityInv
<1> QED
  BY <1>13, <1>14, <1>15

LEMMA IdentityRests ==
  ASSUME IdentityInv, UNCHANGED identityVars
  PROVE  IdentityInv'
<1>1. /\ day' = day /\ newest' = newest /\ latest' = latest /\ handed' = handed /\ links' = links
      /\ waiting' = waiting /\ pulled' = pulled
  BY DEF identityVars
<1>2. Unsaved' = Unsaved
  BY <1>1 DEF Unsaved, Idle, Reports
<1>3. RowTypes' /\ QueueTypes' /\ OpenOrdersSpeak' /\ OneOrderPerRow'
  BY <1>1 DEF IdentityInv, RowTypes, QueueTypes, LinksTyped, Idle, OpenOrdersSpeak, OneOrderPerRow
<1>4. ASSUME NEW t \in Nat, NEW over \in BOOLEAN, Begun(t, over) PROVE Begun(t, over)'
  <2>1. PICK q, symbol : q = newest /\ symbol = latest.symbol
    OBVIOUS
  <2>2. Told(q, symbol, t, over)'
    BY <1>1, <1>4, <2>1, ToldRests DEF Begun
  <2>3. newest' = q /\ latest'.symbol = symbol
    BY <1>1, <2>1
  <2>4. Follow(Unsaved, t, over)'
    BY <1>1, <1>2, <1>4 DEF Begun, Follow, Coming
  <2>5. \A i \in DOMAIN pulled' : Fits(pulled[i], newest, over)'
    BY <1>1, <1>4 DEF Begun, Fits
  <2> QED
    BY <1>1, <1>4, <2>2, <2>3, <2>4, <2>5 DEF Begun, Heard, Idle
<1>5. ASSUME NEW t \in Nat, NEW s \in Nat, Unbegun(t, s) PROVE Unbegun(t, s)'
  <2>1. Behind(t, s)'
    BY <1>1, <1>5, BehindRests DEF Unbegun
  <2>2. FirstFollow(Unsaved, s)'
    BY <1>1, <1>2, <1>5 DEF Unbegun, FirstFollow, First, Heard
  <2> QED
    BY <1>1, <1>5, <2>1, <2>2 DEF Unbegun, FirstFits, Fits
<1> QED
  BY <1>1, <1>3, <1>4, <1>5 DEF IdentityInv

LEMMA IdentitySteps ==
  ASSUME MixedBundles = FALSE
  PROVE  IdentityInv /\ [IdentityNext]_identityVars => IdentityInv'
<1> SUFFICES ASSUME IdentityInv, [IdentityNext]_identityVars PROVE IdentityInv'
  OBVIOUS
<1>1. CASE NextDay
  BY <1>1, NextDaySteps
<1>2. CASE Acknowledge
  BY <1>2, AcknowledgeSteps
<1>3. CASE SaveReport
  BY <1>3, SaveReportSteps
<1>4. ASSUME NEW symbol \in Symbols, Place(symbol) PROVE IdentityInv'
  BY <1>4, PlaceSteps
<1>5. ASSUME NEW s \in Statuses, NEW named \in BOOLEAN, Report(s, named) PROVE IdentityInv'
  BY <1>5, ReportSteps
<1>6. ASSUME NEW old \in Repeats, Pull(old) PROVE IdentityInv'
  BY <1>6, PullSteps
<1>7. CASE UNCHANGED identityVars
  BY <1>7, IdentityRests
<1> QED
  BY <1>1, <1>2, <1>3, <1>4, <1>5, <1>6, <1>7 DEF IdentityNext

(* A broker id that is used again does not make two orders one: the        *)
(* resolution of a report, made before the reports of its pull are saved,  *)
(* never picks the row of another client's order, repeated, nameless or    *)
(* late as the report may be.  Assumed is that no pull brings the end of   *)
(* an order, or a report that does not name it, before a row was told of   *)
(* it, nor reports of two orders that are both new.                        *)
THEOREM OrdersKeepTheirRows ==
  ASSUME MixedBundles = FALSE
  PROVE  IdentitySpec => []OneOrderPerRow
<1>1. IdentityInv => OneOrderPerRow
  BY DEF IdentityInv
<1> QED
  BY <1>1, IdentityStarts, IdentitySteps, PTL DEF IdentitySpec

-----------------------------------------------------------------------------

OrderStates == {"reported", "partially_filled", "filled", "canceled", "partially_canceled"}
OrderReports ==
  [order : Watched, status : OrderStates, ts : Int, sysid : BOOLEAN, remark : BOOLEAN]
SureReports == {r \in OrderReports : r.sysid}
OrderKeys == Watched \X {"sysid", "id", "remark"}
Sure(o) == <<o, "sysid">>

LEMMA StateRanks ==
  /\ Rank("none") = 0 /\ ~IsTerminal("none")
  /\ \A s \in OrderStates : Rank(s) \in 1..30 /\ (IsTerminal(s) <=> Rank(s) = 30)
BY DEF OrderStates, Rank, IsTerminal, TerminalStatuses, TerminalRank

LEMMA RanksAreInt == \A s \in OrderStates : Rank(s) \in Int
BY StateRanks

LEMMA LeastIn ==
  ASSUME NEW T \in SUBSET Nat, T # {}
  PROVE  Min(T) \in T /\ \A t \in T : Min(T) <= t
<1>1. \E m \in T : \A k \in T : m <= k
  BY LeastExists
<1> QED
  BY <1>1, Zenon DEF Min

LEMMA FirstIsKnown ==
  ASSUME NEW K, NEW keys \in Seq(K), NEW known, known # {}, known \subseteq Range(keys)
  PROVE  /\ FirstKey(keys, known) \in known
         /\ keys[1] \in known => FirstKey(keys, known) = keys[1]
<1> DEFINE T == {i \in DOMAIN keys : keys[i] \in known}
<1>1. DOMAIN keys = 1..Len(keys) /\ Len(keys) \in Nat
  OBVIOUS
<1>2. T \in SUBSET Nat /\ T # {}
  BY <1>1 DEF Range
<1>3. FirstKey(keys, known) = keys[Min(T)]
  BY DEF FirstKey
<1>4. Min(T) \in T /\ \A t \in T : Min(T) <= t
  <2> HIDE DEF T
  <2> QED
    BY <1>2, LeastIn
<1>5. keys[1] \in known => Min(T) = 1
  <2>1. Len(keys) >= 1 /\ Min(T) \in 1..Len(keys)
    BY <1>1, <1>2, <1>4
  <2>2. ASSUME keys[1] \in known PROVE Min(T) <= 1
    <3>1. 1 \in T
      BY <1>1, <2>1, <2>2
    <3> QED
      BY <1>4, <3>1
  <2> QED
    BY <2>1, <2>2
<1> QED
  BY <1>3, <1>4, <1>5

LEMMA KeysAre ==
  ASSUME NEW r \in SureReports
  PROVE  /\ Keys(r) \in Seq(OrderKeys) /\ Keys(r)[1] = Sure(r.order)
         /\ Range(Keys(r)) = {Sure(r.order), <<r.order, "id">>}
              \cup (IF r.remark THEN {<<r.order, "remark">>} ELSE {})
         /\ Primary(r) = Sure(r.order)
<1> DEFINE a == <<r.order, "sysid">>  b == <<r.order, "id">>  c == <<r.order, "remark">>
<1>1. a \in OrderKeys /\ b \in OrderKeys /\ c \in OrderKeys
  BY DEF SureReports, OrderReports, OrderKeys
<1> DEFINE t == IF r.remark THEN <<c>> ELSE <<>>
           k == (<<a>> \o <<b>>) \o t
<1>2. Keys(r) = k /\ r.remark \in BOOLEAN /\ Primary(r) = k[1]
  BY DEF Keys, Primary, SureReports, OrderReports
<1>3. Sure(r.order) = a /\ b = <<r.order, "id">> /\ c = <<r.order, "remark">>
  BY DEF Sure
<1> HIDE DEF a, b, c
<1>4. t \in Seq(OrderKeys) /\ Len(t) = (IF r.remark THEN 1 ELSE 0) /\ (r.remark => t[1] = c)
  BY <1>1
<1> HIDE DEF t
<1>5. /\ k \in Seq(OrderKeys) /\ Len(k) = 2 + Len(t) /\ k[1] = a /\ k[2] = b
      /\ r.remark => k[3] = t[1]
  BY <1>1, <1>4
<1> HIDE DEF k
<1>6. CASE r.remark
  <2>1. DOMAIN k = {1, 2, 3} /\ k[3] = c
    BY <1>4, <1>5, <1>6
  <2>2. Range(k) = {a, b, c}
    BY <1>5, <2>1 DEF Range
  <2> QED
    BY <1>2, <1>3, <1>5, <1>6, <2>2
<1>7. CASE ~r.remark
  <2>1. DOMAIN k = {1, 2}
    BY <1>4, <1>5, <1>7
  <2>2. Range(k) = {a, b}
    BY <1>5, <2>1 DEF Range
  <2> QED
    BY <1>2, <1>3, <1>5, <1>7, <2>2
<1> QED
  BY <1>6, <1>7

Dictionaries == UNION {[D -> SureReports] : D \in SUBSET OrderKeys}
SeenViews == [byKey : Dictionaries, byPrimary : Dictionaries]

GrewBy(g, f, D, r) ==
  /\ g \in Dictionaries /\ DOMAIN g = D \cup DOMAIN f
  /\ \A k \in D : g[k] = r
  /\ \A k \in DOMAIN f \ D : g[k] = f[k]

LEMMA DictionaryGrows ==
  ASSUME NEW f \in Dictionaries, NEW D \in SUBSET OrderKeys, NEW r \in SureReports
  PROVE  GrewBy(Put(f, D, r), f, D, r)
<1>1. PICK F \in SUBSET OrderKeys : f \in [F -> SureReports]
  BY DEF Dictionaries
<1>2. Put(f, D, r) = [k \in D \cup F |-> IF k \in D THEN r ELSE f[k]]
  BY <1>1 DEF Put
<1>3. Put(f, D, r) \in [D \cup F -> SureReports] /\ D \cup F \in SUBSET OrderKeys
  BY <1>1, <1>2
<1> QED
  BY <1>1, <1>2, <1>3 DEF Dictionaries, GrewBy

(* A callback that does not supersede the one known changes nothing.       *)
IsStale(v, r) == KnownKeys(v, r) # {} /\ ~Supersedes(r, RecordOf(v, r))
Grown(e, v, r) ==
  /\ DOMAIN e.byKey = Range(Keys(r)) \cup DOMAIN v.byKey
  /\ \A k \in Range(Keys(r)) : e.byKey[k] = r
  /\ \A k \in DOMAIN v.byKey \ Range(Keys(r)) : e.byKey[k] = v.byKey[k]
  /\ DOMAIN e.byPrimary = {Sure(r.order)} \cup DOMAIN v.byPrimary
  /\ e.byPrimary[Sure(r.order)] = r
  /\ \A k \in DOMAIN v.byPrimary \ {Sure(r.order)} : e.byPrimary[k] = v.byPrimary[k]

LEMMA Absorbs ==
  ASSUME NEW v \in SeenViews, NEW r \in SureReports
  PROVE  /\ Absorbed(v, r) \in SeenViews
         /\ IsStale(v, r) => Absorbed(v, r) = v
         /\ ~IsStale(v, r) => Grown(Absorbed(v, r), v, r)
<1> DEFINE D == Range(Keys(r))  P == {Sure(r.order)}
           f == v.byKey  g == v.byPrimary
           a == Put(f, D, r)  b == Put(g, P, r)
<1>1. Absorbed(v, r) = IF IsStale(v, r) THEN v ELSE [byKey |-> a, byPrimary |-> b]
  BY KeysAre DEF Absorbed, IsStale, KnownKeys
<1>2. f \in Dictionaries /\ g \in Dictionaries
  BY DEF SeenViews
<1>3. D \in SUBSET OrderKeys /\ P \in SUBSET OrderKeys
  BY KeysAre DEF OrderKeys, Sure, SureReports, OrderReports, Range
<1> HIDE DEF D, P
<1>4. GrewBy(a, f, D, r)
  <2> HIDE DEF f
  <2> QED
    BY <1>2, <1>3, DictionaryGrows
<1>5. GrewBy(b, g, P, r)
  <2> HIDE DEF g
  <2> QED
    BY <1>2, <1>3, DictionaryGrows
<1> HIDE DEF a, b
<1>6. [byKey |-> a, byPrimary |-> b] \in SeenViews
  BY <1>4, <1>5 DEF SeenViews, GrewBy
<1>7. Grown([byKey |-> a, byPrimary |-> b], v, r)
  BY <1>4, <1>5 DEF Grown, GrewBy, D, P
<1> QED
  BY <1>1, <1>6, <1>7

ViewRun(h) ==
  /\ h[0] = NothingSeen /\ h[Len(received)] = CallbackView
  /\ \A i \in 1..Len(received) : h[i] = Absorbed(h[i - 1], received[i])

LEMMA ViewFold ==
  ASSUME received \in Seq(SureReports)
  PROVE  \E h \in [0..Len(received) -> SeenViews] : ViewRun(h)
<1> DEFINE n == Len(received)
           start == NothingSeen
           Turn(v, i) == Absorbed(v, received[i])
           step == [p \in (1..n) \X SeenViews |-> Turn(p[2], p[1])]
           Unrolls(f) == f = [A \in SUBSET (1..n) |->
                  IF A = {} THEN start ELSE Turn(f[A \ {Max(A)}], Max(A))]
           g == CHOOSE f : Unrolls(f)
<1>1. n \in Nat /\ DOMAIN received = 1..n /\ \A i \in 1..n : received[i] \in SureReports
  OBVIOUS
<1>2. \A v \in SeenViews, i \in 1..n : Turn(v, i) \in SeenViews
  BY <1>1, Absorbs
<1>3. CallbackView = g[1..n]
  BY <1>1, Zenon DEF CallbackView, FoldLeft, MapThenFoldSet
<1>0. start \in SeenViews
  <2>1. [k \in {} |-> {}] \in [{} -> SureReports] /\ {} \in SUBSET OrderKeys
    OBVIOUS
  <2>2. [k \in {} |-> {}] \in Dictionaries
    BY <2>1 DEF Dictionaries
  <2> QED
    BY <2>2 DEF NothingSeen, SeenViews
<1> HIDE DEF Turn
<1>4. step \in [(1..n) \X SeenViews -> SeenViews]
  BY <1>2
<1>5. \A v \in SeenViews, i \in 1..n : step[<<i, v>>] = Turn(v, i)
  OBVIOUS
<1> HIDE DEF n, step, start
<1>6. PICK f \in [SUBSET (1..n) -> SeenViews] : Folds(f, n, start, step)
  BY <1>0, <1>1, <1>4, FoldingExists
<1>7. \A A \in SUBSET (1..n) : A # {} => Max(A) \in 1..n /\ A \ {Max(A)} \in SUBSET (1..n)
  BY <1>1, LargestPlace
<1>8. \A A \in SUBSET (1..n) : f[A] = IF A = {} THEN start ELSE Turn(f[A \ {Max(A)}], Max(A))
  BY <1>5, <1>6, <1>7 DEF Folds
<1>9. Unrolls(f)
  BY <1>6, <1>8
<1>10. Unrolls(g)
  <2> HIDE DEF Unrolls
  <2> QED
    BY <1>9
<1> HIDE DEF g
<1>11. g[{}] = start /\ \A A \in SUBSET (1..n) : A # {} => g[A] = Turn(g[A \ {Max(A)}], Max(A))
  BY <1>10
<1>12. Follows(g, n, SeenViews, start, step)
  BY <1>5, <1>7, <1>11 DEF Follows
<1>13. PICK h \in [0..n -> SeenViews] : StepsUp(h, g, n, start, step)
  BY <1>0, <1>1, <1>4, <1>12, FoldClimbs
<1>14. \A i \in 1..n : h[i] = Turn(h[i - 1], i)
  <2>1. \A i \in 1..n : i - 1 \in 0..n
    BY <1>1
  <2> QED
    BY <1>5, <1>13, <2>1 DEF StepsUp
<1> QED
  BY <1>3, <1>13, <1>14 DEF n, start, Turn, StepsUp, ViewRun

(* What the dictionaries hold after the first i callbacks: each order with *)
(* a callback under its system id, by one of the callbacks it had, none of *)
(* which ranks above.                                                      *)
WellSeen(v, i) ==
  /\ \A k \in DOMAIN v.byKey : v.byKey[k].order = k[1] /\ Sure(k[1]) \in DOMAIN v.byKey
  /\ DOMAIN v.byPrimary = {k \in DOMAIN v.byKey : k[2] = "sysid"}
  /\ \A k \in DOMAIN v.byPrimary : v.byPrimary[k] = v.byKey[k]
  /\ \A j \in 1..i :
       /\ Sure(received[j].order) \in DOMAIN v.byKey
       /\ Rank(received[j].status) <= Rank(v.byKey[Sure(received[j].order)].status)
  /\ \A o \in Watched : Sure(o) \in DOMAIN v.byKey =>
       \E j \in 1..i : received[j] = v.byKey[Sure(o)]

LEMMA OneMoreSeen ==
  ASSUME received \in Seq(SureReports), NEW i \in 1..Len(received),
         NEW v \in SeenViews, WellSeen(v, i - 1)
  PROVE  WellSeen(Absorbed(v, received[i]), i)
<1> DEFINE r == received[i]  e == Absorbed(v, r)  p == Sure(r.order)  keys == Range(Keys(r))
           known == KnownKeys(v, r)
           cur == RecordOf(v, r)
<1>1. /\ r \in SureReports /\ r.order \in Watched /\ r.status \in OrderStates
      /\ p \in keys /\ \A k \in keys : k[1] = r.order /\ (k[2] = "sysid" => k = p)
      /\ Keys(r)[1] = p /\ Keys(r) \in Seq(OrderKeys) /\ p[2] = "sysid" /\ p[1] = r.order
  <2>1. r \in SureReports
    OBVIOUS
  <2> HIDE DEF r
  <2> QED
    BY <2>1, KeysAre DEF SureReports, OrderReports, Sure
<1>2. \A j \in 1..i : j \in 1..(i - 1) \/ j = i
  OBVIOUS
<1>3. i \in 1..i /\ \A j \in 1..(i - 1) : j \in 1..i
  OBVIOUS
<1>4. DOMAIN v.byKey \in SUBSET OrderKeys /\ \A k \in DOMAIN v.byKey : v.byKey[k] \in SureReports
  BY DEF SeenViews, Dictionaries
<1>5. \A j \in 1..i : received[j] \in SureReports
  OBVIOUS
<1> HIDE DEF r
<1>9. e \in SeenViews /\ (IsStale(v, r) => e = v) /\ (~IsStale(v, r) => Grown(e, v, r))
  BY <1>1, Absorbs
<1> HIDE DEF e
<1>6. known # {} => p \in DOMAIN v.byKey /\ cur = v.byKey[p]
  <2>1. SUFFICES ASSUME known # {} PROVE p \in DOMAIN v.byKey /\ cur = v.byKey[p]
    OBVIOUS
  <2>2. PICK k \in known : TRUE
    BY <2>1
  <2>3. k[1] = r.order /\ k \in DOMAIN v.byKey
    BY <1>1, <2>2 DEF KnownKeys
  <2>4. p \in DOMAIN v.byKey
    BY <2>3 DEF WellSeen
  <2>5. p \in known /\ known \subseteq Range(Keys(r))
    BY <1>1, <2>4 DEF KnownKeys
  <2> HIDE DEF known
  <2>6. FirstKey(Keys(r), known) = p
    BY <1>1, <2>1, <2>5, FirstIsKnown
  <2> QED
    BY <2>4, <2>6 DEF known, RecordOf
<1>7. ASSUME IsStale(v, r) PROVE WellSeen(e, i)
  <2>1. e = v
    BY <1>7, <1>9
  <2>0. known # {} /\ ~Supersedes(r, cur)
    BY <1>7 DEF IsStale
  <2>2. p \in DOMAIN v.byKey /\ cur = v.byKey[p] /\ cur \in SureReports
    BY <1>4, <1>6, <2>0
  <2> HIDE DEF known, cur
  <2>3. Rank(r.status) <= Rank(cur.status)
    <3>1. cur.status \in OrderStates
      BY <2>2 DEF SureReports, OrderReports
    <3>2. Rank(r.status) \in Int /\ Rank(cur.status) \in Int
      BY <1>1, <3>1, RanksAreInt
    <3> QED
      BY <2>0, <3>2 DEF Supersedes
  <2>4. ASSUME NEW j \in 1..i
        PROVE  /\ Sure(received[j].order) \in DOMAIN v.byKey
               /\ Rank(received[j].status) <= Rank(v.byKey[Sure(received[j].order)].status)
    <3>1. CASE j = i
      BY <2>2, <2>3, <3>1 DEF r
    <3>2. CASE j # i
      <4>1. j \in 1..(i - 1)
        BY <1>2, <3>2
      <4> QED
        BY <4>1 DEF WellSeen
    <3> QED
      BY <3>1, <3>2
  <2>5. \A o \in Watched : Sure(o) \in DOMAIN v.byKey =>
          \E j \in 1..i : received[j] = v.byKey[Sure(o)]
    BY <1>3 DEF WellSeen
  <2> QED
    BY <2>1, <2>4, <2>5 DEF WellSeen
<1>8. ASSUME ~IsStale(v, r) PROVE WellSeen(e, i)
  <2>1. /\ DOMAIN e.byKey = keys \cup DOMAIN v.byKey
        /\ \A k \in keys : e.byKey[k] = r
        /\ \A k \in DOMAIN v.byKey \ keys : e.byKey[k] = v.byKey[k]
        /\ DOMAIN e.byPrimary = {p} \cup DOMAIN v.byPrimary
        /\ e.byPrimary[p] = r
        /\ \A k \in DOMAIN v.byPrimary \ {p} : e.byPrimary[k] = v.byPrimary[k]
    BY <1>8, <1>9 DEF Grown
  <2>0. known = {} \/ Supersedes(r, cur)
    BY <1>8 DEF IsStale
  <2>2. p \in DOMAIN v.byKey => known # {}
    BY <1>1 DEF KnownKeys
  <2> HIDE DEF known, cur
  <2>3. p \in DOMAIN v.byKey => Rank(v.byKey[p].status) <= Rank(r.status)
    <3>1. SUFFICES ASSUME p \in DOMAIN v.byKey PROVE Rank(v.byKey[p].status) <= Rank(r.status)
      OBVIOUS
    <3>2. Supersedes(r, v.byKey[p])
      BY <1>6, <2>0, <2>2, <3>1
    <3>3. v.byKey[p].status \in OrderStates
      BY <1>4, <3>1 DEF SureReports, OrderReports
    <3>4. Rank(r.status) \in Int /\ Rank(v.byKey[p].status) \in Int
      BY <1>1, <3>3, RanksAreInt
    <3> QED
      BY <3>2, <3>4 DEF Supersedes
  <2> HIDE DEF keys
  <2>4. \A k \in DOMAIN e.byKey : e.byKey[k].order = k[1] /\ Sure(k[1]) \in DOMAIN e.byKey
    BY <1>1, <2>1 DEF WellSeen
  <2>5. DOMAIN e.byPrimary = {k \in DOMAIN e.byKey : k[2] = "sysid"}
    BY <1>1, <2>1 DEF WellSeen
  <2>6. \A k \in DOMAIN e.byPrimary : e.byPrimary[k] = e.byKey[k]
    BY <1>1, <2>1 DEF WellSeen
  <2>7. ASSUME NEW j \in 1..i
        PROVE  /\ Sure(received[j].order) \in DOMAIN e.byKey
               /\ Rank(received[j].status) <= Rank(e.byKey[Sure(received[j].order)].status)
    <3> DEFINE u == received[j].order
    <3>0. received[j].status \in OrderStates
      BY <1>5 DEF SureReports, OrderReports
    <3>1. CASE j = i
      <4>1. received[j] = r /\ Sure(u) = p
        BY <3>1 DEF r
      <4>2. Rank(r.status) <= Rank(r.status)
        BY <1>1, RanksAreInt
      <4> QED
        BY <1>1, <2>1, <4>1, <4>2
    <3>2. CASE j # i
      <4>1. j \in 1..(i - 1)
        BY <1>2, <3>2
      <4>2. Sure(u) \in DOMAIN v.byKey /\ Rank(received[j].status) <= Rank(v.byKey[Sure(u)].status)
        BY <4>1 DEF WellSeen
      <4>3. CASE Sure(u) = p
        <5>1. v.byKey[p].status \in OrderStates
          BY <1>4, <4>2, <4>3 DEF SureReports, OrderReports
        <5>2. /\ Rank(received[j].status) \in Int /\ Rank(r.status) \in Int
              /\ Rank(v.byKey[p].status) \in Int
          BY <1>1, <3>0, <5>1, RanksAreInt
        <5>3. Rank(received[j].status) <= Rank(r.status)
          BY <2>3, <4>2, <4>3, <5>2
        <5> QED
          BY <1>1, <2>1, <4>3, <5>3
      <4>4. CASE Sure(u) # p
        <5>1. Sure(u) \notin keys
          BY <1>1, <4>4 DEF Sure
        <5> QED
          BY <2>1, <4>2, <5>1
      <4> QED
        BY <4>3, <4>4
    <3> QED
      BY <3>1, <3>2
  <2>8. ASSUME NEW o \in Watched, Sure(o) \in DOMAIN e.byKey
        PROVE  \E j \in 1..i : received[j] = e.byKey[Sure(o)]
    <3>1. CASE Sure(o) = p
      BY <1>1, <1>3, <2>1, <3>1 DEF r
    <3>2. CASE Sure(o) # p
      <4>1. Sure(o) \notin keys
        BY <1>1, <3>2 DEF Sure
      <4>2. Sure(o) \in DOMAIN v.byKey /\ e.byKey[Sure(o)] = v.byKey[Sure(o)]
        BY <2>1, <2>8, <4>1
      <4> QED
        BY <1>3, <4>2 DEF WellSeen
    <3> QED
      BY <3>1, <3>2
  <2> QED
    BY <2>4, <2>5, <2>6, <2>7, <2>8 DEF WellSeen
<1> QED
  BY <1>7, <1>8 DEF e, r

LEMMA ViewIsWellSeen ==
  ASSUME received \in Seq(SureReports)
  PROVE  CallbackView \in SeenViews /\ WellSeen(CallbackView, Len(received))
<1> DEFINE n == Len(received)
<1>1. n \in Nat
  OBVIOUS
<1>2. PICK h \in [0..n -> SeenViews] : ViewRun(h)
  BY ViewFold
<1>3. /\ h[0] = NothingSeen /\ h[n] = CallbackView
      /\ \A i \in 1..n : h[i] = Absorbed(h[i - 1], received[i])
  BY <1>2 DEF ViewRun
<1> DEFINE Held == {i \in 0..n : WellSeen(h[i], i)}
<1>4. 0 \in Held
  <2>1. WellSeen(NothingSeen, 0)
    BY DEF WellSeen, NothingSeen
  <2> QED
    BY <1>1, <1>3, <2>1
<1>5. ASSUME NEW i \in 1..n, i - 1 \in Held PROVE i \in Held
  <2>1. i \in 0..n /\ i - 1 \in 0..n /\ h[i - 1] \in SeenViews /\ WellSeen(h[i - 1], i - 1)
    BY <1>1, <1>5
  <2>2. h[i] = Absorbed(h[i - 1], received[i])
    BY <1>3
  <2>3. WellSeen(h[i], i)
    BY <2>1, <2>2, OneMoreSeen
  <2> QED
    BY <2>1, <2>3
<1> HIDE DEF n
<1>6. n \in Held
  <2> HIDE DEF Held
  <2>1. \A i \in 0..n : i \in Held
    BY <1>1, <1>4, <1>5, PlacesInduction
  <2> QED
    BY <1>1, <2>1
<1> QED
  BY <1>1, <1>2, <1>3, <1>6 DEF n

LEMMA KnownBySystemId ==
  ASSUME NEW v \in SeenViews, NEW i, WellSeen(v, i), NEW r \in SureReports
  PROVE  /\ KnownKeys(v, r) # {} <=> Sure(r.order) \in DOMAIN v.byKey
         /\ KnownKeys(v, r) # {} =>
              RecordOf(v, r) = v.byKey[Sure(r.order)]
<1> DEFINE p == Sure(r.order)  known == KnownKeys(v, r)
<1>1. /\ p \in Range(Keys(r)) /\ \A k \in Range(Keys(r)) : k[1] = r.order
      /\ Keys(r)[1] = p /\ Keys(r) \in Seq(OrderKeys)
  BY KeysAre DEF Sure
<1>2. p \in DOMAIN v.byKey => p \in known
  BY <1>1 DEF KnownKeys
<1>3. known # {} => p \in DOMAIN v.byKey
  BY <1>1 DEF KnownKeys, WellSeen
<1>4. known \subseteq Range(Keys(r))
  BY DEF KnownKeys
<1> HIDE DEF known
<1>5. ASSUME known # {} PROVE FirstKey(Keys(r), known) = p
  BY <1>1, <1>2, <1>3, <1>4, <1>5, FirstIsKnown
<1> QED
  BY <1>2, <1>3, <1>5 DEF known, RecordOf

(* The broker's orders, read with their system ids.                        *)
BrokerOrders == [status : OrderStates \cup {"none"}, ts : Int, sysid : BOOLEAN]
SureOrders == {q \in [Watched -> BrokerOrders] :
                 \A o \in Watched : q[o] # Unborn => q[o].sysid /\ q[o].status \in OrderStates}
KnownTo(v, o) == Sure(o) \in DOMAIN v.byKey
Hit(v, o) == v.byKey[Sure(o)]

LEMMA RowsAreReports ==
  ASSUME queried \in SureOrders, NEW o \in Listed
  PROVE  o \in Watched /\ Row(o) \in SureReports /\ Row(o).order = o
<1>1. o \in Watched /\ queried[o] \in BrokerOrders /\ queried[o].sysid
      /\ queried[o].status \in OrderStates
  BY DEF Listed, SureOrders
<1> QED
  BY <1>1 DEF Row, BrokerOrders, SureReports, OrderReports

LEMMA HitsAre ==
  ASSUME NEW v \in SeenViews, NEW i, WellSeen(v, i), NEW o, KnownTo(v, o)
  PROVE  Hit(v, o) \in SureReports /\ Hit(v, o).order = o
<1>1. Sure(o) \in DOMAIN v.byKey /\ Sure(o)[1] = o
  BY DEF KnownTo, Sure
<1>2. v.byKey[Sure(o)] \in SureReports
  BY <1>1 DEF SeenViews, Dictionaries
<1>3. v.byKey[Sure(o)].order = o
  BY <1>1 DEF WellSeen
<1> QED
  BY <1>2, <1>3 DEF Hit

LEMMA MergedIs ==
  ASSUME queried \in SureOrders, NEW o \in Listed,
         NEW v \in SeenViews, NEW i, WellSeen(v, i)
  PROVE  /\ MergedRow(v, o) =
              IF ~KnownTo(v, o) \/ PrefersQuery(Row(o), Hit(v, o)) THEN Row(o) ELSE Hit(v, o)
         /\ MergedRow(v, o) \in SureReports /\ MergedRow(v, o).order = o
         /\ Primary(MergedRow(v, o)) = Sure(o)
<1> DEFINE r == Row(o)
<1>1. r \in SureReports /\ r.order = o
  BY RowsAreReports
<1>2. MergedRow(v, o) =
        IF KnownKeys(v, r) = {} \/ PrefersQuery(r, RecordOf(v, r))
        THEN r ELSE RecordOf(v, r)
  BY DEF MergedRow, KnownKeys
<1> HIDE DEF r
<1>3. /\ KnownKeys(v, r) # {} <=> KnownTo(v, o)
      /\ KnownKeys(v, r) # {} => RecordOf(v, r) = Hit(v, o)
  BY <1>1, KnownBySystemId DEF KnownTo, Hit
<1>4. MergedRow(v, o) = IF ~KnownTo(v, o) \/ PrefersQuery(r, Hit(v, o)) THEN r ELSE Hit(v, o)
  BY <1>2, <1>3
<1>5. MergedRow(v, o) \in SureReports /\ MergedRow(v, o).order = o
  BY <1>1, <1>4, HitsAre
<1>6. Primary(MergedRow(v, o)) = Sure(o)
  BY <1>5, KeysAre
<1> QED
  BY <1>4, <1>5, <1>6 DEF r

(* A key of the callbacks' dictionaries is consumed, or emitted, only by   *)
(* an order of the query, and every order of the query consumes its own.   *)
LEMMA ConsumedAre ==
  ASSUME queried \in SureOrders, NEW v \in SeenViews, NEW i, WellSeen(v, i)
  PROVE  /\ \A k \in Consumed(v) : \E o \in Listed : k = Sure(o)
         /\ \A o \in Listed : KnownTo(v, o) => Sure(o) \in Consumed(v)
<1>1. ASSUME NEW o \in Listed
      PROVE  /\ KnownKeys(v, Row(o)) # {} <=> KnownTo(v, o)
             /\ KnownTo(v, o) => Primary(RecordOf(v, Row(o))) = Sure(o)
  <2> DEFINE r == Row(o)
  <2>1. r \in SureReports /\ r.order = o
    BY RowsAreReports
  <2> HIDE DEF r
  <2>2. /\ KnownKeys(v, r) # {} <=> KnownTo(v, o)
        /\ KnownTo(v, o) => RecordOf(v, r) = Hit(v, o)
    BY <2>1, KnownBySystemId DEF KnownTo, Hit
  <2>3. KnownTo(v, o) => Primary(Hit(v, o)) = Sure(o)
    BY HitsAre, KeysAre
  <2> QED
    BY <2>2, <2>3 DEF r
<1> QED
  BY <1>1 DEF Consumed

(* The rows of an order: of the query, or the callbacks' own.              *)
Merged(o) == MergedRow(CallbackView, o)

LEMMA RowsAre ==
  ASSUME received \in Seq(SureReports), queried \in SureOrders, NEW o \in Watched
  PROVE  RowsOf(o) =
           IF o \in Listed
           THEN IF Merged(o) = Row(o) \/ ~IsTerminal(Merged(o).status)
                THEN {<<"query", Merged(o)>>} ELSE {}
           ELSE IF KnownTo(CallbackView, o) /\ ~IsTerminal(Hit(CallbackView, o).status)
                THEN {<<"callbacks", Hit(CallbackView, o)>>} ELSE {}
<1> DEFINE v == CallbackView  n == Len(received)
           listed == {u \in Listed : LET r == MergedRow(v, u) IN r = Row(u) \/ ~IsTerminal(r.status)}
           emitted == {Primary(MergedRow(v, u)) : u \in listed}
           extra == {k \in DOMAIN v.byPrimary \ (Consumed(v) \cup emitted) :
                       ~IsTerminal(v.byPrimary[k].status)}
           rows == {<<"query", MergedRow(v, u)>> : u \in listed}
                     \cup {<<"callbacks", v.byPrimary[k]>> : k \in extra}
<1>1. RowsOf(o) = {r \in rows : r[2].order = o}
  BY DEF RowsOf, Snapshot
<1>2. v \in SeenViews /\ WellSeen(v, n)
  BY ViewIsWellSeen
<1> HIDE DEF v, n
<1>3. \A u \in Listed : MergedRow(v, u).order = u /\ Primary(MergedRow(v, u)) = Sure(u)
  BY <1>2, MergedIs
<1>4. \A k \in DOMAIN v.byPrimary : v.byPrimary[k] = v.byKey[k] /\ v.byKey[k].order = k[1]
        /\ k[2] = "sysid" /\ k \in OrderKeys /\ k \in DOMAIN v.byKey
  BY <1>2 DEF WellSeen, SeenViews, Dictionaries
<1>5. \A k \in DOMAIN v.byPrimary : k = Sure(k[1])
  BY <1>4 DEF OrderKeys, Sure
<1>6. KnownTo(v, o) <=> Sure(o) \in DOMAIN v.byPrimary
  BY <1>2 DEF WellSeen, KnownTo, Sure
<1>7. /\ \A k \in Consumed(v) : \E u \in Listed : k = Sure(u)
      /\ \A u \in Listed : KnownTo(v, u) => Sure(u) \in Consumed(v)
  BY <1>2, ConsumedAre
<1>8. \A k \in emitted : \E u \in Listed : k = Sure(u)
  BY <1>3
<1>9. \A u, w : Sure(u) = Sure(w) => u = w
  BY DEF Sure
<1>10. CASE o \in Listed
  <2>1. ASSUME NEW k \in extra PROVE v.byPrimary[k].order # o
    <3>1. SUFFICES ASSUME v.byPrimary[k].order = o PROVE FALSE
      OBVIOUS
    <3>2. k = Sure(o)
      BY <1>4, <1>5, <3>1
    <3> QED
      BY <1>6, <1>7, <1>10, <3>2
  <2>2. \A r : r \in rows /\ r[2].order = o <=> o \in listed /\ r = <<"query", MergedRow(v, o)>>
    BY <1>3, <2>1
  <2> QED
    BY <1>1, <1>10, <2>2 DEF v, Merged
<1>11. CASE o \notin Listed
  <2>1. ASSUME NEW u \in listed PROVE MergedRow(v, u).order # o
    BY <1>3, <1>11
  <2>2. Sure(o) \notin Consumed(v) \cup emitted
    BY <1>7, <1>8, <1>9, <1>11
  <2>3. ASSUME NEW k \in extra, v.byPrimary[k].order = o
        PROVE  k = Sure(o)
    BY <1>4, <1>5, <2>3
  <2>4. Sure(o) \in extra <=> KnownTo(v, o) /\ ~IsTerminal(Hit(v, o).status)
    BY <1>4, <1>6, <2>2 DEF Hit
  <2>5. Sure(o) \in extra => v.byPrimary[Sure(o)] = Hit(v, o) /\ Hit(v, o).order = o
    BY <1>4 DEF Hit, Sure
  <2> HIDE DEF extra, listed
  <2>6. \A r : r \in rows /\ r[2].order = o <=> Sure(o) \in extra /\ r = <<"callbacks", Hit(v, o)>>
    BY <2>1, <2>3, <2>5
  <2> QED
    BY <1>1, <1>11, <2>4, <2>6 DEF v, Merged
<1> QED
  BY <1>10, <1>11

Seen == flight \cup Range(received)

(* What a reader knows of an order is behind the broker, and once it says  *)
(* the order is over nothing newer can come.                               *)
BehindTruth(x, o) ==
  /\ x.ts <= truth[o].ts
  /\ IsTerminal(x.status) => IsTerminal(truth[o].status) /\ x.ts = truth[o].ts

BrokerTypes ==
  /\ clock \in Int /\ truth \in SureOrders /\ queried \in SureOrders
  /\ flight \in SUBSET SureReports /\ received \in Seq(SureReports)

ReadersAreBehind ==
  /\ \A o \in Watched : truth[o].ts <= clock
  /\ \A r \in flight : BehindTruth(r, r.order)
  /\ \A i \in DOMAIN received : BehindTruth(received[i], received[i].order)
  /\ \A o \in Watched : BehindTruth(queried[o], o)

BrokerInv == BrokerTypes /\ ReadersAreBehind

LEMMA OneRow == \A x : Cardinality({x}) = 1
  BY FS_Singleton

LEMMA HitsAreBehind ==
  ASSUME BrokerInv, NEW o \in Watched, KnownTo(CallbackView, o)
  PROVE  /\ Hit(CallbackView, o) \in ReceivedOf(o) /\ Hit(CallbackView, o) \in SureReports
         /\ Hit(CallbackView, o).order = o /\ BehindTruth(Hit(CallbackView, o), o)
<1> DEFINE v == CallbackView  h == Hit(v, o)
<1>1. v \in SeenViews /\ WellSeen(v, Len(received))
  BY ViewIsWellSeen DEF BrokerInv, BrokerTypes
<1> HIDE DEF v
<1>2. h \in SureReports /\ h.order = o
  BY <1>1, HitsAre DEF v
<1>3. PICK j \in 1..Len(received) : received[j] = h
  BY <1>1 DEF WellSeen, Hit, KnownTo, v
<1> HIDE DEF h
<1>4. j \in DOMAIN received
  BY DEF BrokerInv, BrokerTypes
<1> QED
  BY <1>2, <1>3, <1>4 DEF ReceivedOf, BrokerInv, ReadersAreBehind, h, v

LEMMA ReceivedIsKnown ==
  ASSUME BrokerInv, NEW o \in Watched, NEW r \in ReceivedOf(o)
  PROVE  /\ KnownTo(CallbackView, o) /\ r \in SureReports
         /\ Rank(r.status) <= Rank(Hit(CallbackView, o).status)
<1>1. WellSeen(CallbackView, Len(received)) /\ received \in Seq(SureReports)
  BY ViewIsWellSeen DEF BrokerInv, BrokerTypes
<1>2. PICK j \in DOMAIN received : received[j].order = o /\ received[j] = r
  BY DEF ReceivedOf
<1>3. j \in 1..Len(received) /\ received[j] \in SureReports
  BY <1>1
<1> QED
  BY <1>1, <1>2, <1>3 DEF WellSeen, KnownTo, Hit

LEMMA FinalIsNotShownOpen == BrokerInv => FinalOrdersNotShownOpen
<1> SUFFICES ASSUME BrokerInv, NEW o \in Watched, KnownFinal(o), NEW r \in RowsOf(o)
             PROVE  IsTerminal(r[2].status)
  BY DEF FinalOrdersNotShownOpen
<1> DEFINE h == Hit(CallbackView, o)  q == Row(o)
<1>1. received \in Seq(SureReports) /\ queried \in SureOrders
  BY DEF BrokerInv, BrokerTypes
<1>2. RowsOf(o) =
        IF o \in Listed
        THEN IF Merged(o) = q \/ ~IsTerminal(Merged(o).status) THEN {<<"query", Merged(o)>>} ELSE {}
        ELSE IF KnownTo(CallbackView, o) /\ ~IsTerminal(h.status) THEN {<<"callbacks", h>>} ELSE {}
  BY <1>1, RowsAre
<1>3. KnownTo(CallbackView, o) =>
        h \in SureReports /\ h.status \in OrderStates /\ BehindTruth(h, o)
  BY HitsAreBehind DEF SureReports, OrderReports
<1>4. BehindTruth(queried[o], o) /\ truth[o].ts \in Int
  BY DEF BrokerInv, ReadersAreBehind, BrokerTypes, SureOrders, BrokerOrders
<1>5. o \in Listed => Merged(o) =
        IF ~KnownTo(CallbackView, o) \/ PrefersQuery(q, h) THEN q ELSE h
  BY <1>1, ViewIsWellSeen, MergedIs DEF Merged
<1>6. q.ts = queried[o].ts /\ q.status = queried[o].status
  BY DEF Row
<1>7. o \in Listed => q \in SureReports /\ q.ts \in Int /\ q.status \in OrderStates
  BY <1>1, RowsAreReports DEF SureReports, OrderReports
<1>8. KnownTo(CallbackView, o) => h.ts \in Int
  BY <1>3 DEF SureReports, OrderReports
<1>9. IsTerminal(queried[o].status) => o \in Listed
  BY StateRanks DEF Listed, Unborn
<1>10. ASSUME ~IsTerminal(queried[o].status)
       PROVE  KnownTo(CallbackView, o) /\ IsTerminal(h.status)
  <2>1. PICK x \in ReceivedOf(o) : IsTerminal(x.status)
    BY <1>10 DEF KnownFinal
  <2>2. KnownTo(CallbackView, o) /\ x \in SureReports /\ Rank(x.status) <= Rank(h.status)
    BY ReceivedIsKnown
  <2>3. x.status \in OrderStates /\ h.status \in OrderStates
    BY <1>3, <2>2 DEF SureReports, OrderReports
  <2>4. Rank(x.status) = 30 /\ Rank(h.status) \in 1..30
    BY <2>1, <2>3, StateRanks
  <2>5. Rank(h.status) = 30
    BY <2>2, <2>4
  <2> QED
    BY <2>2, <2>3, <2>5, StateRanks
<1> HIDE DEF h, q
<1>11. CASE IsTerminal(queried[o].status)
  <2>1. r = <<"query", Merged(o)>>
    BY <1>2, <1>9, <1>11
  <2>2. CASE Merged(o) = q
    BY <1>6, <1>11, <2>1, <2>2
  <2>3. CASE Merged(o) # q
    <3>1. KnownTo(CallbackView, o) /\ ~PrefersQuery(q, h) /\ Merged(o) = h
      BY <1>5, <1>9, <1>11, <2>3
    <3>2. q.ts = truth[o].ts /\ h.ts <= truth[o].ts
      BY <1>3, <1>4, <1>6, <1>11, <3>1 DEF BehindTruth
    <3>3. q.ts \in Int /\ h.ts \in Int /\ q.status \in OrderStates /\ h.status \in OrderStates
      BY <1>3, <1>7, <1>8, <1>9, <1>11, <3>1
    <3>4. Rank(q.status) = 30 /\ Rank(h.status) \in 1..30
      BY <1>6, <1>11, <3>3, StateRanks
    <3>5. Rank(h.status) = 30
      BY <1>4, <3>1, <3>2, <3>3, <3>4 DEF PrefersQuery
    <3>6. IsTerminal(h.status)
      BY <3>3, <3>5, StateRanks
    <3> QED
      BY <2>1, <3>1, <3>6
  <2> QED
    BY <2>2, <2>3
<1>12. CASE ~IsTerminal(queried[o].status)
  <2>0. KnownTo(CallbackView, o) /\ IsTerminal(h.status)
    BY <1>10, <1>12 DEF h
  <2>1. o \in Listed /\ r = <<"query", Merged(o)>>
    BY <1>2, <2>0
  <2>2. ~PrefersQuery(q, h)
    <3>1. h.ts = truth[o].ts /\ q.ts <= truth[o].ts
      BY <1>3, <1>4, <1>6, <2>0 DEF BehindTruth
    <3>2. q.ts \in Int /\ h.ts \in Int /\ q.status \in OrderStates /\ h.status \in OrderStates
      BY <1>3, <1>7, <1>8, <2>0, <2>1
    <3>3. Rank(h.status) = 30 /\ Rank(q.status) \in 1..30
      BY <2>0, <3>2, StateRanks
    <3> QED
      BY <1>4, <3>1, <3>2, <3>3 DEF PrefersQuery
  <2>3. Merged(o) = h
    BY <1>5, <2>0, <2>1, <2>2
  <2> QED
    BY <2>0, <2>1, <2>3
<1> QED
  BY <1>11, <1>12

LEMMA OpenIsShownOnce == BrokerInv => OpenOrdersShownOnce
<1> SUFFICES ASSUME BrokerInv, NEW o \in Watched, o \in Listed \/ ReceivedOf(o) # {}, ~KnownFinal(o)
             PROVE  Cardinality(RowsOf(o)) = 1
  BY DEF OpenOrdersShownOnce
<1> DEFINE h == Hit(CallbackView, o)  q == Row(o)
<1>1. received \in Seq(SureReports) /\ queried \in SureOrders
  BY DEF BrokerInv, BrokerTypes
<1>2. RowsOf(o) =
        IF o \in Listed
        THEN IF Merged(o) = q \/ ~IsTerminal(Merged(o).status) THEN {<<"query", Merged(o)>>} ELSE {}
        ELSE IF KnownTo(CallbackView, o) /\ ~IsTerminal(h.status) THEN {<<"callbacks", h>>} ELSE {}
  BY <1>1, RowsAre
<1>3. KnownTo(CallbackView, o) => ~IsTerminal(h.status)
  BY HitsAreBehind DEF KnownFinal
<1>4. o \in Listed => Merged(o) = q \/ (KnownTo(CallbackView, o) /\ Merged(o) = h)
  BY <1>1, ViewIsWellSeen, MergedIs DEF Merged
<1>5. ReceivedOf(o) # {} => KnownTo(CallbackView, o)
  BY ReceivedIsKnown
<1> HIDE DEF h, q
<1>6. \E x : RowsOf(o) = {x}
  BY <1>2, <1>3, <1>4, <1>5
<1> QED
  BY <1>6, OneRow

Kinds == {"remark", "sysid", "id", "seq"}
Tags == Watched \X Kinds
Facts == [ack : BOOLEAN, last : Int, final : BOOLEAN]
ClosureMaps == UNION {[D -> Facts] : D \in SUBSET Tags}
AliasMaps == UNION {[D -> Tags] : D \in SUBSET Tags}

(* What a closure records of an order, the callbacks received tell.        *)
Backed(o, f, s) ==
  /\ f.final => \E i \in DOMAIN s : s[i].order = o /\ IsTerminal(s[i].status)
  /\ f.last # NoTime => \E i \in DOMAIN s : s[i].order = o /\ s[i].ts = f.last

ClosureInv ==
  /\ clock \in Int /\ flight \in SUBSET OrderReports /\ received \in Seq(OrderReports)
  /\ closures \in ClosureMaps /\ aliases \in AliasMaps
  /\ \A t \in DOMAIN aliases : aliases[t][1] = t[1]
  /\ \A t \in DOMAIN closures : Backed(t[1], closures[t], received)
  /\ \A o \in acked : \E t \in DOMAIN closures : t[1] = o /\ closures[t].ack

(* One more fact of an order goes to one closure of that order.            *)
RecordedAs(o, fact) ==
  /\ closures' \in ClosureMaps /\ aliases' \in AliasMaps
  /\ \A t \in DOMAIN aliases' : aliases'[t][1] = t[1]
  /\ \A t \in DOMAIN closures' :
       \/ t \in DOMAIN closures /\ closures'[t] = closures[t]
       \/ t[1] = o /\ closures'[t] = fact
       \/ t[1] = o /\ t \in DOMAIN closures /\ closures'[t] = Together(closures[t], fact)
  /\ \A t \in DOMAIN closures : t \in DOMAIN closures' /\ (closures[t].ack => closures'[t].ack)
  /\ \E t \in DOMAIN closures' : t[1] = o /\ (fact.ack => closures'[t].ack)

LEMMA ClosuresAreOfTheOrder ==
  ASSUME NEW o \in Watched, NEW tokens \in Seq(Tags), tokens # <<>>,
         \A i \in DOMAIN tokens : tokens[i][1] = o,
         closures \in ClosureMaps, aliases \in AliasMaps,
         \A t \in DOMAIN aliases : aliases[t][1] = t[1]
  PROVE  Closure(tokens) \in Tags /\ Closure(tokens)[1] = o
<1> DEFINE known == Range(tokens) \cap (DOMAIN closures \cup DOMAIN aliases)
           token == FirstKey(tokens, known)
<1>1. Closure(tokens) = IF known = {} THEN tokens[1]
                        ELSE IF token \in DOMAIN closures THEN token ELSE aliases[token]
  BY DEF Closure
<1>2. 1 \in DOMAIN tokens /\ tokens[1] \in Tags /\ tokens[1][1] = o
  OBVIOUS
<1>3. \A k \in Range(tokens) : k \in Tags /\ k[1] = o
  BY DEF Range
<1>4. known \subseteq Range(tokens) /\ known \subseteq DOMAIN closures \cup DOMAIN aliases
  OBVIOUS
<1> HIDE DEF known
<1>5. known # {} => token \in known
  BY <1>4, FirstIsKnown
<1>6. \A t \in DOMAIN aliases : aliases[t] \in Tags
  BY DEF AliasMaps
<1> QED
  BY <1>1, <1>2, <1>3, <1>4, <1>5, <1>6

LEMMA TogetherIsAFact ==
  ASSUME NEW a \in Facts, NEW b \in Facts
  PROVE  Together(a, b) \in Facts /\ (a.ack \/ b.ack => Together(a, b).ack)
  BY DEF Facts, Together, Fact, Newer

LEMMA Records ==
  ASSUME NEW o \in Watched, NEW tokens \in Seq(Tags), tokens # <<>>,
         \A i \in DOMAIN tokens : tokens[i][1] = o, NEW fact \in Facts,
         closures \in ClosureMaps, aliases \in AliasMaps,
         \A t \in DOMAIN aliases : aliases[t][1] = t[1],
         Record(tokens, fact)
  PROVE  RecordedAs(o, fact)
<1> DEFINE c == Closure(tokens)
           x == IF c \in DOMAIN closures THEN Together(closures[c], fact) ELSE fact
           K == Range(tokens) \ {c}
<1>1. c \in Tags /\ c[1] = o
  BY ClosuresAreOfTheOrder
<1>2. closures' = Put(closures, {c}, x) /\ aliases' = Put(aliases, K, c)
  BY DEF Record
<1>3. \A k \in K : k \in Tags /\ k[1] = o
  BY DEF Range
<1> HIDE DEF c, K
<1>4. PICK D \in SUBSET Tags : closures \in [D -> Facts]
  BY DEF ClosureMaps
<1>5. PICK A \in SUBSET Tags : aliases \in [A -> Tags]
  BY DEF AliasMaps
<1>6. x \in Facts /\ (fact.ack => x.ack) /\ (c \in DOMAIN closures => (closures[c].ack => x.ack))
  BY <1>4, TogetherIsAFact
<1>7. c \in DOMAIN closures => x = Together(closures[c], fact)
  OBVIOUS
<1>8. c \notin DOMAIN closures => x = fact
  OBVIOUS
<1> HIDE DEF x
<1>9. closures' = [k \in {c} \cup D |-> IF k = c THEN x ELSE closures[k]]
  BY <1>2, <1>4 DEF Put
<1>10. aliases' = [k \in K \cup A |-> IF k \in K THEN c ELSE aliases[k]]
  BY <1>2, <1>5 DEF Put
<1>11. closures' \in [{c} \cup D -> Facts] /\ {c} \cup D \in SUBSET Tags
  BY <1>1, <1>4, <1>6, <1>9
<1>12. aliases' \in [K \cup A -> Tags] /\ K \cup A \in SUBSET Tags
  BY <1>1, <1>3, <1>5, <1>10
<1>13. \A t \in DOMAIN aliases' : aliases'[t][1] = t[1]
  BY <1>1, <1>3, <1>5, <1>10
<1>14. \A t \in DOMAIN closures' : t = c \/ (t \in DOMAIN closures /\ closures'[t] = closures[t])
  BY <1>4, <1>9
<1>15. c \in DOMAIN closures' /\ closures'[c] = x
  BY <1>9
<1>16. \A t \in DOMAIN closures : t \in DOMAIN closures' /\ (closures[t].ack => closures'[t].ack)
  BY <1>4, <1>6, <1>9
<1>17. closures' \in ClosureMaps /\ aliases' \in AliasMaps
  BY <1>11, <1>12 DEF ClosureMaps, AliasMaps
<1>18. \A t \in DOMAIN closures' :
         \/ t \in DOMAIN closures /\ closures'[t] = closures[t]
         \/ t[1] = o /\ closures'[t] = fact
         \/ t[1] = o /\ t \in DOMAIN closures /\ closures'[t] = Together(closures[t], fact)
  BY <1>1, <1>7, <1>8, <1>14, <1>15
<1>19. \E t \in DOMAIN closures' : t[1] = o /\ (fact.ack => closures'[t].ack)
  BY <1>1, <1>6, <1>15
<1> QED
  BY <1>13, <1>16, <1>17, <1>18, <1>19 DEF RecordedAs

LEMMA BackedTogether ==
  ASSUME NEW o, NEW a \in Facts, NEW b \in Facts, NEW s,
         Backed(o, a, s), Backed(o, b, s)
  PROVE  Backed(o, Together(a, b), s)
<1>1. Together(a, b).final => a.final \/ b.final
  BY DEF Together, Fact, Facts
<1>2. Together(a, b).last = a.last \/ Together(a, b).last = b.last
  BY DEF Together, Fact, Newer
<1> QED
  BY <1>1, <1>2 DEF Backed

LEMMA TokensAre ==
  ASSUME NEW o \in Watched, NEW kinds \in Seq(Kinds), Len(kinds) >= 1
  PROVE  /\ Tokens(o, kinds) \in Seq(Tags) /\ Tokens(o, kinds) # <<>>
         /\ \A i \in DOMAIN Tokens(o, kinds) : Tokens(o, kinds)[i][1] = o
<1>1. Tokens(o, kinds) = [i \in 1..Len(kinds) |-> <<o, kinds[i]>>]
  BY DEF Tokens
<1>2. \A i \in 1..Len(kinds) : <<o, kinds[i]>> \in Tags
  BY DEF Tags
<1>3. /\ Tokens(o, kinds) \in Seq(Tags) /\ DOMAIN Tokens(o, kinds) = 1..Len(kinds)
      /\ 1 \in DOMAIN Tokens(o, kinds)
  BY <1>1, <1>2
<1> QED
  BY <1>1, <1>3

LEMMA FlowIsOfStates == \A s : StatusFlow(s) \subseteq OrderStates
  BY DEF StatusFlow, OrderStates

LEMMA RecordKeeps ==
  ASSUME ClosureInv, NEW o \in Watched, NEW fact \in Facts, RecordedAs(o, fact),
         clock' = clock, flight' \subseteq flight,
         received' \in Seq(OrderReports), NEW more \in SUBSET {o}, acked' = acked \cup more,
         more # {} => fact.ack,
         \A i \in DOMAIN received : i \in DOMAIN received' /\ received'[i] = received[i],
         Backed(o, fact, received')
  PROVE  ClosureInv'
<1>1. \A t \in DOMAIN closures : closures[t] \in Facts
  BY DEF ClosureInv, ClosureMaps
<1>2. ASSUME NEW t \in DOMAIN closures PROVE Backed(t[1], closures[t], received')
  BY DEF ClosureInv, Backed
<1>3. ASSUME NEW t \in DOMAIN closures' PROVE Backed(t[1], closures'[t], received')
  <2>1. CASE t \in DOMAIN closures /\ closures'[t] = closures[t]
    BY <1>2, <2>1
  <2>2. CASE t[1] = o /\ closures'[t] = fact
    BY <2>2
  <2>3. CASE t[1] = o /\ t \in DOMAIN closures /\ closures'[t] = Together(closures[t], fact)
    BY <1>1, <1>2, <2>3, BackedTogether
  <2> QED
    BY <2>1, <2>2, <2>3 DEF RecordedAs
<1>4. ASSUME NEW u \in acked' PROVE \E t \in DOMAIN closures' : t[1] = u /\ closures'[t].ack
  <2>1. CASE u \in acked
    BY <2>1 DEF ClosureInv, RecordedAs
  <2>2. CASE u \notin acked
    BY <2>2 DEF RecordedAs
  <2> QED
    BY <2>1, <2>2
<1>5. clock' \in Int /\ flight' \in SUBSET OrderReports
  BY DEF ClosureInv
<1> QED
  BY <1>3, <1>4, <1>5 DEF ClosureInv, RecordedAs

LEMMA ClosureInit == ViewsInit => ClosureInv
<1> SUFFICES ASSUME ViewsInit PROVE ClosureInv
  OBVIOUS
<1>1. closures \in [{} -> Facts] /\ aliases \in [{} -> Tags] /\ {} \in SUBSET Tags
  BY DEF ViewsInit
<1>2. closures \in ClosureMaps /\ aliases \in AliasMaps
  BY <1>1 DEF ClosureMaps, AliasMaps
<1> QED
  BY <1>2 DEF ViewsInit, ClosureInv

LEMMA ClosureStep == ClosureInv /\ [ViewsNext]_viewVars => ClosureInv'
<1> SUFFICES ASSUME ClosureInv, [ViewsNext]_viewVars PROVE ClosureInv'
  OBVIOUS
<1>1. ASSUME ClockTicks \/ QueryOrders \/ UNCHANGED viewVars PROVE ClosureInv'
  <2>1. clock' \in Int
    BY <1>1 DEF ClockTicks, QueryOrders, viewVars, ClosureInv
  <2> QED
    BY <1>1, <2>1 DEF ClockTicks, QueryOrders, viewVars, ClosureInv
<1>2. ASSUME NEW o \in Watched, NEW s \in OrderStates, NEW t \in NextTimes, BrokerReports(o, t, s)
      PROVE  ClosureInv'
  <2>1. t \in Int
    BY DEF NextTimes, ClosureInv
  <2>2. clock' = t /\ UNCHANGED <<received, closures, aliases, acked>>
    BY <1>2 DEF BrokerReports
  <2>3. flight' \in SUBSET OrderReports
    <3>1. PICK sysid \in BOOLEAN, remark \in BOOLEAN :
            flight' = flight \cup {[order |-> o, status |-> s, ts |-> t, sysid |-> sysid,
                                    remark |-> remark]}
      BY <1>2 DEF BrokerReports
    <3>2. [order |-> o, status |-> s, ts |-> t, sysid |-> sysid, remark |-> remark] \in OrderReports
      BY <2>1 DEF OrderReports
    <3> QED
      BY <3>1, <3>2 DEF ClosureInv
  <2> QED
    BY <2>1, <2>2, <2>3 DEF ClosureInv
<1>3. ASSUME NEW o \in Watched, Accept(o) \/ Advance(o) PROVE ClosureInv'
  <2>1. "reported" \in OrderStates
    BY DEF OrderStates
  <2> QED
    BY <1>2, <1>3, <2>1, FlowIsOfStates DEF Accept, Advance
<1>4. ASSUME NEW o \in Watched, OnSubmitAck(o) PROVE ClosureInv'
  <2> DEFINE tokens == Tokens(o, <<"remark", "seq">>)  fact == Fact(TRUE, NoTime, FALSE)
  <2>1. tokens \in Seq(Tags) /\ tokens # <<>> /\ \A i \in DOMAIN tokens : tokens[i][1] = o
    <3> DEFINE kinds == <<"remark", "seq">>
    <3>1. kinds \in Seq(Kinds) /\ Len(kinds) >= 1
      BY DEF Kinds
    <3> HIDE DEF kinds
    <3>2. Tokens(o, kinds) \in Seq(Tags) /\ Tokens(o, kinds) # <<>>
          /\ \A i \in DOMAIN Tokens(o, kinds) : Tokens(o, kinds)[i][1] = o
      BY <3>1, TokensAre
    <3> QED
      BY <3>2 DEF kinds
  <2>2. fact \in Facts /\ Backed(o, fact, received') /\ fact.ack
    BY DEF Fact, Facts, NoTime, Backed
  <2>3. Record(tokens, fact) /\ UNCHANGED <<clock, flight, received>> /\ acked' = acked \cup {o}
    BY <1>4 DEF OnSubmitAck
  <2> HIDE DEF tokens, fact
  <2>4. RecordedAs(o, fact)
    BY <2>1, <2>2, <2>3, Records DEF ClosureInv
  <2>5. received' \in Seq(OrderReports)
    BY <2>3 DEF ClosureInv
  <2>6. {o} \in SUBSET {o} /\ clock' = clock /\ flight' \subseteq flight
        /\ \A i \in DOMAIN received : i \in DOMAIN received' /\ received'[i] = received[i]
    BY <2>3
  <2> QED
    BY <2>2, <2>3, <2>4, <2>5, <2>6, RecordKeeps
<1>5. ASSUME NEW r \in flight, Lose(r) PROVE ClosureInv'
  BY <1>5 DEF Lose, ClosureInv
<1>6. ASSUME NEW r \in flight, OnStockOrder(r) PROVE ClosureInv'
  <2> DEFINE o == r.order  fact == Fact(FALSE, r.ts, IsTerminal(r.status))
             kinds == (IF r.remark THEN <<"remark">> ELSE <<>>)
                        \o (IF r.sysid THEN <<"sysid">> ELSE <<>>) \o <<"id">>
             tokens == Tokens(o, kinds)
  <2>0. r \in OrderReports /\ o \in Watched /\ r.remark \in BOOLEAN /\ r.sysid \in BOOLEAN
        /\ r.ts \in Int
    BY DEF ClosureInv, OrderReports
  <2>1. kinds \in Seq(Kinds) /\ Len(kinds) >= 1
    <3>1. CASE r.remark /\ r.sysid
      BY <3>1 DEF Kinds
    <3>2. CASE r.remark /\ ~r.sysid
      BY <3>2 DEF Kinds
    <3>3. CASE ~r.remark /\ r.sysid
      BY <3>3 DEF Kinds
    <3>4. CASE ~r.remark /\ ~r.sysid
      BY <3>4 DEF Kinds
    <3> QED
      BY <2>0, <3>1, <3>2, <3>3, <3>4
  <2>2. /\ Record(tokens, fact) /\ UNCHANGED <<clock, acked>> /\ flight' = flight \ {r}
        /\ received' = Append(received, r)
    BY <1>6 DEF OnStockOrder
  <2> HIDE DEF kinds
  <2>3. tokens \in Seq(Tags) /\ tokens # <<>> /\ \A i \in DOMAIN tokens : tokens[i][1] = o
    BY <2>0, <2>1, TokensAre
  <2>4. received \in Seq(OrderReports)
    BY DEF ClosureInv
  <2>5. /\ received' \in Seq(OrderReports)
        /\ \A i \in DOMAIN received : i \in DOMAIN received' /\ received'[i] = received[i]
        /\ Len(received) + 1 \in DOMAIN received' /\ received'[Len(received) + 1] = r
    BY <2>0, <2>2, <2>4
  <2>6. fact \in Facts /\ fact.last = r.ts /\ fact.final = IsTerminal(r.status)
    BY <2>0 DEF Fact, Facts, IsTerminal
  <2> HIDE DEF tokens, fact, o
  <2>7. RecordedAs(o, fact)
    BY <2>0, <2>2, <2>3, <2>6, Records DEF ClosureInv
  <2>8. Backed(o, fact, received')
    BY <2>5, <2>6 DEF Backed, o
  <2>9. {} \in SUBSET {o} /\ acked' = acked \cup {} /\ clock' = clock /\ flight' \subseteq flight
    BY <2>2
  <2> QED
    BY <2>0, <2>5, <2>6, <2>7, <2>8, <2>9, RecordKeeps
<1> QED
  BY <1>1, <1>3, <1>4, <1>5, <1>6 DEF ViewsNext

LEMMA SilentIsQueried == ClosureInv => SilentOrdersAreQueried
<1> SUFFICES ASSUME ClosureInv, CallbacksSuffice, NEW o \in acked
             PROVE  \E r \in ReceivedOf(o) : IsTerminal(r.status) \/ clock - r.ts <= MaxGap
  BY DEF SilentOrdersAreQueried
<1>1. PICK t \in DOMAIN closures : t[1] = o /\ closures[t].ack
  BY DEF ClosureInv
<1>2. ~Unsettled(closures[t])
  BY <1>1 DEF CallbacksSuffice, AckedClosures
<1>3. Backed(o, closures[t], received)
  BY <1>1 DEF ClosureInv
<1>4. PICK i \in DOMAIN received : received[i].order = o
         /\ (IsTerminal(received[i].status) \/ clock - received[i].ts <= MaxGap)
  BY <1>2, <1>3 DEF Unsettled, Backed
<1> QED
  BY <1>4 DEF ReceivedOf

(* An incremental synchronisation leaves the broker out only if each order *)
(* it acknowledged had a recent or a final callback, with late system ids  *)
(* and missing remarks too.                                                *)
THEOREM SilentAlwaysQueried == ViewsSpec => []SilentOrdersAreQueried
<1>1. ClosureInv => SilentOrdersAreQueried
  BY SilentIsQueried
<1> QED
  BY ClosureInit, ClosureStep, <1>1, PTL DEF ViewsSpec

LEMMA UnbornIsNone ==
  /\ Unborn \in BrokerOrders /\ Unborn.status = "none" /\ Unborn.ts = -1
  /\ [o \in Watched |-> Unborn] \in SureOrders
<1>1. Unborn \in BrokerOrders
  BY DEF Unborn, BrokerOrders, NoTime
<1> QED
  BY <1>1 DEF Unborn, SureOrders, NoTime

LEMMA BrokerInit == ViewsInit => BrokerInv
<1> SUFFICES ASSUME ViewsInit PROVE BrokerInv
  OBVIOUS
<1>1. BrokerTypes
  BY UnbornIsNone DEF ViewsInit, BrokerTypes, NotQueried
<1>2. \A o \in Watched : truth[o] = Unborn /\ queried[o] = Unborn
  BY DEF ViewsInit, NotQueried
<1>3. \A o \in Watched : truth[o].ts <= clock /\ BehindTruth(queried[o], o)
  BY <1>2, UnbornIsNone, StateRanks DEF BehindTruth, ViewsInit
<1>4. flight = {} /\ DOMAIN received = {}
  BY DEF ViewsInit
<1> QED
  BY <1>1, <1>3, <1>4 DEF BrokerInv, ReadersAreBehind

(* An order that changes at the broker was open, and what the readers know *)
(* of it is older than the change.                                         *)
LEMMA OpenOrdersMove ==
  ASSUME LateIds = FALSE, BrokerInv, NEW o \in Watched, ~IsTerminal(truth[o].status),
         NEW s \in OrderStates, NEW t \in NextTimes, BrokerReports(o, t, s)
  PROVE  BrokerInv'
<1>1. t \in Int /\ clock <= t /\ clock \in Int
  BY DEF NextTimes, BrokerInv, BrokerTypes
<1>2. PICK remark \in BOOLEAN :
        /\ clock' = t
        /\ truth' = [truth EXCEPT ![o] = [status |-> s, ts |-> t, sysid |-> TRUE]]
        /\ flight' = flight \cup {[order |-> o, status |-> s, ts |-> t, sysid |-> TRUE,
                                   remark |-> remark]}
        /\ UNCHANGED <<received, queried>>
  BY DEF BrokerReports
<1> DEFINE x == [order |-> o, status |-> s, ts |-> t, sysid |-> TRUE, remark |-> remark]
           y == [status |-> s, ts |-> t, sysid |-> TRUE]
<1>3. x \in SureReports /\ x.order = o /\ x.ts = t /\ x.status = s
  BY <1>1 DEF SureReports, OrderReports
<1>4. y \in BrokerOrders /\ y.sysid /\ y.status = s /\ y.ts = t
  BY <1>1 DEF BrokerOrders
<1> HIDE DEF x, y
<1>5. truth' = [truth EXCEPT ![o] = y] /\ flight' = flight \cup {x}
  BY <1>2 DEF x, y
<1>6. truth \in [Watched -> BrokerOrders]
      /\ \A u \in Watched : truth[u] # Unborn => truth[u].sysid /\ truth[u].status \in OrderStates
  BY DEF BrokerInv, BrokerTypes, SureOrders
<1>7. truth'[o] = y /\ \A u \in Watched : u # o => truth'[u] = truth[u]
  BY <1>5, <1>6
<1>8. truth' \in SureOrders
  BY <1>4, <1>5, <1>6, <1>7 DEF SureOrders
<1>9. BrokerTypes'
  BY <1>1, <1>2, <1>3, <1>5, <1>8 DEF BrokerTypes, BrokerInv
<1>10. \A u \in Watched : truth[u].ts \in Int /\ truth[u].ts <= clock
  BY <1>6 DEF BrokerOrders, BrokerInv, ReadersAreBehind
<1>11. ASSUME NEW z, NEW u \in Watched, z.ts \in Int, BehindTruth(z, u)
       PROVE  BehindTruth(z, u)'
  <2>1. CASE u = o
    <3>1. ~IsTerminal(z.status) /\ z.ts <= t
      BY <1>1, <1>10, <1>11, <2>1 DEF BehindTruth
    <3> QED
      BY <1>4, <1>7, <2>1, <3>1 DEF BehindTruth
  <2>2. CASE u # o
    BY <1>7, <1>11, <2>2 DEF BehindTruth
  <2> QED
    BY <2>1, <2>2
<1>12. BehindTruth(x, x.order)'
  <2>1. x.ts <= t
    BY <1>1, <1>3
  <2> QED
    BY <1>3, <1>4, <1>7, <2>1 DEF BehindTruth
<1>13. \A r \in SureReports : r.ts \in Int /\ r.order \in Watched
  BY DEF SureReports, OrderReports
<1>14. \A r \in flight' : BehindTruth(r, r.order)'
  <2>1. \A r \in flight : BehindTruth(r, r.order)'
    BY <1>11, <1>13 DEF BrokerInv, BrokerTypes, ReadersAreBehind
  <2> QED
    BY <1>5, <1>12, <2>1
<1>15. \A i \in DOMAIN received : BehindTruth(received[i], received[i].order)'
  <2> TAKE i \in DOMAIN received
  <2>1. received[i] \in SureReports /\ BehindTruth(received[i], received[i].order)
    BY DEF BrokerInv, BrokerTypes, ReadersAreBehind
  <2> DEFINE z == received[i]
  <2>2. z' = z
    BY <1>2
  <2> HIDE DEF z
  <2>3. ASSUME NEW w, w \in SureReports, BehindTruth(w, w.order) PROVE BehindTruth(w, w.order)'
    BY <1>11, <1>13, <2>3
  <2> QED
    BY <2>1, <2>2, <2>3 DEF z
<1>16. \A u \in Watched : BehindTruth(queried[u], u)'
  BY <1>2, <1>11 DEF BrokerInv, BrokerTypes, ReadersAreBehind, SureOrders, BrokerOrders
<1>17. \A u \in Watched : truth'[u].ts <= clock'
  BY <1>1, <1>2, <1>4, <1>7, <1>10
<1> QED
  BY <1>2, <1>9, <1>14, <1>15, <1>16, <1>17 DEF BrokerInv, ReadersAreBehind

LEMMA OpenFlows ==
  /\ \A s : IsTerminal(s) => StatusFlow(s) = {}
BY DEF StatusFlow, IsTerminal, Rank, TerminalStatuses, TerminalRank

LEMMA BrokerStep ==
  ASSUME LateIds = FALSE, BrokerInv, [ViewsNext]_viewVars
  PROVE  BrokerInv'
<1>1. ASSUME NEW o \in Watched, Accept(o) PROVE BrokerInv'
  <2>1. "reported" \in OrderStates /\ ~IsTerminal(truth[o].status)
    BY <1>1, UnbornIsNone, StateRanks DEF Accept, OrderStates
  <2> QED
    BY <1>1, <2>1, OpenOrdersMove DEF Accept
<1>2. ASSUME NEW o \in Watched, Advance(o) PROVE BrokerInv'
  <2>1. PICK s \in StatusFlow(truth[o].status), t \in NextTimes : BrokerReports(o, t, s)
    BY <1>2 DEF Advance
  <2>2. s \in OrderStates /\ ~IsTerminal(truth[o].status)
    BY <2>1, FlowIsOfStates, OpenFlows
  <2> QED
    BY <2>1, <2>2, OpenOrdersMove
<1>3. ASSUME UNCHANGED <<clock, truth, flight, received, queried>> PROVE BrokerInv'
  BY <1>3 DEF BrokerInv, BrokerTypes, ReadersAreBehind, BehindTruth
<1>4. CASE ClockTicks
  <2>1. clock \in Int /\ \A o \in Watched : truth[o].ts \in Int
    BY DEF BrokerInv, BrokerTypes, SureOrders, BrokerOrders
  <2>2. clock' \in Int /\ \A o \in Watched : truth'[o].ts <= clock'
    BY <1>4, <2>1 DEF ClockTicks, BrokerInv, ReadersAreBehind
  <2> QED
    BY <1>4, <2>2 DEF ClockTicks, BrokerInv, BrokerTypes, ReadersAreBehind, BehindTruth
<1>5. CASE QueryOrders
  <2>1. \A o \in Watched : truth[o].ts \in Int
    BY DEF BrokerInv, BrokerTypes, SureOrders, BrokerOrders
  <2>2. \A o \in Watched : BehindTruth(queried[o], o)'
    BY <1>5, <2>1 DEF QueryOrders, BehindTruth
  <2> QED
    BY <1>5, <2>2 DEF QueryOrders, BrokerInv, BrokerTypes, ReadersAreBehind, BehindTruth
<1>6. ASSUME NEW r \in flight, Lose(r) PROVE BrokerInv'
  BY <1>6 DEF Lose, BrokerInv, BrokerTypes, ReadersAreBehind, BehindTruth
<1>7. ASSUME NEW r \in flight, OnStockOrder(r) PROVE BrokerInv'
  <2>1. /\ r \in SureReports /\ received \in Seq(SureReports) /\ BehindTruth(r, r.order)
        /\ received' = Append(received, r) /\ flight' = flight \ {r}
        /\ UNCHANGED <<clock, truth, queried>>
    BY <1>7 DEF OnStockOrder, BrokerInv, BrokerTypes, ReadersAreBehind
  <2>2. received' \in Seq(SureReports) /\ flight' \in SUBSET SureReports
    BY <2>1 DEF BrokerInv, BrokerTypes
  <2>3. ASSUME NEW i \in DOMAIN received' PROVE BehindTruth(received'[i], received'[i].order)
    <3>1. CASE i \in DOMAIN received
      <4>1. received'[i] = received[i]
        BY <2>1, <3>1
      <4> QED
        BY <3>1, <4>1 DEF BrokerInv, ReadersAreBehind
    <3>2. CASE i \notin DOMAIN received
      <4>1. received'[i] = r
        BY <2>1, <3>2
      <4> QED
        BY <2>1, <4>1
    <3> QED
      BY <3>1, <3>2
  <2> QED
    BY <2>1, <2>2, <2>3 DEF BrokerInv, BrokerTypes, ReadersAreBehind, BehindTruth
<1> QED
  BY <1>1, <1>2, <1>3, <1>4, <1>5, <1>6, <1>7 DEF ViewsNext, OnSubmitAck, viewVars

(* When callbacks carry the order's system id from the first on, the       *)
(* snapshot merged from a query and the callbacks shows an order known to  *)
(* be over never as open, one known to be open exactly once, and an        *)
(* acknowledged order that fell silent is asked about: for any orders, any *)
(* delays, losses and order of arrival.                                    *)
THEOREM OpenOrdersAlwaysShown ==
  ASSUME LateIds = FALSE
  PROVE  ViewsSpec => []OpenOrdersAreShown
<1>1. BrokerInv /\ [ViewsNext]_viewVars => BrokerInv'
  BY BrokerStep
<1>2. BrokerInv /\ SilentOrdersAreQueried => OpenOrdersAreShown
  BY FinalIsNotShownOpen, OpenIsShownOnce DEF OpenOrdersAreShown
<1> QED
  BY BrokerInit, SilentAlwaysQueried, <1>1, <1>2, PTL DEF ViewsSpec
=============================================================================
