---------------------------- MODULE Custody_proofs ----------------------------
(***************************************************************************)
(* Theorems about Custody, for any number of findings, captures, revisions *)
(* and requests.  The invariant that is inductive says what a handler at   *)
(* each place knows: that the row it files is pending, that its bytes are  *)
(* there before it confirms, that no other request files the same record,  *)
(* and that a report in the making shows its snapshot, which is a moment   *)
(* of the history, as far as it has read.                                  *)
(***************************************************************************)
EXTENDS Custody, TLAPS

Labels == Filing \cup {"idle", "reading", "approving", "approved"}
Writing == Filing \cup {"reading"}

\* S is what had been committed at some moment.
Moment(S) == \E n \in 0 .. Len(history) : S = {history[i] : i \in 1 .. n}

FilingInv(q) ==
    LET x == req[q].record IN
    /\ pc[q] \in Writing => x \in Record
    /\ pc[q] \in {"reading", "reserving"} =>
           /\ row[x].state = "absent"
           /\ req[q].contents \in Contents
           /\ req[q].finding # None <=> x \in Capture
    /\ pc[q] \in {"reserved", "putting", "confirming"} => row[x].state = "pending"
    /\ pc[q] = "confirming" => x \in objects

ReadingInv(q) ==
    /\ pc[q] = "reading" =>
           /\ Moment(req[q].snapshot)
           /\ req[q].contents \in [shows : SUBSET Fact]
           /\ req[q].contents.shows =
                  {x \in req[q].snapshot : SectionOf(x) \notin req[q].unread}
    /\ pc[q] = "reserving" /\ req[q].contents \in [shows : SUBSET Fact] =>
           Moment(req[q].contents.shows)

ApprovalInv(q) ==
    /\ pc[q] \in {"approving", "approved"} => req[q].record \in Revision
    /\ pc[q] = "approved" => approved = {} /\ row[req[q].record].state = "stored"

RequestInv(q) == FilingInv(q) /\ ReadingInv(q) /\ ApprovalInv(q)

\* Two requests never file the same record, nor are two approvals under way.
ApartInv ==
    \A p, q \in Request : p # q =>
        /\ pc[p] \in Writing /\ pc[q] \in Writing => req[p].record # req[q].record
        /\ ~ (pc[p] = "approved" /\ pc[q] = "approved")

AtMostOne == \A r1, r2 \in approved : r1 = r2

IInv ==
    /\ TypeOK
    /\ \A q \in Request : RequestInv(q)
    /\ ApartInv
    /\ StoredIsInCustody
    /\ Reconcilable
    /\ AtMostOne
    /\ ReportIsOneMoment
-----------------------------------------------------------------------------
(* The history *)

HistoryGrows ==
    \/ history' = history
    \/ \E x \in Fact : history' = Append(history, x)

LEMMA HistoryType ==
    ASSUME TypeOK, HistoryGrows
    PROVE  /\ history' \in Seq(Fact)
           /\ Len(history) \in Nat /\ Len(history') \in Nat
           /\ Len(history) <= Len(history')
           /\ \A i \in 1 .. Len(history) : history'[i] = history[i]
<1>1. CASE history' = history
    BY <1>1 DEF TypeOK
<1>2. ASSUME NEW x \in Fact, history' = Append(history, x)
      PROVE  /\ history' \in Seq(Fact)
             /\ Len(history) \in Nat /\ Len(history') \in Nat
             /\ Len(history) <= Len(history')
             /\ \A i \in 1 .. Len(history) : history'[i] = history[i]
    BY <1>2 DEF TypeOK
<1> QED
    BY <1>1, <1>2 DEF HistoryGrows

\* A moment of the past stays one.
LEMMA MomentStays ==
    ASSUME TypeOK, HistoryGrows, NEW S, Moment(S)
    PROVE  \E n \in 0 .. Len(history') : S = {history'[i] : i \in 1 .. n}
<1>1. PICK n \in 0 .. Len(history) : S = {history[i] : i \in 1 .. n}
    BY DEF Moment
<1>2. \A i \in 1 .. n : history'[i] = history[i]
    BY HistoryType
<1>3. S = {history'[i] : i \in 1 .. n}
    BY <1>1, <1>2
<1>4. n \in 0 .. Len(history')
    BY HistoryType
<1> QED
    BY <1>3, <1>4

\* What is committed now is a moment, and is made of facts.
LEMMA NowIsAMoment ==
    ASSUME TypeOK
    PROVE  Moment(Facts) /\ Facts \subseteq Fact
<1>1. Facts = {history[i] : i \in 1 .. Len(history)}
    BY DEF Facts, ToSet, TypeOK
<1>2. Len(history) \in 0 .. Len(history)
    BY DEF TypeOK
<1>3. \A i \in 1 .. Len(history) : history[i] \in Fact
    BY DEF TypeOK
<1> QED
    BY <1>1, <1>2, <1>3 DEF Moment

LEMMA FactSection == \A x \in Fact : SectionOf(x) \in Section
BY DEF Fact, SectionOf, Section
-----------------------------------------------------------------------------
(* What a step leaves to a request that does not take it *)

Frame(p) ==
    /\ pc'[p] = pc[p] /\ req'[p] = req[p]
    /\ pc[p] \in Writing => row'[req[p].record] = row[req[p].record]
    /\ \A x \in Record : row[x].state = "stored" => row'[x] = row[x]
    /\ objects \subseteq objects'
    /\ HistoryGrows
    /\ pc[p] = "approved" => approved' = approved

LEMMA FrameKeeps ==
    ASSUME IInv, NEW p \in Request, Frame(p)
    PROVE  RequestInv(p)'
<1>1. RequestInv(p) /\ TypeOK
    BY DEF IInv
<1>2. pc'[p] = pc[p] /\ req'[p] = req[p] /\ HistoryGrows
    BY DEF Frame
<1>3. FilingInv(p)'
    BY <1>1, <1>2 DEF Frame, RequestInv, FilingInv, Writing, Filing
<1>4. ReadingInv(p)'
    <2>1. ASSUME pc[p] = "reading"
          PROVE  Moment(req[p].snapshot)'
        <3>1. PICK S : S = req[p].snapshot
            OBVIOUS
        <3>2. Moment(S)
            BY <1>1, <2>1, <3>1 DEF RequestInv, ReadingInv
        <3> QED
            BY <1>1, <1>2, <3>1, <3>2, MomentStays DEF Moment
    <2>2. ASSUME pc[p] = "reserving", req[p].contents \in [shows : SUBSET Fact]
          PROVE  Moment(req[p].contents.shows)'
        <3>1. PICK S : S = req[p].contents.shows
            OBVIOUS
        <3>2. Moment(S)
            BY <1>1, <2>2, <3>1 DEF RequestInv, ReadingInv
        <3> QED
            BY <1>1, <1>2, <3>1, <3>2, MomentStays DEF Moment
    <2> QED
        BY <1>1, <1>2, <2>1, <2>2 DEF RequestInv, ReadingInv
<1>5. ApprovalInv(p)'
    <2>1. Revision \subseteq Record
        BY DEF Record
    <2> QED
        BY <1>1, <1>2, <2>1 DEF Frame, RequestInv, ApprovalInv
<1> QED
    BY <1>3, <1>4, <1>5 DEF RequestInv
-----------------------------------------------------------------------------
(* The parts of the invariant, for any step *)

\* A step of q alone.
MovesTo(q, label, hand) ==
    /\ pc' = [pc EXCEPT ![q] = label]
    /\ req' = [req EXCEPT ![q] = hand]

\* q takes up a record nobody has, or goes on with the one it has; it gets an
\* approval under way when there is none.
KeepsApart(q, label, hand) ==
    /\ label \in Writing =>
           \/ pc[q] \in Writing /\ hand.record = req[q].record
           \/ \A p \in Request \ {q} : req[p].record # hand.record
    /\ label = "approved" => \A p \in Request \ {q} : pc[p] # "approved"

LEMMA ApartStep ==
    ASSUME IInv, NEW q \in Request, NEW label, NEW hand,
           MovesTo(q, label, hand), KeepsApart(q, label, hand)
    PROVE  ApartInv'
<1>1. /\ pc'[q] = label /\ req'[q] = hand
      /\ \A p \in Request \ {q} : pc'[p] = pc[p] /\ req'[p] = req[p]
    BY DEF MovesTo, IInv, TypeOK
<1> SUFFICES ASSUME NEW p \in Request \ {q}
             PROVE  /\ pc'[p] \in Writing /\ pc'[q] \in Writing =>
                           req'[p].record # req'[q].record
                    /\ ~ (pc'[p] = "approved" /\ pc'[q] = "approved")
    BY <1>1 DEF IInv, ApartInv
<1> QED
    BY <1>1 DEF KeepsApart, IInv, ApartInv

LEMMA MoveTypes ==
    ASSUME TypeOK, NEW q \in Request, NEW label \in Labels, NEW hand \in InHand,
           MovesTo(q, label, hand)
    PROVE  /\ pc' \in [Request -> Labels]
           /\ req' \in [Request -> InHand]
           /\ pc'[q] = label /\ req'[q] = hand
           /\ \A p \in Request \ {q} : pc'[p] = pc[p] /\ req'[p] = req[p]
BY DEF TypeOK, MovesTo, Labels

\* A step that touches neither the tables nor the store.
LEMMA HandlerStep ==
    ASSUME IInv, NEW q \in Request, NEW label \in Labels, NEW hand \in InHand,
           MovesTo(q, label, hand), KeepsApart(q, label, hand),
           UNCHANGED <<tables, store>>, RequestInv(q)'
    PROVE  IInv'
<1> USE DEF tables, store
<1>1. TypeOK'
    BY MoveTypes DEF IInv, TypeOK, Labels
<1>2. \A p \in Request \ {q} : Frame(p)
    BY MoveTypes DEF Frame, HistoryGrows, IInv
<1>3. \A p \in Request : RequestInv(p)'
    BY <1>2, FrameKeeps
<1>4. ApartInv'
    BY ApartStep
<1>5. StoredIsInCustody' /\ Reconcilable' /\ AtMostOne' /\ ReportIsOneMoment'
    BY DEF IInv, StoredIsInCustody, Stored, Reconcilable, AtMostOne,
           ReportIsOneMoment
<1> QED
    BY <1>1, <1>3, <1>4, <1>5 DEF IInv

LEMMA HandType ==
    ASSUME NEW x \in Record \cup {None}, NEW f \in Finding \cup {None},
           NEW c \in Contents \cup {None}, NEW S \in SUBSET Fact,
           NEW U \in SUBSET Section
    PROVE  /\ Hand(x, f, c, S, U) \in InHand
           /\ Hand(x, f, c, S, U).record = x
           /\ Hand(x, f, c, S, U).finding = f
           /\ Hand(x, f, c, S, U).contents = c
           /\ Hand(x, f, c, S, U).snapshot = S
           /\ Hand(x, f, c, S, U).unread = U
BY DEF Hand, InHand

LEMMA NothingType == Nothing \in InHand
BY HandType DEF Nothing

\* Whoever has ended, or only asks for an approval, has nothing to keep.
LEMMA IdleInv ==
    ASSUME NEW q \in Request, pc[q] = "idle"
    PROVE  RequestInv(q)
BY DEF RequestInv, FilingInv, ReadingInv, ApprovalInv, Writing, Filing

LEMMA FinishMoves ==
    ASSUME IInv, NEW q \in Request, Finish(q)
    PROVE  /\ MovesTo(q, "idle", Nothing)
           /\ KeepsApart(q, "idle", Nothing)
           /\ RequestInv(q)'
<1>1. MovesTo(q, "idle", Nothing) /\ KeepsApart(q, "idle", Nothing)
    BY DEF Finish, Goto, MovesTo, KeepsApart, Writing, Filing
<1>2. pc'[q] = "idle"
    BY <1>1 DEF MovesTo, IInv, TypeOK
<1>3. RequestInv(q)'
    BY <1>2 DEF RequestInv, FilingInv, ReadingInv, ApprovalInv, Writing, Filing
<1> QED
    BY <1>1, <1>3
-----------------------------------------------------------------------------
(* Arrivals, queries and ends *)

LEMMA EndKeeps ==
    ASSUME IInv, NEW q \in Request, Finish(q), UNCHANGED <<tables, store>>
    PROVE  IInv'
<1>1. "idle" \in Labels
    BY DEF Labels
<1> QED
    BY <1>1, FinishMoves, NothingType, HandlerStep

LEMMA StartFilingKeeps ==
    ASSUME IInv, NEW q \in Request, StartCapture(q) \/ StartImport(q)
    PROVE  IInv'
<1>1. PICK x \in Record, f \in Finding \cup {None}, c \in Contents :
          /\ Fresh(x)
          /\ f # None <=> x \in Capture
          /\ c \notin [shows : SUBSET Fact]
          /\ Receive(q, Hand(x, f, c, {}, {}), "reserving")
    <2>1. CASE StartCapture(q)
        <3>1. PICK f \in Finding, x \in Capture :
                  Fresh(x) /\ Receive(q, Hand(x, f, [file |-> x], {}, {}), "reserving")
            BY <2>1 DEF StartCapture
        <3>2. f # None /\ x \in Record
            BY DistinctAssumption DEF Record
        <3>3. [file |-> x] \in Contents /\ [file |-> x] \notin [shows : SUBSET Fact]
            BY DEF Contents
        <3> QED
            BY <3>1, <3>2, <3>3
    <2>2. CASE StartImport(q)
        <3>1. PICK x \in Revision, d \in Document :
                  Fresh(x) /\ Receive(q, Hand(x, None, [file |-> d], {}, {}), "reserving")
            BY <2>2 DEF StartImport
        <3>2. x \notin Capture /\ x \in Record
            BY DistinctAssumption DEF Record
        <3>3. [file |-> d] \in Contents /\ [file |-> d] \notin [shows : SUBSET Fact]
            BY DEF Contents
        <3> QED
            BY <3>1, <3>2, <3>3
    <2> QED
        BY <2>1, <2>2
<1> DEFINE hand == Hand(x, f, c, {}, {})
<1>2. /\ hand \in InHand /\ hand.record = x /\ hand.finding = f
      /\ hand.contents = c
    BY HandType
<1> HIDE DEF hand
<1>3. /\ MovesTo(q, "reserving", hand)
      /\ UNCHANGED <<tables, store>>
    BY <1>1 DEF Receive, MovesTo, Goto, hand
<1>4. KeepsApart(q, "reserving", hand)
    BY <1>1, <1>2 DEF KeepsApart, Fresh
<1>5. "reserving" \in Labels
    BY DEF Labels, Filing
<1>6. pc'[q] = "reserving" /\ req'[q] = hand
    BY <1>2, <1>3, <1>5, MoveTypes DEF IInv
<1>7. RequestInv(q)'
    BY <1>1, <1>2, <1>3, <1>6
    DEF RequestInv, FilingInv, ReadingInv, ApprovalInv, Writing, Filing, tables,
        Fresh
<1> QED
    BY <1>2, <1>3, <1>4, <1>5, <1>7, HandlerStep

LEMMA StartGenerationKeeps ==
    ASSUME IInv, NEW q \in Request, StartGeneration(q)
    PROVE  IInv'
<1>1. PICK x \in Revision :
          /\ Fresh(x)
          /\ Receive(q, Hand(x, None, [shows |-> {}], Facts, Section), "reading")
    BY DEF StartGeneration
<1>0. PICK S : S = Facts
    OBVIOUS
<1> DEFINE hand == Hand(x, None, [shows |-> {}], S, Section)
<1>2. Moment(S) /\ S \subseteq Fact
    BY <1>0, NowIsAMoment DEF IInv
<1>3. x \in Record /\ x \notin Capture
    BY DistinctAssumption DEF Record
<1>4. [shows |-> {}] \in [shows : SUBSET Fact] /\ [shows |-> {}] \in Contents
    BY DEF Contents
<1>5. /\ hand \in InHand /\ hand.record = x /\ hand.finding = None
      /\ hand.contents = [shows |-> {}] /\ hand.snapshot = S
      /\ hand.unread = Section
    BY <1>2, <1>3, <1>4, HandType
<1> HIDE DEF hand
<1>6. /\ MovesTo(q, "reading", hand)
      /\ UNCHANGED <<tables, store>>
    BY <1>0, <1>1 DEF Receive, MovesTo, Goto, hand
<1>7. KeepsApart(q, "reading", hand)
    BY <1>1, <1>5 DEF KeepsApart, Fresh
<1>8. "reading" \in Labels
    BY DEF Labels
<1>9. pc'[q] = "reading" /\ req'[q] = hand
    BY <1>5, <1>6, <1>8, MoveTypes DEF IInv
<1>10. FilingInv(q)'
    BY <1>1, <1>3, <1>4, <1>5, <1>6, <1>9
    DEF FilingInv, Writing, Filing, tables, Fresh
<1>11. ReadingInv(q)'
    <2>1. Moment(S)'
        BY <1>2, <1>6 DEF Moment, tables
    <2> QED
        BY <1>2, <1>4, <1>5, <1>9, <2>1, FactSection DEF ReadingInv
<1>12. ApprovalInv(q)'
    BY <1>9 DEF ApprovalInv
<1> QED
    BY <1>5, <1>6, <1>7, <1>8, <1>10, <1>11, <1>12, HandlerStep DEF RequestInv

LEMMA StartApprovalKeeps ==
    ASSUME IInv, NEW q \in Request, StartApproval(q)
    PROVE  IInv'
<1>1. PICK x \in Revision : Receive(q, Hand(x, None, None, {}, {}), "approving")
    BY DEF StartApproval
<1> DEFINE hand == Hand(x, None, None, {}, {})
<1>2. hand \in InHand /\ hand.record = x
    BY HandType DEF Record
<1> HIDE DEF hand
<1>3. /\ MovesTo(q, "approving", hand)
      /\ UNCHANGED <<tables, store>>
      /\ KeepsApart(q, "approving", hand)
    BY <1>1 DEF Receive, MovesTo, Goto, hand, KeepsApart, Writing, Filing
<1>4. "approving" \in Labels
    BY DEF Labels
<1>5. pc'[q] = "approving" /\ req'[q] = hand
    BY <1>2, <1>3, <1>4, MoveTypes DEF IInv
<1>6. RequestInv(q)'
    BY <1>2, <1>5
    DEF RequestInv, FilingInv, ReadingInv, ApprovalInv, Writing, Filing
<1> QED
    BY <1>2, <1>3, <1>4, <1>6, HandlerStep

LEMMA ReadSectionKeeps ==
    ASSUME IInv, NEW q \in Request, ReadSection(q)
    PROVE  IInv'
<1>1. PICK s \in req[q].unread :
          /\ req' = [req EXCEPT ![q] =
                        AfterQuery(@, s, {x \in Seen(q) : SectionOf(x) = s})]
          /\ IF req[q].unread = {s} THEN Goto(q, "reserving") ELSE UNCHANGED pc
    BY DEF ReadSection
<1>2. /\ pc[q] = "reading"
      /\ UNCHANGED <<tables, store>>
    BY DEF ReadSection
<1>3. PICK S, U, x, f, old :
          /\ S = req[q].snapshot /\ U = req[q].unread /\ x = req[q].record
          /\ f = req[q].finding /\ old = req[q].contents.shows
    OBVIOUS
<1>4. /\ Moment(S) /\ x \in Record /\ old = {y \in S : SectionOf(y) \notin U}
      /\ row[x].state = "absent" /\ (f # None <=> x \in Capture)
      /\ S \in SUBSET Fact /\ U \in SUBSET Section /\ f \in Finding \cup {None}
    BY <1>2, <1>3
    DEF IInv, TypeOK, InHand, RequestInv, FilingInv, ReadingInv, Writing, Filing
<1> DEFINE new == {y \in S : SectionOf(y) \notin U \ {s}}
           hand == Hand(x, f, [shows |-> new], S, U \ {s})
           label == IF U = {s} THEN "reserving" ELSE "reading"
<1>5. old \cup {y \in S : SectionOf(y) = s} = new
    BY <1>1, <1>3, <1>4
<1>6. [shows |-> new] \in [shows : SUBSET Fact] /\ [shows |-> new] \in Contents
    BY <1>4 DEF Contents
<1> HIDE DEF new
<1>7. /\ hand \in InHand /\ hand.record = x /\ hand.finding = f
      /\ hand.contents = [shows |-> new] /\ hand.snapshot = S
      /\ hand.unread = U \ {s}
    <2>1. x \in Record \cup {None} /\ U \ {s} \in SUBSET Section
        BY <1>4
    <2>2. [shows |-> new] \in Contents \cup {None}
        BY <1>6
    <2> QED
        BY <1>4, <2>1, <2>2, HandType
<1>8. req' = [req EXCEPT ![q] = hand]
    <2>1. AfterQuery(req[q], s, {y \in Seen(q) : SectionOf(y) = s}) =
              Hand(x, f, [shows |-> old \cup {y \in S : SectionOf(y) = s}], S, U \ {s})
        BY <1>3 DEF AfterQuery, Seen
    <2> QED
        BY <1>1, <1>5, <2>1 DEF IInv, TypeOK, hand
<1>9. pc' = [pc EXCEPT ![q] = label]
    BY <1>1, <1>2, <1>3 DEF Goto, IInv, TypeOK
<1> HIDE DEF hand
<1>10. MovesTo(q, label, hand)
    BY <1>8, <1>9 DEF MovesTo
<1>11. label \in Labels
    BY DEF Labels, Filing
<1>12. KeepsApart(q, label, hand)
    BY <1>2, <1>3, <1>7 DEF KeepsApart, Writing, Filing
<1>13. pc'[q] = label /\ req'[q] = hand
    BY <1>7, <1>10, <1>11, MoveTypes DEF IInv
<1>14. FilingInv(q)'
    <2>1. /\ pc'[q] \in {"reading", "reserving"} /\ req'[q].record = x
          /\ req'[q].finding = f /\ req'[q].contents = [shows |-> new]
          /\ row' = row
        BY <1>2, <1>7, <1>13 DEF tables
    <2>2. x \in Record /\ row'[x].state = "absent" /\ (f # None <=> x \in Capture)
        BY <1>4, <2>1
    <2>3. req'[q].contents \in Contents
        BY <1>6, <2>1
    <2> HIDE DEF label
    <2> QED
        BY <2>1, <2>2, <2>3 DEF FilingInv
<1>15. ReadingInv(q)'
    <2>1. Moment(S)'
        BY <1>2, <1>4 DEF Moment, tables
    <2>2. CASE U = {s}
        <3>1. new = S
            BY <2>2 DEF new
        <3>2. pc'[q] = "reserving" /\ req'[q].contents.shows = S
            BY <1>7, <1>13, <2>2, <3>1
        <3> QED
            BY <2>1, <3>2 DEF ReadingInv
    <2>3. CASE U # {s}
        <3>1. pc'[q] = "reading"
            BY <1>13, <2>3
        <3>2. req'[q].contents.shows = {y \in S : SectionOf(y) \notin U \ {s}}
            BY <1>7, <1>13 DEF new
        <3>3. req'[q].contents \in [shows : SUBSET Fact]
            BY <1>6, <1>7, <1>13
        <3>4. req'[q].snapshot = S /\ req'[q].unread = U \ {s}
            BY <1>7, <1>13
        <3> QED
            BY <2>1, <3>1, <3>2, <3>3, <3>4 DEF ReadingInv
    <2> QED
        BY <2>2, <2>3
<1>16. ApprovalInv(q)'
    BY <1>13 DEF ApprovalInv
<1> HIDE DEF label
<1> QED
    BY <1>2, <1>7, <1>10, <1>11, <1>12, <1>14, <1>15, <1>16, HandlerStep
    DEF RequestInv
-----------------------------------------------------------------------------
(* Filing *)

LEMMA ReserveKeeps ==
    ASSUME IInv, NEW q \in Request, Reserve(q)
    PROVE  IInv'
<1> DEFINE x == req[q].record
           new == NewRow(req[q])
<1>1. /\ pc[q] = "reserving"
      /\ row' = [row EXCEPT ![x] = new]
      /\ pc' = [pc EXCEPT ![q] = "reserved"]
      /\ UNCHANGED <<approved, history, store, req>>
    BY DEF Reserve, Goto
<1>2. /\ x \in Record /\ row[x].state = "absent"
      /\ req[q].contents \in Contents
      /\ req[q].finding # None <=> x \in Capture
      /\ req[q].finding \in Finding \cup {None}
    BY <1>1 DEF IInv, TypeOK, InHand, RequestInv, FilingInv, Writing, Filing
<1>3. /\ new \in Row /\ new.state = "pending" /\ new.finding = req[q].finding
      /\ new.sha256 = req[q].contents
    BY <1>2 DEF NewRow, Row
<1>4. None \notin Contents
    BY NoneAssumption
<1> HIDE DEF new
<1>5. row'[x] = new /\ \A y \in Record \ {x} : row'[y] = row[y]
    BY <1>1, <1>2 DEF IInv, TypeOK
<1>6. "reserved" \in Labels /\ req[q] \in InHand
    BY DEF Labels, Filing, IInv, TypeOK
<1>7. MovesTo(q, "reserved", req[q])
    BY <1>1 DEF MovesTo, IInv, TypeOK
<1>8. KeepsApart(q, "reserved", req[q])
    BY <1>1 DEF KeepsApart, Writing, Filing
<1>9. /\ pc'[q] = "reserved" /\ pc' \in [Request -> Labels]
      /\ \A p \in Request \ {q} : pc'[p] = pc[p]
    BY <1>6, <1>7, MoveTypes DEF IInv
<1>10. TypeOK'
    <2>1. row' \in [Record -> Row]
        BY <1>1, <1>3 DEF IInv, TypeOK
    <2>2. \A y \in Record : row'[y].state = "absent" <=> row'[y].sha256 = None
        BY <1>2, <1>3, <1>4, <1>5 DEF IInv, TypeOK
    <2>3. \A y \in Record :
              row'[y].finding # None <=> row'[y].state # "absent" /\ y \in Capture
        BY <1>2, <1>3, <1>5 DEF IInv, TypeOK
    <2> QED
        BY <1>1, <1>9, <2>1, <2>2, <2>3 DEF IInv, TypeOK, Labels, store
<1>11. ASSUME NEW p \in Request
       PROVE  RequestInv(p)'
    <2>1. CASE p = q
        BY <1>1, <1>2, <1>3, <1>5, <1>9, <2>1
        DEF RequestInv, FilingInv, ReadingInv, ApprovalInv, Writing, Filing
    <2>2. CASE p # q
        <3>1. pc[p] \in Writing => req[p].record # x /\ req[p].record \in Record
            BY <1>1, <2>2
            DEF IInv, ApartInv, Writing, Filing, RequestInv, FilingInv
        <3>2. Frame(p)
            BY <1>1, <1>2, <1>5, <1>9, <2>2, <3>1 DEF Frame, HistoryGrows, store
        <3> QED
            BY <3>2, FrameKeeps
    <2> QED
        BY <2>1, <2>2
<1>12. ApartInv'
    BY <1>7, <1>8, ApartStep
<1>13. Stored' = Stored
    BY <1>2, <1>3, <1>5 DEF Stored
<1>14. StoredIsInCustody' /\ AtMostOne'
    BY <1>1, <1>13 DEF IInv, StoredIsInCustody, AtMostOne, store
<1>15. Reconcilable'
    BY <1>1, <1>3, <1>5 DEF IInv, TypeOK, Reconcilable, store
<1>16. ReportIsOneMoment'
    <2> SUFFICES ASSUME NEW r \in Revision, row'[r].sha256 \in [shows : SUBSET Fact]
                 PROVE  \E n \in 0 .. Len(history) :
                            row'[r].sha256.shows = {history[i] : i \in 1 .. n}
        BY <1>1 DEF ReportIsOneMoment
    <2>1. CASE r = x
        BY <1>1, <1>3, <1>5, <2>1 DEF IInv, RequestInv, ReadingInv, Moment
    <2>2. CASE r # x
        BY <1>5, <2>2 DEF IInv, ReportIsOneMoment, Record
    <2> QED
        BY <2>1, <2>2
<1> QED
    BY <1>10, <1>11, <1>12, <1>14, <1>15, <1>16 DEF IInv

LEMMA SendPutKeeps ==
    ASSUME IInv, NEW q \in Request, SendPut(q)
    PROVE  IInv'
<1> DEFINE x == req[q].record
<1>1. /\ pc[q] = "reserved"
      /\ sent' = sent \cup {x}
      /\ pc' = [pc EXCEPT ![q] = "putting"]
      /\ UNCHANGED <<tables, objects, req>>
    BY DEF SendPut, Goto
<1>2. x \in Record /\ row[x].state = "pending"
    BY <1>1 DEF IInv, RequestInv, FilingInv, Writing, Filing
<1>3. "putting" \in Labels /\ req[q] \in InHand
    BY DEF Labels, Filing, IInv, TypeOK
<1>4. MovesTo(q, "putting", req[q]) /\ KeepsApart(q, "putting", req[q])
    BY <1>1 DEF MovesTo, KeepsApart, Writing, Filing, IInv, TypeOK
<1>5. /\ pc'[q] = "putting" /\ pc' \in [Request -> Labels]
      /\ \A p \in Request \ {q} : pc'[p] = pc[p]
    BY <1>3, <1>4, MoveTypes DEF IInv
<1>6. TypeOK'
    BY <1>1, <1>2, <1>5 DEF IInv, TypeOK, Labels, tables
<1>7. ASSUME NEW p \in Request
      PROVE  RequestInv(p)'
    <2>1. CASE p = q
        BY <1>1, <1>2, <1>5, <2>1
        DEF RequestInv, FilingInv, ReadingInv, ApprovalInv, Writing, Filing, tables
    <2>2. CASE p # q
        BY <1>1, <1>5, <2>2, FrameKeeps DEF Frame, HistoryGrows, tables
    <2> QED
        BY <2>1, <2>2
<1>8. ApartInv'
    BY <1>4, ApartStep
<1>9. StoredIsInCustody' /\ Reconcilable' /\ AtMostOne' /\ ReportIsOneMoment'
    BY <1>1, <1>2 DEF IInv, StoredIsInCustody, Stored, Reconcilable, AtMostOne,
                      ReportIsOneMoment, tables
<1> QED
    BY <1>6, <1>7, <1>8, <1>9 DEF IInv

LEMMA UploadEndKeeps ==
    ASSUME IInv, NEW x \in Record, PutApplied(x) \/ PutLost(x)
    PROVE  IInv'
<1>1. /\ x \in sent /\ sent' = sent \ {x}
      /\ objects' \in {objects, objects \cup {x}}
      /\ UNCHANGED <<tables, pc, req>>
    BY DEF PutApplied, PutLost
<1>2. TypeOK'
    BY <1>1 DEF IInv, TypeOK, tables
<1>3. \A p \in Request : RequestInv(p)'
    BY <1>1, FrameKeeps DEF Frame, HistoryGrows, tables
<1>4. ApartInv' /\ AtMostOne' /\ ReportIsOneMoment'
    BY <1>1 DEF IInv, ApartInv, AtMostOne, ReportIsOneMoment, tables
<1>5. StoredIsInCustody' /\ Reconcilable'
    BY <1>1 DEF IInv, StoredIsInCustody, Stored, Reconcilable, tables
<1> QED
    BY <1>2, <1>3, <1>4, <1>5 DEF IInv

LEMMA PutAcknowledgedKeeps ==
    ASSUME IInv, NEW q \in Request, PutAcknowledged(q)
    PROVE  IInv'
<1>1. /\ pc[q] = "putting" /\ req[q].record \in objects
      /\ pc' = [pc EXCEPT ![q] = "confirming"]
      /\ UNCHANGED <<tables, store, req>>
    BY DEF PutAcknowledged, Goto
<1>2. "confirming" \in Labels /\ req[q] \in InHand
    BY DEF Labels, Filing, IInv, TypeOK
<1>3. MovesTo(q, "confirming", req[q]) /\ KeepsApart(q, "confirming", req[q])
    BY <1>1 DEF MovesTo, KeepsApart, Writing, Filing, IInv, TypeOK
<1>4. pc'[q] = "confirming"
    BY <1>1 DEF IInv, TypeOK
<1>5. RequestInv(q)'
    BY <1>1, <1>4
    DEF IInv, RequestInv, FilingInv, ReadingInv, ApprovalInv, Writing, Filing,
        tables, store
<1> QED
    BY <1>1, <1>2, <1>3, <1>5, HandlerStep

LEMMA ConfirmKeeps ==
    ASSUME IInv, NEW q \in Request, Confirm(q)
    PROVE  IInv'
<1> DEFINE x == req[q].record
           new == [row[x] EXCEPT !.state = "stored"]
<1>1. /\ pc[q] = "confirming" /\ row[x].state = "pending"
      /\ row' = [row EXCEPT ![x] = new]
      /\ history' = IF x \in Capture
                    THEN Append(history, <<"evidence", row[x].finding, x>>)
                    ELSE history
      /\ Finish(q)
      /\ UNCHANGED <<approved, store>>
    BY DEF Confirm
<1>2. x \in Record /\ x \in objects /\ row[x] \in Row
    BY <1>1 DEF IInv, TypeOK, RequestInv, FilingInv, Writing, Filing
<1>3. /\ new \in Row /\ new.state = "stored" /\ new.finding = row[x].finding
      /\ new.sha256 = row[x].sha256
    BY <1>2 DEF Row
<1> HIDE DEF new
<1>4. row'[x] = new /\ \A y \in Record \ {x} : row'[y] = row[y]
    BY <1>1, <1>2 DEF IInv, TypeOK
<1>5. HistoryGrows
    <2>1. CASE x \in Capture
        <3>1. row[x].finding \in Finding
            BY <1>1, <1>2, <2>1 DEF IInv, TypeOK, Row
        <3>2. <<"evidence", row[x].finding, x>> \in Fact
            BY <2>1, <3>1 DEF Fact
        <3> QED
            BY <1>1, <2>1, <3>2 DEF HistoryGrows
    <2> QED
        BY <1>1, <2>1 DEF HistoryGrows
<1>6. MovesTo(q, "idle", Nothing) /\ KeepsApart(q, "idle", Nothing) /\ RequestInv(q)'
    BY <1>1, FinishMoves
<1>7. "idle" \in Labels
    BY DEF Labels
<1>8. /\ pc' \in [Request -> Labels] /\ req' \in [Request -> InHand]
      /\ \A p \in Request \ {q} : pc'[p] = pc[p] /\ req'[p] = req[p]
    BY <1>6, <1>7, NothingType, MoveTypes DEF IInv
<1>9. TypeOK'
    <2>1. row' \in [Record -> Row]
        BY <1>1, <1>3 DEF IInv, TypeOK
    <2>2. \A y \in Record : row'[y].state = "absent" <=> row'[y].sha256 = None
        BY <1>1, <1>2, <1>3, <1>4 DEF IInv, TypeOK
    <2>3. \A y \in Record :
              row'[y].finding # None <=> row'[y].state # "absent" /\ y \in Capture
        BY <1>1, <1>2, <1>3, <1>4 DEF IInv, TypeOK
    <2>4. history' \in Seq(Fact)
        BY <1>5, HistoryType DEF IInv
    <2> QED
        BY <1>1, <1>8, <2>1, <2>2, <2>3, <2>4 DEF IInv, TypeOK, Labels, store
<1>10. ASSUME NEW p \in Request, p # q
       PROVE  RequestInv(p)'
    <2>1. pc[p] \in Writing => req[p].record # x /\ req[p].record \in Record
        BY <1>1, <1>10 DEF IInv, ApartInv, Writing, Filing, RequestInv, FilingInv
    <2>2. Frame(p)
        BY <1>1, <1>4, <1>5, <1>8, <1>10, <2>1 DEF Frame, store
    <2> QED
        BY <2>2, FrameKeeps
<1>11. ApartInv'
    BY <1>6, ApartStep
<1>12. Stored' = Stored \cup {x}
    BY <1>2, <1>3, <1>4 DEF Stored
<1>13. StoredIsInCustody' /\ AtMostOne'
    BY <1>1, <1>2, <1>12 DEF IInv, StoredIsInCustody, AtMostOne, store
<1>14. Reconcilable'
    BY <1>1, <1>3, <1>4 DEF IInv, TypeOK, Reconcilable, store
<1>15. ReportIsOneMoment'
    <2> SUFFICES ASSUME NEW r \in Revision, row'[r].sha256 \in [shows : SUBSET Fact]
                 PROVE  \E n \in 0 .. Len(history') :
                            row'[r].sha256.shows = {history'[i] : i \in 1 .. n}
        BY DEF ReportIsOneMoment
    <2>1. row'[r].sha256 = row[r].sha256
        BY <1>3, <1>4 DEF Record
    <2>2. PICK S : S = row[r].sha256.shows
        OBVIOUS
    <2>3. Moment(S)
        BY <2>1, <2>2 DEF IInv, ReportIsOneMoment, Moment
    <2> QED
        BY <1>5, <2>1, <2>2, <2>3, MomentStays DEF IInv
<1> QED
    BY <1>6, <1>9, <1>10, <1>11, <1>13, <1>14, <1>15 DEF IInv
-----------------------------------------------------------------------------
(* Approval and retests *)

LEMMA ApproveKeeps ==
    ASSUME IInv, NEW q \in Request, Approve(q)
    PROVE  IInv'
<1>1. /\ pc[q] = "approving" /\ Approvable(req[q].record)
      /\ UncommittedApprovals(q) = {} /\ approved = {}
      /\ pc' = [pc EXCEPT ![q] = "approved"]
      /\ UNCHANGED <<tables, store, req>>
    BY DEF Approve, Goto
<1>2. \A p \in Request : pc[p] # "approved"
    BY <1>1 DEF UncommittedApprovals
<1>3. "approved" \in Labels /\ req[q] \in InHand
    BY DEF Labels, IInv, TypeOK
<1>4. MovesTo(q, "approved", req[q]) /\ KeepsApart(q, "approved", req[q])
    BY <1>1, <1>2 DEF MovesTo, KeepsApart, Writing, Filing, IInv, TypeOK
<1>5. pc'[q] = "approved"
    BY <1>1 DEF IInv, TypeOK
<1>6. RequestInv(q)'
    BY <1>1, <1>5
    DEF IInv, RequestInv, FilingInv, ReadingInv, ApprovalInv, Writing, Filing,
        Approvable, tables, store
<1> QED
    BY <1>1, <1>3, <1>4, <1>6, HandlerStep

LEMMA AuditApprovalKeeps ==
    ASSUME IInv, NEW q \in Request, AuditApproval(q)
    PROVE  IInv'
<1>1. /\ pc[q] = "approved"
      /\ approved' = approved \cup {req[q].record}
      /\ Finish(q)
      /\ UNCHANGED <<row, history, store>>
    BY DEF AuditApproval
<1>2. /\ req[q].record \in Revision /\ approved = {}
      /\ row[req[q].record].state = "stored"
    BY <1>1 DEF IInv, RequestInv, ApprovalInv
<1>3. MovesTo(q, "idle", Nothing) /\ KeepsApart(q, "idle", Nothing) /\ RequestInv(q)'
    BY <1>1, FinishMoves
<1>4. "idle" \in Labels
    BY DEF Labels
<1>5. /\ pc' \in [Request -> Labels] /\ req' \in [Request -> InHand]
      /\ \A p \in Request \ {q} : pc'[p] = pc[p] /\ req'[p] = req[p]
    BY <1>3, <1>4, NothingType, MoveTypes DEF IInv
<1>6. TypeOK'
    BY <1>1, <1>2, <1>5 DEF IInv, TypeOK, Labels, store
<1>7. ASSUME NEW p \in Request, p # q
      PROVE  RequestInv(p)'
    <2>1. pc[p] # "approved"
        BY <1>1, <1>7 DEF IInv, ApartInv
    <2>2. Frame(p)
        BY <1>1, <1>5, <1>7, <2>1 DEF Frame, HistoryGrows, store
    <2> QED
        BY <2>2, FrameKeeps
<1>8. ApartInv'
    BY <1>3, ApartStep
<1>9. Reconcilable' /\ AtMostOne' /\ ReportIsOneMoment'
    BY <1>1, <1>2 DEF IInv, Reconcilable, AtMostOne, ReportIsOneMoment, store
<1>10. StoredIsInCustody'
    BY <1>1, <1>2 DEF IInv, StoredIsInCustody, Stored, Record, store
<1> QED
    BY <1>3, <1>6, <1>7, <1>8, <1>9, <1>10 DEF IInv

LEMMA RecordRetestKeeps ==
    ASSUME IInv, NEW f \in Finding, RecordRetest(f)
    PROVE  IInv'
<1>1. PICK round \in 1 .. MaxRetests :
          /\ history' = Append(history, <<"retest", f, round>>)
          /\ UNCHANGED <<row, approved, store, pc, req>>
    BY DEF RecordRetest
<1>2. <<"retest", f, round>> \in Fact
    BY DEF Fact
<1>3. HistoryGrows
    BY <1>1, <1>2 DEF HistoryGrows
<1>4. TypeOK'
    BY <1>1, <1>3, HistoryType DEF IInv, TypeOK, store
<1>5. \A p \in Request : RequestInv(p)'
    BY <1>1, <1>3, FrameKeeps DEF Frame, store
<1>6. ApartInv' /\ StoredIsInCustody' /\ Reconcilable' /\ AtMostOne'
    BY <1>1 DEF IInv, ApartInv, StoredIsInCustody, Stored, Reconcilable, AtMostOne,
                store
<1>7. ReportIsOneMoment'
    <2> SUFFICES ASSUME NEW r \in Revision, row[r].sha256 \in [shows : SUBSET Fact]
                 PROVE  \E n \in 0 .. Len(history') :
                            row[r].sha256.shows = {history'[i] : i \in 1 .. n}
        BY <1>1 DEF ReportIsOneMoment
    <2>1. PICK S : S = row[r].sha256.shows
        OBVIOUS
    <2>2. Moment(S)
        BY <2>1 DEF IInv, ReportIsOneMoment, Moment
    <2> QED
        BY <1>3, <2>1, <2>2, MomentStays DEF IInv
<1> QED
    BY <1>4, <1>5, <1>6, <1>7 DEF IInv
-----------------------------------------------------------------------------
(* The invariant *)

LEMMA InitInvariant == Init => IInv
<1> SUFFICES ASSUME Init
             PROVE  IInv
    OBVIOUS
<1>1. TypeOK
    <2>1. NoRow \in Row
        BY DEF NoRow, Row
    <2> QED
        BY <2>1, NothingType DEF Init, TypeOK, NoRow
<1>2. \A q \in Request : RequestInv(q)
    BY IdleInv DEF Init
<1>3. ApartInv
    BY DEF Init, ApartInv, Writing, Filing
<1>4. StoredIsInCustody /\ Reconcilable /\ AtMostOne
    BY DEF Init, StoredIsInCustody, Stored, Reconcilable, AtMostOne, NoRow
<1>5. ReportIsOneMoment
    BY NoneAssumption DEF Init, ReportIsOneMoment, NoRow, Record, Contents
<1> QED
    BY <1>1, <1>2, <1>3, <1>4, <1>5 DEF IInv

LEMMA StepInvariant == IInv /\ [Next]_vars => IInv'
<1> SUFFICES ASSUME IInv, [Next]_vars
             PROVE  IInv'
    OBVIOUS
<1>1. CASE UNCHANGED vars
    <2> USE <1>1 DEF vars, tables, store
    <2>1. TypeOK' /\ ApartInv' /\ StoredIsInCustody' /\ Reconcilable' /\ AtMostOne'
        BY DEF IInv, TypeOK, ApartInv, StoredIsInCustody, Stored, Reconcilable, AtMostOne
    <2>2. ReportIsOneMoment'
        BY DEF IInv, ReportIsOneMoment
    <2>3. \A p \in Request : RequestInv(p)'
        BY FrameKeeps DEF Frame, HistoryGrows
    <2> QED
        BY <2>1, <2>2, <2>3 DEF IInv
<1>2. ASSUME NEW q \in Request, Abandon(q) \/ ApproveRefused(q)
      PROVE  IInv'
    BY <1>2, EndKeeps DEF Abandon, ApproveRefused
<1> QED
    BY <1>1, <1>2, StartFilingKeeps, StartGenerationKeeps, StartApprovalKeeps,
       ReadSectionKeeps, ReserveKeeps, SendPutKeeps, UploadEndKeeps,
       PutAcknowledgedKeeps, ConfirmKeeps, ApproveKeeps, AuditApprovalKeeps,
       RecordRetestKeeps
    DEF Next

\* The inductive invariant holds of every behaviour.
THEOREM Invariant == Spec => []IInv
BY InitInvariant, StepInvariant, PTL DEF Spec

\* The types of the tables, the store and the requests.
THEOREM TypeCorrect == Spec => []TypeOK
<1>1. IInv => TypeOK
    BY DEF IInv
<1> QED
    BY <1>1, Invariant, PTL

\* What is stored or approved has its bytes in the object store, however many
\* requests were abandoned and uploads lost.
THEOREM StoredIsInCustodyTheorem == Spec => []StoredIsInCustody
<1>1. IInv => StoredIsInCustody
    BY DEF IInv
<1> QED
    BY <1>1, Invariant, PTL

\* Every object, and every upload on its way, has a row that names it.
THEOREM ReconcilableTheorem == Spec => []Reconcilable
<1>1. IInv => Reconcilable
    BY DEF IInv
<1> QED
    BY <1>1, Invariant, PTL

\* A generated report shows one moment of the engagement, whatever is captured
\* and retested while it is written.
THEOREM ReportIsOneMomentTheorem == Spec => []ReportIsOneMoment
<1>1. IInv => ReportIsOneMoment
    BY DEF IInv
<1> QED
    BY <1>1, Invariant, PTL

\* One revision at most is approved, for any number of concurrent approvals.
THEOREM OneApprovalTheorem == Spec => []OneApproval
<1>1. IInv => OneApproval
    BY DEF IInv, AtMostOne, OneApproval, RequestInv, ApprovalInv
<1> QED
    BY <1>1, Invariant, PTL
-----------------------------------------------------------------------------
(* Custody implements RecordFiling *)

LEMMA InitImplements == Init => Abstract!Init
BY DEF Init, NoRow, ClaimOf, Stored, Abstract!Init

\* Requests, the history and uploads on their way are no part of the promise.
LEMMA UnseenStep ==
    ASSUME row' = row, objects' = objects, approved' = approved
    PROVE  UNCHANGED Abstract!vars
BY DEF Abstract!vars, ClaimOf, Stored

\* A reservation claims a record that nobody has claimed.
LEMMA ReserveImplements ==
    ASSUME IInv, NEW q \in Request, Reserve(q)
    PROVE  Abstract!Next
<1> DEFINE x == req[q].record
           claimed == [y \in Record |-> ClaimOf(y)]
           claim == [finding |-> req[q].finding, sha256 |-> req[q].contents]
<1>1. x \in Record /\ row[x].state = "absent" /\ req[q].contents \in Contents
    BY DEF Reserve, IInv, RequestInv, FilingInv, Writing, Filing
<1>2. req[q].finding \in Finding \cup {None}
    BY DEF IInv, TypeOK, InHand
<1>3. /\ row' = [row EXCEPT ![x] = NewRow(req[q])]
      /\ objects' = objects /\ approved' = approved
      /\ row \in [Record -> Row]
    BY DEF Reserve, store, IInv, TypeOK
<1>4. /\ row'[x] = NewRow(req[q])
      /\ \A y \in Record \ {x} : row'[y] = row[y]
    BY <1>1, <1>3
<1>5. /\ NewRow(req[q]).state = "pending"
      /\ NewRow(req[q]).finding = req[q].finding
      /\ NewRow(req[q]).sha256 = req[q].contents
    BY DEF NewRow
<1>6. ClaimOf(x) = {}
    BY <1>1 DEF ClaimOf
<1>7. \A y \in Record : ClaimOf(y)' = IF y = x THEN {claim} ELSE ClaimOf(y)
  <2> SUFFICES ASSUME NEW y \in Record
               PROVE  ClaimOf(y)' = IF y = x THEN {claim} ELSE ClaimOf(y)
      OBVIOUS
  <2>1. CASE y = x
    <3>1. /\ row'[y].state # "absent"
          /\ row'[y].finding = req[q].finding /\ row'[y].sha256 = req[q].contents
        BY <1>4, <1>5, <2>1
    <3>2. ClaimOf(y)' = {claim}
        BY <3>1 DEF ClaimOf
    <3> QED
        BY <2>1, <3>2
  <2>2. CASE y # x
      BY <1>4, <2>2 DEF ClaimOf
  <2> QED
      BY <2>1, <2>2
<1>8. claimed' = [claimed EXCEPT ![x] = {claim}]
  <2>1. claimed' = [y \in Record |-> IF y = x THEN {claim} ELSE ClaimOf(y)]
      BY <1>7
  <2> QED
      BY <2>1
<1>9. Stored' = Stored
    BY <1>1, <1>4, <1>5 DEF Stored
<1>10. claim \in [finding : Finding \cup {None}, sha256 : Contents]
    BY <1>1, <1>2
<1>11. Abstract!Claim(x)
    BY <1>1, <1>3, <1>6, <1>8, <1>9, <1>10 DEF Abstract!Claim
<1> QED
    BY <1>1, <1>11 DEF Abstract!Next

\* An upload that the store carries out has a row that claims it.
LEMMA PutAppliedImplements ==
    ASSUME IInv, NEW x \in Record, PutApplied(x)
    PROVE  Abstract!Next
<1>1. row[x].state # "absent"
    BY DEF PutApplied, IInv, Reconcilable
<1>2. ClaimOf(x) # {}
    BY <1>1 DEF ClaimOf
<1>3. row' = row /\ approved' = approved /\ objects' = objects \cup {x}
    BY DEF PutApplied, tables
<1>4. Stored' = Stored /\ \A y \in Record : ClaimOf(y)' = ClaimOf(y)
    BY <1>3 DEF Stored, ClaimOf
<1>5. Abstract!Arrive(x)
    BY <1>2, <1>3, <1>4 DEF Abstract!Arrive
<1> QED
    BY <1>5 DEF Abstract!Next

\* A confirmation files a record whose bytes are there, for what it was claimed.
LEMMA ConfirmImplements ==
    ASSUME IInv, NEW q \in Request, Confirm(q)
    PROVE  Abstract!Next
<1> DEFINE x == req[q].record
<1>1. x \in Record /\ x \in objects /\ row[x].state = "pending"
    BY DEF Confirm, IInv, RequestInv, FilingInv, Writing, Filing
<1>2. /\ row' = [row EXCEPT ![x].state = "stored"]
      /\ objects' = objects /\ approved' = approved
      /\ row \in [Record -> Row]
    BY DEF Confirm, store, IInv, TypeOK
<1>3. /\ row'[x].state = "stored"
      /\ row'[x].finding = row[x].finding /\ row'[x].sha256 = row[x].sha256
      /\ \A y \in Record \ {x} : row'[y] = row[y]
    BY <1>1, <1>2 DEF Row
<1>4. \A y \in Record : ClaimOf(y)' = ClaimOf(y)
    BY <1>1, <1>3 DEF ClaimOf
<1>5. Stored' = Stored \cup {x}
    BY <1>1, <1>3 DEF Stored
<1>6. Abstract!File(x)
    BY <1>1, <1>2, <1>4, <1>5 DEF Abstract!File
<1> QED
    BY <1>1, <1>6 DEF Abstract!Next

\* An approval commits for a revision that is filed, when there is no other.
LEMMA AuditApprovalImplements ==
    ASSUME IInv, NEW q \in Request, AuditApproval(q)
    PROVE  Abstract!Next
<1> DEFINE r == req[q].record
<1>1. r \in Revision /\ approved = {} /\ row[r].state = "stored"
    BY DEF AuditApproval, IInv, RequestInv, ApprovalInv
<1>2. row' = row /\ objects' = objects /\ approved' = {r}
    BY <1>1 DEF AuditApproval, store
<1>3. r \in Stored
    BY <1>1 DEF Stored, Record
<1>4. Stored' = Stored /\ \A y \in Record : ClaimOf(y)' = ClaimOf(y)
    BY <1>2 DEF Stored, ClaimOf
<1>5. Abstract!Approve(r)
    BY <1>1, <1>2, <1>3, <1>4 DEF Abstract!Approve
<1> QED
    BY <1>1, <1>5 DEF Abstract!Next

LEMMA StepImplements == IInv /\ [Next]_vars => [Abstract!Next]_(Abstract!vars)
<1> SUFFICES ASSUME IInv, [Next]_vars
             PROVE  [Abstract!Next]_(Abstract!vars)
    OBVIOUS
<1> USE DEF tables, store
<1>1. CASE UNCHANGED vars
    BY <1>1, UnseenStep DEF vars
<1>2. ASSUME NEW q \in Request,
             StartCapture(q) \/ StartImport(q) \/ StartGeneration(q) \/ StartApproval(q)
      PROVE  UNCHANGED Abstract!vars
    BY <1>2, UnseenStep
    DEF StartCapture, StartImport, StartGeneration, StartApproval, Receive
<1>3. ASSUME NEW q \in Request, ReadSection(q) \/ SendPut(q) \/ PutAcknowledged(q)
      PROVE  UNCHANGED Abstract!vars
    BY <1>3, UnseenStep DEF ReadSection, SendPut, PutAcknowledged
<1>4. ASSUME NEW q \in Request, Approve(q) \/ ApproveRefused(q) \/ Abandon(q)
      PROVE  UNCHANGED Abstract!vars
    BY <1>4, UnseenStep DEF Approve, ApproveRefused, Abandon
<1>5. ASSUME NEW x \in Record, PutLost(x)
      PROVE  UNCHANGED Abstract!vars
    BY <1>5, UnseenStep DEF PutLost
<1>6. ASSUME NEW f \in Finding, RecordRetest(f)
      PROVE  UNCHANGED Abstract!vars
    BY <1>6, UnseenStep DEF RecordRetest
<1> QED
    BY <1>1, <1>2, <1>3, <1>4, <1>5, <1>6, ReserveImplements, PutAppliedImplements,
       ConfirmImplements, AuditApprovalImplements
    DEF Next

\* The handlers, the tables and the object store together implement RecordFiling,
\* for any number of findings, captures, revisions and requests.
THEOREM Implementation == Spec => FilesOnce
<1>1. Init => Abstract!Init
    BY InitImplements
<1>2. IInv /\ [Next]_vars => [Abstract!Next]_(Abstract!vars)
    BY StepImplements
<1> QED
    BY <1>1, <1>2, Invariant, PTL DEF Spec, FilesOnce, Abstract!Spec
-----------------------------------------------------------------------------
(* What the abstract specification says of rows and objects *)

\* A claim of the abstract specification is made once.
LEMMA ClaimsStand ==
    ASSUME [Abstract!Next]_(Abstract!vars), NEW x \in Record, ClaimOf(x) # {}
    PROVE  ClaimOf(x)' = ClaimOf(x)
<1> DEFINE claimed == [y \in Record |-> ClaimOf(y)]
<1>1. claimed[x] = ClaimOf(x) /\ claimed'[x] = ClaimOf(x)'
    OBVIOUS
<1>2. ASSUME NEW y \in Record, Abstract!Claim(y)
      PROVE  claimed'[x] = claimed[x]
  <2>1. ClaimOf(y) = {} /\ x # y
      BY <1>2 DEF Abstract!Claim
  <2>2. PICK c : claimed' = [claimed EXCEPT ![y] = {c}]
      BY <1>2 DEF Abstract!Claim
  <2> QED
      BY <2>1, <2>2
<1>3. CASE claimed' = claimed
    BY <1>1, <1>3
<1>4. \/ claimed' = claimed
      \/ \E y \in Record : Abstract!Claim(y)
    BY DEF Abstract!Next, Abstract!Arrive, Abstract!File, Abstract!Approve, Abstract!vars
<1> QED
    BY <1>1, <1>2, <1>3, <1>4

\* Nothing that is in the store, filed or approved is taken back.
LEMMA FiledStays ==
    ASSUME [Abstract!Next]_(Abstract!vars)
    PROVE  objects \subseteq objects' /\ Stored \subseteq Stored' /\ approved \subseteq approved'
BY DEF Abstract!Next, Abstract!Claim, Abstract!Arrive, Abstract!File, Abstract!Approve, Abstract!vars

\* No failure, retry or late upload takes back what is stored, in the object store or
\* approved, and a row never changes the finding or the digest it was reserved for
\* (ReserveEvidence, ReserveReportRevision and the updates of their rows): what the
\* abstract specification says of records, said of rows.
THEOREM NothingIsTakenBack ==
    Spec => [][/\ \A x \in Record : row[x].state # "absent" =>
                      /\ row'[x].state # "absent"
                      /\ row'[x].finding = row[x].finding
                      /\ row'[x].sha256 = row[x].sha256
               /\ objects \subseteq objects' /\ Stored \subseteq Stored'
               /\ approved \subseteq approved']_vars
<1>1. IInv /\ [Next]_vars =>
          [/\ \A x \in Record : row[x].state # "absent" =>
                  /\ row'[x].state # "absent"
                  /\ row'[x].finding = row[x].finding
                  /\ row'[x].sha256 = row[x].sha256
           /\ objects \subseteq objects' /\ Stored \subseteq Stored'
           /\ approved \subseteq approved']_vars
    <2> SUFFICES ASSUME IInv, [Next]_vars
                 PROVE  /\ \A x \in Record : row[x].state # "absent" =>
                               /\ row'[x].state # "absent"
                               /\ row'[x].finding = row[x].finding
                               /\ row'[x].sha256 = row[x].sha256
                        /\ objects \subseteq objects' /\ Stored \subseteq Stored'
                        /\ approved \subseteq approved'
        OBVIOUS
    <2>1. [Abstract!Next]_(Abstract!vars)
        BY StepImplements
    <2>2. ASSUME NEW x \in Record, row[x].state # "absent"
          PROVE  /\ row'[x].state # "absent"
                 /\ row'[x].finding = row[x].finding
                 /\ row'[x].sha256 = row[x].sha256
      <3>1. ClaimOf(x) = {[finding |-> row[x].finding, sha256 |-> row[x].sha256]}
          BY <2>2 DEF ClaimOf
      <3>2. ClaimOf(x)' = {[finding |-> row[x].finding, sha256 |-> row[x].sha256]}
          BY <2>1, <3>1, ClaimsStand
      <3>3. row'[x].state # "absent"
          BY <3>2 DEF ClaimOf
      <3>4. ClaimOf(x)' = {[finding |-> row'[x].finding, sha256 |-> row'[x].sha256]}
          BY <3>3 DEF ClaimOf
      <3>5. [finding |-> row'[x].finding, sha256 |-> row'[x].sha256]
            = [finding |-> row[x].finding, sha256 |-> row[x].sha256]
          BY <3>2, <3>4
      <3> QED
          BY <3>3, <3>5
    <2> QED
        BY <2>1, <2>2, FiledStays
<1> QED
    BY <1>1, Invariant, PTL DEF Spec
=============================================================================
