--------------------------- MODULE Delivery_proofs ---------------------------
(***************************************************************************)
(* Proofs about Delivery, for every set of revisions, rows and requests    *)
(* and every bound on failures.                                            *)
(***************************************************************************)
EXTENDS Delivery, SequenceTheorems, TLAPS

\* The types a reservation or its outcome could disturb.
RowTypes ==
    /\ row \in [Pdf -> Row]
    /\ audit \in [Pdf -> Seq(AuditEvent)]

\* A row whose state changed is still a row.
LEMMA RowWithState ==
    ASSUME NEW x \in Row,
           NEW state \in {"absent", "pending", "stored", "failed"}
    PROVE  [x EXCEPT !.state = state] \in Row
BY DEF Row

\* A reservation, whatever request makes it, keeps the types of the rows.
LEMMA ReserveTxType ==
    ASSUME TypeOK, NEW q \in Request, NEW p \in Pdf, ReserveTx(q, p),
           rev[q] \in Revision, read[q] \in Bytes
    PROVE  RowTypes'
<1>1. NewRow(q) \in Row
  BY DEF NewRow, Converted, Row
<1>2. \A x \in Pdf : [row[x] EXCEPT !.state = "failed"] \in Row
  BY RowWithState DEF TypeOK
<1>3. row' \in [Pdf -> Row]
  BY <1>1, <1>2 DEF ReserveTx, TypeOK
<1>4. \A x \in Pdf : Append(audit[x], "failed") \in Seq(AuditEvent)
  BY DEF TypeOK, AuditEvent
<1>5. <<"derived">> \in Seq(AuditEvent)
  BY DEF AuditEvent
<1>6. audit' \in [Pdf -> Seq(AuditEvent)]
  BY <1>4, <1>5 DEF ReserveTx, ReservedAudit, TypeOK
<1> QED
  BY <1>3, <1>6 DEF ReserveTx, RowTypes, TypeOK

\* So does an update that settles one reservation.
LEMMA SettleTxType ==
    ASSUME TypeOK, NEW p \in Pdf, NEW outcome \in {"stored", "failed"},
           SettleTx(p, outcome)
    PROVE  RowTypes'
<1>1. [row[p] EXCEPT !.state = outcome] \in Row
  BY RowWithState DEF TypeOK
<1>2. Append(audit[p], outcome) \in Seq(AuditEvent)
  BY DEF TypeOK, AuditEvent
<1>3. row' \in [Pdf -> Row]
  BY <1>1 DEF SettleTx, TypeOK
<1>4. audit' \in [Pdf -> Seq(AuditEvent)]
  BY <1>2 DEF SettleTx, TypeOK
<1> QED
  BY <1>3, <1>4 DEF SettleTx, RowTypes, TypeOK

(* What a request at work knows: it is about an approved revision, what it *)
(* converts are the approved bytes, and the row it holds is of that        *)
(* revision.                                                               *)
RequestInv ==
    \A q \in Request :
        /\ pc[q] \in Active => rev[q] \in approved
        /\ pc[q] \in {"converting", "reserving"} => read[q] = rev[q]
        /\ pc[q] \in {"reserved", "putting", "confirming", "failing"} =>
              /\ own[q] \in Pdf
              /\ row[own[q]].state # "absent"
              /\ row[own[q]].revision = rev[q]
        /\ pc[q] = "confirming" => objects[own[q]] # None
        /\ pc[q] \in {"reading", "converting", "reserving"} =>
              reply[q] = "none"

(* A row, once written, records an approved revision and its conversion.   *)
RowInv ==
    \A p \in Pdf : row[p].state # "absent" =>
        /\ row[p].revision \in approved
        /\ row[p].source = row[p].revision
        /\ row[p].sha256 = Converted(row[p].revision)

(* What reached the bucket is what the row of that key describes.          *)
StoreInv ==
    \A p \in Pdf :
        /\ put[p] # "unsent" => row[p].state # "absent"
        /\ put[p] = "applied" => objects[p] # None
        /\ objects[p] # None => /\ row[p].state # "absent"
                                /\ objects[p] = row[p].sha256
        /\ row[p].state = "stored" => objects[p] # None

IInv ==
    /\ TypeOK
    /\ RequestInv
    /\ RowInv
    /\ StoreInv
    /\ OneEffectivePdf
    /\ CreatedIsDelivered
    /\ AuditTellsTheHistory

(* A step leaves the table alone, adds a reservation, or settles one.      *)
TableStep ==
    /\ approved \subseteq approved'
    /\ \/ row' = row /\ audit' = audit
       \/ \E q \in Request, p \in Pdf : pc[q] = "reserving" /\ ReserveTx(q, p)
       \/ \E q \in Request : /\ pc[q] = "confirming"
                             /\ SettleTx(own[q], "stored")
       \/ \E q \in Request : pc[q] = "failing" /\ SettleTx(own[q], "failed")

\* Every action of the specification, failures included, is one of those.
LEMMA TableSteps == [Next]_vars => TableStep
<1> SUFFICES ASSUME [Next]_vars PROVE TableStep
  OBVIOUS
<1> USE DEF rows, TableStep
<1>1. ASSUME NEW r \in Revision, Approve(r) PROVE TableStep
  BY <1>1 DEF Approve
<1>2. ASSUME NEW q \in Request, NEW r \in Revision, Start(q, r) PROVE TableStep
  BY <1>2 DEF Start
<1>3. ASSUME NEW q \in Request, ReadApprovedDOCX(q) PROVE TableStep
  BY <1>3 DEF ReadApprovedDOCX, DigestMatches, Bytes
<1>4. ASSUME NEW q \in Request, ReadFails(q) PROVE TableStep
  BY <1>4 DEF ReadFails
<1>5. ASSUME NEW q \in Request, Convert(q) PROVE TableStep
  BY <1>5 DEF Convert
<1>6. ASSUME NEW q \in Request, ConvertFails(q) PROVE TableStep
  BY <1>6 DEF ConvertFails
<1>7. ASSUME NEW q \in Request, Reserve(q) PROVE TableStep
  BY <1>7 DEF Reserve
<1>8. ASSUME NEW q \in Request, ReserveRefused(q) PROVE TableStep
  BY <1>8 DEF ReserveRefused
<1>9. ASSUME NEW q \in Request, ReserveFails(q) PROVE TableStep
  BY <1>9 DEF ReserveFails
<1>10. ASSUME NEW q \in Request, SendPut(q) PROVE TableStep
  BY <1>10 DEF SendPut
<1>11. ASSUME NEW q \in Request, OpenFails(q) PROVE TableStep
  BY <1>11 DEF OpenFails
<1>12. ASSUME NEW p \in Pdf, PutApplied(p) PROVE TableStep
  BY <1>12 DEF PutApplied
<1>13. ASSUME NEW p \in Pdf, PutLost(p) PROVE TableStep
  BY <1>13 DEF PutLost
<1>14. ASSUME NEW q \in Request, PutAcknowledged(q) PROVE TableStep
  BY <1>14 DEF PutAcknowledged
<1>15. ASSUME NEW q \in Request, PutFails(q) PROVE TableStep
  BY <1>15 DEF PutFails
<1>16. ASSUME NEW q \in Request, Confirm(q) PROVE TableStep
  BY <1>16 DEF Confirm
<1>17. ASSUME NEW q \in Request, ConfirmRefused(q) PROVE TableStep
  BY <1>17 DEF ConfirmRefused
<1>18. ASSUME NEW q \in Request, ConfirmFails(q) PROVE TableStep
  BY <1>18 DEF ConfirmFails
<1>19. ASSUME NEW q \in Request, Recover(q) PROVE TableStep
  BY <1>19 DEF Recover
<1>20. ASSUME NEW q \in Request, RecoverFails(q) PROVE TableStep
  BY <1>20 DEF RecoverFails
<1>21. ASSUME NEW p \in Pdf, Age(p) PROVE TableStep
  BY <1>21 DEF Age
<1>22. ASSUME Crash PROVE TableStep
  BY <1>22 DEF Crash
<1>23. CASE UNCHANGED vars
  BY <1>23 DEF vars
<1> QED
  BY <1>1, <1>2, <1>3, <1>4, <1>5, <1>6, <1>7, <1>8, <1>9, <1>10, <1>11,
     <1>12, <1>13, <1>14, <1>15, <1>16, <1>17, <1>18, <1>19, <1>20, <1>21,
     <1>22, <1>23
  DEF Next, Progress, Failure

\* A reservation retires rows of its own revision that were pending, writes one
\* that was absent, and leaves the others as they are.
LEMMA ReserveTxRows ==
    ASSUME IInv, NEW q \in Request, NEW p \in Pdf, ReserveTx(q, p),
           NEW x \in Pdf
    PROVE  /\ x = p => row'[x] = NewRow(q) /\ row[x].state = "absent"
           /\ x # p /\ x \in Stale(rev[q]) =>
                 /\ row[x].state = "pending"
                 /\ row'[x].state = "failed"
                 /\ row'[x].revision = row[x].revision
                 /\ row'[x].source = row[x].source
                 /\ row'[x].sha256 = row[x].sha256
           /\ x # p /\ x \notin Stale(rev[q]) => row'[x] = row[x]
<1>1. row[x] \in Row
  BY DEF IInv, TypeOK
<1> QED
  BY <1>1 DEF ReserveTx, Stale, PdfsOf, Row

\* Settling changes the state of one pending row.
LEMMA SettleTxRows ==
    ASSUME IInv, NEW p \in Pdf, NEW outcome \in {"stored", "failed"},
           SettleTx(p, outcome), NEW x \in Pdf
    PROVE  /\ x = p => /\ row[x].state = "pending"
                       /\ row'[x].state = outcome
                       /\ row'[x].revision = row[x].revision
                       /\ row'[x].source = row[x].source
                       /\ row'[x].sha256 = row[x].sha256
           /\ x # p => row'[x] = row[x]
<1>1. row[x] \in Row
  BY DEF IInv, TypeOK
<1> QED
  BY <1>1 DEF SettleTx, IInv, TypeOK, Row

(* Rows are never forgotten, their provenance never changes, and a settled *)
(* row does not change at all.                                             *)
TableGrows ==
    \A x \in Pdf :
        /\ row[x].state # "absent" =>
              /\ row'[x].state # "absent"
              /\ row'[x].revision = row[x].revision
              /\ row'[x].source = row[x].source
              /\ row'[x].sha256 = row[x].sha256
        /\ row[x].state \in {"stored", "failed"} => row'[x] = row[x]

LEMMA TableStepGrows == IInv /\ TableStep => TableGrows
<1> SUFFICES ASSUME IInv, TableStep, NEW x \in Pdf
             PROVE  TableGrows!(x)
  BY DEF TableGrows
<1>1. CASE row' = row
  BY <1>1
<1>2. ASSUME NEW q \in Request, NEW p \in Pdf, ReserveTx(q, p)
      PROVE  TableGrows!(x)
  BY <1>2, ReserveTxRows
<1>3. ASSUME NEW q \in Request, NEW outcome \in {"stored", "failed"},
             pc[q] \in {"confirming", "failing"}, SettleTx(own[q], outcome)
      PROVE  TableGrows!(x)
  <2>1. own[q] \in Pdf
    BY <1>3 DEF IInv, RequestInv
  <2> QED
    BY <1>3, <2>1, SettleTxRows
<1> QED
  BY <1>1, <1>2, <1>3 DEF TableStep

\* Provenance: what a row records is an approved revision and its conversion.
LEMMA RowInvStep == IInv /\ TableStep => RowInv'
<1> SUFFICES ASSUME IInv, TableStep, NEW x \in Pdf PROVE RowInv!(x)'
  BY DEF RowInv
<1>0. RowInv!(x) /\ approved \subseteq approved'
  BY DEF IInv, RowInv, TableStep
<1>1. CASE row' = row
  BY <1>0, <1>1
<1>2. ASSUME NEW q \in Request, NEW p \in Pdf, ReserveTx(q, p),
             pc[q] = "reserving"
      PROVE  RowInv!(x)'
  <2>1. read[q] = rev[q] /\ rev[q] \in approved
    BY <1>2 DEF IInv, RequestInv, Active
  <2>2. CASE x = p
    <3>1. row'[x] = NewRow(q)
      BY <1>2, <2>2, ReserveTxRows
    <3> QED
      BY <1>0, <2>1, <3>1 DEF NewRow
  <2>3. CASE x # p
    BY <1>0, <1>2, <2>3, ReserveTxRows
  <2> QED
    BY <2>2, <2>3
<1>3. ASSUME NEW q \in Request, NEW outcome \in {"stored", "failed"},
             pc[q] \in {"confirming", "failing"}, SettleTx(own[q], outcome)
      PROVE  RowInv!(x)'
  <2>1. own[q] \in Pdf
    BY <1>3 DEF IInv, RequestInv
  <2> QED
    BY <1>0, <1>3, <2>1, SettleTxRows
<1> QED
  BY <1>1, <1>2, <1>3 DEF TableStep

\* The unique index: a reservation finds no effective row it does not retire.
LEMMA OneEffectiveStep == IInv /\ TableStep => OneEffectivePdf'
<1> SUFFICES ASSUME IInv, TableStep, NEW p1 \in Pdf, NEW p2 \in Pdf
             PROVE  OneEffectivePdf!(p1, p2)'
  BY DEF OneEffectivePdf
<1>0. OneEffectivePdf!(p1, p2)
  BY DEF IInv, OneEffectivePdf
<1>1. CASE row' = row
  BY <1>0, <1>1
<1>2. ASSUME NEW q \in Request, NEW p \in Pdf, ReserveTx(q, p)
      PROVE  OneEffectivePdf!(p1, p2)'
  <2>1. \A x \in Pdf : /\ row[x].revision = rev[q]
                       /\ row[x].state \in {"pending", "stored"}
                       => x \in Stale(rev[q])
    BY <1>2 DEF ReserveTx, Reservable, SlotTaken, PdfsOf
  <2>2. NewRow(q).revision = rev[q]
    BY DEF NewRow
  <2> QED
    BY <1>0, <1>2, <2>1, <2>2, ReserveTxRows
<1>3. ASSUME NEW q \in Request, NEW outcome \in {"stored", "failed"},
             pc[q] \in {"confirming", "failing"}, SettleTx(own[q], outcome)
      PROVE  OneEffectivePdf!(p1, p2)'
  <2>1. own[q] \in Pdf
    BY <1>3 DEF IInv, RequestInv
  <2> QED
    BY <1>0, <1>3, <2>1, SettleTxRows
<1> QED
  BY <1>1, <1>2, <1>3 DEF TableStep

\* The history of a pending row is extended by its outcome.
LEMMA HistoryGrows ==
    ASSUME NEW outcome \in {"stored", "failed"}
    PROVE  Append(HistoryOf("pending"), outcome) = HistoryOf(outcome)
<1>1. HistoryOf("pending") = <<"derived">>
  BY DEF HistoryOf
<1>2. HistoryOf("stored") = <<"derived", "stored">>
  BY DEF HistoryOf
<1>3. HistoryOf("failed") = <<"derived", "failed">>
  BY DEF HistoryOf
<1>4. ASSUME NEW e \in AuditEvent
      PROVE  Append(<<"derived">>, e) = <<"derived", e>>
  <2>1. <<"derived">> \in Seq(AuditEvent) /\ <<"derived", e>> \in Seq(AuditEvent)
    BY DEF AuditEvent
  <2>2. Len(<<"derived">>) = 1 /\ <<"derived">>[1] = "derived"
    OBVIOUS
  <2>3. Len(<<"derived", e>>) = 2 /\ <<"derived", e>>[1] = "derived"
        /\ <<"derived", e>>[2] = e
    OBVIOUS
  <2> DEFINE both == Append(<<"derived">>, e)
  <2>4. /\ both \in Seq(AuditEvent)
        /\ Len(both) = 2
        /\ both[1] = "derived"
        /\ both[2] = e
    BY <2>1, <2>2, AppendProperties
  <2>5. \A i \in 1 .. 2 : both[i] = <<"derived", e>>[i]
    BY <2>3, <2>4
  <2> HIDE DEF both
  <2>6. both = <<"derived", e>>
    BY <2>1, <2>3, <2>4, <2>5, SeqEqual
  <2> QED
    BY <2>6 DEF both
<1> QED
  BY <1>1, <1>2, <1>3, <1>4 DEF AuditEvent

\* Each of the three kinds of step writes the audit event its change calls for.
LEMMA AuditStep == IInv /\ TableStep => AuditTellsTheHistory'
<1> SUFFICES ASSUME IInv, TableStep, NEW x \in Pdf
             PROVE  audit'[x] = HistoryOf(row'[x].state)
  BY DEF AuditTellsTheHistory, HistoryOf
<1>0. /\ audit[x] = HistoryOf(row[x].state)
      /\ audit \in [Pdf -> Seq(AuditEvent)]
  BY DEF IInv, AuditTellsTheHistory, TypeOK
<1>1. CASE row' = row /\ audit' = audit
  BY <1>0, <1>1
<1>2. ASSUME NEW q \in Request, NEW p \in Pdf, ReserveTx(q, p)
      PROVE  audit'[x] = HistoryOf(row'[x].state)
  <2>1. CASE x = p
    <3>1. row'[x].state = "pending" /\ audit'[x] = <<"derived">>
      BY <1>2, <2>1, ReserveTxRows DEF NewRow, ReserveTx, ReservedAudit
    <3> QED
      BY <3>1 DEF HistoryOf
  <2>2. CASE x # p /\ x \in Stale(rev[q])
    <3>1. /\ row[x].state = "pending" /\ row'[x].state = "failed"
          /\ audit'[x] = Append(audit[x], "failed")
      BY <1>2, <2>2, ReserveTxRows DEF ReserveTx, ReservedAudit
    <3> QED
      BY <1>0, <3>1, HistoryGrows
  <2>3. CASE x # p /\ x \notin Stale(rev[q])
    <3>1. row'[x] = row[x] /\ audit'[x] = audit[x]
      BY <1>2, <2>3, ReserveTxRows DEF ReserveTx, ReservedAudit
    <3> QED
      BY <1>0, <3>1
  <2> QED
    BY <2>1, <2>2, <2>3
<1>3. ASSUME NEW q \in Request, NEW outcome \in {"stored", "failed"},
             pc[q] \in {"confirming", "failing"}, SettleTx(own[q], outcome)
      PROVE  audit'[x] = HistoryOf(row'[x].state)
  <2>1. own[q] \in Pdf
    BY <1>3 DEF IInv, RequestInv
  <2>2. CASE x = own[q]
    <3>1. /\ row[x].state = "pending" /\ row'[x].state = outcome
          /\ audit'[x] = Append(audit[x], outcome)
      BY <1>0, <1>3, <2>1, <2>2, SettleTxRows DEF SettleTx
    <3> QED
      BY <1>0, <1>3, <3>1, HistoryGrows
  <2>3. CASE x # own[q]
    <3>1. row'[x] = row[x] /\ audit'[x] = audit[x]
      BY <1>0, <1>3, <2>1, <2>3, SettleTxRows DEF SettleTx
    <3> QED
      BY <1>0, <3>1
  <2> QED
    BY <2>2, <2>3
<1> QED
  BY <1>1, <1>2, <1>3 DEF TableStep

(* A step sends an upload, loses one, or has one arrive at a free key.     *)
BucketStep ==
    \/ objects' = objects /\ put' = put
    \/ \E q \in Request : /\ pc[q] = "reserved"
                          /\ objects' = objects
                          /\ put' = [put EXCEPT ![own[q]] = "sent"]
    \/ \E p \in Pdf : /\ put[p] = "sent"
                      /\ objects' = objects
                      /\ put' = [put EXCEPT ![p] = "lost"]
    \/ \E p \in Pdf : /\ put[p] = "sent"
                      /\ objects[p] = None
                      /\ objects' = [objects EXCEPT ![p] = row[p].sha256]
                      /\ put' = [put EXCEPT ![p] = "applied"]

\* Every action treats the bucket in one of those ways.
LEMMA BucketSteps == [Next]_vars => BucketStep
<1> SUFFICES ASSUME [Next]_vars PROVE BucketStep
  OBVIOUS
<1> USE DEF store, BucketStep
<1>1. ASSUME NEW r \in Revision, Approve(r) PROVE BucketStep
  BY <1>1 DEF Approve
<1>2. ASSUME NEW q \in Request, NEW r \in Revision, Start(q, r) PROVE BucketStep
  BY <1>2 DEF Start
<1>3. ASSUME NEW q \in Request, ReadApprovedDOCX(q) PROVE BucketStep
  BY <1>3 DEF ReadApprovedDOCX, DigestMatches, Bytes
<1>4. ASSUME NEW q \in Request, ReadFails(q) PROVE BucketStep
  BY <1>4 DEF ReadFails
<1>5. ASSUME NEW q \in Request, Convert(q) PROVE BucketStep
  BY <1>5 DEF Convert
<1>6. ASSUME NEW q \in Request, ConvertFails(q) PROVE BucketStep
  BY <1>6 DEF ConvertFails
<1>7. ASSUME NEW q \in Request, Reserve(q) PROVE BucketStep
  BY <1>7 DEF Reserve
<1>8. ASSUME NEW q \in Request, ReserveRefused(q) PROVE BucketStep
  BY <1>8 DEF ReserveRefused
<1>9. ASSUME NEW q \in Request, ReserveFails(q) PROVE BucketStep
  BY <1>9 DEF ReserveFails
<1>10. ASSUME NEW q \in Request, SendPut(q) PROVE BucketStep
  BY <1>10 DEF SendPut
<1>11. ASSUME NEW q \in Request, OpenFails(q) PROVE BucketStep
  BY <1>11 DEF OpenFails
<1>12. ASSUME NEW p \in Pdf, PutApplied(p) PROVE BucketStep
  BY <1>12 DEF PutApplied
<1>13. ASSUME NEW p \in Pdf, PutLost(p) PROVE BucketStep
  BY <1>13 DEF PutLost
<1>14. ASSUME NEW q \in Request, PutAcknowledged(q) PROVE BucketStep
  BY <1>14 DEF PutAcknowledged
<1>15. ASSUME NEW q \in Request, PutFails(q) PROVE BucketStep
  BY <1>15 DEF PutFails
<1>16. ASSUME NEW q \in Request, Confirm(q) PROVE BucketStep
  BY <1>16 DEF Confirm
<1>17. ASSUME NEW q \in Request, ConfirmRefused(q) PROVE BucketStep
  BY <1>17 DEF ConfirmRefused
<1>18. ASSUME NEW q \in Request, ConfirmFails(q) PROVE BucketStep
  BY <1>18 DEF ConfirmFails
<1>19. ASSUME NEW q \in Request, Recover(q) PROVE BucketStep
  BY <1>19 DEF Recover
<1>20. ASSUME NEW q \in Request, RecoverFails(q) PROVE BucketStep
  BY <1>20 DEF RecoverFails
<1>21. ASSUME NEW p \in Pdf, Age(p) PROVE BucketStep
  BY <1>21 DEF Age
<1>22. ASSUME Crash PROVE BucketStep
  BY <1>22 DEF Crash
<1>23. CASE UNCHANGED vars
  BY <1>23 DEF vars
<1> QED
  BY <1>1, <1>2, <1>3, <1>4, <1>5, <1>6, <1>7, <1>8, <1>9, <1>10, <1>11,
     <1>12, <1>13, <1>14, <1>15, <1>16, <1>17, <1>18, <1>19, <1>20, <1>21,
     <1>22, <1>23
  DEF Next, Progress, Failure

\* Stored bytes stay: nothing overwrites an object.
LEMMA BucketKeeps ==
    IInv /\ BucketStep =>
        \A x \in Pdf : objects[x] # None => objects'[x] = objects[x]
BY DEF BucketStep, IInv, TypeOK

\* The digest of a written row is not "no value".
LEMMA SomeDigest ==
    ASSUME IInv, NEW x \in Pdf, row[x].state # "absent"
    PROVE  row[x].sha256 # None
<1>1. row[x].sha256 = Converted(row[x].revision) /\ row[x].revision \in Bytes
  BY DEF IInv, RowInv, TypeOK, Bytes
<1>2. Converted(row[x].revision) \in [pdfOf : Bytes]
  BY <1>1 DEF Converted
<1> QED
  BY <1>1, <1>2, NoneAssumption

\* A row that becomes stored is the one whose upload the handler saw accepted.
LEMMA StoreInvStep == IInv /\ TableStep /\ BucketStep => StoreInv'
<1> SUFFICES ASSUME IInv, TableStep, BucketStep, NEW x \in Pdf
             PROVE  StoreInv!(x)'
  BY DEF StoreInv
<1>1. TableGrows!(x)
  BY TableStepGrows DEF TableGrows
<1>2. StoreInv!(x)
  BY DEF IInv, StoreInv
<1>3. \/ put'[x] = put[x] /\ objects'[x] = objects[x]
      \/ put'[x] = "sent" /\ objects'[x] = objects[x] /\ row[x].state # "absent"
      \/ put'[x] = "lost" /\ put[x] = "sent" /\ objects'[x] = objects[x]
      \/ /\ put'[x] = "applied" /\ put[x] = "sent"
         /\ objects'[x] = row[x].sha256
  BY DEF BucketStep, IInv, TypeOK, RequestInv
<1>4. objects[x] # None => objects'[x] = objects[x]
  BY BucketKeeps
<1>5. row'[x].state = "stored" => objects'[x] # None
  <2>1. CASE row' = row
    BY <1>2, <1>4, <2>1
  <2>2. ASSUME NEW q \in Request, NEW p \in Pdf, ReserveTx(q, p)
        PROVE  row'[x].state = "stored" => row[x].state = "stored"
    <3>1. NewRow(q).state = "pending"
      BY DEF NewRow
    <3> QED
      BY <2>2, <3>1, ReserveTxRows
  <2>3. ASSUME NEW q \in Request, pc[q] = "confirming",
               SettleTx(own[q], "stored")
        PROVE  row'[x].state = "stored" => objects[x] # None
    <3>1. own[q] \in Pdf /\ objects[own[q]] # None
      BY <2>3 DEF IInv, RequestInv
    <3> QED
      BY <1>2, <2>3, <3>1, SettleTxRows
  <2>4. ASSUME NEW q \in Request, pc[q] = "failing",
               SettleTx(own[q], "failed")
        PROVE  row'[x].state = "stored" => row[x].state = "stored"
    <3>1. own[q] \in Pdf
      BY <2>4 DEF IInv, RequestInv
    <3> QED
      BY <2>4, <3>1, SettleTxRows
  <2> QED
    BY <1>2, <1>4, <2>1, <2>2, <2>3, <2>4 DEF TableStep
<1>6. row[x].state # "absent" => row[x].sha256 # None
  BY SomeDigest
<1> QED
  BY <1>1, <1>2, <1>3, <1>4, <1>5, <1>6

\* What a request knows stays true while others act: rows and objects it relies
\* on are never taken away.
LEMMA RequestInvStep == IInv /\ [Next]_vars => RequestInv'
<1> SUFFICES ASSUME IInv, [Next]_vars PROVE RequestInv'
  OBVIOUS
<1>k. /\ approved \subseteq approved'
      /\ TableGrows
      /\ \A x \in Pdf : objects[x] # None => objects'[x] = objects[x]
  BY TableSteps, TableStepGrows, BucketSteps, BucketKeeps DEF TableStep
<1>t. /\ pc \in [Request -> Active \cup {"idle", "done"}]
      /\ own \in [Request -> Pdf \cup {None}]
      /\ rev \in [Request -> Revision \cup {None}]
      /\ read \in [Request -> Bytes \cup {None}]
      /\ reply \in [Request -> {"none", "created", "invalid_state",
                                "conversion_failed", "internal_error"}]
      /\ RequestInv
  BY DEF IInv, TypeOK
<1>new. ASSUME NEW q \in Request, NEW p \in Pdf, ReserveTx(q, p)
        PROVE  row'[p].state = "pending" /\ row'[p].revision = rev[q]
  <2>1. row'[p] = NewRow(q)
    BY <1>new, ReserveTxRows
  <2> QED
    BY <2>1 DEF NewRow
<1> USE <1>k, <1>t DEF Goto, Answer, AnswerAndRecover, handler, RequestInv,
                      TableGrows, Active
<1>1. ASSUME NEW r \in Revision, Approve(r) PROVE RequestInv'
  BY <1>1 DEF Approve
<1>2. ASSUME NEW q \in Request, NEW r \in Revision, Start(q, r) PROVE RequestInv'
  BY <1>2 DEF Start
<1>3. ASSUME NEW q \in Request, ReadApprovedDOCX(q) PROVE RequestInv'
  BY <1>3 DEF ReadApprovedDOCX, DigestMatches, Bytes
<1>4. ASSUME NEW q \in Request, ReadFails(q) PROVE RequestInv'
  BY <1>4 DEF ReadFails
<1>5. ASSUME NEW q \in Request, Convert(q) PROVE RequestInv'
  BY <1>5 DEF Convert
<1>6. ASSUME NEW q \in Request, ConvertFails(q) PROVE RequestInv'
  BY <1>6 DEF ConvertFails
<1>7. ASSUME NEW q \in Request, Reserve(q) PROVE RequestInv'
  <2>1. PICK p \in Pdf : ReserveTx(q, p) /\ own' = [own EXCEPT ![q] = p]
    BY <1>7 DEF Reserve
  <2>2. row'[p].state = "pending" /\ row'[p].revision = rev[q]
    BY <2>1, <1>new
  <2> SUFFICES ASSUME NEW x \in Request PROVE RequestInv!(x)'
    OBVIOUS
  <2>3. CASE x = q
    BY <1>7, <2>1, <2>2, <2>3 DEF Reserve
  <2>4. CASE x # q
    BY <1>7, <2>1, <2>4 DEF Reserve
  <2> QED
    BY <2>3, <2>4
<1>8. ASSUME NEW q \in Request, ReserveRefused(q) PROVE RequestInv'
  BY <1>8 DEF ReserveRefused
<1>9. ASSUME NEW q \in Request, ReserveFails(q) PROVE RequestInv'
  BY <1>9 DEF ReserveFails
<1>10. ASSUME NEW q \in Request, SendPut(q) PROVE RequestInv'
  BY <1>10 DEF SendPut
<1>11. ASSUME NEW q \in Request, OpenFails(q) PROVE RequestInv'
  BY <1>11 DEF OpenFails
<1>12. ASSUME NEW p \in Pdf, PutApplied(p) PROVE RequestInv'
  BY <1>12 DEF PutApplied
<1>13. ASSUME NEW p \in Pdf, PutLost(p) PROVE RequestInv'
  BY <1>13 DEF PutLost
<1>14. ASSUME NEW q \in Request, PutAcknowledged(q) PROVE RequestInv'
  <2>1. objects[own[q]] # None
    BY <1>14 DEF PutAcknowledged, IInv, StoreInv
  <2> QED
    BY <1>14, <2>1 DEF PutAcknowledged
<1>15. ASSUME NEW q \in Request, PutFails(q) PROVE RequestInv'
  BY <1>15 DEF PutFails
<1>16. ASSUME NEW q \in Request, Confirm(q) PROVE RequestInv'
  BY <1>16 DEF Confirm
<1>17. ASSUME NEW q \in Request, ConfirmRefused(q) PROVE RequestInv'
  BY <1>17 DEF ConfirmRefused
<1>18. ASSUME NEW q \in Request, ConfirmFails(q) PROVE RequestInv'
  BY <1>18 DEF ConfirmFails
<1>19. ASSUME NEW q \in Request, Recover(q) PROVE RequestInv'
  BY <1>19 DEF Recover
<1>20. ASSUME NEW q \in Request, RecoverFails(q) PROVE RequestInv'
  BY <1>20 DEF RecoverFails
<1>21. ASSUME NEW p \in Pdf, Age(p) PROVE RequestInv'
  BY <1>21 DEF Age
<1>22. ASSUME Crash PROVE RequestInv'
  BY <1>22 DEF Crash
<1>23. CASE UNCHANGED vars
  BY <1>23 DEF vars
<1> QED
  BY <1>1, <1>2, <1>3, <1>4, <1>5, <1>6, <1>7, <1>8, <1>9, <1>10, <1>11,
     <1>12, <1>13, <1>14, <1>15, <1>16, <1>17, <1>18, <1>19, <1>20, <1>21,
     <1>22, <1>23
  DEF Next, Progress, Failure

\* A caller is told 201 by the step that stored its own row.
LEMMA CreatedStep == IInv /\ [Next]_vars => CreatedIsDelivered'
<1> SUFFICES ASSUME IInv, [Next]_vars PROVE CreatedIsDelivered'
  OBVIOUS
<1>k. TableGrows
  BY TableSteps, TableStepGrows
<1>t. /\ reply \in [Request -> {"none", "created", "invalid_state",
                                "conversion_failed", "internal_error"}]
      /\ own \in [Request -> Pdf \cup {None}]
      /\ rev \in [Request -> Revision \cup {None}]
      /\ CreatedIsDelivered
      /\ \A q \in Request : pc[q] = "reserving" => reply[q] # "created"
  BY DEF IInv, TypeOK, RequestInv
<1> USE <1>k, <1>t DEF Goto, Answer, AnswerAndRecover, handler,
                      CreatedIsDelivered, TableGrows
<1>1. ASSUME NEW r \in Revision, Approve(r) PROVE CreatedIsDelivered'
  BY <1>1 DEF Approve
<1>2. ASSUME NEW q \in Request, NEW r \in Revision, Start(q, r) PROVE CreatedIsDelivered'
  BY <1>2 DEF Start
<1>3. ASSUME NEW q \in Request, ReadApprovedDOCX(q) PROVE CreatedIsDelivered'
  BY <1>3 DEF ReadApprovedDOCX, DigestMatches, Bytes
<1>4. ASSUME NEW q \in Request, ReadFails(q) PROVE CreatedIsDelivered'
  BY <1>4 DEF ReadFails
<1>5. ASSUME NEW q \in Request, Convert(q) PROVE CreatedIsDelivered'
  BY <1>5 DEF Convert
<1>6. ASSUME NEW q \in Request, ConvertFails(q) PROVE CreatedIsDelivered'
  BY <1>6 DEF ConvertFails
<1>7. ASSUME NEW q \in Request, Reserve(q) PROVE CreatedIsDelivered'
  <2>1. reply[q] # "created"
    BY <1>7 DEF Reserve
  <2> QED
    BY <1>7, <2>1 DEF Reserve
<1>8. ASSUME NEW q \in Request, ReserveRefused(q) PROVE CreatedIsDelivered'
  BY <1>8 DEF ReserveRefused
<1>9. ASSUME NEW q \in Request, ReserveFails(q) PROVE CreatedIsDelivered'
  BY <1>9 DEF ReserveFails
<1>10. ASSUME NEW q \in Request, SendPut(q) PROVE CreatedIsDelivered'
  BY <1>10 DEF SendPut
<1>11. ASSUME NEW q \in Request, OpenFails(q) PROVE CreatedIsDelivered'
  BY <1>11 DEF OpenFails
<1>12. ASSUME NEW p \in Pdf, PutApplied(p) PROVE CreatedIsDelivered'
  BY <1>12 DEF PutApplied
<1>13. ASSUME NEW p \in Pdf, PutLost(p) PROVE CreatedIsDelivered'
  BY <1>13 DEF PutLost
<1>14. ASSUME NEW q \in Request, PutAcknowledged(q) PROVE CreatedIsDelivered'
  BY <1>14 DEF PutAcknowledged
<1>15. ASSUME NEW q \in Request, PutFails(q) PROVE CreatedIsDelivered'
  BY <1>15 DEF PutFails
<1>16. ASSUME NEW q \in Request, Confirm(q) PROVE CreatedIsDelivered'
  <2>1. own[q] \in Pdf /\ row[own[q]].revision = rev[q]
    BY <1>16 DEF Confirm, IInv, RequestInv
  <2>2. row'[own[q]].state = "stored" /\ row'[own[q]].revision = rev[q]
    BY <1>16, <2>1, SettleTxRows DEF Confirm
  <2> QED
    BY <1>16, <2>1, <2>2 DEF Confirm
<1>17. ASSUME NEW q \in Request, ConfirmRefused(q) PROVE CreatedIsDelivered'
  BY <1>17 DEF ConfirmRefused
<1>18. ASSUME NEW q \in Request, ConfirmFails(q) PROVE CreatedIsDelivered'
  BY <1>18 DEF ConfirmFails
<1>19. ASSUME NEW q \in Request, Recover(q) PROVE CreatedIsDelivered'
  BY <1>19 DEF Recover
<1>20. ASSUME NEW q \in Request, RecoverFails(q) PROVE CreatedIsDelivered'
  BY <1>20 DEF RecoverFails
<1>21. ASSUME NEW p \in Pdf, Age(p) PROVE CreatedIsDelivered'
  BY <1>21 DEF Age
<1>22. ASSUME Crash PROVE CreatedIsDelivered'
  BY <1>22 DEF Crash
<1>23. CASE UNCHANGED vars
  BY <1>23 DEF vars
<1> QED
  BY <1>1, <1>2, <1>3, <1>4, <1>5, <1>6, <1>7, <1>8, <1>9, <1>10, <1>11,
     <1>12, <1>13, <1>14, <1>15, <1>16, <1>17, <1>18, <1>19, <1>20, <1>21,
     <1>22, <1>23
  DEF Next, Progress, Failure

\* Whatever happens to the table, its rows and histories keep their types.
LEMMA RowTypesStep == IInv /\ TableStep => RowTypes'
<1> SUFFICES ASSUME IInv, TableStep PROVE RowTypes'
  OBVIOUS
<1>0. TypeOK
  BY DEF IInv
<1>1. CASE row' = row /\ audit' = audit
  BY <1>0, <1>1 DEF RowTypes, TypeOK
<1>2. ASSUME NEW q \in Request, NEW p \in Pdf, ReserveTx(q, p),
             pc[q] = "reserving"
      PROVE  RowTypes'
  <2>1. rev[q] \in Revision /\ read[q] \in Bytes
    BY <1>2 DEF IInv, RequestInv, TypeOK, Active, Bytes
  <2> QED
    BY <1>0, <1>2, <2>1, ReserveTxType
<1>3. ASSUME NEW q \in Request, NEW outcome \in {"stored", "failed"},
             pc[q] \in {"confirming", "failing"}, SettleTx(own[q], outcome)
      PROVE  RowTypes'
  <2>1. own[q] \in Pdf
    BY <1>3 DEF IInv, RequestInv
  <2> QED
    BY <1>0, <1>3, <2>1, SettleTxType
<1> QED
  BY <1>1, <1>2, <1>3 DEF TableStep

\* Every action keeps the types of the other variables.
LEMMA TypeStep == IInv /\ [Next]_vars => TypeOK'
<1> SUFFICES ASSUME IInv, [Next]_vars PROVE TypeOK'
  OBVIOUS
<1>t. /\ TypeOK
      /\ row' \in [Pdf -> Row]
      /\ audit' \in [Pdf -> Seq(AuditEvent)]
  BY TableSteps, RowTypesStep DEF IInv, RowTypes
<1>m. MaxFaults \in Nat
  BY MaxFaultsAssumption
<1> USE <1>t, <1>m DEF Fault, Goto, Answer, AnswerAndRecover, rows, store,
                      handler, TypeOK, Active
<1>1. ASSUME NEW r \in Revision, Approve(r) PROVE TypeOK'
  BY <1>1 DEF Approve
<1>2. ASSUME NEW q \in Request, NEW r \in Revision, Start(q, r) PROVE TypeOK'
  BY <1>2 DEF Start
<1>3. ASSUME NEW q \in Request, ReadApprovedDOCX(q) PROVE TypeOK'
  BY <1>3 DEF ReadApprovedDOCX, DigestMatches, Bytes
<1>4. ASSUME NEW q \in Request, ReadFails(q) PROVE TypeOK'
  BY <1>4 DEF ReadFails
<1>5. ASSUME NEW q \in Request, Convert(q) PROVE TypeOK'
  BY <1>5 DEF Convert
<1>6. ASSUME NEW q \in Request, ConvertFails(q) PROVE TypeOK'
  BY <1>6 DEF ConvertFails
<1>7. ASSUME NEW q \in Request, Reserve(q) PROVE TypeOK'
  BY <1>7 DEF Reserve, ReserveTx
<1>8. ASSUME NEW q \in Request, ReserveRefused(q) PROVE TypeOK'
  BY <1>8 DEF ReserveRefused
<1>9. ASSUME NEW q \in Request, ReserveFails(q) PROVE TypeOK'
  BY <1>9 DEF ReserveFails, ReserveTx
<1>10. ASSUME NEW q \in Request, SendPut(q) PROVE TypeOK'
  BY <1>10 DEF SendPut
<1>11. ASSUME NEW q \in Request, OpenFails(q) PROVE TypeOK'
  BY <1>11 DEF OpenFails
<1>12. ASSUME NEW p \in Pdf, PutApplied(p) PROVE TypeOK'
  <2>1. row[p].sha256 \in [pdfOf : Bytes] \cup {None}
    BY DEF Row
  <2> QED
    BY <1>12, <2>1 DEF PutApplied
<1>13. ASSUME NEW p \in Pdf, PutLost(p) PROVE TypeOK'
  BY <1>13 DEF PutLost
<1>14. ASSUME NEW q \in Request, PutAcknowledged(q) PROVE TypeOK'
  BY <1>14 DEF PutAcknowledged
<1>15. ASSUME NEW q \in Request, PutFails(q) PROVE TypeOK'
  BY <1>15 DEF PutFails
<1>16. ASSUME NEW q \in Request, Confirm(q) PROVE TypeOK'
  BY <1>16 DEF Confirm, SettleTx
<1>17. ASSUME NEW q \in Request, ConfirmRefused(q) PROVE TypeOK'
  BY <1>17 DEF ConfirmRefused
<1>18. ASSUME NEW q \in Request, ConfirmFails(q) PROVE TypeOK'
  BY <1>18 DEF ConfirmFails, SettleTx
<1>19. ASSUME NEW q \in Request, Recover(q) PROVE TypeOK'
  BY <1>19 DEF Recover, SettleTx
<1>20. ASSUME NEW q \in Request, RecoverFails(q) PROVE TypeOK'
  BY <1>20 DEF RecoverFails
<1>21. ASSUME NEW p \in Pdf, Age(p) PROVE TypeOK'
  BY <1>21 DEF Age
<1>22. ASSUME Crash PROVE TypeOK'
  BY <1>22 DEF Crash
<1>23. CASE UNCHANGED vars
  BY <1>23 DEF vars
<1> QED
  BY <1>1, <1>2, <1>3, <1>4, <1>5, <1>6, <1>7, <1>8, <1>9, <1>10, <1>11,
     <1>12, <1>13, <1>14, <1>15, <1>16, <1>17, <1>18, <1>19, <1>20, <1>21,
     <1>22, <1>23
  DEF Next, Progress, Failure

-----------------------------------------------------------------------------
(* The theorems *)

\* The first state satisfies the inductive invariant.
LEMMA InitInvariant == Init => IInv
<1> SUFFICES ASSUME Init PROVE IInv
  OBVIOUS
<1>1. NoRow \in Row
  BY DEF NoRow, Row
<1>2. << >> \in Seq(AuditEvent)
  OBVIOUS
<1>3. TypeOK
  BY <1>1, <1>2, MaxFaultsAssumption DEF Init, TypeOK
<1>4. \A p \in Pdf : row[p].state = "absent"
  BY DEF Init, NoRow
<1>5. AuditTellsTheHistory
  BY <1>4 DEF Init, AuditTellsTheHistory, HistoryOf
<1>6. RequestInv /\ CreatedIsDelivered
  BY DEF Init, RequestInv, CreatedIsDelivered, Active
<1>7. RowInv /\ StoreInv /\ OneEffectivePdf
  BY <1>4 DEF Init, RowInv, StoreInv, OneEffectivePdf
<1> QED
  BY <1>3, <1>5, <1>6, <1>7 DEF IInv

\* Every step preserves it.
LEMMA StepInvariant == IInv /\ [Next]_vars => IInv'
<1> SUFFICES ASSUME IInv, [Next]_vars PROVE IInv'
  OBVIOUS
<1>1. TableStep /\ BucketStep
  BY TableSteps, BucketSteps
<1>2. TypeOK' /\ RequestInv' /\ CreatedIsDelivered'
  BY TypeStep, RequestInvStep, CreatedStep
<1>3. RowInv' /\ OneEffectivePdf' /\ AuditTellsTheHistory'
  BY <1>1, RowInvStep, OneEffectiveStep, AuditStep
<1>4. StoreInv'
  BY <1>1, StoreInvStep
<1> QED
  BY <1>2, <1>3, <1>4 DEF IInv

\* The inductive invariant holds for every number of revisions, rows, requests
\* and failures.
THEOREM Invariant == Spec => []IInv
  BY InitInvariant, StepInvariant, PTL DEF Spec

\* Type correctness.
THEOREM TypeCorrect == Spec => []TypeOK
<1>1. IInv => TypeOK
  BY DEF IInv
<1> QED
  BY <1>1, Invariant, PTL

\* At most one reservation or delivered PDF per revision, always: the partial
\* unique index and the retirement of expired reservations in ReserveReportPDF.
THEOREM OneEffectivePdfTheorem == Spec => []OneEffectivePdf
<1>1. IInv => OneEffectivePdf
  BY DEF IInv
<1> QED
  BY <1>1, Invariant, PTL

\* What the database calls stored is in the bucket, and is the conversion of
\* approved bytes.
THEOREM StoredIsWhatWasApprovedTheorem == Spec => []StoredIsWhatWasApproved
<1>1. IInv => StoredIsWhatWasApproved
  BY DEF IInv, RowInv, StoreInv, StoredIsWhatWasApproved
<1> QED
  BY <1>1, Invariant, PTL

\* A caller told 201 has a delivered PDF, now and later.
THEOREM CreatedIsDeliveredTheorem == Spec => []CreatedIsDelivered
<1>1. IInv => CreatedIsDelivered
  BY DEF IInv
<1> QED
  BY <1>1, Invariant, PTL

\* One derivation and at most one outcome is audited for each row.
THEOREM AuditTellsTheHistoryTheorem == Spec => []AuditTellsTheHistory
<1>1. IInv => AuditTellsTheHistory
  BY DEF IInv
<1> QED
  BY <1>1, Invariant, PTL

\* No object without a row that names it.
THEOREM NoStrayObjectTheorem == Spec => []NoStrayObject
<1>1. IInv => NoStrayObject
  BY DEF IInv, StoreInv, NoStrayObject
<1> QED
  BY <1>1, Invariant, PTL

\* Settled rows and stored bytes never change again.
THEOREM SettledForGoodTheorem == Spec => SettledForGood
<1>1. IInv /\ [Next]_vars =>
        [\A p \in Pdf :
            /\ row[p].state \in {"stored", "failed"} => row'[p] = row[p]
            /\ objects[p] # None => objects'[p] = objects[p]]_vars
  BY TableSteps, TableStepGrows, BucketSteps, BucketKeeps DEF TableGrows
<1> QED
  BY <1>1, Invariant, PTL DEF Spec, SettledForGood
-----------------------------------------------------------------------------
(* Delivery implements ReportDelivery *)

\* The PDF a revision counts as delivered as is its stored row, if any.
LEMMA DeliveredAsStored ==
    ASSUME NEW r \in Revision
    PROVE  /\ (\A p \in Pdf : row[p].revision = r => row[p].state # "stored")
                => DeliveredAs(r) = None
           /\ DeliveredAs(r) # None =>
                 /\ DeliveredAs(r) \in Pdf
                 /\ row[DeliveredAs(r)].revision = r
                 /\ row[DeliveredAs(r)].state = "stored"
<1>1. CASE PdfsOf(r, {"stored"}) = {}
  BY <1>1 DEF DeliveredAs, TheOne
<1>2. CASE PdfsOf(r, {"stored"}) # {}
  <2>1. PICK p \in Pdf : p \in PdfsOf(r, {"stored"})
    BY <1>2 DEF PdfsOf
  <2>2. /\ DeliveredAs(r) \in Pdf
        /\ DeliveredAs(r) \in PdfsOf(r, {"stored"})
    BY <1>2, <2>1 DEF DeliveredAs, TheOne, PdfsOf
  <2> QED
    BY <2>2, NoneAssumption DEF PdfsOf
<1> QED
  BY <1>1, <1>2

\* Initially nothing is approved and nothing delivered.
LEMMA InitImplements == Init => Abstract!Init
<1> SUFFICES ASSUME Init PROVE Abstract!Init
  OBVIOUS
<1>1. \A r \in Revision : DeliveredAs(r) = None
  BY DeliveredAsStored DEF Init, NoRow
<1> QED
  BY <1>1 DEF Init, Abstract!Init

(* A step leaves the approvals alone, or adds one and changes no row.      *)
ApprovalStep ==
    \/ approved' = approved
    \/ /\ row' = row
       /\ \E r \in Revision : /\ r \notin approved
                              /\ approved' = approved \cup {r}

\* Every action does one or the other.
LEMMA ApprovalSteps == [Next]_vars => ApprovalStep
<1> SUFFICES ASSUME [Next]_vars PROVE ApprovalStep
  OBVIOUS
<1> USE DEF rows, ApprovalStep
<1>1. ASSUME NEW r \in Revision, Approve(r) PROVE ApprovalStep
  BY <1>1 DEF Approve
<1>2. ASSUME NEW q \in Request, NEW r \in Revision, Start(q, r) PROVE ApprovalStep
  BY <1>2 DEF Start
<1>3. ASSUME NEW q \in Request, ReadApprovedDOCX(q) PROVE ApprovalStep
  BY <1>3 DEF ReadApprovedDOCX, DigestMatches, Bytes
<1>4. ASSUME NEW q \in Request, ReadFails(q) PROVE ApprovalStep
  BY <1>4 DEF ReadFails
<1>5. ASSUME NEW q \in Request, Convert(q) PROVE ApprovalStep
  BY <1>5 DEF Convert
<1>6. ASSUME NEW q \in Request, ConvertFails(q) PROVE ApprovalStep
  BY <1>6 DEF ConvertFails
<1>7. ASSUME NEW q \in Request, Reserve(q) PROVE ApprovalStep
  BY <1>7 DEF Reserve
<1>8. ASSUME NEW q \in Request, ReserveRefused(q) PROVE ApprovalStep
  BY <1>8 DEF ReserveRefused
<1>9. ASSUME NEW q \in Request, ReserveFails(q) PROVE ApprovalStep
  BY <1>9 DEF ReserveFails
<1>10. ASSUME NEW q \in Request, SendPut(q) PROVE ApprovalStep
  BY <1>10 DEF SendPut
<1>11. ASSUME NEW q \in Request, OpenFails(q) PROVE ApprovalStep
  BY <1>11 DEF OpenFails
<1>12. ASSUME NEW p \in Pdf, PutApplied(p) PROVE ApprovalStep
  BY <1>12 DEF PutApplied
<1>13. ASSUME NEW p \in Pdf, PutLost(p) PROVE ApprovalStep
  BY <1>13 DEF PutLost
<1>14. ASSUME NEW q \in Request, PutAcknowledged(q) PROVE ApprovalStep
  BY <1>14 DEF PutAcknowledged
<1>15. ASSUME NEW q \in Request, PutFails(q) PROVE ApprovalStep
  BY <1>15 DEF PutFails
<1>16. ASSUME NEW q \in Request, Confirm(q) PROVE ApprovalStep
  BY <1>16 DEF Confirm
<1>17. ASSUME NEW q \in Request, ConfirmRefused(q) PROVE ApprovalStep
  BY <1>17 DEF ConfirmRefused
<1>18. ASSUME NEW q \in Request, ConfirmFails(q) PROVE ApprovalStep
  BY <1>18 DEF ConfirmFails
<1>19. ASSUME NEW q \in Request, Recover(q) PROVE ApprovalStep
  BY <1>19 DEF Recover
<1>20. ASSUME NEW q \in Request, RecoverFails(q) PROVE ApprovalStep
  BY <1>20 DEF RecoverFails
<1>21. ASSUME NEW p \in Pdf, Age(p) PROVE ApprovalStep
  BY <1>21 DEF Age
<1>22. ASSUME Crash PROVE ApprovalStep
  BY <1>22 DEF Crash
<1>23. CASE UNCHANGED vars
  BY <1>23 DEF vars
<1> QED
  BY <1>1, <1>2, <1>3, <1>4, <1>5, <1>6, <1>7, <1>8, <1>9, <1>10, <1>11,
     <1>12, <1>13, <1>14, <1>15, <1>16, <1>17, <1>18, <1>19, <1>20, <1>21,
     <1>22, <1>23
  DEF Next, Progress, Failure

\* A step that stores nothing leaves every revision delivered as it was.
LEMMA SameDelivered ==
    ASSUME NEW r \in Revision,
           \A p \in Pdf : (row'[p].revision = r /\ row'[p].state = "stored")
                            <=> (row[p].revision = r /\ row[p].state = "stored")
    PROVE  DeliveredAs(r)' = DeliveredAs(r)
<1>1. PdfsOf(r, {"stored"})' = PdfsOf(r, {"stored"})
  BY DEF PdfsOf
<1> QED
  BY <1>1 DEF DeliveredAs

\* Confirming a reservation delivers its revision; no other step delivers.
LEMMA StepImplements == IInv /\ [Next]_vars =>
                          [Abstract!Next]_(Abstract!vars)
<1> SUFFICES ASSUME IInv, [Next]_vars
             PROVE  [Abstract!Next]_(Abstract!vars)
  OBVIOUS
<1>1. TableStep /\ ApprovalStep /\ IInv'
  BY TableSteps, ApprovalSteps, StepInvariant
<1> DEFINE delivered == [r \in Revision |-> DeliveredAs(r)]
<1>2. ASSUME \A r \in Revision : DeliveredAs(r)' = DeliveredAs(r)
      PROVE  [Abstract!Next]_(Abstract!vars)
  <2>1. delivered' = delivered
    BY <1>2
  <2>2. CASE approved' = approved
    BY <2>1, <2>2 DEF Abstract!vars
  <2>3. ASSUME NEW r \in Revision, r \notin approved,
               approved' = approved \cup {r}
        PROVE  Abstract!Next
    BY <2>1, <2>3 DEF Abstract!Next, Abstract!Approve
  <2> QED
    BY <1>1, <2>2, <2>3 DEF ApprovalStep
<1>3. CASE row' = row
  <2>1. \A r \in Revision : DeliveredAs(r)' = DeliveredAs(r)
    BY <1>3, SameDelivered
  <2> QED
    BY <1>2, <2>1
<1>4. ASSUME NEW q \in Request, NEW p \in Pdf, ReserveTx(q, p)
      PROVE  [Abstract!Next]_(Abstract!vars)
  <2>1. NewRow(q).state = "pending"
    BY DEF NewRow
  <2>2. \A r \in Revision, x \in Pdf :
          (row'[x].revision = r /\ row'[x].state = "stored")
            <=> (row[x].revision = r /\ row[x].state = "stored")
    BY <1>4, <2>1, ReserveTxRows
  <2>3. \A r \in Revision : DeliveredAs(r)' = DeliveredAs(r)
    BY <2>2, SameDelivered
  <2> QED
    BY <1>2, <2>3
<1>5. ASSUME NEW q \in Request, pc[q] = "failing",
             SettleTx(own[q], "failed")
      PROVE  [Abstract!Next]_(Abstract!vars)
  <2>1. own[q] \in Pdf
    BY <1>5 DEF IInv, RequestInv
  <2>2. \A r \in Revision, x \in Pdf :
          (row'[x].revision = r /\ row'[x].state = "stored")
            <=> (row[x].revision = r /\ row[x].state = "stored")
    BY <1>5, <2>1, SettleTxRows
  <2>3. \A r \in Revision : DeliveredAs(r)' = DeliveredAs(r)
    BY <2>2, SameDelivered
  <2> QED
    BY <1>2, <2>3
<1>6. ASSUME NEW q \in Request, pc[q] = "confirming",
             SettleTx(own[q], "stored")
      PROVE  [Abstract!Next]_(Abstract!vars)
  <2>0. own[q] \in Pdf /\ rev[q] \in Revision
    BY <1>6 DEF IInv, RequestInv, TypeOK, Active
  <2> PICK p \in Pdf : p = own[q]
    BY <2>0
  <2> PICK d \in Revision : d = rev[q]
    BY <2>0
  <2>1. row[p].revision = d /\ d \in approved
    BY <1>6 DEF IInv, RequestInv, Active
  <2>2. /\ row[p].state = "pending"
        /\ row'[p].state = "stored"
        /\ row'[p].revision = d
        /\ \A x \in Pdf : x # p => row'[x] = row[x]
    BY <1>6, <2>1, SettleTxRows
  <2>3. CASE approved' # approved
    <3>1. row' = row
      BY <1>1, <2>3 DEF ApprovalStep
    <3> QED
      BY <1>3, <3>1
  <2>4. CASE approved' = approved
    <3>1. DeliveredAs(d)' = p
      <4>1. OneEffectivePdf'
        BY <1>1 DEF IInv
      <4>2. p \in PdfsOf(d, {"stored"})'
        BY <2>1, <2>2 DEF PdfsOf
      <4>3. \A x \in PdfsOf(d, {"stored"})' : x = p
        BY <2>1, <2>2, <4>1 DEF PdfsOf, OneEffectivePdf
      <4> QED
        BY <4>2, <4>3 DEF DeliveredAs, TheOne
    <3>2. DeliveredAs(d) = None
      <4>1. \A x \in Pdf : row[x].revision = d => row[x].state # "stored"
        BY <2>1, <2>2 DEF IInv, OneEffectivePdf
      <4> QED
        BY <2>1, <4>1, DeliveredAsStored
    <3>3. \A r \in Revision : r # d => DeliveredAs(r)' = DeliveredAs(r)
      BY <2>1, <2>2, SameDelivered
    <3>4. \A r \in Revision : DeliveredAs(r) # p
      BY <2>1, <2>2, DeliveredAsStored, NoneAssumption
    <3>5. delivered' = [delivered EXCEPT ![d] = p]
      <4>1. \A r \in Revision : delivered'[r] = [delivered EXCEPT ![d] = p][r]
        BY <2>1, <3>1, <3>3
      <4>2. delivered' = [r \in Revision |-> DeliveredAs(r)']
        OBVIOUS
      <4> QED
        BY <4>1, <4>2
    <3>6. Abstract!Deliver(d)
      BY <2>1, <2>4, <3>2, <3>4, <3>5 DEF Abstract!Deliver
    <3> QED
      BY <2>1, <3>6 DEF Abstract!Next
  <2> QED
    BY <2>3, <2>4
<1> QED
  BY <1>1, <1>3, <1>4, <1>5, <1>6 DEF TableStep

\* The handlers, the table and the bucket together implement ReportDelivery:
\* whatever fails, an approved revision is delivered at most once, and for good.
THEOREM Implementation == Spec => DeliversOnce
<1>1. Init => Abstract!Init
  BY InitImplements
<1>2. IInv /\ [Next]_vars => [Abstract!Next]_(Abstract!vars)
  BY StepImplements
<1> QED
  BY <1>1, <1>2, Invariant, PTL DEF Spec, DeliversOnce, Abstract!Spec
=============================================================================
