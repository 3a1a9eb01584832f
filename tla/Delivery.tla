------------------------------ MODULE Delivery ------------------------------
(***************************************************************************)
(* The delivery of a report PDF: POST /v1/report-revisions/{id}/pdf        *)
(* (httpapi/report_pdf.go), the report_pdfs rows it reserves, confirms and *)
(* retires (store/postgres/report_pdfs.go, migrations 00013 and 00017),    *)
(* and the write-once object store (store/objectstore/bucket.go).          *)
(*                                                                         *)
(* PostgreSQL and the object store share no transaction.  A handler first  *)
(* commits a 'pending' row, then uploads, then commits 'stored'; what the  *)
(* model is about is everything that can fall between those three steps.   *)
(*                                                                         *)
(* A database transaction is one step.  It may fail and be rolled back, or *)
(* commit without the handler hearing of it.  The statements of one        *)
(* transaction need no steps of their own: each one locks the row it       *)
(* changes (or waits on the unique index) until commit, so transactions on *)
(* one revision take effect in the order they commit.                      *)
(***************************************************************************)
EXTENDS Naturals, Sequences

CONSTANTS
    Revision,       \* DOCX revisions whose bytes are stored
    Engagement,     \* [Revision -> engagement the revision reports on]
    Pdf,            \* identities of report_pdfs rows, and their storage keys
    Request,        \* callers; each retries after its request has ended
    Altered,        \* bytes read back that are not the approved ones
    None,           \* "no value"
    MaxFaults       \* bound on failures, crashes and stalls of a behaviour

ASSUME MaxFaultsAssumption == MaxFaults \in Nat

Bytes == Revision \cup {Altered}

ASSUME NoneAssumption ==
    /\ None \notin Revision \cup Pdf \cup Bytes
    /\ None \notin [pdfOf : Bytes]
ASSUME AlteredAssumption == Altered \notin Revision

VARIABLES
    approved,   \* revisions with approved_at set
    row,        \* the report_pdfs table
    aged,       \* rows whose derived_at is five minutes old or older
    audit,      \* the audit_events about each row, in commit order
    objects,    \* the bucket: bytes under each row's storage key
    put,        \* what became of the upload of each row
    pc,         \* where each request is in its handler
    rev,        \* the revision each request is about
    read,       \* the DOCX bytes each request read back
    own,        \* the row each request reserved
    reply,      \* the last answer each caller got
    faults      \* failures so far, at most MaxFaults

rows == <<row, aged, audit>>
store == <<objects, put>>
handler == <<pc, rev, read, own, reply>>
vars == <<approved, rows, store, handler, faults>>

\* The PDF a converter makes of the DOCX bytes c.
Converted(c) == [pdfOf |-> c]

Active == {"reading", "converting", "reserving", "reserved", "putting",
           "confirming", "failing"}

NoRow == [state |-> "absent", revision |-> None, source |-> None,
          sha256 |-> None]

Row == [state : {"absent", "pending", "stored", "failed"},
        revision : Revision \cup {None},
        source : Revision \cup {None},
        sha256 : [pdfOf : Bytes] \cup {None}]

AuditEvent == {"derived", "stored", "failed"}

TypeOK ==
    /\ approved \subseteq Revision
    /\ row \in [Pdf -> Row]
    /\ aged \subseteq Pdf
    /\ audit \in [Pdf -> Seq(AuditEvent)]
    /\ objects \in [Pdf -> [pdfOf : Bytes] \cup {None}]
    /\ put \in [Pdf -> {"unsent", "sent", "applied", "lost"}]
    /\ pc \in [Request -> Active \cup {"idle", "done"}]
    /\ rev \in [Request -> Revision \cup {None}]
    /\ read \in [Request -> Bytes \cup {None}]
    /\ own \in [Request -> Pdf \cup {None}]
    /\ reply \in [Request -> {"none", "created", "invalid_state",
                              "conversion_failed", "internal_error"}]
    /\ faults \in 0..MaxFaults

Init ==
    /\ approved = {}
    /\ row = [p \in Pdf |-> NoRow]
    /\ aged = {}
    /\ audit = [p \in Pdf |-> << >>]
    /\ objects = [p \in Pdf |-> None]
    /\ put = [p \in Pdf |-> "unsent"]
    /\ pc = [q \in Request |-> "idle"]
    /\ rev = [q \in Request |-> None]
    /\ read = [q \in Request |-> None]
    /\ own = [q \in Request |-> None]
    /\ reply = [q \in Request |-> "none"]
    /\ faults = 0
-----------------------------------------------------------------------------
(* Steps of a handler *)

Goto(q, label) == pc' = [pc EXCEPT ![q] = label]

\* The handler answers and has no more to do.
Answer(q, status) ==
    /\ Goto(q, "done")
    /\ reply' = [reply EXCEPT ![q] = status]

\* The handler answers; its deferred FailReportPDF is still to run.
AnswerAndRecover(q, status) ==
    /\ Goto(q, "failing")
    /\ reply' = [reply EXCEPT ![q] = status]

Fault ==
    /\ faults < MaxFaults
    /\ faults' = faults + 1
-----------------------------------------------------------------------------
(* ApproveReportRevision: one approval per engagement, never withdrawn. *)

Approve(r) ==
    /\ \A s \in approved : Engagement[s] # Engagement[r]
    /\ approved' = approved \cup {r}
    /\ UNCHANGED <<rows, store, handler, faults>>
-----------------------------------------------------------------------------
(* The handler up to its reservation *)

\* ApprovedReportRevision, on a request the caller makes first or again.
Start(q, r) ==
    /\ pc[q] \in {"idle", "done"}
    /\ IF r \in approved THEN Goto(q, "reading") /\ reply' = [reply EXCEPT ![q] = "none"]
                         ELSE Answer(q, "invalid_state")
    /\ rev' = [rev EXCEPT ![q] = r]
    /\ read' = [read EXCEPT ![q] = None]
    /\ own' = [own EXCEPT ![q] = None]
    /\ UNCHANGED <<approved, rows, store, faults>>

\* Mutant: the downloaded bytes are trusted.
DigestUnchecked(q, c) == TRUE

\* The digest recomputed over what was read is the one the revision records.
DigestMatches(q, c) == c = rev[q]

\* readApprovedDOCX: only the approved bytes go on to the converter.
ReadApprovedDOCX(q) ==
    /\ pc[q] = "reading"
    /\ \E c \in {rev[q], Altered} :
          /\ DigestMatches(q, c)
          /\ read' = [read EXCEPT ![q] = c]
    /\ Goto(q, "converting")
    /\ UNCHANGED <<approved, rows, store, rev, own, reply, faults>>

\* The bytes do not match, or could not be read, or no workspace was made.
ReadFails(q) ==
    /\ pc[q] = "reading"
    /\ Fault
    /\ Answer(q, "internal_error")
    /\ UNCHANGED <<approved, rows, store, rev, read, own>>

Convert(q) ==
    /\ pc[q] = "converting"
    /\ Goto(q, "reserving")
    /\ UNCHANGED <<approved, rows, store, rev, read, own, reply, faults>>

\* The worker failed, timed out or was busy: no row and no object.
ConvertFails(q) ==
    /\ pc[q] = "converting"
    /\ Fault
    /\ Answer(q, "conversion_failed")
    /\ UNCHANGED <<approved, rows, store, rev, read, own>>
-----------------------------------------------------------------------------
(* ReserveReportPDF *)

PdfsOf(r, states) ==
    {p \in Pdf : row[p].revision = r /\ row[p].state \in states}

\* Mutant: no reservation ever expires.
NeverStale(r) == {}

\* The reservations of r that the transaction retires as expired.
Stale(r) == PdfsOf(r, {"pending"}) \cap aged

\* Mutant: the index of migration 00013, over stored rows only.
SlotTakenByStored(r) == PdfsOf(r, {"stored"}) # {}

\* report_pdfs_one_effective_per_revision_key, once the stale ones are retired.
SlotTaken(r) == PdfsOf(r, {"pending", "stored"}) \ Stale(r) # {}

Reservable(r) == r \in approved /\ ~SlotTaken(r)

\* The inserted row: its source digest comes from the revision's own row, its
\* digest from the converter.
NewRow(q) ==
    [state |-> "pending", revision |-> rev[q], source |-> rev[q],
     sha256 |-> Converted(read[q])]

\* Mutant: an expired reservation is retired without its audit event.
ReservedAuditOfNewRow(q, p) == [audit EXCEPT ![p] = <<"derived">>]

ReservedAudit(q, p) ==
    [x \in Pdf |-> IF x = p THEN <<"derived">>
                   ELSE IF x \in Stale(rev[q]) THEN Append(audit[x], "failed")
                   ELSE audit[x]]

\* The committed effect of the transaction: p is the new row's identity.
ReserveTx(q, p) ==
    /\ Reservable(rev[q])
    /\ row[p].state = "absent"
    /\ row' = [x \in Pdf |->
                 IF x = p THEN NewRow(q)
                 ELSE IF x \in Stale(rev[q])
                 THEN [row[x] EXCEPT !.state = "failed"]
                 ELSE row[x]]
    /\ audit' = ReservedAudit(q, p)
    /\ UNCHANGED aged

Reserve(q) ==
    /\ pc[q] = "reserving"
    /\ \E p \in Pdf :
          /\ ReserveTx(q, p)
          /\ own' = [own EXCEPT ![q] = p]
    /\ Goto(q, "reserved")
    /\ UNCHANGED <<approved, store, rev, read, reply, faults>>

\* ErrInvalidState: delivered already, or another live reservation is ahead.
ReserveRefused(q) ==
    /\ pc[q] = "reserving"
    /\ ~Reservable(rev[q])
    /\ Answer(q, "invalid_state")
    /\ UNCHANGED <<approved, rows, store, rev, read, own, faults>>

\* The transaction failed; it may have committed all the same.  The deferred
\* FailReportPDF is not set up yet, so a committed row is left pending.
ReserveFails(q) ==
    /\ pc[q] = "reserving"
    /\ Fault
    /\ (\E p \in Pdf : ReserveTx(q, p)) \/ UNCHANGED rows
    /\ Answer(q, "internal_error")
    /\ UNCHANGED <<approved, store, rev, read, own>>
-----------------------------------------------------------------------------
(* The upload *)

\* Bucket.Put is on its way.
SendPut(q) ==
    /\ pc[q] = "reserved"
    /\ put' = [put EXCEPT ![own[q]] = "sent"]
    /\ Goto(q, "putting")
    /\ UNCHANGED <<approved, rows, objects, rev, read, own, reply, faults>>

\* The converted file could not be opened.
OpenFails(q) ==
    /\ pc[q] = "reserved"
    /\ Fault
    /\ AnswerAndRecover(q, "internal_error")
    /\ UNCHANGED <<approved, rows, store, rev, read, own>>

\* The store takes the body if its digest is the signed one and the key is
\* free (If-None-Match: *).  It may do so after the client gave up waiting.
PutApplied(p) ==
    /\ put[p] = "sent"
    /\ objects[p] = None
    /\ objects' = [objects EXCEPT ![p] = row[p].sha256]
    /\ put' = [put EXCEPT ![p] = "applied"]
    /\ UNCHANGED <<approved, rows, handler, faults>>

\* The request never reaches the store, or the store refuses it.
PutLost(p) ==
    /\ put[p] = "sent"
    /\ Fault
    /\ put' = [put EXCEPT ![p] = "lost"]
    /\ UNCHANGED <<approved, rows, objects, handler>>

PutAcknowledged(q) ==
    /\ pc[q] = "putting"
    /\ put[own[q]] = "applied"
    /\ Goto(q, "confirming")
    /\ UNCHANGED <<approved, rows, store, rev, read, own, reply, faults>>

\* An error answer, the two minute timeout, or a caller who hung up.  Unless
\* the upload was lost already, this is a failure of its own.
PutFails(q) ==
    /\ pc[q] = "putting"
    /\ IF put[own[q]] = "lost" THEN UNCHANGED faults ELSE Fault
    /\ AnswerAndRecover(q, "internal_error")
    /\ UNCHANGED <<approved, rows, store, rev, read, own>>
-----------------------------------------------------------------------------
(* ConfirmReportPDF and FailReportPDF *)

\* Mutant: the update does not ask for a pending row.
SettleTxUnguarded(p, outcome) ==
    /\ row' = [row EXCEPT ![p].state = outcome]
    /\ audit' = [audit EXCEPT ![p] = Append(@, outcome)]
    /\ UNCHANGED aged

\* UPDATE ... SET state = outcome WHERE id = p AND state = 'pending', and the
\* audit event of the same transaction.
SettleTx(p, outcome) ==
    /\ row[p].state = "pending"
    /\ row' = [row EXCEPT ![p].state = outcome]
    /\ audit' = [audit EXCEPT ![p] = Append(@, outcome)]
    /\ UNCHANGED aged

Confirm(q) ==
    /\ pc[q] = "confirming"
    /\ SettleTx(own[q], "stored")
    /\ Answer(q, "created")
    /\ UNCHANGED <<approved, store, rev, read, own, faults>>

\* Mutant: a refused confirmation is taken for a repeated one.
ConfirmRefusedIsSuccess(q) ==
    /\ pc[q] = "confirming"
    /\ row[own[q]].state # "pending"
    /\ Answer(q, "created")
    /\ UNCHANGED <<approved, rows, store, rev, read, own, faults>>

\* Another request retired the reservation while this one was uploading.
ConfirmRefused(q) ==
    /\ pc[q] = "confirming"
    /\ row[own[q]].state # "pending"
    /\ AnswerAndRecover(q, "invalid_state")
    /\ UNCHANGED <<approved, rows, store, rev, read, own, faults>>

\* The confirmation failed; it may have committed all the same.
ConfirmFails(q) ==
    /\ pc[q] = "confirming"
    /\ Fault
    /\ SettleTx(own[q], "stored") \/ UNCHANGED rows
    /\ AnswerAndRecover(q, "internal_error")
    /\ UNCHANGED <<approved, store, rev, read, own>>

\* Mutant: the recovery also withdraws what was confirmed after all.
RecoverAnyway(q) ==
    /\ pc[q] = "failing"
    /\ row' = [row EXCEPT ![own[q]].state = "failed"]
    /\ Goto(q, "done")
    /\ UNCHANGED <<approved, aged, audit, store, rev, read, own, reply, faults>>

\* Mutant: the recovery deletes the reservation instead of retiring it.
RecoverDeletes(q) ==
    /\ pc[q] = "failing"
    /\ row' = [row EXCEPT ![own[q]] = IF @.state = "pending" THEN NoRow ELSE @]
    /\ Goto(q, "done")
    /\ UNCHANGED <<approved, aged, audit, store, rev, read, own, reply, faults>>

\* The deferred FailReportPDF.  Its outcome is discarded.
Recover(q) ==
    /\ pc[q] = "failing"
    /\ \/ SettleTx(own[q], "failed")
       \/ row[own[q]].state # "pending" /\ UNCHANGED rows
    /\ Goto(q, "done")
    /\ UNCHANGED <<approved, store, rev, read, own, reply, faults>>

\* Its one second ran out or the database failed: the row stays pending.
RecoverFails(q) ==
    /\ pc[q] = "failing"
    /\ Fault
    /\ Goto(q, "done")
    /\ UNCHANGED <<approved, rows, store, rev, read, own, reply>>
-----------------------------------------------------------------------------
(* The environment *)

Owners(p) == {q \in Request : own[q] = p /\ pc[q] \in Active}

\* Five minutes pass since p was derived.  A request that is still at work on p
\* by then was stalled, which the bound counts as a failure.
Age(p) ==
    /\ row[p].state = "pending"
    /\ p \notin aged
    /\ IF Owners(p) = {} THEN UNCHANGED faults ELSE Fault
    /\ aged' = aged \cup {p}
    /\ UNCHANGED <<approved, row, audit, store, handler>>

\* The API process dies: no deferred call runs and no caller gets an answer.
\* Uploads on their way may still reach the store.
Crash ==
    /\ \E q \in Request : pc[q] \in Active
    /\ Fault
    /\ pc' = [q \in Request |-> IF pc[q] \in Active THEN "done" ELSE pc[q]]
    /\ UNCHANGED <<approved, rows, store, rev, read, own, reply>>
-----------------------------------------------------------------------------
Progress(q) ==
    \/ ReadApprovedDOCX(q) \/ Convert(q) \/ Reserve(q) \/ ReserveRefused(q)
    \/ SendPut(q) \/ PutAcknowledged(q) \/ Confirm(q) \/ ConfirmRefused(q)
    \/ Recover(q)

Failure(q) ==
    \/ ReadFails(q) \/ ConvertFails(q) \/ ReserveFails(q) \/ OpenFails(q)
    \/ PutFails(q) \/ ConfirmFails(q) \/ RecoverFails(q)

Next ==
    \/ \E r \in Revision : Approve(r)
    \/ \E q \in Request, r \in Revision : Start(q, r)
    \/ \E q \in Request : Progress(q) \/ Failure(q)
    \/ \E p \in Pdf : PutApplied(p) \/ PutLost(p) \/ Age(p)
    \/ Crash

Spec == Init /\ [][Next]_vars
-----------------------------------------------------------------------------
(* Fairness.  The handler runs on (its goroutine is scheduled and every wait *)
(* in it has a timeout), the object store answers what reaches it, time      *)
(* passes, and whoever wants an approved revision as a PDF asks again.       *)

Fairness ==
    /\ \A q \in Request :
          /\ WF_vars(Progress(q))
          /\ WF_vars(pc[q] = "putting" /\ put[own[q]] = "lost" /\ PutFails(q))
    /\ \A p \in Pdf :
          /\ WF_vars(PutApplied(p))
          /\ WF_vars(Owners(p) = {} /\ Age(p))
    /\ \A r \in Revision : SF_vars(\E q \in Request : Start(q, r))

FairSpec == Spec /\ Fairness
-----------------------------------------------------------------------------
(* Properties *)

\* A revision has at most one reservation or delivered PDF at a time, whatever
\* requests overlap, fail, stall or crash (ReserveReportPDF and its index).
OneEffectivePdf ==
    \A p1, p2 \in Pdf :
        /\ row[p1].state \in {"pending", "stored"}
        /\ row[p2].state \in {"pending", "stored"}
        /\ row[p1].revision = row[p2].revision
        => p1 = p2

\* A row says 'stored' only when the bucket holds exactly the bytes its digest
\* describes, converted from the bytes of a revision that was approved: the
\* order reserve, upload, confirm and the digest check of readApprovedDOCX.
StoredIsWhatWasApproved ==
    \A p \in Pdf : row[p].state = "stored" =>
        /\ row[p].revision \in approved
        /\ row[p].source = row[p].revision
        /\ row[p].sha256 = Converted(row[p].revision)
        /\ objects[p] = row[p].sha256

\* A caller told 201 holds a delivered PDF of the revision it asked about, now
\* and ever after, even if its reservation expired while it was uploading.
CreatedIsDelivered ==
    \A q \in Request : reply[q] = "created" =>
        /\ own[q] \in Pdf
        /\ row[own[q]].state = "stored"
        /\ row[own[q]].revision = rev[q]

\* The history each state has.
HistoryOf(state) ==
    CASE state = "absent" -> << >>
      [] state = "pending" -> <<"derived">>
      [] state = "stored" -> <<"derived", "stored">>
      [] state = "failed" -> <<"derived", "failed">>

\* The audit events about a row are its history: one derivation and at most one
\* outcome, also when two requests, or a request and its own deferred recovery,
\* try to settle the same reservation.
AuditTellsTheHistory ==
    \A p \in Pdf : audit[p] = HistoryOf(row[p].state)

\* Every object in the bucket has a committed row that names it, so whatever a
\* failure leaves behind can be found from the database.
NoStrayObject ==
    \A p \in Pdf : objects[p] # None => row[p].state # "absent"

\* A delivered or retired PDF is final: a late upload, a late confirmation or
\* another recovery changes neither the row nor stored bytes.
SettledForGood ==
    [][\A p \in Pdf :
          /\ row[p].state \in {"stored", "failed"} => row'[p] = row[p]
          /\ objects[p] # None => objects'[p] = objects[p]]_vars

\* The member of a set of at most one, None if there is none.
TheOne(S) == IF S = {} THEN None ELSE CHOOSE p \in S : TRUE

\* The PDF a revision is delivered as.
DeliveredAs(r) == TheOne(PdfsOf(r, {"stored"}))

Abstract == INSTANCE ReportDelivery
                WITH NoPdf <- None,
                     delivered <- [r \in Revision |-> DeliveredAs(r)]

\* All of the handler's steps, failures and recoveries amount to delivering an
\* approved revision, once and for good.
DeliversOnce == Abstract!Spec

\* An approved revision somebody keeps asking for is delivered in the end: no
\* failure, crash or lost answer leaves a reservation that blocks it for good.
EventuallyDelivered == Abstract!EventuallyDelivered
=============================================================================
