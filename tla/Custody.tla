------------------------------ MODULE Custody -------------------------------
(***************************************************************************)
(* What enters an engagement's custody: evidence of its findings, report   *)
(* revisions imported or generated from its records, and the one revision  *)
(* that is approved (httpapi/evidence.go, report_revisions.go and          *)
(* report_generation.go over store/postgres and the object store).         *)
(*                                                                         *)
(* A capture and a revision cross two systems that share no transaction:   *)
(* a 'pending' row is committed, the bytes are uploaded under the key the  *)
(* database derived, 'stored' is committed.  Whatever fails in between is  *)
(* left as it is.  The upload declares its SHA-256 and the store refuses   *)
(* other bytes, so an object either is there or is not.                    *)
(*                                                                         *)
(* A transaction of one effective statement is one step.  Two transactions *)
(* have more: the REPEATABLE READ one that reads a report's records query  *)
(* by query, and the approval, whose unique index makes it wait.           *)
(***************************************************************************)
EXTENDS Naturals, Sequences, SequencesExt

CONSTANTS
    Finding,        \* findings of one engagement
    Capture,        \* identities of evidence rows, and their storage keys
    Revision,       \* identities of report_revisions rows, and their keys
    Document,       \* DOCX files people import
    MaxRetests,     \* bound on the retest rounds of a finding
    Request,        \* requests served at the same time
    None            \* "no value"

ASSUME MaxRetestsAssumption == MaxRetests \in Nat
ASSUME DistinctAssumption ==
    /\ Capture \cap Revision = {}
    /\ None \notin Finding \cup Capture \cup Revision

Record == Capture \cup Revision

\* What a report shows: stored evidence and retest rounds of its findings.
Fact == ({"evidence"} \X Finding \X Capture)
            \cup ({"retest"} \X Finding \X (1 .. MaxRetests))

\* One query each; the plan, the checklist and the list of findings come first
\* and from the same snapshot.
Section == {"evidence", "retest"} \X Finding
SectionOf(fact) == <<fact[1], fact[2]>>

Contents == [file : Capture \cup Document] \cup [shows : SUBSET Fact]

ASSUME NoneAssumption == None \notin Contents

VARIABLES
    row,        \* the evidence and report_revisions tables
    approved,   \* revisions with approved_at set
    history,    \* the facts, in the order they were committed
    sent,       \* uploads on their way to the store
    objects,    \* the storage keys that hold their row's bytes
    pc,         \* where each request is in its handler
    req         \* what each request has in hand

tables == <<row, approved, history>>
store == <<sent, objects>>
vars == <<tables, store, pc, req>>

Row == [state : {"absent", "pending", "stored"}, finding : Finding \cup {None},
        sha256 : Contents \cup {None}]
NoRow == [state |-> "absent", finding |-> None, sha256 |-> None]

InHand == [record : Record \cup {None}, finding : Finding \cup {None},
           contents : Contents \cup {None}, snapshot : SUBSET Fact,
           unread : SUBSET Section]
Hand(x, f, c, facts, sections) ==
    [record |-> x, finding |-> f, contents |-> c, snapshot |-> facts,
     unread |-> sections]
Nothing == Hand(None, None, None, {}, {})

Filing == {"reserving", "reserved", "putting", "confirming"}

TypeOK ==
    /\ row \in [Record -> Row]
    /\ \A x \in Record : row[x].state = "absent" <=> row[x].sha256 = None
    /\ \A x \in Record : row[x].finding # None <=> row[x].state # "absent" /\ x \in Capture
    /\ approved \subseteq Revision
    /\ history \in Seq(Fact)
    /\ sent \subseteq Record
    /\ objects \subseteq Record
    /\ pc \in [Request -> Filing \cup {"idle", "reading", "approving", "approved"}]
    /\ req \in [Request -> InHand]

Init ==
    /\ row = [x \in Record |-> NoRow]
    /\ approved = {}
    /\ history = <<>>
    /\ sent = {}
    /\ objects = {}
    /\ pc = [q \in Request |-> "idle"]
    /\ req = [q \in Request |-> Nothing]
-----------------------------------------------------------------------------
Goto(q, label) == pc' = [pc EXCEPT ![q] = label]

Finish(q) ==
    /\ Goto(q, "idle")
    /\ req' = [req EXCEPT ![q] = Nothing]

Facts == ToSet(history)

Fresh(x) == row[x].state = "absent" /\ \A q \in Request : req[q].record # x

Receive(q, hand, label) ==
    /\ pc[q] = "idle"
    /\ Goto(q, label)
    /\ req' = [req EXCEPT ![q] = hand]
    /\ UNCHANGED <<tables, store>>

\* An upload is buffered and hashed before anything is written.
StartCapture(q) ==
    \E f \in Finding, c \in Capture :
        /\ Fresh(c)
        /\ Receive(q, Hand(c, f, [file |-> c], {}, {}), "reserving")

StartImport(q) ==
    \E r \in Revision, d \in Document :
        /\ Fresh(r)
        /\ Receive(q, Hand(r, None, [file |-> d], {}, {}), "reserving")

\* BEGIN ISOLATION LEVEL REPEATABLE READ: its first query takes the snapshot.
StartGeneration(q) ==
    \E r \in Revision :
        /\ Fresh(r)
        /\ Receive(q, Hand(r, None, [shows |-> {}], Facts, Section), "reading")

StartApproval(q) ==
    \E r \in Revision :
        Receive(q, Hand(r, None, None, {}, {}), "approving")

\* Mutant: READ COMMITTED, each query sees what is committed by then.
SeenNow(q) == Facts

Seen(q) == req[q].snapshot

\* The source after the query of section s.
AfterQuery(hand, s, facts) ==
    Hand(hand.record, hand.finding, [shows |-> hand.contents.shows \cup facts],
         hand.snapshot, hand.unread \ {s})

\* The evidence of a finding is read before its retests; findings come in the
\* order of their list, which may be any.
ReadSection(q) ==
    /\ pc[q] = "reading"
    /\ \E s \in req[q].unread :
          /\ s[1] = "retest" => <<"evidence", s[2]>> \notin req[q].unread
          /\ req' = [req EXCEPT ![q] =
                AfterQuery(@, s, {x \in Seen(q) : SectionOf(x) = s})]
          /\ IF req[q].unread = {s} THEN Goto(q, "reserving") ELSE UNCHANGED pc
    /\ UNCHANGED <<tables, store>>
-----------------------------------------------------------------------------
(* Filing a record: ReserveEvidence or ReserveReportRevision, Bucket.Put,    *)
(* ConfirmEvidence or ConfirmReportRevision                                  *)

NewRow(hand) ==
    [state |-> "pending", finding |-> hand.finding, sha256 |-> hand.contents]

Reserve(q) ==
    /\ pc[q] = "reserving"
    /\ row' = [row EXCEPT ![req[q].record] = NewRow(req[q])]
    /\ Goto(q, "reserved")
    /\ UNCHANGED <<approved, history, store, req>>

SendPut(q) ==
    /\ pc[q] = "reserved"
    /\ sent' = sent \cup {req[q].record}
    /\ Goto(q, "putting")
    /\ UNCHANGED <<tables, objects, req>>

\* The object store has the bytes, whoever is still there to hear of it.
PutApplied(x) ==
    /\ x \in sent
    /\ sent' = sent \ {x}
    /\ objects' = objects \cup {x}
    /\ UNCHANGED <<tables, pc, req>>

PutLost(x) ==
    /\ x \in sent
    /\ sent' = sent \ {x}
    /\ UNCHANGED <<tables, objects, pc, req>>

\* Mutant: the handler goes on while the upload is under way.
PutAssumed(q) ==
    /\ pc[q] = "putting"
    /\ Goto(q, "confirming")
    /\ UNCHANGED <<tables, store, req>>

PutAcknowledged(q) ==
    /\ pc[q] = "putting"
    /\ req[q].record \in objects
    /\ Goto(q, "confirming")
    /\ UNCHANGED <<tables, store, req>>

Confirm(q) ==
    LET x == req[q].record IN
    /\ pc[q] = "confirming"
    /\ row[x].state = "pending"
    /\ row' = [row EXCEPT ![x].state = "stored"]
    /\ history' = IF x \in Capture
                  THEN Append(history, <<"evidence", row[x].finding, x>>)
                  ELSE history
    /\ Finish(q)
    /\ UNCHANGED <<approved, store>>

\* Mutant: what was reserved is given back.
AbandonAndRelease(q) ==
    /\ pc[q] # "idle"
    /\ row' = IF pc[q] \in {"reserved", "putting", "confirming"}
              THEN [row EXCEPT ![req[q].record] = NoRow]
              ELSE row
    /\ Finish(q)
    /\ UNCHANGED <<approved, history, store>>

\* An error, a timeout, a caller who hung up or the death of the process, at
\* any point: the open transaction is rolled back and nothing else is undone.
Abandon(q) ==
    /\ pc[q] # "idle"
    /\ Finish(q)
    /\ UNCHANGED <<tables, store>>
-----------------------------------------------------------------------------
(* ApproveReportRevision *)

\* Mutant: the update does not ask whether the revision is stored.
ApprovableUnstored(r) == row[r].state # "absent" /\ r \notin approved

\* The WHERE of its update.
Approvable(r) == row[r].state = "stored" /\ r \notin approved

\* Mutant: the index is not there; the handler looks for an approval first.
NoIndexEntry(q) == {}

\* Entries of report_revisions_one_approved_per_engagement_idx whose
\* transactions have not ended: the update waits to see how they do.
UncommittedApprovals(q) == {req[p].record : p \in {p \in Request : pc[p] = "approved"}}

Approve(q) ==
    LET r == req[q].record IN
    /\ pc[q] = "approving"
    /\ Approvable(r)
    /\ UncommittedApprovals(q) = {}
    /\ approved = {}
    /\ Goto(q, "approved")
    /\ UNCHANGED <<tables, store, req>>

\* No row is updated, or the index has an approval: 404 or 409.
ApproveRefused(q) ==
    LET r == req[q].record IN
    /\ pc[q] = "approving"
    /\ \/ ~ Approvable(r)
       \/ UncommittedApprovals(q) = {} /\ approved # {}
    /\ Finish(q)
    /\ UNCHANGED <<tables, store>>

AuditApproval(q) ==
    /\ pc[q] = "approved"
    /\ approved' = approved \cup {req[q].record}
    /\ Finish(q)
    /\ UNCHANGED <<row, history, store>>
-----------------------------------------------------------------------------
\* RecordRetest: the round after the last of a finding (one transaction, under
\* the lock of the finding's row), of a finding that is open until then.
RecordRetest(f) ==
    \E round \in 1 .. MaxRetests :
        /\ round = 1 \/ <<"retest", f, round - 1>> \in Facts
        /\ <<"retest", f, round>> \notin Facts
        /\ history' = Append(history, <<"retest", f, round>>)
        /\ UNCHANGED <<row, approved, store, pc, req>>

Next ==
    \/ \E q \in Request :
          \/ StartCapture(q) \/ StartImport(q) \/ StartGeneration(q)
          \/ StartApproval(q)
          \/ ReadSection(q)
          \/ Reserve(q) \/ SendPut(q) \/ PutAcknowledged(q) \/ Confirm(q)
          \/ Approve(q) \/ ApproveRefused(q) \/ AuditApproval(q)
          \/ Abandon(q)
    \/ \E x \in Record : PutApplied(x) \/ PutLost(x)
    \/ \E f \in Finding : RecordRetest(f)

Spec == Init /\ [][Next]_vars
-----------------------------------------------------------------------------
(* Properties *)

Stored == {x \in Record : row[x].state = "stored"}

\* What is reported as stored, and what is approved, has its bytes in the
\* object store, whatever uploads were lost, late or left by a handler that
\* died (captureEvidence: "an order that never reports unconfirmed bytes as
\* evidence").
StoredIsInCustody == Stored \subseteq objects /\ approved \subseteq Stored

\* No object is, or will be, in the store without a row that names it: what a
\* failure leaves behind can be reconciled (captureEvidence: "a pending row and
\* possibly an orphan object, both of which remain reconcilable").
Reconcilable == \A x \in sent \cup objects : row[x].state # "absent"

\* A generated report shows the engagement as it was at one moment, not a mix
\* of its findings at several (withStructuredReportSnapshot).
ReportIsOneMoment ==
    \A r \in Revision :
        row[r].sha256 \in [shows : SUBSET Fact] =>
            \E n \in 0 .. Len(history) :
                row[r].sha256.shows = {history[i] : i \in 1 .. n}

\* At most one revision of the engagement is approved, and its approval stands,
\* whoever approves another at the same time (ApproveReportRevision and its
\* unique index).
OneApproval ==
    /\ \A r1, r2 \in approved : r1 = r2
    /\ \A q \in Request : pc[q] = "approved" => approved \subseteq {req[q].record}

\* What a row that is there claims for its record.
ClaimOf(x) ==
    IF row[x].state = "absent" THEN {}
    ELSE {[finding |-> row[x].finding, sha256 |-> row[x].sha256]}

Abstract == INSTANCE RecordFiling
                WITH Content <- [finding : Finding \cup {None}, sha256 : Contents],
                     claimed <- [x \in Record |-> ClaimOf(x)],
                     there <- objects,
                     filed <- Stored

\* All of the handlers' steps, and what they leave behind, amount to filing each
\* record once, in one order, and approving one revision: a row never changes
\* what it is about, and neither a failure nor a late upload takes a step back.
FilesOnce == Abstract!Spec
=============================================================================
