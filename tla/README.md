# FrameOPS: a verification development

FrameOPS is an operations platform for security assessments: a Go API
(`cmd/frameops-api`, `internal/httpapi`, `internal/store/postgres`) over
PostgreSQL and an S3-compatible object store (`internal/store/objectstore`), an
isolated worker that converts DOCX to PDF (`cmd/frameops-render`,
`internal/render`), a command line client, a web interface and operational
scripts. This directory models the parts of it where several actors, failures
and two stores that share no transaction meet, checks them with TLC on small
instances, and proves what matters most with TLAPS for all instances.

All line numbers are those of the repository at the commit the modules were
written against; `PROJECT.json` maps every definition to its lines.

## 1. Inventory

Every mutating request runs one PostgreSQL transaction at READ COMMITTED and
writes its audit events in the same transaction. Nothing runs in the background:
what a request leaves unfinished stays so until another request finds it.

### Report revisions
*State:* `report_revisions` (pending or stored, `approved_at`), one object each.
*Operations:* import (upload) or generate a DOCX, confirm it, list, approve.
*Interacts with:* the object store (upload between two transactions), report
PDFs (an approved revision is their source), project data (a generated revision
is rendered from a REPEATABLE READ snapshot, and reserved afterwards).
*Hard:* upload and rows share no transaction; two approvals of one engagement
race on a partial unique index; a failed upload is never recovered.
*Correct when:* a stored row has its bytes; one approval per engagement, of a
stored revision, for good; an approval is never withdrawn or moved.

### Report PDFs
*State:* `report_pdfs` (pending, stored, failed; `derived_at`), one object each.
*Operations:* one handler that reads the approved DOCX back, checks its digest,
converts it, reserves a row, uploads, confirms, and on failure retires the row.
*Hard:* every failure between reservation and confirmation, including a crash, a
lost commit acknowledgement, an upload that lands late, and a request that
stalls past the five minutes after which a retry takes its reservation over.
*Correct when:* one effective PDF per revision; stored means the bucket holds
the conversion of approved bytes; settled rows and bytes are final; a caller told
201 has a PDF; a left-over reservation never blocks delivery for good.

### Evidence
*State:* `evidence` rows (pending, stored), objects. *Operations:* capture
(reserve, upload, confirm), list. *Hard:* as for report revisions: two stores,
no common transaction, and nothing that settles later what a failure left.
*Correct when:* stored evidence is backed by the bytes it was captured with, and
what is left over can be told from the rows.

### Object store
*State:* the bucket, write-once under COMPLIANCE retention. *Operations:*
EnsureBucket at start-up, Put with `If-None-Match: *` and a signed digest, Get.
*Hard:* a two minute client timeout does not cancel what the store already
received. *Correct when:* an object, once there, is what its first writer's row
describes.

### Identity, sessions, bootstrap
*State:* users, memberships, sessions, the bootstrap token file and its
consumption row. *Operations:* bootstrap the first administrator, authenticate,
resolve a session, issue and check CSRF tokens, revoke. *Hard:* authentication
reads the membership and writes the session in separate statements; a session's
membership may be deactivated between check and use; the token file is removed
after the commit. *Correct when:* bootstrap happens once; a
deactivation ends the sessions its member has when it commits; a revoked session
never works again.

### Organization administration
*State:* organization, memberships, session revocations, audit log.
*Operations:* update the organization, add a member, change a member's role or
state. *Hard:* the last active administrator (guarded by row locks), a session
created concurrently with a deactivation, lock order. *Correct when:* an
organization never loses its last active administrator.

### Findings, triage and retests
*State:* findings (validation and remediation state), append-only retests,
finding-asset links. *Operations:* create, triage, record a retest, replace the
assets of a finding. *Hard:* a repeated or concurrent triage or retest must do
the whole edge or nothing; the whole asset set is replaced while others do the
same. *Correct when:* every edge is taken once, rounds have no gap and no
repetition, history is never rewritten.

### Assets and tool ingestion
*State:* assets (unique by name), `tool_ingestions` (unique by digest).
*Operations:* create an asset, ingest an Nmap report. *Hard:* two uploads of one
artefact race; two ingestions insert assets in different orders. *Correct when:*
one artefact is ingested once, its counts are right, and a repetition is told
which ingestion it repeats.

### Methodologies and checklists
*State:* templates, draft and published versions, items, engagement checklists.
*Operations:* draft, edit, publish, snapshot into a new engagement. *Hard:*
publishing while the draft is being emptied. *Correct when:* a published version
never changes and is never empty; a checklist is the version it was taken from.

### Project plans
*State:* the plan (draft, active, closed), its scope versions, team and
milestones. *Operations:* create, update (a draft only), transition, read.
*Hard:* an update that waits for an activation, or the other way round; a read
made of four statements. *Correct when:* an active plan has a lead and does not
change but for its status; whoever reads it active reads one version.

### Renderer
*State:* one conversion slot. *Operations:* convert, refuse when busy, shut down.
*Hard:* time limits and a killed converter. *Correct when:* one conversion at a
time, and the slot always comes back.

### Backup and restore
*State:* the containers that run, the two stores, a backup directory.
*Operations:* back up, restore, launch. *Hard:* a command fails, or the script is
killed, between any two; what a stopped application had sent may still be carried
out. *Correct when:* rows and objects of a backup match, and the application never
runs on stores that do not.

### Web user interface
*State:* the selected client, project and finding, the lists read for them, the
operation that shows as busy. *Operations:* select, submit a form, answer a call.
*Hard:* handlers go on selecting while earlier calls are on their way; answers and
failures come in any order. *Correct when:* what is shown belongs to what is
selected, and no operation shows as busy for good.

### Design skill: live mode
`.agents/skills/impeccable` is vendored tooling for authors of the interface. Its
live mode has a server of its own (`scripts/live-server.mjs`) between a page and
agents. *State:* a queue of events with leases, a journal for each session, parked
polls. *Operations:* post an event, poll, reply, expire a lease, restart.
*Hard:* work that comes late, agents that die with an event, a yield between
choosing and delivering. *Correct when:* what the user decided is not undone by
late work, one agent holds an event at a time, no event is stuck, and a restart
forgets no decision.

### How the parts meet
A session (identity) is resolved before every other operation and not looked at
again. Engagements copy a published methodology. Findings own evidence and
retests, which reports read; an approved revision is the source of PDFs, which
the renderer converts. Everything else the parts share is the two stores and the
row locks that every audit event takes on the organization and its actor.

### The rest
CVSS scoring (`internal/domain/cvss.go`) is a pure function. Other scripts
restore and start the runtime. The command line client, DOCX generation and
validation and the migration runner are sequential or pure. The rest of `.agents/`
(the detector, hooks, context, source rewriting) is sequential tooling too.

## 2. Delivery: report PDFs

`Delivery.tla` models `POST /v1/report-revisions/{id}/pdf` from its first read to
its deferred recovery, with the rows and the bucket it works on.

| in the module | in the code |
| --- | --- |
| `approved` | `report_revisions.approved_at` |
| `row`, `aged`, `audit` | `report_pdfs`, `derived_at <= now() - 5 minutes`, `audit_events` |
| `objects`, `put` | the bucket, and the uploads on their way to it |
| `pc`, `rev`, `read`, `own`, `reply` | a handler's place, its revision, the bytes it read, its row, its answer |
| `Start` ... `ConvertFails` | `reportPDF` up to line 61, `ApprovedReportRevision`, `readApprovedDOCX` |
| `Reserve`, `ReserveRefused`, `ReserveFails` | `ReserveReportPDF` and its three outcomes |
| `SendPut`, `PutApplied`, `PutLost`, `PutAcknowledged`, `PutFails` | `Bucket.Put` as request, effect and answer |
| `Confirm`, `ConfirmRefused`, `ConfirmFails` | `ConfirmReportPDF` and its three outcomes |
| `Recover`, `RecoverFails` | the deferred `FailReportPDF` |
| `Age`, `Crash` | time, and the death of the process |

**Granularity.** A transaction is one step. The handler's statements inside one
transaction each lock the row they change, or wait on the partial unique index,
until commit, so transactions on one revision take effect in commit order; the
only read that is not protected in this way (the `NOT EXISTS` of the INSERT) is
subsumed by the index. A failing transaction either rolls back or commits
without the handler hearing of it. An upload is sent, applied and acknowledged
in three steps, so it may land after its sender gave up.

**Data.** A revision stands for its bytes. `Altered` stands for any bytes
that are not the approved ones: the model offers them to `ReadApprovedDOCX` at every read,
and only the digest check keeps them out. A conversion is a record that names
its source, so two conversions agree exactly when their sources do.

**Abstraction.** `ReportDelivery.tla` says what the pipeline promises: an approved
revision is delivered as one PDF, once. `delivered[r]` is the stored row of
`r`.

### Run
`delivery`: one revision, two callers who keep asking, three row identities, any
two failures, under `FairSpec`, without symmetry. Two failures are what the
interesting stories need: one to abandon a reservation, one to stall its successor
or lose its answer. There are as many rows as the failures can waste plus one, so
a handler never lacks an identity because of the bound. Revisions meet only at
their approval, which Custody has with two of them; the proofs below are about any
number.

Bounds: `MaxFaults` bounds failures, `Pdf` the number of attempts that reach the
database.

**Fairness.** A handler that can go on does (`WF` on `Progress`): its goroutine
is scheduled, and every wait in it ends, because the HTTP client of the bucket
has a two minute timeout and the recovery a one second one. The object store
answers what reaches it, five minutes pass, and somebody who wants the PDF asks
again (`SF` on `Start`, since a refused caller may be refused again while
another attempt is under way). Failures are not fair.

### Properties
`OneEffectivePdf`, `StoredIsWhatWasApproved`, `CreatedIsDelivered`,
`AuditTellsTheHistory`, `NoStrayObject`, `SettledForGood`, the refinement
`DeliversOnce` and `EventuallyDelivered`; each is stated in words above its
definition.

### Proofs
`Delivery_proofs.tla` proves all of these but the last for every set of
revisions, rows and requests and every bound on failures, from the assumptions
of the module alone (`None` is no value of another kind; `Altered` is no
revision). None of the properties is inductive by itself. `IInv` adds

- `RequestInv`: what a handler at each place knows (the bytes it converts are
  those of its approved revision, the row it holds is of that revision, and if
  it is about to confirm, the object is there);
- `RowInv`: a written row names an approved revision and its conversion;
- `StoreInv`: an upload on its way has a row, an applied one an object, an
  object is what its row describes, a stored row has one.

The proof goes through three summaries of a step: `TableStep` (a step adds a
reservation, settles one, or leaves the table), `BucketStep` (sends, loses or
applies one upload) and `ApprovalStep`. Each is proved once for all actions, and
the invariants then follow from the few kinds of step instead of from the 22 actions.
`TableGrows` (a written row keeps its provenance, a settled row does not
change) is what makes a handler's knowledge stable under the others' steps.
`Implementation` maps a step that confirms to `Deliver`, an approval to `Approve`
and every other step to a stutter.

Liveness under fairness is out of the prover's reach and stays with TLC.


## 3. Membership: administrators and sessions

`Membership.tla` models who administers an organization, and the sessions with
which they do, statement by statement under PostgreSQL's row locks. It is the
component whose correctness is its locking.

| in the module | in the code |
| --- | --- |
| `member` | `organization_memberships`: role and `is_active` |
| `sess` | `sessions` that are neither revoked nor expired |
| `pc`, `req` | the statement a request comes to, and what it was asked |
| `locks` | row locks of open transactions on the organization, members and sessions |
| `Resolve`, `ResolveAdmin` | `SessionForToken` and the role check of a handler |
| `CheckLogin`, `CreateSession` | the two statements of `Authenticate` |
| `LogOut`, `AuditLogOut` | `RevokeSession` |
| `LockOrganization` ... `AuditMember` | the statements of `UpdateOrganizationMember` |
| `CreateMember`, `Rename`, `AuditRename` | the other two administrative operations |
| `Insert`, `AuditInsert` | any transaction that inserts a row naming its actor and then its audit event |
| `Abandon` | a failed statement, a caller who hangs up, a deadlock's victim |

**Locks.** `Conflict` is PostgreSQL's table for the three modes that occur: `FOR
UPDATE`, a plain `UPDATE` of columns that are no key, and the `FOR KEY SHARE` a
foreign key check takes on the row it refers to. A statement takes its locks when
nobody else holds conflicting ones; writes show at commit, with the release.

### Run
`membership`: two members, one session, two requests, under `FairSpec`: two
administrators who change each other, a log-in during a deactivation, and an
insertion that holds the locks an update needs.

**Fairness.** A request that can go on again and again does (`SF` on `Step`:
PostgreSQL queues those who wait for a lock), and its deadlock detector ends one
of those who wait in a circle (`WF`). There are such circles: a member update
locks the organization first and the member second, an insertion the other way
round. `EveryRequestEnds` says that they are broken.

### Properties
`AdminRemains`, `DeactivationEndsSessions`, `ChangesOnlyWhatItWasAsked`,
`EveryRequestEnds`. `AdminRemains` is what the lock on
all active administrators is for: without it two administrators who demote each
other both count two. `DeactivationEndsSessions` is what the lock on the member is
for: without it a log-in inserts its session between the revocation and the commit.

What the model shows without a property: `Authenticate` reads the membership
(`auth.go:205`) and inserts the session in a later statement (`:217`), whose foreign
key check only needs the row to be there. When a deactivation commits in between,
the session is inserted after it, and nothing revokes it. `SessionForToken` refuses
it while the member is inactive, and takes it again when the member is reactivated
within its twelve hours. No document says that a deactivation ends such a session,
so it is noted here.

### Proofs
`Membership_proofs.tla` proves the first three, and the type invariant, for any
members, sessions and requests. `AdminRemains` alone is not inductive: a commit
takes away an administrator because of a count some statements ago. `UpdateInv` says
what a change knows at each statement: it holds the organization's row, then the
member's; what it read of the member is still so; whoever it counted besides is
still an active administrator; and at the commit of a deactivation it holds every
session the member has. This is stable because nobody changes a membership without
the organization's row, and `LocksInv` says that no two requests hold conflicting
locks of a row. `AnotherAdmin` is the lemma on cardinality: two administrators are
one besides the one who goes. `EveryRequestEnds` needs fairness and stays with TLC.

## 4. Methodology: drafts, publication, checklists

`Methodology.tla` models a library template from draft to publication and the
checklists copied from it, statement by statement.

| in the module | in the code |
| --- | --- |
| `version` | a template's version (each has one) with its items |
| `engagement` | an engagement and its checklist |
| `lock` | the row lock on a version |
| `work` | what an open transaction has written; for a waiting publication, what its snapshot showed |
| `DraftTemplate` | `DraftMethodologyTemplate` |
| `LockDraft` ... `AuditDraft` | the statements of `UpdateMethodologyDraft` |
| `FindDraft`, `Publish`, `AuditPublication` | the UPDATE of `PublishMethodologyVersion`, before and after its wait, and the commit |
| `InsertEngagement` ... `AuditChecklist` | `CreateEngagement` and `snapshotEngagementChecklist` |
| `Rewritable` | the triggers of migration 00011 |

A name, a source and an attribution travel together, so a `Submission` stands for
them and `ItemsOf` says which items came with it; `empty` has none, which
`decodeMethodologyDraft` accepts.

**READ COMMITTED.** A statement sees what was committed when it began. An UPDATE
that had to wait for its row evaluates its condition again on the row as it has
become, and everything else in the condition still in its old snapshot. The
module separates the two (`FindDraft`, `Rechecked`), because the difference is
visible.

### Runs
- `methodology`: one template (templates share nothing), two engagements,
  an author and an administrator, three submissions, three requests.
- `methodology_publication` ends in a violation: an update that empties the draft
  commits while a publication waits for it, and the publication goes through, for
  the item it looked for was there in its snapshot. The comment of the function
  says that a draft without an item is refused.

### Proofs
`Methodology_proofs.tla` proves `TypeOK`, `VersionIsOneSubmission`,
`ChecklistIsTheVersion` and `UpdatesMeetDrafts` for any members, templates,
submissions, engagements and requests, and `PublishedIsFinal`, which is not in a
run: it is guarded twice in the code (by state and by trigger), so no single slip
breaks it. The invariant that is inductive adds what an open transaction holds: a
writer of a version holds its lock and has in `work` the row as it will commit,
and a taken checklist is part of a version that is published already. A version
that somebody has locked is changed by nobody else, which makes `work` stable.

## 5. Custody: evidence and report revisions

`Custody.tla` models what enters an engagement's custody: captures of evidence,
imported and generated revisions, and the one approval.

| in the module | in the code |
| --- | --- |
| `row` | `evidence` and `report_revisions`: state, finding, digest |
| `approved` | revisions with `approved_at` |
| `history` | the order in which what a report shows was committed: stored evidence, retest rounds |
| `sent`, `objects` | uploads on their way, and the bucket |
| `pc`, `req` | a handler's place, and what it has in hand |
| `StartCapture`, `StartImport` | `captureEvidence`, `importReportRevision` up to the reservation |
| `StartGeneration`, `ReadSection` | `withStructuredReportSnapshot` and the queries of `structuredReportSource` |
| `Reserve`, `SendPut`, `PutAcknowledged`, `Confirm` | `ReserveEvidence`/`ReserveReportRevision`, `Bucket.Put`, `ConfirmEvidence`/`ConfirmReportRevision` |
| `PutApplied`, `PutLost` | the object store |
| `Approve`, `ApproveRefused`, `AuditApproval` | `ApproveReportRevision` |
| `RecordRetest` | the round `RecordRetest` appends |
| `Abandon` | an error, a timeout, a caller who hung up, the death of the process |

**Data.** Contents are a file somebody brought or the set of facts a report
shows; a digest is as good as the contents, so `sha256` holds them. A key is the
record's identity. The text of a finding cannot change after its creation except
for its states, so what a snapshot protects in a report is which evidence and
which rounds it shows; `history` makes "at one moment" a prefix.

The findings are there from the start, and a retest leaves its finding open, as
one of its three results does: what the others close is the subject of Findings.

**Approval.** The partial unique index makes an approval wait for another that
has not committed; `UncommittedApprovals` is that wait.

**Abstraction.** `RecordFiling.tla` is what all of this promises: a record is
claimed for one content, its bytes arrive, it is filed, and one filed revision is
approved, each once and none of it taken back. `Custody` implements it
(`FilesOnce`) when a claim is what a row says of its finding and its digest, and
what is filed is what reads as stored; requests, uploads on their way, lost
acknowledgements and everything an abandoned handler leaves are steps that the
abstraction does not see.

### Run
`custody`: two findings, one capture, two revisions, one document, one round, two
requests. Two findings are what it takes for a report to mix two moments, two
revisions and two requests for approvals to meet. Deadlock is checked, and none is
found.

Retest rounds are bounded by `MaxRetests`; identities of rows bound the rest.

### Proofs
`Custody_proofs.tla` proves the five properties of the run, and the type invariant, for any numbers. `IInv` adds what a
handler at each place knows (`FilingInv`: the row it files is absent, pending, or
pending with its bytes there; `ReadingInv`: a report in the making shows, of a
snapshot that is a moment of the history, the sections read so far;
`ApprovalInv`: while an approval is open nothing is approved) and that no two
handlers file the same record (`ApartInv`). `Frame` says what a step must leave
to the other requests for their knowledge to stand, `FrameKeeps` that it then
does, and `MomentStays` that a moment of the past remains one. `Implementation`
maps a reservation to a claim, an applied upload to an arrival, a confirmation to
a filing and the commit of an approval to an approval; it needs `IInv` for what
these handlers know of the row they are about, and every other action leaves the
abstract variables alone. `NothingIsTakenBack` goes the other way: it reads off the
abstract specification, by `StepImplements`, what no step of the handlers may do to
rows, objects and approvals.

## 6. Ingestion: the asset inventory

`Ingestion.tla` models an engagement's assets, imported (`RecordIngestion`) or typed
in (`CreateAsset`), and the two unique indexes on which the transactions meet.

| in the module | in the code |
| --- | --- |
| `asset` | `assets`: which names there are and who made them (`source`, `ingestion_id`) |
| `ingestions` | `tool_ingestions` with the created and reused counts |
| `inserted` | index entries of open transactions |
| `reply` | the answer to an upload: 201, or 409 and its `ingestionId` |
| `Upload`, `LookUp`, `InsertName`, `NamesInserted`, `InsertIngestion`, `AuditIngestion` | the statements of `RecordIngestion` |
| `Create`, `InsertAsset`, `AuditAsset` | those of `CreateAsset` |

The INSERT of an import is as many steps as it has names, because it may wait at
each with the earlier ones inserted. An artifact is the sequence of distinct names
`readNmapReport` finds in it; items it ignores or rejects count the same in every
interleaving and are left out.

### Runs
- `ingestion`: two hosts, a scan that saw them in each order and one that saw none
  (which meets others only on the digest), two requests, three ingestions, under
  `FairSpec`: as in Membership, requests that can go on do and deadlocks are
  broken. They occur: two imports in opposite orders each wait for the other's
  first name.
- `ingestion_duplicate` ends in a violation: of two overlapping uploads of one
  artifact the second gets a 409 whose `ingestionId` is empty.

### Proofs
`Ingestion_proofs.tla` proves `ImportedOnce`, `CountsTellTheInventory` and
`AnswersAreTrue`, and the type invariant, for any names, artifacts, lists of names
and requests, and `NothingIsRewritten`: no commit takes an asset from its source.
The counts are the hard part, since they are of names inserted long before the
commit that shows them. `InsertedInv` says of an import that what it has
inserted is not in the inventory and comes from the names it has read, each of
which is there or inserted; `ApartInv` that no two transactions have a name, an
identity or a recorded artifact in common; `RowInv` that whoever has recorded an
artifact finds no row of it. `NamesCount` shows that a list without repetition has
as many names as its length (this is where `NamesOfAssumption` is used, which
`readNmapReport` ensures by skipping the names it has seen). `NewRowFacts` concludes what
the new row says, `RowsStayTrue` that the older rows stay true. `EveryRequestEnds`
stays with TLC.

## 7. Findings: triage, retests, assets

`Findings.tla` models the findings of one engagement, statement by statement, with
callers who do not always hear the answer and then ask again.

| in the module | in the code |
| --- | --- |
| `finding` | `validation_state` and `remediation_state` of a row, as the constraint of migration 00007 lets them occur together |
| `retests` | `finding_retests`, in order |
| `asset`, `links` | `assets` of the engagement, `finding_assets` |
| `holder` | the row lock on a finding |
| `reply` | what a caller was last told |
| `SendCreate` ... `SendAssets` | the handlers in `internal/httpapi/server.go` |
| `InsertFinding`, `Confirm` | `CreateFinding`, `TriageFinding` |
| `Advance`, `ReadHistory` | the UPDATE of `RecordRetest` and its look at the rounds |
| `LockFinding`, `ClearLinks`, `InsertLinks` | `ReplaceFindingAssets` |
| `Commit` | the last statements, the audit event and the commit of each |
| `Repeat`, `GiveUp` | a caller who did not hear the answer |

What a transaction writes shows at its commit; until then it has the row, so
nobody else could see it. A retest that somebody carried out is a member of
`Work`: only so can a repetition be told from a second retest.

### Run
`findings`: one finding (each transaction takes the row of one), two callers, two
retests, two rounds, two assets of the engagement and one of another. Callers and
retests are symmetric. `MaxRound` bounds the rounds a caller names.

### Properties
`StateIsHistory`, `WorkRecordedOnce`, `RoundsAsAnswered`, `AssetSetIsOneCallers`.
The second and third together are what the round in the request is for: without
it a repetition of a retest that left its finding open is recorded again.

### Proofs
`Findings_proofs.tla` proves all four, and the type invariant, for any callers,
findings, retests, rounds and assets. `FindingInv` says what a transaction knows of
the row it holds: a retest that comes to its commit has the number of the next
round, a change of assets has cleared all the links there are. `WorkInv` is what
makes `WorkRecordedOnce` inductive: whatever is recorded of a retest is recorded as
its request said, finding and round included, so a repetition that gets as far as
its commit, for a round that is still to come, was not recorded before. It stays
true because nobody else reports the same retest (`ApartInv`). `NoneIsNoState`
(a finding that does not exist has no state) is the one assumption on the constants.

## 8. ProjectPlan: draft, activation, reading

`ProjectPlan.tla` models the plan of one engagement: a row with a status, and three
tables of details, each in a statement of its own.

| in the module | in the code |
| --- | --- |
| `owner`, `status` | `engagement_plans` |
| `scope` | `engagement_scope_versions`: what each version's request asked for |
| `written` | with which version the row, the team and the milestones were written |
| `InsertPlan`, `UpdatePlan`, `WriteDetails` | `CreateProjectPlan`, `UpdateProjectPlan`, `writeProjectPlanDetails` |
| `Authorize` | `authorizeProjectPlan` |
| `LockPlan`, `Validate`, `SetStatus` | `TransitionProjectPlan` |
| `ReadPlan` ... `ReadMilestones` | the four queries of `ReadProjectPlan`, on the pool |

A plan that a request may ask for is a member of `Draft`; all that matters of it is
whether its team has a lead (`WithLead`).

### Run
`plan`: an owner, another user and an administrator, two kinds of plan, two scope
versions, which is what an update next to an activation or a read takes. The other
two users are symmetric.

### Properties
`ActivePlanHasLead`, `FrozenOnceActive`, `ActivePlanIsReadWhole`. The last is the
one to argue about: a read without a transaction may mix two versions of a draft,
and does; that it never mixes those of an active plan rests on the order of its
statements, the status first.

### Proofs
`ProjectPlan_proofs.tla` proves all three, and the type invariant, for any users,
drafts and `MaxVersion` in `Nat` (`MaxVersionAssumption`; the code has no bound).
`HolderInv` says what the holder of the row knows of the plan: that an update found
a draft, and that an activation that was validated has its lead still, as nobody
else can write the team. `ReaderInv` is the argument for reads: one that saw an
active plan has seen at each query the last version, and there will be no other.
`TablesInv` ties the three tables to one version between transactions.

## 9. Recovery: backup and restore

`Recovery.tla` models `scripts/recovery.sh`, a command a step, around an application
that files records in both stores.

| in the module | in the code |
| --- | --- |
| `up` | the containers that run |
| `db`, `objects` | the rows and the bucket; `Lost` once emptied or restored in part |
| `sent`, `heard` | what the application has sent to a store, and heard from it |
| `temp`, `destination` | the temporary and the finished directory of a backup |
| `File`, `Put`, `Confirm`, `Confirmed` | capture and confirmation as in Custody |
| `StopApi` ... `StartApi` | `backup` |
| `RestoreStopsApi` ... `Healthy` | `restore` |
| `BackupFails`, `BackupEnds`, `RestoreFails` | a command that fails where the script handles it, or ends it |
| `Launch` | `scripts/local-runtime.sh`, which starts what is stopped |

A stop takes effect on what the container had not answered; what the application
had sent to a store that goes on running is still carried out. The launcher is not
started after a restore that failed: the operator is told not to.

### Run
`outside` checks Recovery together with Workspace and Live (sections 10 and 11), as
`Outside_proofs.tla` proves about them together. The three share no state, so
`MCOutside.tla` lets one of them, chosen at the start, move while the others rest:
what it explores is the sum of the three and not their product. Its bounds for
Recovery are two records, one backup at a time, and restores after it. It does not
check deadlock: a failed restore is where the system stops for an operator.

### Properties
`BackupIsConsistent` (no stored row without its object, no object without its row)
and `ApplicationRunsOnMatchingStores`.

### Proofs
`Outside_proofs.tla` proves both (`RecoveryInv`), and the type invariant, for any
number of records. The stores match (`WellFiled`) whenever anybody can write to
them: the only commands at which they do not are those between the first and the
last write of a restore, and there nothing is on its way and the application is
down (`Quiet`). That is why a restore stops both stores before it writes: what had
been sent to them is gone with them. `DumpedInv` is the argument for backups, whose
dump is taken while a confirmation may still arrive: the dump has every row there
is, none of them further than the row itself, and the objects copied later are at
least those of the rows it shows as stored. `LostAssumption` says that what a
half-restored store holds is no content.

### Noted
A restore that fails after `start_stores`, or before the stores are stopped, leaves
the stores running, with the application stopped; `docs/development.md:135-137`
says that any failure leaves them stopped. Nothing is lost by it, so it is noted
here and is not a property.

## 10. Workspace: the web client

`Workspace.tla` models the page on which a project is worked on
(`web/app/page.tsx`): handlers that run up to an `await`, and answers that come in
any order.

| in the module | in the code |
| --- | --- |
| `section` | the route; each is a mount of its own |
| `view` | the state of `Workspace`: what is selected, and for whom each list was read |
| `busy` | the one variable that tells which button shows its operation as running |
| `calls` | the handlers that wait, with the calls of their `Promise.all` |
| `SelectClient`, `SelectEngagement`, `SelectFinding` | the functions of those names |
| `CreateClient` ... `DerivePDF` | the forms and buttons |
| `Loaded`, `CurrentIngestions`, `LoadEvidence` | `loadFindings` and its like, and the two that compare with a reference |
| `Part`, `LastPart`, `Posted`, `GoOn` | an answer, and what the handler does with it |
| `Rejected`, `Unheard` | the first failure of a group, and a later one |

A list is modelled by the set of those whose records it shows, so "shows the imports
of another project" is something a property can say. React's updates are
applied at once.

### Runs
`outside` (section 9): a client with a project and two findings, and two handlers
that wait at once. `Slot` bounds the handlers; two are what it takes for an answer to
come after another selection, and two findings for it to be about another one.
`workspace_imports`: a client with two projects, a violation.

### Properties
`EvidenceIsTheFindings`, `BusyEndsWithTheCalls`.

`ImportsAreTheProjects` is violated, and is a finding. `loadIngestions` means to keep
imports "only when their engagement remains selected" (`operations.test.ts:17`), but
passes `engagementIDRef.current` to `currentIngestions` as an argument that is
evaluated before the `await` of another (`page.tsx:90`). At that time the reference
is the project asked for, so the comparison always succeeds, and `Loaded` calls
`CurrentIngestions` with the project itself. In the run a project is opened, another
one is selected while the first one's imports are read, and the late answer is shown.
`loadEvidence` (`page.tsx:81-82`) awaits first and compares afterwards; that this is
enough is what `EvidenceIsTheFindings` shows.

`BusyEndsWithTheCalls` says one half of what `busy` is for: no operation is left
showing as running with nobody to clear it. The other half does not hold and nothing
claims it: the first operation to end clears `busy` while another one still runs, and
its button can be pressed again.

What the model shows without a property: findings, retests, reports and the
checklist are set without a look at the selection, so a late answer shows those of
the project that was left, and the round of a retest may be counted on such a list
(the server refuses it). `createEngagement` reads the checklist twice.

### Proofs
`Outside_proofs.tla` proves the two, and the type invariant, for any clients,
projects, findings and handlers that wait (`PageInv`). `NothingAssumption` keeps the
value of a free handler apart from those of busy ones; `ClientOf` and `EngagementOf`
are functions, no more. The page keeps the selected finding twice, as state and as a
reference that `loadEvidence` reads after its `await`; `ViewInv` says that they
agree. `BusyInv` is needed for `busy`: while it is
set, some handler is waiting that will clear it (`Clears`): one whose calls have not
failed, or that reads its own checklist, after which it clears `busy` whatever the
answer was. `HandlerKeeps` reduces each step to what it does to one such handler.
`EvidenceStep` is an action property, proved of each step and not of states.

## 11. Live: the helper of the design skill

`Live.tla` models the server between a page on which variants of a design are tried
and the agents that make them
(`.agents/skills/impeccable/scripts/live-server.mjs`).

| in the module | in the code |
| --- | --- |
| `snap` | per session, what a replay of its journal gives: `phase`, `generationCanceled`, `pendingEvent` (`live/session-store.mjs`) |
| `queue` | `state.pendingEvents`, with whether `leaseUntil` is in the future |
| `worker` | an agent: without a poll, parked in `pendingPolls`, waiting for a lease, or at work |
| `Requested` ... `Replied` | the cases of `applyEvent` |
| `Claimed`, `Leased`, `Prepared`, `Delivered` | `leaseEvent` before and after its `await` |
| `Flushed`, `Selected` | `flushPendingPolls`, `selectAvailablePendingEvent` |
| `Generate`, `Decide`, `DiscardOrphan`, `ReportMountFailure`, `Checkpoint` | `POST /events` |
| `Poll`, `PollEnds` | `GET /poll` |
| `Answer`, `AnswerError`, `Bounce`, `Retry`, `Inferred`, `Reply` | `POST /poll` |
| `Complete` | `live-complete.mjs` |
| `Expire` | the timer of `scheduleLeaseFlush` |
| `LeaseFails`, `Interrupt`, `Crash` | a journal that cannot be written, an agent that stops, a restart of the server |

The server is one thread and yields only in `leaseEvent`, so a handler is one step
and a lease with a preparation is two. `current` says whether an agent's lease still
runs: it is no variable of the code, and only a property reads it.

What the page may post is guarded as the page is, but for mount failures, which are
guarded as the server is: it takes them of any session it knows, in whatever phase.
They are those of one variant.

### Runs
`outside` (section 9): one session (sessions meet only in the order of the queue), two
agents, and two things that go wrong, under `LiveFairness`. `live_restart`: the same
instance under `LiveFairSpec`, a violation.

**Fairness.** Each lease runs out (by the clock, whatever becomes of others), a
preparation ends (it has a time limit of fifteen seconds), and an agent that is not
interrupted replies and polls again. What the page does is not fair, nor is anything
that goes wrong.

### Properties
`LateWorkIsFenced` (the fence of the journal; it speaks of the phases in which
variants are offered, and of no other effect of late work), `OneHolder` (the claim
before the `await`), `NoEventIsStuck` (interrupted agents and failed leases give
their events up again, until one is acknowledged or retired). `NoEventIsStuck` says
that an event leaves the queue, and a restart is a way to leave it too: what that
forgets is the business of `DecisionsAreRequeued`.

`DecisionsAreRequeued` is violated, and is a finding. A preparation that ends after
the user decided journals its generation once more (`live-server.mjs:256`, and `:236`
when it is handed out). The session is then in `generate_requested` again and its
snapshot holds the generation as pending in place of the decision. The queue still
has the decision, so it is carried out; but a restart before that requeues the
generation only, where `reference/live.md:76` says that "startup requeues
unacknowledged events" (and `live/vocabulary.mjs:133-136` that a late generation write
is recorded as a diagnostic and not applied). The property speaks of decisions alone:
a mount failure behind a pending generation is not requeued either, which
`session-store.mjs:425-431` chooses, as a journal has one event pending.

What the model also shows: an `error` reply of an agent whose generation was retired
acknowledges whatever event of the session is leased. A mount failure reported late,
of a session that is over, is queued, and an `error` reply to it brings the session to
`agent_error`.

### Proofs
`Outside_proofs.tla` proves `LateWorkIsFenced`, `OneHolder` and the type invariant, for
any sessions and agents and any `MaxFaults` (`HelperInv`). Neither property is
inductive. `OneHolder` needs that an event is queued once (`QueueInv`), that an agent
whose lease runs has its event in the queue as leased (`LeaseInv`), so that an entry
without a lease is nobody's and may be handed out, and after a crash that no two
sessions restore the same event: what a journal has pending is of its own session.
That the restored queue is a sequence needs finitely many such sessions, which
holds because a step writes one journal (`JournalsInv`); no set is assumed finite.
Handlers are functions from states to states, so the lemmas are about those
(`LeasedKeeps`, `RemovedKeeps`, `RepliedKeeps`, ...), each taking a `Sound` state to a
`Sound` one, and a step is a composition of them. The choice of the next event and
of the first that matches rest on `LeastNumber`, that a set of natural numbers has
a least element: the library has it only with an operator as parameter, so it is
derived from the strict subsets of a finite set being well founded.
`NullAssumption` says that `Null` is no event and no type.

## 12. Plan

Done, in this order: Delivery with its abstract specification and proofs, because
it is where the most failures meet; Membership; Methodology with proofs; Custody
with its abstract specification and proofs; Ingestion; Findings; ProjectPlan;
Recovery; Workspace; Live.

Proved after they had been checked: ProjectPlan, Findings, Membership, Ingestion,
Recovery, Workspace and Live, each with the invariant its safety properties need.

Left to prove: nothing that a run checks, but for liveness. What would say more are
statements that no run checks yet: that the audit of Membership tells its history as
that of Delivery does.

To model next: the renderer's slot with its time limits and shutdown; the bootstrap
token file with crashes between commit and removal; the counts of `readNmapReport`.

## 13. Proved, checked, and neither

Proved for all values of the constants (`PROJECT.json` lists the theorems with the
properties they state): the type invariant, every safety property and the
refinements of Delivery, Membership, Methodology, Custody, Ingestion, Findings,
ProjectPlan, Recovery, Workspace and Live, in the module of each that ends in
`_proofs`; those of the last three, which run outside the server, are together in
`Outside_proofs.tla`, so those modules give their definitions names of their own
(`PageSpec`, `LiveSpec`, `RecoverySpec`, and the invariants `PageInv`, `HelperInv`,
`RecoveryInv`). Those of the server go the same way. `IInv` adds to the properties
what a request, a caller or the script knows at the statement it comes to; one
lemma for each action shows that it keeps `IInv`; `Frame` says what the step of one
must leave to another for what the other knows to stand, and `FrameKeeps` that it
then stands. The theorems are `THEOREM`s at the end of a module; before a proof was
tried TLC had checked the invariant on the instance of the run.

The assumptions are those the modules name: `NamesOfAssumption`,
`DistinctAssumption`, `NoneIsNoState`, `LostAssumption`, `NullAssumption` and their like keep values
that stand for nothing apart from the others; `MaxVersionAssumption` is about a
bound of the model. No theorem assumes that a set is finite, except where the
code's own numbers do (a list of names is finite).

Model-checked only:
- liveness, which needs fairness and is out of the prover's reach:
  `EventuallyDelivered`, `EveryRequestEnds` of Membership and of Ingestion,
  `NoEventIsStuck`. Nothing else that a passing run checks is without a theorem.

The runs list properties about behaviour, and of type invariants only that of
Methodology; the others are proved, and hold on the same instances.

Every property of a passing run has a mutant of the modelled code, the definition
next to the one it replaces, under which the same run finds it violated.

Not modelled:
- the worker of the renderer, whose slot, time limits and copying are local to one
  process; Delivery has a conversion that succeeds or fails;
- the bootstrap of the first administrator: one transaction under an advisory lock
  and a consumption row. If the removal of the token file fails after the commit,
  the caller sees an error although the administrator is there; likewise
  `scripts/local-runtime.sh:167` marks the token as used only after an answer, so a
  launch whose answer was lost tries once more and is refused;
- CVSS scoring: a pure function over floating point numbers, which TLC does not
  have. There are 2592 base vectors;
- the parser of Nmap reports, and the generation and validation of documents: what
  matters of them to the protocols is which names they give, or that they refuse;
- tenancy: every query names the organization of the session, and the modules
  have one organization;
- listing and reading operations that change nothing, unless a property is about
  what they see together;
- the command line client, the migration runner and the start-up checks of the
  object store: sequential, with no state the others rely on;
- in the web client: signing in, methodologies, and the pages of planning and
  organization;
- of the design skill: steering and manual edits, mount acknowledgements,
  redelivery of a completion the page missed, lanes by event type, the stream to
  the page, the lock on source files, and all that rewrites or scans source text.

`PROJECT.json` gives the status of each part, the hazards with the properties that
watch them, and those no property watches.
