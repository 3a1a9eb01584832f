---------------------------- MODULE Methodology -----------------------------
(***************************************************************************)
(* The methodology library and the checklists engagements receive from it: *)
(* store/postgres/methodology.go and CreateEngagement of auth.go, over the *)
(* tables and triggers of migration 00011.                                 *)
(*                                                                         *)
(* A step is a statement of a READ COMMITTED transaction.  A request works *)
(* on one document, a template's version with its items or an engagement   *)
(* with its checklist; what it writes stays in its transaction until the   *)
(* commit.  The one row requests contend for is the version, which an      *)
(* editor and a publisher lock until their transactions end.  No code adds *)
(* a second version to a template, so template and version are one here.   *)
(***************************************************************************)
EXTENDS Naturals

CONSTANTS
    User,           \* the members of the organization
    Administrator,  \* those who may publish and open engagements
    Template,       \* identities of templates
    Engagement,     \* identities of engagements
    Submission,     \* contents a member may submit
    ItemsOf,        \* the items each submission carries, possibly none
    Request,        \* requests served at the same time
    None            \* "no value"

Item == UNION {ItemsOf[s] : s \in Submission}

ASSUME AdministratorAssumption == Administrator \subseteq User
ASSUME ItemsAssumption == ItemsOf \in [Submission -> SUBSET Item]
ASSUME DistinctAssumption ==
    /\ Template \cap Engagement = {}
    /\ None \notin User \cup Template \cup Engagement \cup Submission \cup Request

VARIABLES
    version,    \* the committed version of each template
    engagement, \* the committed engagements, each with its checklist
    lock,       \* the request that holds the row lock of each version
    pc,         \* the statement each request comes to next
    req,        \* what each request is about
    work        \* what the transaction of each request has written or, while
                \* its update waits for a row, what its snapshot showed

vars == <<version, engagement, lock, pc, req, work>>

\* name, source and attribution of a version are its "header".
Version == [state : {"none", "draft", "published"}, author : User \cup {None},
            publisher : Administrator \cup {None},
            header : Submission \cup {None}, items : SUBSET Item]
NoVersion == [state |-> "none", author |-> None, publisher |-> None,
              header |-> None, items |-> {}]

\* "asked" is the methodologyVersionId of the request that opened it.
Opened == [state : {"none", "open"}, asked : Template \cup {None},
           header : Submission \cup {None}, items : SUBSET Item]
NotOpened == [state |-> "none", asked |-> None, header |-> None, items |-> {}]

EditSteps == {"update version", "clear items", "insert items", "audit draft"}
PublishSteps == {"find draft", "publish", "audit publication"}
EngageSteps == {"insert engagement", "take checklist", "copy items",
                "audit checklist"}

RequestData == [user : User \cup {None}, template : Template \cup {None},
                submission : Submission \cup {None},
                engagement : Engagement \cup {None}]
NoRequest == [user |-> None, template |-> None, submission |-> None,
              engagement |-> None]

TypeOK ==
    /\ version \in [Template -> Version]
    /\ engagement \in [Engagement -> Opened]
    /\ lock \in [Template -> Request \cup {None}]
    /\ pc \in [Request -> {"idle", "lock draft"} \cup EditSteps
                             \cup PublishSteps \cup EngageSteps]
    /\ req \in [Request -> RequestData]
    /\ work \in [Request -> Version \cup Opened]

Init ==
    /\ version = [t \in Template |-> NoVersion]
    /\ engagement = [e \in Engagement |-> NotOpened]
    /\ lock = [t \in Template |-> None]
    /\ pc = [q \in Request |-> "idle"]
    /\ req = [q \in Request |-> NoRequest]
    /\ work = [q \in Request |-> NoVersion]
-----------------------------------------------------------------------------
Goto(q, label) == pc' = [pc EXCEPT ![q] = label]

At(q, label) == pc[q] = label

\* The end of a transaction, with its effect already in version or engagement:
\* locks go, and so does what it wrote.
End(q) ==
    /\ Goto(q, "idle")
    /\ req' = [req EXCEPT ![q] = NoRequest]
    /\ work' = [work EXCEPT ![q] = NoVersion]
    /\ lock' = [t \in Template |-> IF lock[t] = q THEN None ELSE lock[t]]

\* A rollback: nothing of the transaction shows.
Refuse(q) ==
    /\ End(q)
    /\ UNCHANGED <<version, engagement>>

\* Mutant: the statement runs on the pool and commits at once.
WriteOnPool(q, row, next) ==
    /\ work' = [work EXCEPT ![q] = row]
    /\ IF row \in Version
       THEN /\ version' = [version EXCEPT ![req[q].template] = row]
            /\ UNCHANGED engagement
       ELSE /\ engagement' = [engagement EXCEPT ![req[q].engagement] = row]
            /\ UNCHANGED version
    /\ lock' = [t \in Template |-> IF lock[t] = q THEN None ELSE lock[t]]
    /\ Goto(q, next)
    /\ UNCHANGED req

\* A statement inside the transaction.
Write(q, row, next) ==
    /\ work' = [work EXCEPT ![q] = row]
    /\ Goto(q, next)
    /\ UNCHANGED <<version, engagement, lock, req>>

\* The triggers of migration 00011, on a version and on its items.
Rewritable(t) == version[t].state # "published"

\* A request arrives: its session is resolved, its body decoded.
Receive(q, data, label) ==
    /\ At(q, "idle")
    /\ req' = [req EXCEPT ![q] = data]
    /\ Goto(q, label)
    /\ UNCHANGED <<version, engagement, lock, work>>

\* DraftMethodologyTemplate: rows nobody else can see, then one commit.
DraftTemplate(q, u, t, s) ==
    /\ At(q, "idle")
    /\ version[t].state = "none"
    /\ version' = [version EXCEPT ![t] =
            [state |-> "draft", author |-> u, publisher |-> None,
             header |-> s, items |-> ItemsOf[s]]]
    /\ UNCHANGED <<engagement, lock, pc, req, work>>

StartUpdate(q) ==
    \E u \in User, t \in Template, s \in Submission :
        Receive(q, [user |-> u, template |-> t, submission |-> s,
                    engagement |-> None], "lock draft")

\* Mutant: any member publishes.
AnyoneMayPublish(u) == u \in User

MayPublish(u) == u \in Administrator

StartPublish(q) ==
    \E u \in User, t \in Template :
        /\ MayPublish(u)
        /\ Receive(q, [user |-> u, template |-> t, submission |-> None,
                       engagement |-> None], "find draft")

StartEngagement(q) ==
    \E u \in Administrator, t \in Template \cup {None}, e \in Engagement :
        /\ \A p \in Request : req[p].engagement # e
        /\ engagement[e].state = "none"
        /\ Receive(q, [user |-> u, template |-> t, submission |-> None,
                       engagement |-> e], "insert engagement")
-----------------------------------------------------------------------------
(* UpdateMethodologyDraft *)

\* The three refusals after SELECT ... FOR UPDATE.
Editable(q, t) ==
    /\ version[t].state = "draft"
    /\ version[t].author = req[q].user

\* Mutant: SELECT without FOR UPDATE.
NoLock(q, t) == UNCHANGED lock

RowLock(q, t) == lock' = [lock EXCEPT ![t] = q]

LockDraft(q) ==
    LET t == req[q].template IN
    /\ At(q, "lock draft")
    /\ lock[t] = None
    /\ IF Editable(q, t)
       THEN /\ RowLock(q, t)
            /\ work' = [work EXCEPT ![q] = version[t]]
            /\ Goto(q, "update version")
            /\ UNCHANGED <<version, engagement, req>>
       ELSE Refuse(q)

\* The update would wait for the row as well, had the SELECT not taken it.
UpdateVersion(q) ==
    LET t == req[q].template IN
    /\ At(q, "update version")
    /\ lock[t] \in {None, q}
    /\ IF Rewritable(t)
       THEN /\ lock' = [lock EXCEPT ![t] = q]
            /\ work' = [work EXCEPT ![q] =
                           [version[t] EXCEPT !.header = req[q].submission]]
            /\ Goto(q, "clear items")
            /\ UNCHANGED <<version, engagement, req>>
       ELSE Refuse(q)

ClearItems(q) ==
    /\ At(q, "clear items")
    /\ IF Rewritable(req[q].template) \/ work[q].items = {}
       THEN Write(q, [work[q] EXCEPT !.items = {}], "insert items")
       ELSE Refuse(q)

InsertItems(q) ==
    LET submitted == ItemsOf[req[q].submission] IN
    /\ At(q, "insert items")
    /\ IF Rewritable(req[q].template) \/ submitted = {}
       THEN Write(q, [work[q] EXCEPT !.items = submitted], "audit draft")
       ELSE Refuse(q)

AuditDraft(q) ==
    /\ At(q, "audit draft")
    /\ version' = [version EXCEPT ![req[q].template] = work[q]]
    /\ UNCHANGED engagement
    /\ End(q)
-----------------------------------------------------------------------------
(* PublishMethodologyVersion: one UPDATE finds the draft that has an item.  *)
(* The statement looks for it in the snapshot it starts with.  If another   *)
(* transaction has the row, it waits, and then evaluates its condition on   *)
(* the row as it has become; the other tables it still sees as they were.   *)

Publishable(row) == row.state = "draft" /\ row.items # {}

FindDraft(q) ==
    LET t == req[q].template IN
    /\ At(q, "find draft")
    /\ IF Publishable(version[t])
       THEN /\ work' = [work EXCEPT ![q] = version[t]]
            /\ Goto(q, "publish")
            /\ UNCHANGED <<version, engagement, lock, req>>
       ELSE Refuse(q)

\* What the condition is evaluated on once the row is locked: the row as it is
\* now, with the items the snapshot showed.
Rechecked(q) == [version[req[q].template] EXCEPT !.items = work[q].items]

PublishedBy(row, u) == [row EXCEPT !.state = "published", !.publisher = u]

Publish(q) ==
    LET t == req[q].template IN
    /\ At(q, "publish")
    /\ lock[t] = None
    /\ IF Publishable(Rechecked(q)) /\ Rewritable(t)
       THEN /\ lock' = [lock EXCEPT ![t] = q]
            /\ work' = [work EXCEPT ![q] =
                           PublishedBy(version[t], req[q].user)]
            /\ Goto(q, "audit publication")
            /\ UNCHANGED <<version, engagement, req>>
       ELSE Refuse(q)

AuditPublication(q) ==
    /\ At(q, "audit publication")
    /\ version' = [version EXCEPT ![req[q].template] = work[q]]
    /\ UNCHANGED engagement
    /\ End(q)
-----------------------------------------------------------------------------
(* CreateEngagement and snapshotEngagementChecklist *)

InsertEngagement(q) ==
    LET asked == req[q].template IN
    /\ At(q, "insert engagement")
    /\ Write(q, [state |-> "open", asked |-> asked, header |-> None, items |-> {}],
             IF asked = None THEN "audit checklist" ELSE "take checklist")

\* INSERT ... SELECT of the version, if it is published.
TakeChecklist(q) ==
    LET t == req[q].template IN
    /\ At(q, "take checklist")
    /\ IF version[t].state = "published"
       THEN Write(q, [work[q] EXCEPT !.header = version[t].header], "copy items")
       ELSE Refuse(q)

\* INSERT ... SELECT of the items the version has now.
CopyItems(q) ==
    /\ At(q, "copy items")
    /\ Write(q, [work[q] EXCEPT !.items = version[req[q].template].items],
             "audit checklist")

AuditChecklist(q) ==
    /\ At(q, "audit checklist")
    /\ engagement' = [engagement EXCEPT ![req[q].engagement] = work[q]]
    /\ UNCHANGED version
    /\ End(q)
-----------------------------------------------------------------------------
\* The connection, the client or the database gives up.
Abandon(q) ==
    /\ ~ At(q, "idle")
    /\ Refuse(q)

Next ==
    \E q \in Request :
        \/ \E u \in User, t \in Template, s \in Submission :
               DraftTemplate(q, u, t, s)
        \/ StartUpdate(q)
        \/ StartPublish(q)
        \/ StartEngagement(q)
        \/ LockDraft(q)
        \/ UpdateVersion(q)
        \/ ClearItems(q)
        \/ InsertItems(q)
        \/ AuditDraft(q)
        \/ FindDraft(q)
        \/ Publish(q)
        \/ AuditPublication(q)
        \/ InsertEngagement(q)
        \/ TakeChecklist(q)
        \/ CopyItems(q)
        \/ AuditChecklist(q)
        \/ Abandon(q)

Spec == Init /\ [][Next]_vars
-----------------------------------------------------------------------------
(* A version is one whole submission: whatever updates and publications     *)
(* overlap, its items are those that came with its name, source and         *)
(* attribution (UpdateMethodologyDraft replaces both, in four statements).  *)
VersionIsOneSubmission ==
    \A t \in Template :
        version[t].state # "none" => version[t].items = ItemsOf[version[t].header]

(* An engagement has the checklist it was opened with: a version that is    *)
(* published, all of it and as it still is in the library, or nothing when  *)
(* it asked for nothing (CreateEngagement: "An engagement is never created  *)
(* with a checklist the selected version could not produce").               *)
ChecklistIsTheVersion ==
    \A e \in Engagement :
        LET o == engagement[e] IN
        o.state = "open" =>
            IF o.asked = None
            THEN o.header = None /\ o.items = {}
            ELSE /\ version[o.asked].state = "published"
                 /\ o.header = version[o.asked].header
                 /\ o.items = version[o.asked].items

(* An update that was let in meets a draft to its end: the triggers that    *)
(* protect a published version never turn it into an internal error, for    *)
(* the publisher waits for it, or it for the publisher.                     *)
UpdatesMeetDrafts ==
    \A q \in Request :
        pc[q] \in EditSteps => Rewritable(req[q].template)

(* Once published, a version stays as it is, for every engagement that      *)
(* copied it or will (migration 00011: "a published version the whole       *)
(* organization shares and nobody may rewrite").                            *)
PublishedIsFinal ==
    [][\A t \in Template :
           version[t].state = "published" => version'[t] = version[t]]_vars

(* A published version has an item: "a draft without a single item is       *)
(* refused because an empty checklist is not a methodology"                 *)
(* (PublishMethodologyVersion).                                             *)
PublishedHasAnItem ==
    \A t \in Template : version[t].state = "published" => version[t].items # {}
=============================================================================
