-------------------------- MODULE Methodology_proofs --------------------------
(***************************************************************************)
(* Theorems about Methodology, for any number of members, templates,       *)
(* submissions, engagements and requests.  The invariant that is inductive *)
(* adds to the properties what each request knows at each statement: that  *)
(* an update holds the row of a draft, and how far its work has come; that *)
(* a publication holds the row of the very draft it publishes; that a      *)
(* checklist in the making is of a version that is published by now.       *)
(***************************************************************************)
EXTENDS Methodology, TLAPS

UpdateInv(q) ==
    LET t == req[q].template
        s == req[q].submission
        w == work[q]
    IN
    /\ pc[q] \in {"lock draft"} \cup EditSteps =>
           t \in Template /\ s \in Submission
    /\ pc[q] \in EditSteps => lock[t] = q /\ version[t].state = "draft"
    /\ pc[q] \in {"clear items", "insert items", "audit draft"} =>
           w \in Version /\ w.state = "draft" /\ w.header = s
    /\ pc[q] = "audit draft" => w.items = ItemsOf[s]

PublishInv(q) ==
    LET t == req[q].template
        w == work[q]
    IN
    /\ pc[q] \in PublishSteps => t \in Template /\ req[q].user \in Administrator
    /\ pc[q] = "publish" => w \in Version
    /\ pc[q] = "audit publication" =>
           /\ lock[t] = q
           /\ version[t].state = "draft"
           /\ w = PublishedBy(version[t], req[q].user)

EngageInv(q) ==
    LET t == req[q].template
        w == work[q]
    IN
    /\ pc[q] \in EngageSteps => req[q].engagement \in Engagement
    /\ pc[q] \in {"take checklist", "copy items"} => t \in Template
    /\ pc[q] \in EngageSteps \ {"insert engagement"} =>
           w \in Opened /\ w.state = "open" /\ w.asked = t
    /\ pc[q] = "copy items" =>
           version[t].state = "published" /\ w.header = version[t].header
    /\ pc[q] = "audit checklist" =>
           IF t = None
           THEN w.header = None /\ w.items = {}
           ELSE /\ t \in Template
                /\ version[t].state = "published"
                /\ w.header = version[t].header
                /\ w.items = version[t].items

RequestInv(q) == UpdateInv(q) /\ PublishInv(q) /\ EngageInv(q)

IInv ==
    /\ TypeOK
    /\ \A q \in Request : RequestInv(q)
    /\ VersionIsOneSubmission
    /\ ChecklistIsTheVersion

-----------------------------------------------------------------------------
(* Steps *)

\* What a step of q leaves alone: the other requests, the rows they have
\* locked, and published versions.
Frame(q) ==
    /\ \A p \in Request \ {q} :
           pc'[p] = pc[p] /\ req'[p] = req[p] /\ work'[p] = work[p]
    /\ \A t \in Template :
           lock[t] \in Request \ {q} => lock'[t] = lock[t]
    /\ \A t \in Template :
           lock[t] \in Request \ {q} /\ version[t].state = "draft"
               => version'[t] = version[t]
    /\ \A t \in Template :
           version[t].state = "published" => version'[t] = version[t]

LEMMA OthersKeepTheirs ==
    ASSUME IInv, NEW q \in Request, Frame(q)
    PROVE  \A p \in Request \ {q} : RequestInv(p)'
<1> SUFFICES ASSUME NEW p \in Request \ {q}
             PROVE  RequestInv(p)'
    OBVIOUS
<1>1. RequestInv(p)
    BY DEF IInv
<1>2. pc'[p] = pc[p] /\ req'[p] = req[p] /\ work'[p] = work[p]
    BY DEF Frame
<1>3. ASSUME NEW t \in Template, lock[t] = p, version[t].state = "draft"
      PROVE  lock'[t] = p /\ version'[t] = version[t]
    BY <1>3 DEF Frame
<1>4. ASSUME NEW t \in Template, version[t].state = "published"
      PROVE  version'[t] = version[t]
    BY <1>4 DEF Frame
<1>5. UpdateInv(p)'
    BY <1>1, <1>2, <1>3 DEF RequestInv, UpdateInv, EditSteps
<1>6. PublishInv(p)'
    BY <1>1, <1>2, <1>3 DEF RequestInv, PublishInv, PublishSteps
<1>7. EngageInv(p)'
    BY <1>1, <1>2, <1>4 DEF RequestInv, EngageInv, EngageSteps
<1> QED
    BY <1>5, <1>6, <1>7 DEF RequestInv

\* A request with nothing under way has nothing to answer for.
LEMMA IdleInv ==
    ASSUME NEW q \in Request, pc[q] = "idle"
    PROVE  RequestInv(q)
BY DEF RequestInv, UpdateInv, PublishInv, EngageInv, EditSteps, PublishSteps,
       EngageSteps
-----------------------------------------------------------------------------
(* Rows *)

LEMMA VersionRow ==
    ASSUME NEW v \in Version, NEW s \in Submission
    PROVE  /\ [v EXCEPT !.header = s] \in Version
           /\ [v EXCEPT !.items = {}] \in Version
           /\ [v EXCEPT !.items = ItemsOf[s]] \in Version
<1>1. ItemsOf[s] \in SUBSET Item
    BY ItemsAssumption
<1> QED
    BY <1>1 DEF Version

LEMMA PublishedRow ==
    ASSUME NEW v \in Version, NEW u \in Administrator
    PROVE  /\ PublishedBy(v, u) \in Version
           /\ PublishedBy(v, u).state = "published"
           /\ PublishedBy(v, u).header = v.header
           /\ PublishedBy(v, u).items = v.items
<1> DEFINE w == [v EXCEPT !.state = "published"]
<1>1. w \in Version /\ w.state = "published" /\ w.header = v.header
                  /\ w.items = v.items
    BY DEF Version
<1>2. PublishedBy(v, u) = [w EXCEPT !.publisher = u]
    BY DEF PublishedBy, Version
<1> HIDE DEF w
<1> QED
    BY <1>1, <1>2 DEF Version

LEMMA OpenedRow ==
    ASSUME NEW o \in Opened, NEW v \in Version
    PROVE  /\ [o EXCEPT !.header = v.header] \in Opened
           /\ [o EXCEPT !.items = v.items] \in Opened
BY DEF Opened, Version

\* A step that commits nothing keeps what is committed right.
LEMMA NothingCommitted ==
    IInv /\ UNCHANGED <<version, engagement>>
        => VersionIsOneSubmission' /\ ChecklistIsTheVersion'
BY DEF IInv, VersionIsOneSubmission, ChecklistIsTheVersion

\* The end of a transaction lets go of its own locks only.
LEMMA EndReleases ==
    ASSUME IInv, NEW q \in Request, End(q)
    PROVE  /\ \A p \in Request \ {q} :
                  pc'[p] = pc[p] /\ req'[p] = req[p] /\ work'[p] = work[p]
           /\ \A t \in Template : lock[t] \in Request \ {q} => lock'[t] = lock[t]
           /\ RequestInv(q)'
           /\ lock' \in [Template -> Request \cup {None}]
           /\ pc' \in [Request -> {"idle", "lock draft"} \cup EditSteps
                                  \cup PublishSteps \cup EngageSteps]
           /\ req' \in [Request -> RequestData]
           /\ work' \in [Request -> Version \cup Opened]
<1>1. NoRequest \in RequestData /\ NoVersion \in Version
    BY DEF NoRequest, RequestData, NoVersion, Version
<1>2. pc'[q] = "idle"
    BY DEF End, Goto, IInv, TypeOK
<1>3. RequestInv(q)'
    BY <1>2 DEF RequestInv, UpdateInv, PublishInv, EngageInv, EditSteps,
                PublishSteps, EngageSteps
<1>4. \A p \in Request \ {q} :
          pc'[p] = pc[p] /\ req'[p] = req[p] /\ work'[p] = work[p]
    BY DEF End, Goto, IInv, TypeOK
<1>5. \A t \in Template : lock[t] \in Request \ {q} => lock'[t] = lock[t]
    BY DEF End
<1>6. lock' \in [Template -> Request \cup {None}]
    BY DEF End, IInv, TypeOK
<1>7. /\ pc' \in [Request -> {"idle", "lock draft"} \cup EditSteps
                           \cup PublishSteps \cup EngageSteps]
      /\ req' \in [Request -> RequestData]
      /\ work' \in [Request -> Version \cup Opened]
    BY <1>1 DEF End, Goto, IInv, TypeOK
<1> QED
    BY <1>3, <1>4, <1>5, <1>6, <1>7

LEMMA RefuseKeeps ==
    ASSUME IInv, NEW q \in Request, Refuse(q)
    PROVE  IInv'
<1> End(q) /\ UNCHANGED <<version, engagement>>
    BY DEF Refuse
<1>1. Frame(q)
    BY EndReleases DEF Frame
<1>2. \A p \in Request : RequestInv(p)'
    BY <1>1, OthersKeepTheirs, EndReleases
<1>3. TypeOK'
    BY EndReleases DEF IInv, TypeOK
<1> QED
    BY <1>2, <1>3, NothingCommitted DEF IInv

\* A statement that goes on: what is left to show is what it knows itself.
LEMMA StatementKeeps ==
    ASSUME IInv, NEW q \in Request, NEW row \in Version \cup Opened,
           NEW next \in EditSteps \cup PublishSteps \cup EngageSteps,
           work' = [work EXCEPT ![q] = row],
           pc' = [pc EXCEPT ![q] = next],
           UNCHANGED <<version, engagement, req>>,
           \/ UNCHANGED lock
           \/ \E t \in Template : /\ lock[t] \in {None, q}
                                  /\ lock' = [lock EXCEPT ![t] = q],
           RequestInv(q)'
    PROVE  IInv'
<1> None \notin Request
    BY DistinctAssumption
<1>1. \A t \in Template : lock[t] \in Request \ {q} => lock'[t] = lock[t]
    BY DEF IInv, TypeOK
<1>2. Frame(q)
    BY <1>1 DEF Frame, IInv, TypeOK
<1>3. \A p \in Request : RequestInv(p)'
    BY <1>2, OthersKeepTheirs
<1>4. lock' \in [Template -> Request \cup {None}]
    BY DEF IInv, TypeOK
<1>5. pc' \in [Request -> {"idle", "lock draft"} \cup EditSteps
                          \cup PublishSteps \cup EngageSteps]
    BY DEF IInv, TypeOK
<1>6. work' \in [Request -> Version \cup Opened]
    BY DEF IInv, TypeOK
<1>7. TypeOK'
    BY <1>4, <1>5, <1>6 DEF IInv, TypeOK
<1> QED
    BY <1>3, <1>7, NothingCommitted DEF IInv
-----------------------------------------------------------------------------
(* UpdateMethodologyDraft *)

LEMMA LockDraftKeeps ==
    ASSUME IInv, NEW q \in Request, LockDraft(q)
    PROVE  IInv'
<1> DEFINE t == req[q].template
<1>1. t \in Template /\ req[q].submission \in Submission /\ lock[t] = None
    BY DEF IInv, RequestInv, UpdateInv, LockDraft, At
<1>2. CASE ~ Editable(q, t)
    <2>1. Refuse(q)
        BY <1>2 DEF LockDraft
    <2> QED
        BY <2>1, RefuseKeeps
<1>3. CASE Editable(q, t)
    <2>1. /\ lock' = [lock EXCEPT ![t] = q]
          /\ work' = [work EXCEPT ![q] = version[t]]
          /\ pc' = [pc EXCEPT ![q] = "update version"]
          /\ UNCHANGED <<version, engagement, req>>
        BY <1>3 DEF LockDraft, RowLock, Goto
    <2>2. version[t] \in Version
        BY <1>1 DEF IInv, TypeOK
    <2>3. pc'[q] = "update version" /\ lock'[t] = q
        BY <1>1, <2>1 DEF IInv, TypeOK
    <2>4. RequestInv(q)'
        BY <1>1, <1>3, <2>1, <2>3
        DEF RequestInv, UpdateInv, PublishInv, EngageInv,
            EditSteps, PublishSteps, EngageSteps, Editable
    <2>5. "update version" \in EditSteps \cup PublishSteps \cup EngageSteps
        BY DEF EditSteps
    <2> QED
        BY <1>1, <2>1, <2>2, <2>4, <2>5, StatementKeeps
<1> QED
    BY <1>2, <1>3

LEMMA UpdateVersionKeeps ==
    ASSUME IInv, NEW q \in Request, UpdateVersion(q)
    PROVE  IInv'
<1> DEFINE t == req[q].template
           row == [version[t] EXCEPT !.header = req[q].submission]
<1>1. /\ t \in Template /\ req[q].submission \in Submission
      /\ lock[t] = q /\ version[t].state = "draft"
    BY DEF IInv, RequestInv, UpdateInv, UpdateVersion, At, EditSteps
<1>2. /\ lock' = [lock EXCEPT ![t] = q]
      /\ work' = [work EXCEPT ![q] = row]
      /\ pc' = [pc EXCEPT ![q] = "clear items"]
      /\ UNCHANGED <<version, engagement, req>>
    BY <1>1 DEF UpdateVersion, Rewritable, Goto
<1>3. version[t] \in Version
    BY <1>1 DEF IInv, TypeOK
<1>4. row \in Version /\ row.state = "draft" /\ row.header = req[q].submission
    <2>1. row \in Version
        BY <1>1, <1>3, VersionRow
    <2> QED
        BY <1>1, <1>3, <2>1 DEF Version
<1>5. pc'[q] = "clear items" /\ work'[q] = row /\ lock'[t] = q
    BY <1>1, <1>2 DEF IInv, TypeOK
<1>6. RequestInv(q)'
    <2> HIDE DEF row
    <2> QED
        BY <1>1, <1>2, <1>4, <1>5
        DEF RequestInv, UpdateInv, PublishInv, EngageInv,
            EditSteps, PublishSteps, EngageSteps
<1>7. "clear items" \in EditSteps \cup PublishSteps \cup EngageSteps
    BY DEF EditSteps
<1> HIDE DEF row
<1> QED
    BY <1>1, <1>2, <1>4, <1>6, <1>7, StatementKeeps

LEMMA ClearItemsKeeps ==
    ASSUME IInv, NEW q \in Request, ClearItems(q)
    PROVE  IInv'
<1> DEFINE t == req[q].template
           row == [work[q] EXCEPT !.items = {}]
<1>1. /\ t \in Template /\ req[q].submission \in Submission
      /\ lock[t] = q /\ version[t].state = "draft"
      /\ work[q] \in Version /\ work[q].state = "draft"
      /\ work[q].header = req[q].submission
    BY DEF IInv, RequestInv, UpdateInv, ClearItems, At, EditSteps
<1>2. /\ work' = [work EXCEPT ![q] = row]
      /\ pc' = [pc EXCEPT ![q] = "insert items"]
      /\ UNCHANGED <<version, engagement, lock, req>>
    BY <1>1 DEF ClearItems, Rewritable, Write, Goto
<1>4. row \in Version /\ row.state = "draft" /\ row.header = req[q].submission
    <2>1. row \in Version
        BY <1>1, VersionRow
    <2> QED
        BY <1>1, <2>1 DEF Version
<1>5. pc'[q] = "insert items" /\ work'[q] = row
    BY <1>1, <1>2 DEF IInv, TypeOK
<1>6. RequestInv(q)'
    <2> HIDE DEF row
    <2> QED
        BY <1>1, <1>2, <1>4, <1>5
        DEF RequestInv, UpdateInv, PublishInv, EngageInv,
            EditSteps, PublishSteps, EngageSteps
<1>7. "insert items" \in EditSteps \cup PublishSteps \cup EngageSteps
    BY DEF EditSteps
<1> HIDE DEF row
<1> QED
    BY <1>1, <1>2, <1>4, <1>6, <1>7, StatementKeeps

LEMMA InsertItemsKeeps ==
    ASSUME IInv, NEW q \in Request, InsertItems(q)
    PROVE  IInv'
<1> DEFINE t == req[q].template
           row == [work[q] EXCEPT !.items = ItemsOf[req[q].submission]]
<1>1. /\ t \in Template /\ req[q].submission \in Submission
      /\ lock[t] = q /\ version[t].state = "draft"
      /\ work[q] \in Version /\ work[q].state = "draft"
      /\ work[q].header = req[q].submission
    BY DEF IInv, RequestInv, UpdateInv, InsertItems, At, EditSteps
<1>2. /\ work' = [work EXCEPT ![q] = row]
      /\ pc' = [pc EXCEPT ![q] = "audit draft"]
      /\ UNCHANGED <<version, engagement, lock, req>>
    BY <1>1 DEF InsertItems, Rewritable, Write, Goto
<1>4. /\ row \in Version /\ row.state = "draft"
      /\ row.header = req[q].submission
      /\ row.items = ItemsOf[req[q].submission]
    <2>1. row \in Version
        BY <1>1, VersionRow
    <2> QED
        BY <1>1, <2>1 DEF Version
<1>5. pc'[q] = "audit draft" /\ work'[q] = row
    BY <1>1, <1>2 DEF IInv, TypeOK
<1>6. RequestInv(q)'
    <2> HIDE DEF row
    <2> QED
        BY <1>1, <1>2, <1>4, <1>5
        DEF RequestInv, UpdateInv, PublishInv, EngageInv,
            EditSteps, PublishSteps, EngageSteps
<1>7. "audit draft" \in EditSteps \cup PublishSteps \cup EngageSteps
    BY DEF EditSteps
<1> HIDE DEF row
<1> QED
    BY <1>1, <1>2, <1>4, <1>6, <1>7, StatementKeeps

\* A commit of a draft's row or of a new one.
LEMMA CommittedVersion ==
    ASSUME IInv, NEW t \in Template, NEW row \in Version,
           version[t].state # "published",
           row.items = ItemsOf[row.header],
           version' = [version EXCEPT ![t] = row],
           UNCHANGED engagement
    PROVE  /\ version' \in [Template -> Version]
           /\ VersionIsOneSubmission'
           /\ ChecklistIsTheVersion'
           /\ \A s \in Template \ {t} : version'[s] = version[s]
           /\ \A s \in Template :
                  version[s].state = "published" => version'[s] = version[s]
<1>1. version' \in [Template -> Version]
    BY DEF IInv, TypeOK
<1>2. VersionIsOneSubmission'
    BY DEF IInv, TypeOK, VersionIsOneSubmission
<1>3. /\ \A s \in Template \ {t} : version'[s] = version[s]
      /\ \A s \in Template :
             version[s].state = "published" => version'[s] = version[s]
    BY DEF IInv, TypeOK
<1>4. ChecklistIsTheVersion'
    <2> SUFFICES ASSUME NEW e \in Engagement, engagement[e].state = "open",
                        engagement[e].asked # None
                 PROVE  version'[engagement[e].asked] = version[engagement[e].asked]
        BY DEF IInv, ChecklistIsTheVersion
    <2>1. engagement[e].asked \in Template
        BY DEF IInv, TypeOK, Opened
    <2> QED
        BY <1>3, <2>1 DEF IInv, ChecklistIsTheVersion
<1> QED
    BY <1>1, <1>2, <1>3, <1>4

LEMMA AuditDraftKeeps ==
    ASSUME IInv, NEW q \in Request, AuditDraft(q)
    PROVE  IInv'
<1> DEFINE t == req[q].template
<1>1. /\ t \in Template
      /\ lock[t] = q /\ version[t].state = "draft"
      /\ work[q] \in Version
      /\ work[q].items = ItemsOf[work[q].header]
    <2>1. pc[q] = "audit draft" /\ UpdateInv(q)
        BY DEF IInv, RequestInv, AuditDraft, At
    <2> QED
        BY <2>1 DEF UpdateInv, EditSteps
<1>2. /\ version' = [version EXCEPT ![t] = work[q]]
      /\ UNCHANGED engagement
      /\ End(q)
    BY DEF AuditDraft
<1>3. /\ version' \in [Template -> Version]
      /\ VersionIsOneSubmission'
      /\ ChecklistIsTheVersion'
      /\ \A s \in Template \ {t} : version'[s] = version[s]
      /\ \A s \in Template :
             version[s].state = "published" => version'[s] = version[s]
    BY <1>1, <1>2, CommittedVersion
<1>4. Frame(q)
    BY <1>1, <1>2, <1>3, EndReleases DEF Frame
<1>5. \A p \in Request : RequestInv(p)'
    BY <1>2, <1>4, EndReleases, OthersKeepTheirs
<1>6. TypeOK'
    BY <1>2, <1>3, EndReleases DEF IInv, TypeOK
<1> QED
    BY <1>3, <1>5, <1>6 DEF IInv
-----------------------------------------------------------------------------
(* PublishMethodologyVersion *)

LEMMA FindDraftKeeps ==
    ASSUME IInv, NEW q \in Request, FindDraft(q)
    PROVE  IInv'
<1> DEFINE t == req[q].template
<1>1. t \in Template /\ req[q].user \in Administrator
    BY DEF IInv, RequestInv, PublishInv, FindDraft, At, PublishSteps
<1>2. CASE ~ Publishable(version[t])
    <2>1. Refuse(q)
        BY <1>2 DEF FindDraft
    <2> QED
        BY <2>1, RefuseKeeps
<1>3. CASE Publishable(version[t])
    <2>1. /\ work' = [work EXCEPT ![q] = version[t]]
          /\ pc' = [pc EXCEPT ![q] = "publish"]
          /\ UNCHANGED <<version, engagement, lock, req>>
        BY <1>3 DEF FindDraft, Goto
    <2>2. version[t] \in Version
        BY <1>1 DEF IInv, TypeOK
    <2>3. pc'[q] = "publish" /\ work'[q] = version[t]
        BY <2>1 DEF IInv, TypeOK
    <2>4. RequestInv(q)'
        BY <1>1, <2>1, <2>2, <2>3
        DEF RequestInv, UpdateInv, PublishInv, EngageInv,
            EditSteps, PublishSteps, EngageSteps
    <2>5. "publish" \in EditSteps \cup PublishSteps \cup EngageSteps
        BY DEF PublishSteps
    <2> QED
        BY <1>1, <2>1, <2>2, <2>4, <2>5, StatementKeeps
<1> QED
    BY <1>2, <1>3

LEMMA PublishKeeps ==
    ASSUME IInv, NEW q \in Request, Publish(q)
    PROVE  IInv'
<1> DEFINE t == req[q].template
           row == PublishedBy(version[t], req[q].user)
<1>1. /\ t \in Template /\ req[q].user \in Administrator /\ lock[t] = None
      /\ version[t] \in Version
    BY DEF IInv, TypeOK, RequestInv, PublishInv, Publish, At, PublishSteps
<1>2. CASE ~ (Publishable(Rechecked(q)) /\ Rewritable(t))
    <2>1. Refuse(q)
        BY <1>2 DEF Publish
    <2> QED
        BY <2>1, RefuseKeeps
<1>3. CASE Publishable(Rechecked(q)) /\ Rewritable(t)
    <2>1. /\ lock' = [lock EXCEPT ![t] = q]
          /\ work' = [work EXCEPT ![q] = row]
          /\ pc' = [pc EXCEPT ![q] = "audit publication"]
          /\ UNCHANGED <<version, engagement, req>>
        BY <1>3 DEF Publish, Goto
    <2>2. row \in Version
        BY <1>1, PublishedRow
    <2>3. version[t].state = "draft"
        BY <1>1, <1>3 DEF Publishable, Rechecked, Version
    <2>4. pc'[q] = "audit publication" /\ work'[q] = row /\ lock'[t] = q
        BY <1>1, <2>1 DEF IInv, TypeOK
    <2>5. RequestInv(q)'
        BY <1>1, <2>1, <2>3, <2>4
        DEF RequestInv, UpdateInv, PublishInv, EngageInv,
            EditSteps, PublishSteps, EngageSteps
    <2>6. "audit publication" \in EditSteps \cup PublishSteps \cup EngageSteps
        BY DEF PublishSteps
    <2> HIDE DEF row
    <2> QED
        BY <1>1, <2>1, <2>2, <2>5, <2>6, StatementKeeps
<1> QED
    BY <1>2, <1>3

LEMMA AuditPublicationKeeps ==
    ASSUME IInv, NEW q \in Request, AuditPublication(q)
    PROVE  IInv'
<1> DEFINE t == req[q].template
<1>1. /\ t \in Template /\ req[q].user \in Administrator
      /\ lock[t] = q /\ version[t].state = "draft"
      /\ work[q] = PublishedBy(version[t], req[q].user)
    BY DEF IInv, RequestInv, PublishInv, AuditPublication, At, PublishSteps
<1>2. version[t] \in Version /\ version[t].items = ItemsOf[version[t].header]
    BY <1>1 DEF IInv, TypeOK, VersionIsOneSubmission
<1>3. work[q] \in Version /\ work[q].items = ItemsOf[work[q].header]
    BY <1>1, <1>2, PublishedRow
<1>4. /\ version' = [version EXCEPT ![t] = work[q]]
      /\ UNCHANGED engagement
      /\ End(q)
    BY DEF AuditPublication
<1>5. /\ version' \in [Template -> Version]
      /\ VersionIsOneSubmission'
      /\ ChecklistIsTheVersion'
      /\ \A s \in Template \ {t} : version'[s] = version[s]
      /\ \A s \in Template :
             version[s].state = "published" => version'[s] = version[s]
    BY <1>1, <1>3, <1>4, CommittedVersion
<1>6. Frame(q)
    BY <1>1, <1>4, <1>5, EndReleases DEF Frame
<1>7. \A p \in Request : RequestInv(p)'
    BY <1>4, <1>6, EndReleases, OthersKeepTheirs
<1>8. TypeOK'
    BY <1>4, <1>5, EndReleases DEF IInv, TypeOK
<1> QED
    BY <1>5, <1>7, <1>8 DEF IInv
-----------------------------------------------------------------------------
(* CreateEngagement *)

LEMMA InsertEngagementKeeps ==
    ASSUME IInv, NEW q \in Request, InsertEngagement(q)
    PROVE  IInv'
<1> DEFINE t == req[q].template
           row == [state |-> "open", asked |-> t, header |-> None, items |-> {}]
           next == IF t = None THEN "audit checklist" ELSE "take checklist"
<1>1. req[q].engagement \in Engagement /\ t \in Template \cup {None}
    BY DEF IInv, TypeOK, RequestData, RequestInv, EngageInv, InsertEngagement,
           At, EngageSteps
<1>2. /\ work' = [work EXCEPT ![q] = row]
      /\ pc' = [pc EXCEPT ![q] = next]
      /\ UNCHANGED <<version, engagement, lock, req>>
    BY DEF InsertEngagement, Write, Goto
<1>3. /\ row \in Opened /\ row.state = "open" /\ row.asked = t
      /\ row.header = None /\ row.items = {}
    BY <1>1 DEF Opened
<1>4. pc'[q] = next /\ work'[q] = row /\ req'[q] = req[q]
    BY <1>2 DEF IInv, TypeOK
<1>5. RequestInv(q)'
    <2> HIDE DEF row
    <2>1. CASE t = None
        <3>1. pc'[q] = "audit checklist"
            BY <1>4, <2>1
        <3> QED
            BY <1>1, <1>3, <1>4, <2>1, <3>1
            DEF RequestInv, UpdateInv, PublishInv, EngageInv,
                EditSteps, PublishSteps, EngageSteps
    <2>2. CASE t # None
        <3>1. pc'[q] = "take checklist"
            BY <1>4, <2>2
        <3> QED
            BY <1>1, <1>3, <1>4, <2>2, <3>1
            DEF RequestInv, UpdateInv, PublishInv, EngageInv,
                EditSteps, PublishSteps, EngageSteps
    <2> QED
        BY <2>1, <2>2
<1>6. next \in EditSteps \cup PublishSteps \cup EngageSteps
    BY DEF EngageSteps
<1> HIDE DEF row, next
<1> QED
    BY <1>2, <1>3, <1>5, <1>6, StatementKeeps

LEMMA TakeChecklistKeeps ==
    ASSUME IInv, NEW q \in Request, TakeChecklist(q)
    PROVE  IInv'
<1> DEFINE t == req[q].template
           row == [work[q] EXCEPT !.header = version[t].header]
<1>1. /\ req[q].engagement \in Engagement /\ t \in Template
      /\ work[q] \in Opened /\ work[q].state = "open" /\ work[q].asked = t
      /\ version[t] \in Version
    BY DEF IInv, TypeOK, RequestInv, EngageInv, TakeChecklist, At, EngageSteps
<1>2. CASE version[t].state # "published"
    <2>1. Refuse(q)
        BY <1>2 DEF TakeChecklist
    <2> QED
        BY <2>1, RefuseKeeps
<1>3. CASE version[t].state = "published"
    <2>1. /\ work' = [work EXCEPT ![q] = row]
          /\ pc' = [pc EXCEPT ![q] = "copy items"]
          /\ UNCHANGED <<version, engagement, lock, req>>
        BY <1>3 DEF TakeChecklist, Write, Goto
    <2>2. /\ row \in Opened /\ row.state = "open" /\ row.asked = t
          /\ row.header = version[t].header
        <3>1. row \in Opened
            BY <1>1, OpenedRow
        <3> QED
            BY <1>1, <3>1 DEF Opened
    <2>3. pc'[q] = "copy items" /\ work'[q] = row
        BY <2>1 DEF IInv, TypeOK
    <2> HIDE DEF row
    <2>4. RequestInv(q)'
        BY <1>1, <1>3, <2>1, <2>2, <2>3
        DEF RequestInv, UpdateInv, PublishInv, EngageInv,
            EditSteps, PublishSteps, EngageSteps
    <2>5. "copy items" \in EditSteps \cup PublishSteps \cup EngageSteps
        BY DEF EngageSteps
    <2> QED
        BY <2>1, <2>2, <2>4, <2>5, StatementKeeps
<1> QED
    BY <1>2, <1>3

LEMMA CopyItemsKeeps ==
    ASSUME IInv, NEW q \in Request, CopyItems(q)
    PROVE  IInv'
<1> DEFINE t == req[q].template
           row == [work[q] EXCEPT !.items = version[t].items]
<1>1. /\ req[q].engagement \in Engagement /\ t \in Template
      /\ work[q] \in Opened /\ work[q].state = "open" /\ work[q].asked = t
      /\ work[q].header = version[t].header
      /\ version[t] \in Version /\ version[t].state = "published"
    BY DEF IInv, TypeOK, RequestInv, EngageInv, CopyItems, At, EngageSteps
<1>2. /\ work' = [work EXCEPT ![q] = row]
      /\ pc' = [pc EXCEPT ![q] = "audit checklist"]
      /\ UNCHANGED <<version, engagement, lock, req>>
    BY DEF CopyItems, Write, Goto
<1>3. /\ row \in Opened /\ row.state = "open" /\ row.asked = t
      /\ row.header = version[t].header /\ row.items = version[t].items
    <2>1. row \in Opened
        BY <1>1, OpenedRow
    <2> QED
        BY <1>1, <2>1 DEF Opened
<1>4. pc'[q] = "audit checklist" /\ work'[q] = row
    BY <1>2 DEF IInv, TypeOK
<1> HIDE DEF row
<1>5. RequestInv(q)'
    <2>1. t # None
        BY <1>1, DistinctAssumption
    <2> QED
        BY <1>1, <1>2, <1>3, <1>4, <2>1
        DEF RequestInv, UpdateInv, PublishInv, EngageInv,
            EditSteps, PublishSteps, EngageSteps
<1>6. "audit checklist" \in EditSteps \cup PublishSteps \cup EngageSteps
    BY DEF EngageSteps
<1> QED
    BY <1>2, <1>3, <1>5, <1>6, StatementKeeps

LEMMA AuditChecklistKeeps ==
    ASSUME IInv, NEW q \in Request, AuditChecklist(q)
    PROVE  IInv'
<1> DEFINE t == req[q].template
           w == work[q]
<1>1. /\ req[q].engagement \in Engagement
      /\ w \in Opened /\ w.asked = t
      /\ IF t = None
         THEN w.header = None /\ w.items = {}
         ELSE /\ t \in Template
              /\ version[t].state = "published"
              /\ w.header = version[t].header
              /\ w.items = version[t].items
    BY DEF IInv, RequestInv, EngageInv, AuditChecklist, At, EngageSteps
<1>2. /\ engagement' = [engagement EXCEPT ![req[q].engagement] = w]
      /\ UNCHANGED version
      /\ End(q)
    BY DEF AuditChecklist
<1>3. engagement' \in [Engagement -> Opened]
    BY <1>1, <1>2 DEF IInv, TypeOK
<1>4. VersionIsOneSubmission'
    BY <1>2 DEF IInv, VersionIsOneSubmission
<1>5. ChecklistIsTheVersion'
    <2> SUFFICES ASSUME NEW e \in Engagement
                 PROVE  ChecklistIsTheVersion!(e)'
        BY DEF ChecklistIsTheVersion
    <2>1. CASE e = req[q].engagement
        <3>1. engagement'[e] = w
            BY <1>2, <2>1 DEF IInv, TypeOK
        <3> QED
            BY <1>1, <1>2, <3>1
    <2>2. CASE e # req[q].engagement
        <3>1. engagement'[e] = engagement[e]
            BY <1>2, <2>2 DEF IInv, TypeOK
        <3> QED
            BY <1>2, <3>1 DEF IInv, ChecklistIsTheVersion
    <2> QED
        BY <2>1, <2>2
<1>6. Frame(q)
    BY <1>2, EndReleases DEF Frame
<1>7. \A p \in Request : RequestInv(p)'
    BY <1>2, <1>6, EndReleases, OthersKeepTheirs
<1>8. TypeOK'
    BY <1>2, <1>3, EndReleases DEF IInv, TypeOK
<1> QED
    BY <1>4, <1>5, <1>7, <1>8 DEF IInv
-----------------------------------------------------------------------------
(* Arrivals *)

LEMMA DraftTemplateKeeps ==
    ASSUME IInv, NEW q \in Request, NEW u \in User, NEW t \in Template,
           NEW s \in Submission, DraftTemplate(q, u, t, s)
    PROVE  IInv'
<1> DEFINE row == [state |-> "draft", author |-> u, publisher |-> None,
                   header |-> s, items |-> ItemsOf[s]]
<1>1. row \in Version /\ row.items = ItemsOf[row.header]
    BY ItemsAssumption DEF Version
<1>2. /\ version[t].state = "none"
      /\ version' = [version EXCEPT ![t] = row]
      /\ UNCHANGED <<engagement, lock, pc, req, work>>
    BY DEF DraftTemplate
<1> HIDE DEF row
<1>3. /\ version' \in [Template -> Version]
      /\ VersionIsOneSubmission'
      /\ ChecklistIsTheVersion'
      /\ \A r \in Template \ {t} : version'[r] = version[r]
      /\ \A r \in Template :
             version[r].state = "published" => version'[r] = version[r]
    BY <1>1, <1>2, CommittedVersion
<1>4. \A r \in Template : version[r].state \in {"draft", "published"} =>
                             version'[r] = version[r]
    BY <1>2, <1>3
<1>5. \A p \in Request : RequestInv(p)'
    <2> SUFFICES ASSUME NEW p \in Request
                 PROVE  RequestInv(p)'
        OBVIOUS
    <2>1. RequestInv(p)
        BY DEF IInv
    <2> QED
        BY <1>2, <1>4, <2>1
        DEF RequestInv, UpdateInv, PublishInv, EngageInv,
            EditSteps, PublishSteps, EngageSteps
<1>6. TypeOK'
    BY <1>2, <1>3 DEF IInv, TypeOK
<1> QED
    BY <1>3, <1>5, <1>6 DEF IInv

LEMMA StartKeeps ==
    ASSUME IInv, NEW q \in Request,
           StartUpdate(q) \/ StartPublish(q) \/ StartEngagement(q)
    PROVE  IInv'
<1>1. PICK u \in User, t \in Template \cup {None}, s \in Submission \cup {None},
           e \in Engagement \cup {None},
           next \in {"lock draft", "find draft", "insert engagement"} :
          /\ Receive(q, [user |-> u, template |-> t, submission |-> s,
                         engagement |-> e], next)
          /\ next = "lock draft" => t \in Template /\ s \in Submission
          /\ next = "find draft" => t \in Template /\ u \in Administrator
          /\ next = "insert engagement" => e \in Engagement
    <2>1. CASE StartUpdate(q)
        BY <2>1 DEF StartUpdate
    <2>2. CASE StartPublish(q)
        BY <2>2 DEF StartPublish, MayPublish
    <2>3. CASE StartEngagement(q)
        BY <2>3, AdministratorAssumption DEF StartEngagement
    <2> QED
        BY <2>1, <2>2, <2>3
<1> DEFINE data == [user |-> u, template |-> t, submission |-> s, engagement |-> e]
<1>2. data \in RequestData
    BY DEF RequestData
<1>3. /\ req' = [req EXCEPT ![q] = data]
      /\ pc' = [pc EXCEPT ![q] = next]
      /\ UNCHANGED <<version, engagement, lock, work>>
    BY <1>1 DEF Receive, Goto
<1>4. pc'[q] = next /\ req'[q] = data
    BY <1>3 DEF IInv, TypeOK
<1>5. RequestInv(q)'
    <2>1. /\ data.user = u /\ data.template = t /\ data.submission = s
          /\ data.engagement = e
        OBVIOUS
    <2> HIDE DEF data
    <2>2. UpdateInv(q)'
        BY <1>1, <1>4, <2>1 DEF UpdateInv, EditSteps
    <2>3. PublishInv(q)'
        BY <1>1, <1>4, <2>1 DEF PublishInv, PublishSteps
    <2>4. EngageInv(q)'
        BY <1>1, <1>4, <2>1 DEF EngageInv, EngageSteps
    <2> QED
        BY <2>2, <2>3, <2>4 DEF RequestInv
<1>6. Frame(q)
    BY <1>3 DEF Frame, IInv, TypeOK
<1>7. \A p \in Request : RequestInv(p)'
    BY <1>5, <1>6, OthersKeepTheirs
<1>8. pc' \in [Request -> {"idle", "lock draft"} \cup EditSteps
                           \cup PublishSteps \cup EngageSteps]
    BY <1>3 DEF IInv, TypeOK, PublishSteps, EngageSteps
<1>9. req' \in [Request -> RequestData]
    BY <1>2, <1>3 DEF IInv, TypeOK
<1>10. TypeOK'
    BY <1>3, <1>8, <1>9 DEF IInv, TypeOK
<1> QED
    BY <1>3, <1>7, <1>10, NothingCommitted DEF IInv
-----------------------------------------------------------------------------
(* The invariant *)

LEMMA InitInvariant == Init => IInv
<1> SUFFICES ASSUME Init
             PROVE  IInv
    OBVIOUS
<1>1. NoVersion \in Version /\ NotOpened \in Opened /\ NoRequest \in RequestData
    BY DEF NoVersion, Version, NotOpened, Opened, NoRequest, RequestData
<1>2. TypeOK
    BY <1>1 DEF Init, TypeOK
<1>3. \A q \in Request : RequestInv(q)
    BY IdleInv DEF Init
<1>4. VersionIsOneSubmission /\ ChecklistIsTheVersion
    BY DEF Init, VersionIsOneSubmission, ChecklistIsTheVersion, NoVersion,
           NotOpened
<1> QED
    BY <1>2, <1>3, <1>4 DEF IInv

LEMMA StepInvariant == IInv /\ [Next]_vars => IInv'
<1> SUFFICES ASSUME IInv, [Next]_vars
             PROVE  IInv'
    OBVIOUS
<1>1. CASE UNCHANGED vars
    <2> USE <1>1 DEF vars
    <2>1. TypeOK'
        BY DEF IInv, TypeOK
    <2>2. ASSUME NEW q \in Request
          PROVE  RequestInv(q)'
        <3>1. RequestInv(q)
            BY DEF IInv
        <3> QED
            BY <3>1 DEF RequestInv, UpdateInv, PublishInv, EngageInv
    <2> QED
        BY <2>1, <2>2, NothingCommitted DEF IInv
<1>2. ASSUME NEW q \in Request, NEW u \in User, NEW t \in Template,
             NEW s \in Submission, DraftTemplate(q, u, t, s)
      PROVE  IInv'
    BY <1>2, DraftTemplateKeeps
<1>3. ASSUME NEW q \in Request,
             StartUpdate(q) \/ StartPublish(q) \/ StartEngagement(q)
      PROVE  IInv'
    BY <1>3, StartKeeps
<1>4. ASSUME NEW q \in Request,
             LockDraft(q) \/ UpdateVersion(q) \/ ClearItems(q) \/ InsertItems(q)
                 \/ AuditDraft(q)
      PROVE  IInv'
    BY <1>4, LockDraftKeeps, UpdateVersionKeeps, ClearItemsKeeps,
       InsertItemsKeeps, AuditDraftKeeps
<1>5. ASSUME NEW q \in Request,
             FindDraft(q) \/ Publish(q) \/ AuditPublication(q)
      PROVE  IInv'
    BY <1>5, FindDraftKeeps, PublishKeeps, AuditPublicationKeeps
<1>6. ASSUME NEW q \in Request,
             InsertEngagement(q) \/ TakeChecklist(q) \/ CopyItems(q)
                 \/ AuditChecklist(q)
      PROVE  IInv'
    BY <1>6, InsertEngagementKeeps, TakeChecklistKeeps, CopyItemsKeeps,
       AuditChecklistKeeps
<1>7. ASSUME NEW q \in Request, Abandon(q)
      PROVE  IInv'
    BY <1>7, RefuseKeeps DEF Abandon
<1> QED
    BY <1>1, <1>2, <1>3, <1>4, <1>5, <1>6, <1>7 DEF Next

(* What every reachable state satisfies, whatever the constants.            *)
THEOREM Invariant == Spec => []IInv
BY InitInvariant, StepInvariant, PTL DEF Spec

(* Methodology is type correct; in particular no version is published by    *)
(* anyone but an administrator (methodology.go:162).                        *)
THEOREM TypeCorrect == Spec => []TypeOK
<1>1. IInv => TypeOK
    BY DEF IInv
<1> QED
    BY <1>1, Invariant, PTL

(* Whatever updates, publications and failures overlap, a version is one    *)
(* whole submission (methodology.go:130, 134 and 137 in one transaction).   *)
THEOREM VersionIsOneSubmissionTheorem == Spec => []VersionIsOneSubmission
<1>1. IInv => VersionIsOneSubmission
    BY DEF IInv
<1> QED
    BY <1>1, Invariant, PTL

(* Every engagement has exactly the checklist of the published version it   *)
(* asked for, for good (methodology.go:260 and 270, auth.go:355).           *)
THEOREM ChecklistIsTheVersionTheorem == Spec => []ChecklistIsTheVersion
<1>1. IInv => ChecklistIsTheVersion
    BY DEF IInv
<1> QED
    BY <1>1, Invariant, PTL

(* No update that was let in meets the triggers of a published version      *)
(* (methodology.go:118 against 171).                                        *)
THEOREM UpdatesMeetDraftsTheorem == Spec => []UpdatesMeetDrafts
<1>1. IInv => UpdatesMeetDrafts
    BY DEF IInv, RequestInv, UpdateInv, UpdatesMeetDrafts, Rewritable
<1> QED
    BY <1>1, Invariant, PTL

(* No step rewrites a published version (migration 00011:123).              *)
THEOREM PublishedIsFinalTheorem == Spec => PublishedIsFinal
<1>1. IInv /\ [Next]_vars =>
          [\A t \in Template :
              version[t].state = "published" => version'[t] = version[t]]_vars
    <2> SUFFICES ASSUME IInv, Next, NEW t \in Template,
                        version[t].state = "published"
                 PROVE  version'[t] = version[t]
        OBVIOUS
    <2>1. CASE UNCHANGED version
        BY <2>1
    <2>2. ASSUME NEW q \in Request, AuditDraft(q) \/ AuditPublication(q)
          PROVE  version'[t] = version[t]
        <3>1. RequestInv(q)
            BY DEF IInv
        <3>2. version[req[q].template].state = "draft"
            BY <2>2, <3>1 DEF RequestInv, UpdateInv, PublishInv, EditSteps,
                              AuditDraft, AuditPublication, At
        <3> QED
            BY <2>2, <3>2 DEF AuditDraft, AuditPublication, IInv, TypeOK
    <2>3. ASSUME NEW q \in Request, NEW u \in User, NEW r \in Template,
                 NEW s \in Submission, DraftTemplate(q, u, r, s)
          PROVE  version'[t] = version[t]
        BY <2>3 DEF DraftTemplate, IInv, TypeOK
    <2> QED
        BY <2>1, <2>2, <2>3
        DEF Next, StartUpdate, StartPublish, StartEngagement, Receive, LockDraft,
            UpdateVersion, ClearItems, InsertItems, FindDraft, Publish,
            InsertEngagement, TakeChecklist, CopyItems, AuditChecklist, Abandon,
            Refuse, Write
<1> QED
    BY <1>1, Invariant, PTL DEF Spec, PublishedIsFinal
=============================================================================
