----------------------------- MODULE Membership -----------------------------
(***************************************************************************)
(* Who administers an organization, and with which sessions:               *)
(* store/postgres/organization_admin.go, the sessions of auth.go, and the  *)
(* row locks under which their transactions meet those of every other      *)
(* writer of the organization.                                             *)
(*                                                                         *)
(* A step is a statement, not a transaction.  A statement reads what is    *)
(* committed (READ COMMITTED), and first takes the row locks it needs; a   *)
(* transaction keeps its locks until it ends and its writes show when it   *)
(* commits.  PostgreSQL takes the locks of one statement row by row.  The  *)
(* model takes them together: whoever could hold one of them while another *)
(* is taken waits for nothing, or for the organization row, which is       *)
(* locked already.                                                         *)
(***************************************************************************)
EXTENDS Naturals, FiniteSets

CONSTANTS
    User,       \* people; one row of organization_memberships each
    Admin,      \* the first administrator, made by the bootstrap
    Session,    \* identities of session rows
    Request,    \* requests served at the same time
    Org,        \* the organization's row
    None        \* "no value"

ASSUME AdminAssumption == Admin \in User
ASSUME DistinctAssumption ==
    /\ None \notin User \cup Session \cup {Org} \cup [role : {"none", "admin", "member"}, active : BOOLEAN]
    /\ Org \notin User \cup Session
    /\ User \cap Session = {}

VARIABLES
    member,     \* the committed memberships
    sess,       \* the member each live session is of; None once it is revoked,
                \* expired or not yet issued
    pc,         \* the statement each request comes to next
    req,        \* what each request is about
    locks       \* the row locks each request holds

vars == <<member, sess, pc, req, locks>>

Role == {"admin", "member"}
Change == Role \cup {"activate", "deactivate"}
Member == [role : Role \cup {"none"}, active : BOOLEAN]
NoMember == [role |-> "none", active |-> FALSE]

Resource == {Org} \cup User \cup Session

\* FOR UPDATE, a plain UPDATE, and the FOR KEY SHARE of a foreign key check.
Mode == {"update", "write", "share"}

NoRequest == [actor |-> None, session |-> None, target |-> None,
              change |-> None, new |-> None]

RequestData == [actor : User \cup {None}, session : Session \cup {None},
                target : User \cup {None}, change : Change \cup {None},
                new : Member \cup {None}]

UpdateSteps == {"lock organization", "lock member", "lock admins",
                "count admins", "update member", "revoke sessions",
                "audit member"}
OtherSteps == {"create member", "rename", "audit rename", "insert",
               "audit insert", "log out", "audit log out", "create session"}

TypeOK ==
    /\ member \in [User -> Member]
    /\ sess \in [Session -> User \cup {None}]
    /\ pc \in [Request -> {"idle"} \cup UpdateSteps \cup OtherSteps]
    /\ req \in [Request -> RequestData]
    /\ locks \in [Request -> SUBSET (Resource \X Mode)]

\* BootstrapFirstAdmin has run.
Init ==
    /\ member = [u \in User |-> IF u = Admin
                                THEN [role |-> "admin", active |-> TRUE]
                                ELSE NoMember]
    /\ sess = [s \in Session |-> None]
    /\ pc = [q \in Request |-> "idle"]
    /\ req = [q \in Request |-> NoRequest]
    /\ locks = [q \in Request |-> {}]
-----------------------------------------------------------------------------
(* Row locks *)

Conflict(m1, m2) ==
    \/ "update" \in {m1, m2}
    \/ m1 = "write" /\ m2 = "write"

\* The requests that keep q from taking the locks w.
Holders(q, w) ==
    {p \in Request \ {q} :
        \E l \in w, h \in locks[p] : l[1] = h[1] /\ Conflict(l[2], h[2])}

ActiveAdmins == {u \in User : member[u].role = "admin" /\ member[u].active}

SessionsOf(u) == {s \in Session : sess[s] = u}

\* The foreign keys of an audit event: its organization and its actor.
AuditLocks(q) == {<<Org, "share">>, <<req[q].actor, "share">>}

\* SELECT id FROM organizations ... FOR UPDATE
OrganizationLock(q) == {<<Org, "update">>}

\* Mutant: the member is read, not locked.
MemberRead(q) == {}

\* SELECT role, is_active FROM organization_memberships ... FOR UPDATE
MemberLock(q) == {<<req[q].target, "update">>}

\* The locks of the statement q comes to.
LocksOf(q) ==
    CASE pc[q] = "lock organization" -> OrganizationLock(q)
      [] pc[q] = "lock member" -> MemberLock(q)
      [] pc[q] = "lock admins" -> ActiveAdmins \X {"update"}
      [] pc[q] = "update member" -> {<<req[q].target, "write">>}
      [] pc[q] = "revoke sessions" -> SessionsOf(req[q].target) \X {"write"}
      [] pc[q] \in {"create member", "audit member", "audit rename",
                    "audit insert", "audit log out"} -> AuditLocks(q)
      [] pc[q] = "rename" -> {<<Org, "write">>}
      [] pc[q] \in {"insert", "create session"} -> {<<req[q].actor, "share">>}
      [] pc[q] = "log out" -> {<<req[q].session, "write">>}
      [] OTHER -> {}

Blockers(q) == Holders(q, LocksOf(q))

\* These requests wait for each other and for nobody else.
Deadlocked(D) == D # {} /\ \A q \in D : Blockers(q) \cap D # {}

Goto(q, label) == pc' = [pc EXCEPT ![q] = label]

\* Mutant: statements run on the pool, each in a transaction of its own.
StatementOnPool(q, from, to) ==
    /\ pc[q] = from
    /\ Blockers(q) = {}
    /\ UNCHANGED locks
    /\ Goto(q, to)

\* One statement: it gets its locks, and the request goes on.
Statement(q, from, to) ==
    /\ pc[q] = from
    /\ Blockers(q) = {}
    /\ locks' = [locks EXCEPT ![q] = @ \cup LocksOf(q)]
    /\ Goto(q, to)

\* Mutant: a connection goes back to the pool with its transaction open.
EndWithoutRollback(q) ==
    /\ Goto(q, "idle")
    /\ req' = [req EXCEPT ![q] = NoRequest]
    /\ UNCHANGED locks

\* The transaction ends, committed or rolled back, and the request with it.
End(q) ==
    /\ Goto(q, "idle")
    /\ req' = [req EXCEPT ![q] = NoRequest]
    /\ locks' = [locks EXCEPT ![q] = {}]
-----------------------------------------------------------------------------
(* Sessions *)

\* What SessionForToken accepts.
Usable(s) == sess[s] # None /\ member[sess[s]].active

\* A request with a usable session reaches its handler.  The role is the one
\* the member had then; it is not looked at again.
Resolve(q, s, label, about) ==
    /\ pc[q] = "idle"
    /\ Usable(s)
    /\ Goto(q, label)
    /\ req' = [req EXCEPT ![q] = [about EXCEPT !.actor = sess[s]]]
    /\ UNCHANGED <<member, sess, locks>>

ResolveAdmin(q, s, label, about) ==
    /\ Resolve(q, s, label, about)
    /\ member[sess[s]].role = "admin"

About(u, change) == [NoRequest EXCEPT !.target = u, !.change = change]

\* Authenticate, up to the membership it reads.
CheckLogin(q, u) ==
    /\ pc[q] = "idle"
    /\ member[u].active
    /\ Goto(q, "create session")
    /\ req' = [req EXCEPT ![q] = [NoRequest EXCEPT !.actor = u]]
    /\ UNCHANGED <<member, sess, locks>>

\* No request refers to s, so s can stand for a new session.
Unused(s) ==
    /\ sess[s] = None
    /\ \A q \in Request : req[q].session # s /\ <<s, "write">> \notin locks[q]

\* The rest of Authenticate, a statement of its own.  It fails when the finite
\* set of identities is used up.
CreateSession(q) ==
    /\ pc[q] = "create session"
    /\ Blockers(q) = {}
    /\ \/ \E s \in Session :
             Unused(s) /\ sess' = [sess EXCEPT ![s] = req[q].actor]
       \/ (\A s \in Session : ~Unused(s)) /\ UNCHANGED sess
    /\ End(q)
    /\ UNCHANGED member

\* Twelve hours later.
Expire(s) ==
    /\ sess[s] # None
    /\ sess' = [sess EXCEPT ![s] = None]
    /\ UNCHANGED <<member, pc, req, locks>>

\* RevokeSession
LogOut(q) ==
    /\ Statement(q, "log out", "audit log out")
    /\ UNCHANGED <<member, sess, req>>

AuditLogOut(q) ==
    /\ pc[q] = "audit log out"
    /\ Blockers(q) = {}
    /\ sess' = [sess EXCEPT ![req[q].session] = None]
    /\ End(q)
    /\ UNCHANGED member
-----------------------------------------------------------------------------
(* UpdateOrganizationMember *)

\* The membership m with one of its two attributes changed.
Changed(m, change) ==
    CASE change \in Role -> [m EXCEPT !.role = change]
      [] change = "activate" -> [m EXCEPT !.active = TRUE]
      [] change = "deactivate" -> [m EXCEPT !.active = FALSE]

\* Mutant: only a change of role is taken for the loss of an administrator.
LosesAdminByRole(old, new) ==
    /\ old.role = "admin" /\ old.active
    /\ new.role # "admin"

LosesAdmin(old, new) ==
    /\ old.role = "admin" /\ old.active
    /\ new.role # "admin" \/ ~new.active

LockOrganization(q) ==
    /\ Statement(q, "lock organization", "lock member")
    /\ UNCHANGED <<member, sess, req>>

LockMember(q) ==
    LET old == member[req[q].target]
        new == Changed(old, req[q].change)
    IN  /\ Statement(q, "lock member",
                     IF LosesAdmin(old, new) THEN "lock admins"
                                             ELSE "update member")
        /\ old # NoMember
        /\ req' = [req EXCEPT ![q].new = new]
        /\ UNCHANGED <<member, sess>>

\* ErrNotFound
NoSuchMember(q) ==
    /\ pc[q] = "lock member"
    /\ member[req[q].target] = NoMember
    /\ End(q)
    /\ UNCHANGED <<member, sess>>

LockAdmins(q) ==
    /\ Statement(q, "lock admins", "count admins")
    /\ UNCHANGED <<member, sess, req>>

\* ErrInvalidState: the last active administrator stays.
CountAdmins(q) ==
    /\ pc[q] = "count admins"
    /\ IF Cardinality(ActiveAdmins) < 2
       THEN End(q)
       ELSE Goto(q, "update member") /\ UNCHANGED <<req, locks>>
    /\ UNCHANGED <<member, sess>>

UpdateMember(q) ==
    /\ Statement(q, "update member",
                 IF req[q].new.active THEN "audit member"
                                      ELSE "revoke sessions")
    /\ UNCHANGED <<member, sess, req>>

RevokeSessions(q) ==
    /\ Statement(q, "revoke sessions", "audit member")
    /\ UNCHANGED <<member, sess, req>>

\* The audit event and the commit.
AuditMember(q) ==
    /\ pc[q] = "audit member"
    /\ Blockers(q) = {}
    /\ member' = [member EXCEPT ![req[q].target] = req[q].new]
    /\ sess' = [s \in Session |->
                  IF <<s, "write">> \in locks[q] THEN None ELSE sess[s]]
    /\ End(q)
-----------------------------------------------------------------------------
(* The other writers of the organization *)

\* CreateOrganizationMember: the locks of its two inserts are those of its audit
\* event, and an address already in use makes it fail.
CreateMember(q) ==
    /\ pc[q] = "create member"
    /\ Blockers(q) = {}
    /\ IF member[req[q].target] = NoMember
       THEN member' = [member EXCEPT ![req[q].target] =
                          [role |-> req[q].change, active |-> TRUE]]
       ELSE UNCHANGED member
    /\ End(q)
    /\ UNCHANGED sess

\* UpdateOrganization
Rename(q) ==
    /\ Statement(q, "rename", "audit rename")
    /\ UNCHANGED <<member, sess, req>>

AuditRename(q) ==
    /\ pc[q] = "audit rename"
    /\ Blockers(q) = {}
    /\ End(q)
    /\ UNCHANGED <<member, sess>>

\* Any transaction that first inserts a row naming its actor (evidence,
\* revisions, PDFs, retests), and then its audit event.
Insert(q) ==
    /\ Statement(q, "insert", "audit insert")
    /\ UNCHANGED <<member, sess, req>>

AuditInsert(q) ==
    /\ pc[q] = "audit insert"
    /\ Blockers(q) = {}
    /\ End(q)
    /\ UNCHANGED <<member, sess>>

\* A statement fails, the caller hangs up, or PostgreSQL chooses q as the victim
\* of a deadlock: the transaction is rolled back.
Abandon(q) ==
    /\ pc[q] # "idle"
    /\ End(q)
    /\ UNCHANGED <<member, sess>>
-----------------------------------------------------------------------------
Start(q) ==
    \/ \E u \in User : CheckLogin(q, u)
    \/ \E s \in Session :
          \/ \E u \in User, c \in Change :
                ResolveAdmin(q, s, "lock organization", About(u, c))
          \/ \E u \in User, r \in Role :
                ResolveAdmin(q, s, "create member", About(u, r))
          \/ ResolveAdmin(q, s, "rename", NoRequest)
          \/ Resolve(q, s, "insert", NoRequest)
          \/ Resolve(q, s, "log out", [NoRequest EXCEPT !.session = s])

Step(q) ==
    \/ CreateSession(q) \/ LogOut(q) \/ AuditLogOut(q)
    \/ LockOrganization(q) \/ LockMember(q) \/ NoSuchMember(q)
    \/ LockAdmins(q) \/ CountAdmins(q) \/ UpdateMember(q)
    \/ RevokeSessions(q) \/ AuditMember(q)
    \/ CreateMember(q) \/ Rename(q) \/ AuditRename(q)
    \/ Insert(q) \/ AuditInsert(q)

Next ==
    \/ \E q \in Request : Start(q) \/ Step(q) \/ Abandon(q)
    \/ \E s \in Session : Expire(s)

Spec == Init /\ [][Next]_vars

\* PostgreSQL serves lock requests in turn and breaks deadlocks.
InDeadlock(q) == \E D \in SUBSET Request : q \in D /\ Deadlocked(D)

Fairness ==
    \A q \in Request :
        /\ SF_vars(Step(q))
        /\ WF_vars(InDeadlock(q) /\ Abandon(q))

FairSpec == Spec /\ Fairness
-----------------------------------------------------------------------------
(* Properties *)

\* An organization keeps an active administrator, whatever administrators do to
\* each other at the same time, with roles read when their requests began
\* (the locks and the count of UpdateOrganizationMember).
AdminRemains == ActiveAdmins # {}

\* When a deactivation commits, the member has no session left: not one of those
\* it found, and none that a log-in inserted between its revocation and its commit
\* (UpdateOrganizationMember locks the membership that the foreign key of a session
\* refers to).  It says nothing of a log-in that read the active membership before
\* and inserts its session after the commit: Authenticate does not look again.
DeactivationEndsSessions ==
    [][\A u \in User :
          member[u].active /\ ~member'[u].active => u \notin {sess'[s] : s \in Session}]_vars

\* The one change of a membership that q was asked for.
Asked(q, old, new) ==
    IF req[q].change \in Role
    THEN new.active = old.active /\ new.role = req[q].change
    ELSE new.role = old.role /\ new.active = (req[q].change = "activate")

\* A change of role leaves a member as active as it is when the change commits,
\* and the other way round: what was read is not written back over a change
\* that came in between.
ChangesOnlyWhatItWasAsked ==
    [][\A q \in Request :
          AuditMember(q) => Asked(q, member[req[q].target],
                                     member'[req[q].target])]_vars

\* Every request ends, even when its transaction and another's wait for each
\* other (an evidence upload locks its member before the organization, a change
\* of that member the organization first).
EveryRequestEnds == \A q \in Request : pc[q] # "idle" ~> pc[q] = "idle"
=============================================================================
