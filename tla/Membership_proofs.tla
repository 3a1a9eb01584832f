------------------------- MODULE Membership_proofs --------------------------
(***************************************************************************)
(* Theorems about Membership, for any number of people, sessions and       *)
(* requests.  The inductive invariant says that no two requests hold       *)
(* conflicting locks, and what a change of a member knows under its locks: *)
(* no membership changes while it holds the organization's row, so what it *)
(* read and what it counted are still true when it commits; and nobody     *)
(* makes a session for a member whose row it holds, so it has locked all   *)
(* the sessions it is about to end.                                        *)
(***************************************************************************)
EXTENDS Membership, FiniteSetTheorems, TLAPS

\* The statements after the one that read the member, and after the count.
Decided == {"lock admins", "count admins", "update member", "revoke sessions", "audit member"}
Counted == {"update member", "revoke sessions", "audit member"}

\* What a request is about, at the statements that use it.
PlaceInv(q) ==
    /\ pc[q] # "idle" => req[q].actor \in User
    /\ pc[q] \in UpdateSteps => req[q].target \in User /\ req[q].change \in Change
    /\ pc[q] = "create member" => req[q].target \in User /\ req[q].change \in Role
    /\ pc[q] \in {"log out", "audit log out"} => req[q].session \in Session

\* What a change of a member knows.
UpdateInv(q) ==
    LET t == req[q].target IN
    /\ pc[q] \in UpdateSteps \ {"lock organization"} => <<Org, "update">> \in locks[q]
    /\ pc[q] \in Decided => /\ <<t, "update">> \in locks[q]
                            /\ req[q].new = Changed(member[t], req[q].change)
    /\ pc[q] \in Counted /\ LosesAdmin(member[t], req[q].new) =>
           \E u \in ActiveAdmins : u # t
    /\ pc[q] = "audit member" /\ ~ req[q].new.active =>
           \A s \in SessionsOf(t) : <<s, "write">> \in locks[q]

RequestInv(q) == PlaceInv(q) /\ UpdateInv(q)

\* No two requests hold locks of one row that conflict.
LocksInv ==
    \A p, q \in Request : p # q =>
        \A l \in locks[p], h \in locks[q] : l[1] = h[1] => ~ Conflict(l[2], h[2])

IInv ==
    /\ TypeOK
    /\ LocksInv
    /\ AdminRemains
    /\ \A q \in Request : RequestInv(q)
-----------------------------------------------------------------------------
(* What a step leaves to a request that does not take it *)

Labels == {"idle"} \cup UpdateSteps \cup OtherSteps
Lock == Resource \X Mode

LEMMA Types ==
    TypeOK <=>
        /\ member \in [User -> Member]
        /\ sess \in [Session -> User \cup {None}]
        /\ pc \in [Request -> Labels]
        /\ req \in [Request -> RequestData]
        /\ locks \in [Request -> SUBSET Lock]
BY DEF TypeOK, Labels, Lock

\* No membership changes under the organization's lock, and no session is made
\* for a member whose row is locked.
Frame(p) ==
    /\ pc'[p] = pc[p] /\ req'[p] = req[p] /\ locks'[p] = locks[p]
    /\ <<Org, "update">> \in locks[p] => member' = member
    /\ \A u \in User : <<u, "update">> \in locks[p] =>
           \A s \in Session : sess'[s] = u => sess[s] = u

LEMMA FrameKeeps ==
    ASSUME IInv, NEW p \in Request, Frame(p)
    PROVE  RequestInv(p)'
<1>1. RequestInv(p)
    BY DEF IInv
<1>2. PlaceInv(p)'
    BY <1>1 DEF Frame, RequestInv, PlaceInv
<1>3. UpdateInv(p)'
    <2>1. CASE pc[p] \notin UpdateSteps \ {"lock organization"}
        BY <2>1 DEF Frame, UpdateInv, Decided, Counted, UpdateSteps
    <2>2. CASE pc[p] \in UpdateSteps \ {"lock organization"}
        <3>1. UpdateInv(p) /\ req[p].target \in User /\ <<Org, "update">> \in locks[p]
            BY <1>1, <2>2 DEF RequestInv, PlaceInv, UpdateInv
        <3>2. /\ pc'[p] = pc[p] /\ req'[p] = req[p] /\ locks'[p] = locks[p]
              /\ member' = member /\ ActiveAdmins' = ActiveAdmins
              /\ <<req[p].target, "update">> \in locks[p] =>
                     SessionsOf(req[p].target)' \subseteq SessionsOf(req[p].target)
            BY <3>1 DEF Frame, ActiveAdmins, SessionsOf
        <3>3. pc[p] = "audit member" => <<req[p].target, "update">> \in locks[p]
            BY <3>1 DEF UpdateInv, Decided
        <3> QED
            BY <3>1, <3>2, <3>3 DEF UpdateInv
    <2> QED
        BY <2>1, <2>2
<1> QED
    BY <1>2, <1>3 DEF RequestInv

\* A step of q alone, whose locks are free when it takes them.
StepOf(q, label) ==
    /\ pc' = [pc EXCEPT ![q] = label]
    /\ label \in Labels
    /\ req' \in [Request -> RequestData] /\ locks' \in [Request -> SUBSET Lock]
    /\ \A p \in Request \ {q} : req'[p] = req[p] /\ locks'[p] = locks[p]
    /\ \/ locks'[q] \subseteq locks[q]
       \/ Blockers(q) = {} /\ locks'[q] = locks[q] \cup LocksOf(q)

LEMMA StepMoves ==
    ASSUME IInv, NEW q \in Request, NEW label, StepOf(q, label)
    PROVE  /\ pc' \in [Request -> Labels] /\ pc'[q] = label
           /\ \A p \in Request \ {q} : pc'[p] = pc[p]
BY Types DEF IInv, StepOf

\* A lock that q takes conflicts with no lock that another request holds.
LEMMA FreeLocks ==
    ASSUME NEW q \in Request, Blockers(q) = {}, NEW p \in Request \ {q},
           NEW l \in LocksOf(q), NEW h \in locks[p], l[1] = h[1]
    PROVE  ~ Conflict(l[2], h[2]) /\ ~ Conflict(h[2], l[2])
BY DEF Blockers, Holders, Conflict

LEMMA LocksStep ==
    ASSUME IInv, NEW q \in Request, NEW label, StepOf(q, label)
    PROVE  LocksInv'
<1> SUFFICES ASSUME NEW p \in Request, NEW r \in Request, p # r,
                    NEW l \in locks'[p], NEW h \in locks'[r], l[1] = h[1]
             PROVE  ~ Conflict(l[2], h[2])
    BY DEF LocksInv
<1>1. \A g \in Request \ {q} : locks'[g] = locks[g]
    BY DEF StepOf
<1>2. CASE l \in locks[p] /\ h \in locks[r]
    BY <1>2 DEF IInv, LocksInv
<1>3. CASE l \notin locks[p]
    <2>1. p = q /\ Blockers(q) = {} /\ l \in LocksOf(q)
        BY <1>1, <1>3 DEF StepOf
    <2> QED
        BY <1>1, <2>1, FreeLocks
<1>4. CASE h \notin locks[r]
    <2>1. r = q /\ Blockers(q) = {} /\ h \in LocksOf(q)
        BY <1>1, <1>4 DEF StepOf
    <2> QED
        BY <1>1, <2>1, FreeLocks
<1> QED
    BY <1>2, <1>3, <1>4

\* What is left to show of a step.
LEMMA StepKeeps ==
    ASSUME IInv, NEW q \in Request, NEW label, StepOf(q, label),
           member' \in [User -> Member], sess' \in [Session -> User \cup {None}],
           AdminRemains', RequestInv(q)',
           \A p \in Request \ {q} :
               /\ <<Org, "update">> \in locks[p] => member' = member
               /\ \A u \in User : <<u, "update">> \in locks[p] =>
                      \A s \in Session : sess'[s] = u => sess[s] = u
    PROVE  IInv'
<1>1. TypeOK'
    BY StepMoves DEF StepOf, TypeOK, Labels, Lock
<1>2. \A p \in Request \ {q} : Frame(p)
    BY StepMoves DEF StepOf, Frame
<1>3. \A p \in Request : RequestInv(p)'
    BY <1>2, FrameKeeps
<1> QED
    BY <1>1, <1>3, LocksStep DEF IInv

\* One that changes no membership and makes no session.
LEMMA LocalStep ==
    ASSUME IInv, NEW q \in Request, NEW label, StepOf(q, label),
           member' = member, sess' \in [Session -> User \cup {None}],
           \A s \in Session : sess'[s] \in {sess[s], None},
           RequestInv(q)'
    PROVE  IInv'
<1>1. member' \in [User -> Member]
    BY Types DEF IInv
<1>2. AdminRemains'
    BY DEF IInv, AdminRemains, ActiveAdmins
<1>3. ASSUME NEW u \in User, NEW s \in Session, sess'[s] = u
      PROVE  sess[s] = u
    BY <1>3, DistinctAssumption
<1> QED
    BY <1>1, <1>2, <1>3, StepKeeps

LEMMA EndStep ==
    ASSUME IInv, NEW q \in Request, End(q)
    PROVE  StepOf(q, "idle") /\ RequestInv(q)'
<1>1. /\ pc' = [pc EXCEPT ![q] = "idle"]
      /\ req' = [req EXCEPT ![q] = NoRequest]
      /\ locks' = [locks EXCEPT ![q] = {}]
    BY DEF End, Goto
<1>2. NoRequest \in RequestData
    BY DEF NoRequest, RequestData
<1>3. StepOf(q, "idle")
    BY <1>1, <1>2, Types DEF IInv, StepOf, Labels
<1>4. pc'[q] = "idle"
    BY <1>3, StepMoves
<1>5. PlaceInv(q)'
    BY <1>4 DEF PlaceInv, UpdateSteps
<1>6. UpdateInv(q)'
    BY <1>4 DEF UpdateInv, UpdateSteps, Decided, Counted
<1> QED
    BY <1>3, <1>5, <1>6 DEF RequestInv

\* The locks of a statement are locks of rows.
LEMMA LocksTyped ==
    ASSUME IInv, NEW q \in Request, pc[q] # "idle"
    PROVE  LocksOf(q) \subseteq Lock
<1>1. PlaceInv(q) /\ pc[q] \in Labels
    BY Types DEF IInv, RequestInv
<1>2. req[q].actor \in User
    BY <1>1 DEF PlaceInv
<1>3. pc[q] \in UpdateSteps => req[q].target \in User
    BY <1>1 DEF PlaceInv
<1>4. pc[q] = "log out" => req[q].session \in Session
    BY <1>1 DEF PlaceInv
<1>5. /\ Org \in Resource /\ User \subseteq Resource /\ Session \subseteq Resource
      /\ "update" \in Mode /\ "write" \in Mode /\ "share" \in Mode
    BY DEF Resource, Mode
<1>6. ActiveAdmins \subseteq Resource /\ \A u : SessionsOf(u) \subseteq Resource
    BY <1>5 DEF ActiveAdmins, SessionsOf
<1>7. CASE pc[q] \in {"lock admins", "revoke sessions"}
    <2>1. LocksOf(q) \in {ActiveAdmins \X {"update"}, SessionsOf(req[q].target) \X {"write"}}
        BY <1>7 DEF LocksOf
    <2>2. \A R, M : R \subseteq Resource /\ M \subseteq Mode => R \X M \subseteq Lock
        BY DEF Lock
    <2> QED
        BY <1>5, <1>6, <2>1, <2>2
<1>8. CASE pc[q] \in {"lock organization", "lock member", "update member"}
    <2>1. PICK l : LocksOf(q) = {l} /\ l \in {<<Org, "update">>, <<req[q].target, "update">>,
                                             <<req[q].target, "write">>}
        BY <1>8 DEF LocksOf, OrganizationLock, MemberLock
    <2>2. req[q].target \in Resource
        BY <1>3, <1>5, <1>8 DEF UpdateSteps
    <2>3. l \in Lock
        BY <1>5, <2>1, <2>2 DEF Lock
    <2> QED
        BY <2>1, <2>3
<1>9. CASE pc[q] \in {"create member", "audit member", "audit rename",
                      "audit insert", "audit log out"}
    <2>1. LocksOf(q) = AuditLocks(q)
        BY <1>9 DEF LocksOf
    <2>2. <<Org, "share">> \in Lock /\ <<req[q].actor, "share">> \in Lock
        BY <1>2, <1>5 DEF Lock
    <2> QED
        BY <2>1, <2>2 DEF AuditLocks
<1>10. CASE pc[q] \in {"rename", "insert", "create session"}
    <2>1. PICK l : LocksOf(q) = {l} /\ l \in {<<Org, "write">>, <<req[q].actor, "share">>}
        BY <1>10 DEF LocksOf
    <2>2. req[q].actor \in Resource
        BY <1>2, <1>5
    <2>3. l \in Lock
        BY <1>5, <2>1, <2>2 DEF Lock
    <2> QED
        BY <2>1, <2>3
<1>11. CASE pc[q] = "log out"
    <2>1. LocksOf(q) = {<<req[q].session, "write">>}
        BY <1>11 DEF LocksOf
    <2>2. <<req[q].session, "write">> \in Lock
        BY <1>4, <1>5, <1>11 DEF Lock
    <2> QED
        BY <2>1, <2>2
<1>12. CASE pc[q] = "count admins"
    BY <1>12 DEF LocksOf
<1> QED
    BY <1>1, <1>7, <1>8, <1>9, <1>10, <1>11, <1>12 DEF UpdateSteps, OtherSteps, Labels

LEMMA StatementStep ==
    ASSUME IInv, NEW q \in Request, NEW from, NEW to \in Labels, Statement(q, from, to),
           from # "idle", req' \in [Request -> RequestData],
           \A p \in Request \ {q} : req'[p] = req[p]
    PROVE  /\ StepOf(q, to) /\ pc'[q] = to
           /\ locks'[q] = locks[q] \cup LocksOf(q)
<1>1. /\ pc[q] # "idle" /\ pc' = [pc EXCEPT ![q] = to] /\ Blockers(q) = {}
      /\ locks' = [locks EXCEPT ![q] = locks[q] \cup LocksOf(q)]
    BY DEF Statement, Goto
<1>2. /\ locks' \in [Request -> SUBSET Lock]
      /\ locks'[q] = locks[q] \cup LocksOf(q)
      /\ \A p \in Request \ {q} : locks'[p] = locks[p]
    BY <1>1, LocksTyped, Types DEF IInv
<1>3. StepOf(q, to)
    BY <1>1, <1>2 DEF StepOf
<1> QED
    BY <1>2, <1>3, StepMoves
-----------------------------------------------------------------------------
(* Requests and sessions *)

\* A request comes to a handler, or to the login, with no lock and no knowledge.
LEMMA BeginKeeps ==
    ASSUME IInv, NEW q \in Request, NEW r \in RequestData,
           NEW label \in {"create session", "lock organization", "create member",
                          "rename", "insert", "log out"},
           Goto(q, label), req' = [req EXCEPT ![q] = r],
           UNCHANGED <<member, sess, locks>>,
           r.actor \in User,
           label = "lock organization" => r.target \in User /\ r.change \in Change,
           label = "create member" => r.target \in User /\ r.change \in Role,
           label = "log out" => r.session \in Session
    PROVE  IInv'
<1>1. StepOf(q, label)
    BY Types DEF IInv, StepOf, Goto, Labels, UpdateSteps, OtherSteps
<1>2. pc'[q] = label /\ req'[q] = r
    BY <1>1, StepMoves, Types DEF IInv
<1>3. PlaceInv(q)'
    BY <1>2 DEF PlaceInv, UpdateSteps
<1>4. UpdateInv(q)'
    BY <1>2 DEF UpdateInv, UpdateSteps, Decided, Counted
<1>5. sess' \in [Session -> User \cup {None}]
    BY Types DEF IInv
<1> QED
    BY <1>1, <1>3, <1>4, <1>5, LocalStep DEF RequestInv

LEMMA ResolveKeeps ==
    ASSUME IInv, NEW q \in Request, NEW s \in Session, NEW about \in RequestData,
           NEW label \in {"lock organization", "create member", "rename", "insert", "log out"},
           Resolve(q, s, label, about),
           label = "lock organization" => about.target \in User /\ about.change \in Change,
           label = "create member" => about.target \in User /\ about.change \in Role,
           label = "log out" => about.session \in Session
    PROVE  IInv'
<1>1. PICK r : r = [about EXCEPT !.actor = sess[s]]
    OBVIOUS
<1>2. sess[s] \in User
    BY Types DEF Resolve, Usable, IInv
<1>3. /\ r \in RequestData /\ r.actor = sess[s] /\ r.target = about.target
      /\ r.change = about.change /\ r.session = about.session
    BY <1>1, <1>2 DEF RequestData
<1>4. /\ Goto(q, label) /\ req' = [req EXCEPT ![q] = r]
      /\ UNCHANGED <<member, sess, locks>>
    BY <1>1 DEF Resolve
<1> QED
    BY <1>2, <1>3, <1>4, BeginKeeps

LEMMA StartKeeps ==
    ASSUME IInv, NEW q \in Request, Start(q)
    PROVE  IInv'
<1>1. NoRequest \in RequestData
    BY DEF NoRequest, RequestData
<1>2. ASSUME NEW u \in User, CheckLogin(q, u)
      PROVE  IInv'
    <2>1. PICK r : r = [NoRequest EXCEPT !.actor = u]
        OBVIOUS
    <2>2. r \in RequestData /\ r.actor = u
        BY <2>1 DEF NoRequest, RequestData
    <2>3. /\ Goto(q, "create session") /\ req' = [req EXCEPT ![q] = r]
          /\ UNCHANGED <<member, sess, locks>>
        BY <1>2, <2>1 DEF CheckLogin
    <2> QED
        BY <2>2, <2>3, BeginKeeps
<1>3. ASSUME NEW u \in User, NEW c \in Change
      PROVE  /\ About(u, c) \in RequestData
             /\ About(u, c).target = u /\ About(u, c).change = c
    BY DEF About, NoRequest, RequestData
<1>4. ASSUME NEW s \in Session, NEW u \in User, NEW c \in Change,
             ResolveAdmin(q, s, "lock organization", About(u, c))
      PROVE  IInv'
    BY <1>3, <1>4, ResolveKeeps DEF ResolveAdmin
<1>5. ASSUME NEW s \in Session, NEW u \in User, NEW c \in Role,
             ResolveAdmin(q, s, "create member", About(u, c))
      PROVE  IInv'
    <2>1. c \in Change
        BY DEF Change
    <2> QED
        BY <1>3, <1>5, <2>1, ResolveKeeps DEF ResolveAdmin
<1>6. ASSUME NEW s \in Session,
             ResolveAdmin(q, s, "rename", NoRequest) \/ Resolve(q, s, "insert", NoRequest)
      PROVE  IInv'
    BY <1>1, <1>6, ResolveKeeps DEF ResolveAdmin
<1>7. ASSUME NEW s \in Session, Resolve(q, s, "log out", [NoRequest EXCEPT !.session = s])
      PROVE  IInv'
    <2>1. PICK r : r = [NoRequest EXCEPT !.session = s]
        OBVIOUS
    <2>2. r \in RequestData /\ r.session = s
        BY <2>1 DEF NoRequest, RequestData
    <2> QED
        BY <1>7, <2>1, <2>2, ResolveKeeps
<1> QED
    BY <1>2, <1>4, <1>5, <1>6, <1>7 DEF Start

\* What ends without a change of a membership.
LEMMA EndKeeps ==
    ASSUME IInv, NEW q \in Request, End(q), UNCHANGED member,
           sess' \in [Session -> User \cup {None}],
           \A s \in Session : sess'[s] \in {sess[s], None}
    PROVE  IInv'
BY EndStep, LocalStep

LEMMA RollBackKeeps ==
    ASSUME IInv, NEW q \in Request, End(q), UNCHANGED <<member, sess>>
    PROVE  IInv'
BY EndKeeps, Types DEF IInv

\* A member whose row is locked gets no session: the session names its member.
LEMMA CreateSessionKeeps ==
    ASSUME IInv, NEW q \in Request, CreateSession(q)
    PROVE  IInv'
<1>1. CASE UNCHANGED sess
    BY <1>1, RollBackKeeps DEF CreateSession
<1>2. CASE ~ UNCHANGED sess
    <2>1. PICK s \in Session : sess' = [sess EXCEPT ![s] = req[q].actor]
        BY <1>2 DEF CreateSession
    <2>2. /\ pc[q] = "create session" /\ Blockers(q) = {} /\ End(q) /\ UNCHANGED member
        BY DEF CreateSession
    <2>3. req[q].actor \in User /\ <<req[q].actor, "share">> \in LocksOf(q)
        BY <2>2 DEF IInv, RequestInv, PlaceInv, LocksOf
    <2>4. sess' \in [Session -> User \cup {None}] /\ member' \in [User -> Member]
        BY <2>1, <2>2, <2>3, Types DEF IInv
    <2>5. ASSUME NEW p \in Request \ {q}, NEW u \in User, <<u, "update">> \in locks[p]
          PROVE  u # req[q].actor
        <3>1. ~ Conflict("share", "update") \/ u # req[q].actor
            BY <2>2, <2>3, <2>5, FreeLocks
        <3> QED
            BY <3>1 DEF Conflict
    <2>6. \A p \in Request \ {q} : \A u \in User : <<u, "update">> \in locks[p] =>
              \A r \in Session : sess'[r] = u => sess[r] = u
        BY <2>1, <2>5, Types DEF IInv
    <2>7. AdminRemains'
        BY <2>2 DEF IInv, AdminRemains, ActiveAdmins
    <2> QED
        BY <2>2, <2>4, <2>6, <2>7, EndStep, StepKeeps
<1> QED
    BY <1>1, <1>2

LEMMA AuditLogOutKeeps ==
    ASSUME IInv, NEW q \in Request, AuditLogOut(q)
    PROVE  IInv'
<1>1. /\ End(q) /\ UNCHANGED member
      /\ sess' = [sess EXCEPT ![req[q].session] = None]
    BY DEF AuditLogOut
<1>2. /\ sess' \in [Session -> User \cup {None}]
      /\ \A s \in Session : sess'[s] \in {sess[s], None}
    BY <1>1, Types DEF IInv
<1> QED
    BY <1>1, <1>2, EndKeeps

LEMMA ExpireKeeps ==
    ASSUME IInv, NEW s \in Session, Expire(s)
    PROVE  IInv'
<1>1. sess' = [sess EXCEPT ![s] = None] /\ UNCHANGED <<member, pc, req, locks>>
    BY DEF Expire
<1>2. /\ sess' \in [Session -> User \cup {None}]
      /\ \A r \in Session : sess'[r] \in {sess[r], None}
    BY <1>1, Types DEF IInv
<1>3. \A p \in Request : Frame(p)
    BY <1>1, <1>2, DistinctAssumption DEF Frame
<1>4. TypeOK'
    BY <1>1, <1>2, Types DEF IInv, TypeOK, Labels, Lock
<1>5. LocksInv' /\ AdminRemains'
    BY <1>1 DEF IInv, LocksInv, AdminRemains, ActiveAdmins
<1> QED
    BY <1>3, <1>4, <1>5, FrameKeeps DEF IInv
-----------------------------------------------------------------------------
(* UpdateOrganizationMember *)

LEMMA ChangedFacts ==
    ASSUME NEW m \in Member, NEW change \in Change
    PROVE  /\ change \in Role => Changed(m, change).role = change
                                 /\ Changed(m, change).active = m.active
           /\ change \notin Role => Changed(m, change).role = m.role
                                    /\ Changed(m, change).active = (change = "activate")
           /\ Changed(m, change).role \in Role \cup {"none"}
           /\ Changed(m, change) \in Member
BY DEF Changed, Change, Role, Member

\* A statement of the update, which knows what it knew and what its locks tell.
LEMMA UpdateStep ==
    ASSUME IInv, NEW q \in Request, NEW from \in UpdateSteps, NEW to \in UpdateSteps,
           Statement(q, from, to), UNCHANGED <<member, sess, req>>,
           UpdateInv(q)'
    PROVE  IInv'
<1>1. /\ pc[q] = from /\ req' \in [Request -> RequestData]
      /\ \A p \in Request \ {q} : req'[p] = req[p]
    BY Types DEF Statement, IInv
<1>2. to \in Labels /\ from # "idle"
    BY DEF Labels, UpdateSteps
<1>3. StepOf(q, to) /\ pc'[q] = to
    BY <1>1, <1>2, StatementStep
<1>4. PlaceInv(q)'
    BY <1>1, <1>2, <1>3 DEF IInv, RequestInv, PlaceInv, UpdateSteps
<1>5. sess' \in [Session -> User \cup {None}]
    BY Types DEF IInv
<1> QED
    BY <1>3, <1>4, <1>5, LocalStep DEF RequestInv

\* What a statement of the update leaves as it was.
LEMMA UpdateFacts ==
    ASSUME IInv, NEW q \in Request, NEW from \in UpdateSteps, NEW to \in UpdateSteps,
           Statement(q, from, to), UNCHANGED <<member, sess, req>>
    PROVE  /\ pc[q] = from /\ pc'[q] = to /\ UpdateInv(q)
           /\ locks'[q] = locks[q] \cup LocksOf(q)
           /\ ActiveAdmins' = ActiveAdmins
           /\ \A u : SessionsOf(u)' = SessionsOf(u)
<1>1. /\ pc[q] = from /\ req' \in [Request -> RequestData]
      /\ \A p \in Request \ {q} : req'[p] = req[p]
    BY Types DEF Statement, IInv
<1>2. to \in Labels /\ from # "idle"
    BY DEF Labels, UpdateSteps
<1>3. pc'[q] = to /\ locks'[q] = locks[q] \cup LocksOf(q)
    BY <1>1, <1>2, StatementStep
<1> QED
    BY <1>1, <1>3 DEF IInv, RequestInv, ActiveAdmins, SessionsOf

LEMMA LockOrganizationKeeps ==
    ASSUME IInv, NEW q \in Request, LockOrganization(q)
    PROVE  IInv'
<1>1. /\ Statement(q, "lock organization", "lock member")
      /\ UNCHANGED <<member, sess, req>>
      /\ "lock organization" \in UpdateSteps /\ "lock member" \in UpdateSteps
    BY DEF LockOrganization, UpdateSteps
<1>2. /\ pc[q] = "lock organization" /\ pc'[q] = "lock member"
      /\ locks'[q] = locks[q] \cup LocksOf(q)
    BY <1>1, UpdateFacts
<1>3. <<Org, "update">> \in locks'[q]
    BY <1>2 DEF LocksOf, OrganizationLock
<1>4. UpdateInv(q)'
    BY <1>2, <1>3 DEF UpdateInv, Decided, Counted
<1> QED
    BY <1>1, <1>4, UpdateStep

LEMMA LockMemberKeeps ==
    ASSUME IInv, NEW q \in Request, LockMember(q)
    PROVE  IInv'
<1>1. PICK new : new = Changed(member[req[q].target], req[q].change)
    OBVIOUS
<1>2. PICK to \in {"lock admins", "update member"} :
          /\ Statement(q, "lock member", to)
          /\ req' = [req EXCEPT ![q] = [req[q] EXCEPT !.new = new]]
          /\ UNCHANGED <<member, sess>>
          /\ to = "update member" => ~ LosesAdmin(member[req[q].target], new)
    BY <1>1 DEF LockMember
<1>3. pc[q] = "lock member"
    BY <1>2 DEF Statement
<1>4. /\ req[q].target \in User /\ req[q].change \in Change
      /\ <<Org, "update">> \in locks[q]
    BY <1>3 DEF IInv, RequestInv, PlaceInv, UpdateInv, UpdateSteps
<1>5. new \in Member
    <2>1. member[req[q].target] \in Member
        BY <1>4, Types DEF IInv
    <2> QED
        BY <1>1, <1>4, <2>1, ChangedFacts
<1>6. PICK r : r = [req[q] EXCEPT !.new = new]
    OBVIOUS
<1>7. /\ r \in RequestData /\ r.new = new /\ r.actor = req[q].actor
      /\ r.target = req[q].target /\ r.change = req[q].change /\ r.session = req[q].session
    BY <1>5, <1>6, Types DEF IInv, RequestData
<1>8. /\ req' \in [Request -> RequestData] /\ req'[q] = r
      /\ \A p \in Request \ {q} : req'[p] = req[p]
    BY <1>2, <1>6, <1>7, Types DEF IInv
<1>9. /\ StepOf(q, to) /\ pc'[q] = to /\ locks'[q] = locks[q] \cup LocksOf(q)
    BY <1>2, <1>8, StatementStep DEF Labels, UpdateSteps
<1>10. <<Org, "update">> \in locks'[q] /\ <<req[q].target, "update">> \in locks'[q]
    BY <1>3, <1>4, <1>9 DEF LocksOf, MemberLock
<1>11. PlaceInv(q)'
    BY <1>3, <1>7, <1>8, <1>9 DEF IInv, RequestInv, PlaceInv, UpdateSteps
<1>12. UpdateInv(q)'
    BY <1>1, <1>2, <1>7, <1>8, <1>9, <1>10 DEF UpdateInv, Decided, Counted
<1>13. sess' \in [Session -> User \cup {None}]
    BY <1>2, Types DEF IInv
<1> QED
    BY <1>2, <1>9, <1>11, <1>12, <1>13, LocalStep DEF RequestInv

LEMMA LockAdminsKeeps ==
    ASSUME IInv, NEW q \in Request, LockAdmins(q)
    PROVE  IInv'
<1>1. /\ Statement(q, "lock admins", "count admins")
      /\ UNCHANGED <<member, sess, req>>
      /\ "lock admins" \in UpdateSteps /\ "count admins" \in UpdateSteps
    BY DEF LockAdmins, UpdateSteps
<1>2. UpdateInv(q)'
    BY <1>1, UpdateFacts DEF UpdateInv, Decided, Counted, UpdateSteps
<1> QED
    BY <1>1, <1>2, UpdateStep

\* Of two administrators one is not the one who is changed.
LEMMA AnotherAdmin ==
    ASSUME ~ (Cardinality(ActiveAdmins) < 2), NEW t
    PROVE  \E u \in ActiveAdmins : u # t
<1> SUFFICES ASSUME \A u \in ActiveAdmins : u = t PROVE FALSE
    OBVIOUS
<1>1. ActiveAdmins = {} \/ ActiveAdmins = {t}
    OBVIOUS
<1>2. Cardinality(ActiveAdmins) = 0 \/ Cardinality(ActiveAdmins) = 1
    BY <1>1, FS_EmptySet, FS_Singleton
<1> QED
    BY <1>2

LEMMA CountAdminsKeeps ==
    ASSUME IInv, NEW q \in Request, CountAdmins(q)
    PROVE  IInv'
<1>1. CASE End(q)
    BY <1>1, RollBackKeeps DEF CountAdmins
<1>2. CASE ~ End(q)
    <2>1. /\ pc[q] = "count admins" /\ ~ (Cardinality(ActiveAdmins) < 2)
          /\ Goto(q, "update member") /\ UNCHANGED <<member, sess, req, locks>>
        BY <1>2 DEF CountAdmins
    <2>2. StepOf(q, "update member")
        BY <2>1, Types DEF IInv, StepOf, Goto, Labels, UpdateSteps
    <2>3. pc'[q] = "update member"
        BY <2>2, StepMoves
    <2>4. ActiveAdmins' = ActiveAdmins /\ \E u \in ActiveAdmins : u # req[q].target
        <3>1. ActiveAdmins' = ActiveAdmins
            BY <2>1 DEF ActiveAdmins
        <3>2. ~ (Cardinality(ActiveAdmins) < 2)
            BY <2>1
        <3>3. PICK t : t = req[q].target
            OBVIOUS
        <3>4. \E u \in ActiveAdmins : u # t
            BY <3>2, AnotherAdmin
        <3> QED
            BY <3>1, <3>3, <3>4
    <2>5. PlaceInv(q)'
        BY <2>1, <2>3 DEF IInv, RequestInv, PlaceInv, UpdateSteps
    <2>6. UpdateInv(q)'
        BY <2>1, <2>3, <2>4 DEF IInv, RequestInv, UpdateInv, UpdateSteps, Decided, Counted
    <2>7. sess' \in [Session -> User \cup {None}]
        BY <2>1, Types DEF IInv
    <2> QED
        BY <2>1, <2>2, <2>5, <2>6, <2>7, LocalStep DEF RequestInv
<1> QED
    BY <1>1, <1>2

LEMMA UpdateMemberKeeps ==
    ASSUME IInv, NEW q \in Request, UpdateMember(q)
    PROVE  IInv'
<1>1. PICK to \in {"revoke sessions", "audit member"} :
          /\ Statement(q, "update member", to) /\ UNCHANGED <<member, sess, req>>
          /\ to = "audit member" <=> req[q].new.active
    BY DEF UpdateMember
<1>2. "update member" \in UpdateSteps /\ to \in UpdateSteps
    BY DEF UpdateSteps
<1>3. UpdateInv(q)'
    BY <1>1, <1>2, UpdateFacts DEF UpdateInv, Decided, Counted, UpdateSteps
<1> QED
    BY <1>1, <1>2, <1>3, UpdateStep

LEMMA RevokeSessionsKeeps ==
    ASSUME IInv, NEW q \in Request, RevokeSessions(q)
    PROVE  IInv'
<1>1. /\ Statement(q, "revoke sessions", "audit member")
      /\ UNCHANGED <<member, sess, req>>
      /\ "revoke sessions" \in UpdateSteps /\ "audit member" \in UpdateSteps
    BY DEF RevokeSessions, UpdateSteps
<1>2. /\ pc[q] = "revoke sessions" /\ locks'[q] = locks[q] \cup LocksOf(q)
      /\ SessionsOf(req[q].target)' = SessionsOf(req[q].target)
    BY <1>1, UpdateFacts
<1>3. \A s \in SessionsOf(req[q].target) : <<s, "write">> \in locks'[q]
    BY <1>2 DEF LocksOf
<1>4. UpdateInv(q)'
    BY <1>1, <1>3, UpdateFacts DEF UpdateInv, Decided, Counted, UpdateSteps
<1> QED
    BY <1>1, <1>4, UpdateStep

\* What is true when the change of a member commits.
LEMMA AuditMemberFacts ==
    ASSUME IInv, NEW q \in Request, AuditMember(q), NEW t, t = req[q].target,
           NEW new, new = req[q].new
    PROVE  /\ t \in User /\ req[q].change \in Change
           /\ new \in Member /\ new = Changed(member[t], req[q].change)
           /\ LosesAdmin(member[t], new) => \E u \in ActiveAdmins : u # t
           /\ ~ new.active => \A s \in SessionsOf(t) : sess'[s] = None
           /\ member' = [member EXCEPT ![t] = new] /\ End(q)
           /\ <<Org, "update">> \in locks[q]
           /\ sess' \in [Session -> User \cup {None}]
           /\ \A s \in Session : sess'[s] \in {sess[s], None}
<1>1. /\ pc[q] = "audit member" /\ End(q)
      /\ member' = [member EXCEPT ![t] = new]
      /\ sess' = [s \in Session |-> IF <<s, "write">> \in locks[q] THEN None ELSE sess[s]]
    BY DEF AuditMember
<1>2. t \in User /\ req[q].change \in Change /\ UpdateInv(q)
    BY <1>1 DEF IInv, RequestInv, PlaceInv, UpdateSteps
<1>3. /\ new = Changed(member[t], req[q].change)
      /\ LosesAdmin(member[t], new) => \E u \in ActiveAdmins : u # t
      /\ ~ new.active => \A s \in SessionsOf(t) : <<s, "write">> \in locks[q]
      /\ <<Org, "update">> \in locks[q]
    BY <1>1, <1>2 DEF UpdateInv, UpdateSteps, Decided, Counted
<1>4. member[t] \in Member
    BY <1>2, Types DEF IInv
<1>5. new \in Member
    BY <1>2, <1>3, <1>4, ChangedFacts
<1>6. /\ sess' \in [Session -> User \cup {None}]
      /\ \A s \in Session : sess'[s] \in {sess[s], None}
    BY <1>1, Types DEF IInv
<1>7. ~ new.active => \A s \in SessionsOf(t) : sess'[s] = None
    BY <1>1, <1>3 DEF SessionsOf
<1> QED
    BY <1>1, <1>2, <1>3, <1>5, <1>6, <1>7

\* Nobody else holds the organization's row.
LEMMA OrganizationIsLocked ==
    ASSUME IInv, NEW q \in Request, <<Org, "update">> \in locks[q],
           NEW p \in Request \ {q}
    PROVE  <<Org, "update">> \notin locks[p]
BY DEF IInv, LocksInv, Conflict

LEMMA AuditMemberKeeps ==
    ASSUME IInv, NEW q \in Request, AuditMember(q)
    PROVE  IInv'
<1>1. PICK t, new : t = req[q].target /\ new = req[q].new
    OBVIOUS
<1>2. /\ t \in User /\ new \in Member /\ req[q].change \in Change
      /\ new = Changed(member[t], req[q].change)
      /\ LosesAdmin(member[t], new) => \E u \in ActiveAdmins : u # t
      /\ member' = [member EXCEPT ![t] = new] /\ End(q)
      /\ <<Org, "update">> \in locks[q]
      /\ sess' \in [Session -> User \cup {None}]
      /\ \A s \in Session : sess'[s] \in {sess[s], None}
    BY <1>1, AuditMemberFacts
<1>3. /\ member' \in [User -> Member] /\ member'[t] = new
      /\ \A u \in User \ {t} : member'[u] = member[u]
    BY <1>2, Types DEF IInv
<1>4. AdminRemains'
    <2>1. CASE \E u \in ActiveAdmins : u # t
        BY <1>3, <2>1 DEF AdminRemains, ActiveAdmins
    <2>2. CASE ~ \E u \in ActiveAdmins : u # t
        <3>1. t \in ActiveAdmins /\ ~ LosesAdmin(member[t], new)
            BY <1>2, <2>2 DEF IInv, AdminRemains
        <3>2. new.role = "admin" /\ new.active
            BY <3>1 DEF LosesAdmin, ActiveAdmins
        <3> QED
            BY <1>2, <1>3, <3>2 DEF AdminRemains, ActiveAdmins
    <2> QED
        BY <2>1, <2>2
<1>5. \A p \in Request \ {q} : <<Org, "update">> \notin locks[p]
    BY <1>2, OrganizationIsLocked
<1>6. ASSUME NEW u \in User, NEW s \in Session, sess'[s] = u
      PROVE  sess[s] = u
    BY <1>2, <1>6, DistinctAssumption
<1> QED
    BY <1>2, <1>3, <1>4, <1>5, <1>6, EndStep, StepKeeps
-----------------------------------------------------------------------------
(* The other writers of the organization *)

\* A member is made under a lock that waits for every change of a member.
LEMMA CreateMemberKeeps ==
    ASSUME IInv, NEW q \in Request, CreateMember(q)
    PROVE  IInv'
<1>1. CASE UNCHANGED member
    BY <1>1, RollBackKeeps DEF CreateMember
<1>2. CASE ~ UNCHANGED member
    <2>1. PICK m : m = [role |-> req[q].change, active |-> TRUE]
        OBVIOUS
    <2>2. /\ pc[q] = "create member" /\ Blockers(q) = {} /\ End(q) /\ UNCHANGED sess
          /\ member[req[q].target] = NoMember
          /\ member' = [member EXCEPT ![req[q].target] = m]
        BY <1>2, <2>1 DEF CreateMember
    <2>3. req[q].target \in User /\ req[q].change \in Role
        BY <2>2 DEF IInv, RequestInv, PlaceInv
    <2>4. m \in Member
        BY <2>1, <2>3 DEF Member
    <2>5. /\ member' \in [User -> Member]
          /\ \A u \in User \ {req[q].target} : member'[u] = member[u]
        BY <2>2, <2>4, Types DEF IInv
    <2>6. req[q].target \notin ActiveAdmins
        <3>1. NoMember.role # "admin"
            BY DEF NoMember
        <3> QED
            BY <2>2, <3>1 DEF ActiveAdmins
    <2>7. AdminRemains'
        BY <2>5, <2>6 DEF IInv, AdminRemains, ActiveAdmins
    <2>8. <<Org, "share">> \in LocksOf(q)
        BY <2>2 DEF LocksOf, AuditLocks
    <2>9. ASSUME NEW p \in Request \ {q}, <<Org, "update">> \in locks[p]
          PROVE  FALSE
        <3>1. ~ Conflict("share", "update")
            BY <2>2, <2>8, <2>9, FreeLocks
        <3> QED
            BY <3>1 DEF Conflict
    <2>10. sess' \in [Session -> User \cup {None}]
        BY <2>2, Types DEF IInv
    <2> QED
        BY <2>2, <2>5, <2>7, <2>9, <2>10, EndStep, StepKeeps
<1> QED
    BY <1>1, <1>2

\* The first statement of a logout, of a rename, or of another insert.
LEMMA OtherStatementKeeps ==
    ASSUME IInv, NEW q \in Request, LogOut(q) \/ Rename(q) \/ Insert(q)
    PROVE  IInv'
<1>1. PICK from \in {"log out", "rename", "insert"},
           to \in {"audit log out", "audit rename", "audit insert"} :
          /\ Statement(q, from, to) /\ UNCHANGED <<member, sess, req>>
          /\ to = "audit log out" => from = "log out"
    BY DEF LogOut, Rename, Insert
<1>2. /\ pc[q] = from /\ req' \in [Request -> RequestData] /\ to \in Labels
      /\ \A p \in Request \ {q} : req'[p] = req[p]
    BY <1>1, Types DEF Statement, IInv, Labels, OtherSteps
<1>3. StepOf(q, to) /\ pc'[q] = to
    BY <1>1, <1>2, StatementStep
<1>4. PlaceInv(q)'
    BY <1>1, <1>2, <1>3 DEF IInv, RequestInv, PlaceInv, UpdateSteps
<1>5. UpdateInv(q)'
    BY <1>3 DEF UpdateInv, UpdateSteps, Decided, Counted
<1>6. sess' \in [Session -> User \cup {None}]
    BY <1>1, Types DEF IInv
<1> QED
    BY <1>1, <1>3, <1>4, <1>5, <1>6, LocalStep DEF RequestInv
-----------------------------------------------------------------------------
(* The theorems *)

LEMMA InitInvariant == Init => IInv
<1> SUFFICES ASSUME Init PROVE IInv
    OBVIOUS
<1>1. TypeOK
    BY DEF Init, TypeOK, Member, NoMember, Role, NoRequest, RequestData
<1>2. LocksInv
    BY DEF Init, LocksInv
<1>3. AdminRemains
    BY AdminAssumption DEF Init, AdminRemains, ActiveAdmins
<1>4. \A q \in Request : RequestInv(q)
    <2> SUFFICES ASSUME NEW q \in Request PROVE RequestInv(q)
        OBVIOUS
    <2>1. pc[q] = "idle"
        BY DEF Init
    <2>2. PlaceInv(q)
        BY <2>1 DEF PlaceInv, UpdateSteps
    <2>3. UpdateInv(q)
        BY <2>1 DEF UpdateInv, UpdateSteps, Decided, Counted
    <2> QED
        BY <2>2, <2>3 DEF RequestInv
<1> QED
    BY <1>1, <1>2, <1>3, <1>4 DEF IInv

LEMMA NextInvariant == IInv /\ [Next]_vars => IInv'
<1> SUFFICES ASSUME IInv, [Next]_vars PROVE IInv'
    OBVIOUS
<1>1. CASE UNCHANGED vars
    <2>1. UNCHANGED <<member, sess, pc, req, locks>>
        BY <1>1 DEF vars
    <2>2. \A q \in Request : RequestInv(q)'
        BY <2>1, FrameKeeps DEF Frame
    <2> QED
        BY <2>1, <2>2 DEF IInv, TypeOK, LocksInv, AdminRemains, ActiveAdmins
<1>2. ASSUME NEW q \in Request, NoSuchMember(q) \/ AuditRename(q) \/ AuditInsert(q) \/ Abandon(q)
      PROVE  IInv'
    BY <1>2, RollBackKeeps DEF NoSuchMember, AuditRename, AuditInsert, Abandon
<1>3. ASSUME NEW q \in Request, Step(q)
      PROVE  IInv'
    BY <1>2, <1>3, CreateSessionKeeps, AuditLogOutKeeps, LockOrganizationKeeps,
       LockMemberKeeps, LockAdminsKeeps, CountAdminsKeeps, UpdateMemberKeeps,
       RevokeSessionsKeeps, AuditMemberKeeps, CreateMemberKeeps, OtherStatementKeeps
    DEF Step
<1> QED
    BY <1>1, <1>2, <1>3, StartKeeps, ExpireKeeps DEF Next

\* The inductive invariant holds of every behaviour.
THEOREM Invariant == Spec => []IInv
BY InitInvariant, NextInvariant, PTL DEF Spec

\* The types of the memberships, the sessions, the requests and the locks.
THEOREM TypeCorrect == Spec => []TypeOK
<1>1. IInv => TypeOK
    BY DEF IInv
<1> QED
    BY <1>1, Invariant, PTL

\* An organization keeps an active administrator, with any number of people who
\* demote and deactivate each other at the same time: what was counted under the
\* organization's row is still so when the change commits.
THEOREM AdminRemainsTheorem == Spec => []AdminRemains
<1>1. IInv => AdminRemains
    BY DEF IInv
<1> QED
    BY <1>1, Invariant, PTL

\* What a change of a member writes back of the attribute it was not asked to
\* change is what that attribute is when it commits.
THEOREM ChangesOnlyWhatItWasAskedTheorem == Spec => ChangesOnlyWhatItWasAsked
<1>1. IInv /\ [Next]_vars =>
          [\A q \in Request :
              AuditMember(q) => Asked(q, member[req[q].target],
                                         member'[req[q].target])]_vars
    <2> SUFFICES ASSUME IInv, NEW q \in Request, AuditMember(q)
                 PROVE  Asked(q, member[req[q].target], member'[req[q].target])
        OBVIOUS
    <2>1. PICK t, new : t = req[q].target /\ new = req[q].new
        OBVIOUS
    <2>2. /\ t \in User /\ req[q].change \in Change
          /\ new = Changed(member[t], req[q].change)
          /\ member' = [member EXCEPT ![t] = new]
        BY <2>1, AuditMemberFacts
    <2>3. member[t] \in Member /\ member'[t] = new
        BY <2>2, Types DEF IInv
    <2> QED
        BY <2>1, <2>2, <2>3, ChangedFacts DEF Asked
<1> QED
    BY <1>1, Invariant, PTL DEF Spec, ChangesOnlyWhatItWasAsked

\* A deactivation ends every session the member has when it commits: those it
\* found are locked, and none is inserted while the member's row is.
THEOREM DeactivationEndsSessionsTheorem == Spec => DeactivationEndsSessions
<1>1. IInv /\ [Next]_vars =>
          [\A u \in User :
              member[u].active /\ ~member'[u].active => u \notin {sess'[s] : s \in Session}]_vars
    <2> SUFFICES ASSUME IInv, Next, NEW u \in User, member[u].active, ~ member'[u].active,
                        NEW s \in Session, sess'[s] = u
                 PROVE  FALSE
        OBVIOUS
    <2>1. CASE \E q \in Request : AuditMember(q)
        <3>1. PICK q \in Request : AuditMember(q)
            BY <2>1
        <3>2. PICK t, new : t = req[q].target /\ new = req[q].new
            OBVIOUS
        <3>3. /\ t \in User /\ member' = [member EXCEPT ![t] = new]
              /\ ~ new.active => \A r \in SessionsOf(t) : sess'[r] = None
              /\ sess'[s] \in {sess[s], None}
            BY <3>1, <3>2, AuditMemberFacts
        <3>4. member'[u] = IF u = t THEN new ELSE member[u]
            BY <3>3, Types DEF IInv
        <3>5. u = t /\ ~ new.active
            BY <3>4
        <3>6. None \notin User
            BY DistinctAssumption
        <3>7. sess[s] = u
            BY <3>3, <3>6
        <3> QED
            BY <3>3, <3>5, <3>6, <3>7 DEF SessionsOf
    <2>2. CASE \E q \in Request : CreateMember(q)
        <3>1. PICK q \in Request : CreateMember(q)
            BY <2>2
        <3>2. PICK m : m = [role |-> req[q].change, active |-> TRUE]
            OBVIOUS
        <3>3. m.active /\ (member' = member \/ member' = [member EXCEPT ![req[q].target] = m])
            BY <3>1, <3>2 DEF CreateMember
        <3> QED
            BY <3>3, Types DEF IInv
    <2>3. \/ UNCHANGED member
          \/ \E q \in Request : AuditMember(q) \/ CreateMember(q)
        BY DEF Next, Start, Step, CheckLogin, Resolve, ResolveAdmin, LogOut,
               LockOrganization, LockMember, NoSuchMember, LockAdmins, CountAdmins,
               UpdateMember, RevokeSessions, Rename, AuditRename, CreateSession,
               AuditLogOut, Insert, AuditInsert, Abandon, Expire
    <2> QED
        BY <2>1, <2>2, <2>3
<1> QED
    BY <1>1, Invariant, PTL DEF Spec, DeactivationEndsSessions
=============================================================================
