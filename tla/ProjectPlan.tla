----------------------------- MODULE ProjectPlan -----------------------------
(***************************************************************************)
(* The plan of one engagement (store/postgres/project_plans.go): a row     *)
(* with a status, the versions of its scope, its team and its milestones,  *)
(* each in a table of its own.                                             *)
(*                                                                         *)
(* A step is a statement; what a transaction writes shows when it commits. *)
(* A scope version says what the request that wrote it asked for; the      *)
(* other three tables are known by the version they were written with.     *)
(* The reader runs four statements on the pool, with no transaction.       *)
(***************************************************************************)
EXTENDS Naturals, Sequences

CONSTANTS
    User,       \* sessions that send requests, one at a time each
    Admins,     \* those who administer the organization
    Draft,      \* plans that a request may ask for
    WithLead,   \* those whose team has a lead
    MaxVersion, \* bound: the number of scope versions
    None        \* "no value"

ASSUME AdminsAssumption == Admins \subseteq User
ASSUME LeadAssumption == WithLead \subseteq Draft
ASSUME MaxVersionAssumption == MaxVersion \in Nat
ASSUME NoneAssumption == None \notin User \cup Draft

VARIABLES
    owner,      \* owner_user_id; None: there is no plan
    status,     \* engagement_plans.status
    scope,      \* engagement_scope_versions, in order
    written,    \* the version each of the other tables was written with
    holder,     \* the user whose transaction holds the plan's row
    pc,         \* the statement each user's request comes to next
    req,        \* what each request is about
    seen        \* what each request has read of the plan

vars == <<owner, status, scope, written, holder, pc, req, seen>>
tables == <<owner, status, scope, written>>

Status == {"draft", "active", "closed"}
Part == {"plan", "team", "milestones"}

NoRequest == [op |-> "none", draft |-> None, to |-> "draft"]
Nothing == [status |-> "draft", plan |-> 0, scope |-> 0, team |-> 0, milestones |-> 0]

TypeOK ==
    /\ owner \in User \cup {None}
    /\ status \in Status
    /\ scope \in Seq(Draft) /\ Len(scope) <= MaxVersion
    /\ written \in [Part -> 0 .. Len(scope)]
    /\ holder \in User \cup {None}
    /\ pc \in [User -> {"idle", "insert plan", "authorize", "update plan", "write details",
                        "lock plan", "validate", "set status", "commit",
                        "read plan", "read scope", "read team", "read milestones"}]
    /\ req \in [User -> [op : {"none", "create", "update", "transition", "read"},
                         draft : Draft \cup {None}, to : Status]]
    /\ seen \in [User -> [status : Status, plan : 0 .. MaxVersion, scope : 0 .. MaxVersion,
                          team : 0 .. MaxVersion, milestones : 0 .. MaxVersion]]

Init ==
    /\ owner = None
    /\ status = "draft"
    /\ scope = <<>>
    /\ written = [p \in Part |-> 0]
    /\ holder = None
    /\ pc = [u \in User |-> "idle"]
    /\ req = [u \in User |-> NoRequest]
    /\ seen = [u \in User |-> Nothing]
-----------------------------------------------------------------------------
Goto(u, label) == pc' = [pc EXCEPT ![u] = label]

Release(u) == holder' = IF holder = u THEN None ELSE holder

\* The request ends: committed, refused, failed or abandoned.
End(u) ==
    /\ Goto(u, "idle")
    /\ Release(u)
    /\ UNCHANGED <<req, seen>>

Refuse(u) == End(u) /\ UNCHANGED tables

RowIsFree(u) == holder \in {u, None}

\* A statement on the way that writes nothing another transaction could see.
Continue(u, label) == Goto(u, label) /\ UNCHANGED <<tables, req, seen>>
-----------------------------------------------------------------------------
(* Requests *)

Send(u, r, first) ==
    /\ pc[u] = "idle"
    /\ req' = [req EXCEPT ![u] = r]
    /\ seen' = [seen EXCEPT ![u] = Nothing]
    /\ Goto(u, first)
    /\ UNCHANGED <<tables, holder>>

SendCreate(u) ==
    \E d \in Draft : Send(u, [NoRequest EXCEPT !.op = "create", !.draft = d], "insert plan")

SendUpdate(u) ==
    \E d \in Draft :
        /\ Len(scope) < MaxVersion
        /\ Send(u, [NoRequest EXCEPT !.op = "update", !.draft = d], "authorize")

SendTransition(u) ==
    \E s \in {"active", "closed"} :
        Send(u, [NoRequest EXCEPT !.op = "transition", !.to = s], "authorize")

SendRead(u) == Send(u, [NoRequest EXCEPT !.op = "read"], "read plan")
-----------------------------------------------------------------------------
(* CreateProjectPlan and UpdateProjectPlan *)

\* INSERT INTO engagement_plans: waits for another insertion of the same key.
InsertPlan(u) ==
    /\ pc[u] = "insert plan"
    /\ RowIsFree(u)
    /\ IF owner = None
       THEN holder' = u /\ Continue(u, "write details")
       ELSE Refuse(u)

\* authorizeProjectPlan
Authorize(u) ==
    /\ pc[u] = "authorize"
    /\ IF owner # None /\ (owner = u \/ u \in Admins)
       THEN /\ Continue(u, IF req[u].op = "update" THEN "update plan" ELSE "lock plan")
            /\ UNCHANGED holder
       ELSE Refuse(u)

\* Mutant: the status is not part of the update's condition.
AnyStatus == TRUE

\* WHERE ... AND status = 'draft', as it is once the row is free.
StillDraft == status = "draft"

UpdatePlan(u) ==
    /\ pc[u] = "update plan"
    /\ RowIsFree(u)
    /\ IF StillDraft
       THEN holder' = u /\ Continue(u, "write details")
       ELSE Refuse(u)

\* writeProjectPlanDetails: the next scope version, a new team, new milestones.
WriteDetails(u) ==
    /\ pc[u] = "write details"
    /\ Len(scope) < MaxVersion
    /\ Continue(u, "commit")
    /\ UNCHANGED holder

\* The plan's row and its details show together.
CommitDetails(u) ==
    /\ scope' = Append(scope, req[u].draft)
    /\ written' = [p \in Part |-> Len(scope')]
    /\ owner' = IF req[u].op = "create" THEN u ELSE owner
    /\ UNCHANGED status
-----------------------------------------------------------------------------
(* TransitionProjectPlan *)

ValidProjectPlanTransition(from, to) ==
    \/ from = "draft" /\ to = "active"
    \/ from = "active" /\ to = "closed"

\* Mutant: SELECT status without FOR UPDATE.
ReadRow(u) == UNCHANGED holder

\* SELECT status ... FOR UPDATE
LockRow(u) == holder' = u

LockPlan(u) ==
    /\ pc[u] = "lock plan"
    /\ RowIsFree(u)
    /\ IF ValidProjectPlanTransition(status, req[u].to)
       THEN LockRow(u) /\ Continue(u, IF req[u].to = "active" THEN "validate" ELSE "set status")
       ELSE Refuse(u)

\* A scope version, and a lead in the team, as committed.
Validate(u) ==
    /\ pc[u] = "validate"
    /\ IF scope # <<>> /\ scope[written.team] \in WithLead
       THEN Continue(u, "set status") /\ UNCHANGED holder
       ELSE Refuse(u)

SetStatus(u) ==
    /\ pc[u] = "set status"
    /\ RowIsFree(u)
    /\ holder' = u
    /\ Continue(u, "commit")

\* The audit event and the commit; the caller may not hear of it.
Commit(u) ==
    /\ pc[u] = "commit"
    /\ IF req[u].op = "transition"
       THEN status' = req[u].to /\ UNCHANGED <<owner, scope, written>>
       ELSE CommitDetails(u)
    /\ End(u)

Abandon(u) == pc[u] # "idle" /\ Refuse(u)
-----------------------------------------------------------------------------
(* ReadProjectPlan, each statement on the pool *)

Read(u, from, to, s) ==
    /\ pc[u] = from
    /\ seen' = [seen EXCEPT ![u] = s]
    /\ Goto(u, to)
    /\ UNCHANGED <<tables, holder, req>>

ReadPlan(u) ==
    IF owner = None
    THEN pc[u] = "read plan" /\ Refuse(u)
    ELSE Read(u, "read plan", "read scope",
              [seen[u] EXCEPT !.status = status, !.plan = written.plan])

ReadScope(u) ==
    Read(u, "read scope", "read team", [seen[u] EXCEPT !.scope = Len(scope)])

ReadTeam(u) ==
    Read(u, "read team", "read milestones", [seen[u] EXCEPT !.team = written.team])

\* Mutant: the status is the one of the end.
ReadStatusLast(u) ==
    Read(u, "read milestones", "idle",
         [seen[u] EXCEPT !.milestones = written.milestones, !.status = status])

ReadMilestones(u) ==
    Read(u, "read milestones", "idle", [seen[u] EXCEPT !.milestones = written.milestones])
-----------------------------------------------------------------------------
Next ==
    \E u \in User :
        \/ SendCreate(u) \/ SendUpdate(u) \/ SendTransition(u) \/ SendRead(u)
        \/ InsertPlan(u) \/ Authorize(u) \/ UpdatePlan(u) \/ WriteDetails(u)
        \/ LockPlan(u) \/ Validate(u) \/ SetStatus(u) \/ Commit(u) \/ Abandon(u)
        \/ ReadPlan(u) \/ ReadScope(u) \/ ReadTeam(u) \/ ReadMilestones(u)

Spec == Init /\ [][Next]_vars
-----------------------------------------------------------------------------
(* Properties *)

\* An active or closed plan has a lead in its team, whatever an update did to
\* the team between the validation and the activation.
ActivePlanHasLead ==
    status # "draft" => scope # <<>> /\ scope[written.team] \in WithLead

\* Once a plan is active nothing of it changes but its status: an update that
\* waited for the activation to commit finds no draft to change.
FrozenOnceActive == [][status # "draft" => UNCHANGED <<owner, scope, written>>]_vars

\* A plan that was read active was read whole, without a transaction: the status
\* is read first, and by then the other tables have stopped changing.
ActivePlanIsReadWhole ==
    \A u \in User :
        req[u].op = "read" /\ pc[u] = "idle" /\ seen[u].status # "draft" /\ seen[u].milestones > 0 =>
            {seen[u].plan, seen[u].scope, seen[u].team, seen[u].milestones} = {Len(scope)}
=============================================================================
