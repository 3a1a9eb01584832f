------------------------- MODULE ProjectPlan_proofs -------------------------
(***************************************************************************)
(* Theorems about ProjectPlan, for any number of users, drafts and         *)
(* versions.  The inductive invariant says what a request knows while it   *)
(* holds the plan's row (a creation that there is no plan, an update that  *)
(* it is still a draft, an activation that there is a lead), and that what *)
(* a reader has seen of an active plan is what there is.                   *)
(***************************************************************************)
EXTENDS ProjectPlan, TLAPS

Holding == {"write details", "validate", "set status", "commit"}
Reading == {"read plan", "read scope", "read team", "read milestones"}

HasLead == scope # <<>> /\ scope[written.team] \in WithLead

\* Each statement belongs to the operations that come to it.
PlaceInv(u) ==
    /\ pc[u] = "insert plan" => req[u].op = "create"
    /\ pc[u] = "authorize" => req[u].op \in {"update", "transition"}
    /\ pc[u] = "update plan" => req[u].op = "update" /\ owner # None
    /\ pc[u] \in {"lock plan", "validate", "set status"} => req[u].op = "transition"
    /\ pc[u] = "write details" => req[u].op \in {"create", "update"}
    /\ pc[u] = "commit" => req[u].op \in {"create", "update", "transition"}
    /\ req[u].op \in {"create", "update"} => req[u].draft \in Draft
    /\ pc[u] \in Reading => req[u].op = "read" /\ seen[u].milestones = 0

\* What a request knows of the plan whose row it holds.
HolderInv(u) ==
    pc[u] \in Holding =>
        /\ holder = u
        /\ req[u].op = "create" => owner = None
        /\ req[u].op = "update" => owner # None /\ status = "draft"
        /\ req[u].op = "transition" => ValidProjectPlanTransition(status, req[u].to)
        /\ req[u].op = "transition" /\ pc[u] # "validate" /\ req[u].to = "active" => HasLead
        /\ req[u].op # "transition" /\ pc[u] = "commit" => Len(scope) < MaxVersion

\* What a reader has seen of a plan that was active is what there is.
ReaderInv(u) ==
    req[u].op = "read" /\ seen[u].status # "draft" =>
        /\ status # "draft"
        /\ pc[u] \in Reading => seen[u].plan = Len(scope)
        /\ pc[u] \in {"read team", "read milestones"} => seen[u].scope = Len(scope)
        /\ pc[u] = "read milestones" => seen[u].team = Len(scope)
        /\ pc[u] = "idle" /\ seen[u].milestones > 0 =>
               /\ seen[u].plan = Len(scope) /\ seen[u].scope = Len(scope)
               /\ seen[u].team = Len(scope) /\ seen[u].milestones = Len(scope)

UserInv(u) == PlaceInv(u) /\ HolderInv(u) /\ ReaderInv(u)

\* The tables agree on the version, and there are none of a plan there is not.
TablesInv ==
    /\ \A p \in Part : written[p] = Len(scope)
    /\ owner = None => status = "draft" /\ scope = <<>>

IInv ==
    /\ TypeOK
    /\ TablesInv
    /\ ActivePlanHasLead
    /\ \A u \in User : UserInv(u)
-----------------------------------------------------------------------------
(* What a step leaves to a user who does not take it *)

Labels == {"idle", "insert plan", "authorize", "update plan", "lock plan"}
              \cup Holding \cup Reading

RequestData == [op : {"none", "create", "update", "transition", "read"},
                draft : Draft \cup {None}, to : Status]

Seen == [status : Status, plan : 0 .. MaxVersion, scope : 0 .. MaxVersion,
         team : 0 .. MaxVersion, milestones : 0 .. MaxVersion]

LEMMA Types ==
    TypeOK <=>
        /\ owner \in User \cup {None}
        /\ status \in Status
        /\ scope \in Seq(Draft) /\ Len(scope) <= MaxVersion
        /\ written \in [Part -> 0 .. Len(scope)]
        /\ holder \in User \cup {None}
        /\ pc \in [User -> Labels]
        /\ req \in [User -> RequestData]
        /\ seen \in [User -> Seen]
BY DEF TypeOK, Labels, Holding, Reading, RequestData, Seen

\* The tables change only under the row's lock; a plan does not go back to be a
\* draft, or to be none, and what is no draft keeps its scope.
Frame(p) ==
    /\ pc'[p] = pc[p] /\ req'[p] = req[p] /\ seen'[p] = seen[p]
    /\ holder = p => holder' = p /\ UNCHANGED tables
    /\ status # "draft" => status' # "draft" /\ scope' = scope
    /\ owner # None => owner' # None

LEMMA FrameKeeps ==
    ASSUME IInv, NEW p \in User, Frame(p)
    PROVE  UserInv(p)'
<1>1. UserInv(p)
    BY DEF IInv
<1>2. PlaceInv(p)'
    BY <1>1 DEF Frame, UserInv, PlaceInv
<1>3. HolderInv(p)'
    BY <1>1 DEF Frame, UserInv, HolderInv, HasLead, tables
<1>4. ReaderInv(p)'
    BY <1>1 DEF Frame, UserInv, ReaderInv
<1> QED
    BY <1>2, <1>3, <1>4 DEF UserInv

\* A step of u alone, which takes the row from nobody.
StepOf(u, label) ==
    /\ pc' = [pc EXCEPT ![u] = label]
    /\ label \in Labels
    /\ req' \in [User -> RequestData] /\ seen' \in [User -> Seen]
    /\ \A p \in User \ {u} : req'[p] = req[p] /\ seen'[p] = seen[p]
    /\ holder' \in User \cup {None}
    /\ holder \in User \ {u} => holder' = holder

LEMMA StepMoves ==
    ASSUME IInv, NEW u \in User, NEW label, StepOf(u, label)
    PROVE  /\ pc' \in [User -> Labels] /\ pc'[u] = label
           /\ \A p \in User \ {u} : pc'[p] = pc[p]
BY Types DEF IInv, StepOf

\* One that leaves the tables alone.
LEMMA LocalStep ==
    ASSUME IInv, NEW u \in User, NEW label, StepOf(u, label), UNCHANGED tables,
           UserInv(u)'
    PROVE  IInv'
<1>1. TypeOK'
    <2>1. /\ owner' \in User \cup {None}
          /\ status' \in Status
          /\ scope' \in Seq(Draft) /\ Len(scope') <= MaxVersion
          /\ written' \in [Part -> 0 .. Len(scope')]
        BY Types DEF IInv, tables
    <2> QED
        BY <2>1, StepMoves DEF TypeOK, StepOf, Labels, Holding, Reading, RequestData, Seen
<1>2. TablesInv' /\ ActivePlanHasLead'
    BY DEF IInv, TablesInv, ActivePlanHasLead, tables
<1>3. \A p \in User \ {u} : Frame(p)
    BY StepMoves DEF Frame, StepOf, tables
<1>4. \A p \in User : UserInv(p)'
    BY <1>3, FrameKeeps
<1> QED
    BY <1>1, <1>2, <1>4 DEF IInv

LEMMA HolderType ==
    ASSUME IInv, NEW u \in User, Release(u)
    PROVE  /\ holder' \in User \cup {None}
           /\ holder \in User \ {u} => holder' = holder
BY Types DEF IInv, Release

\* The operation of who is about to read, and of who is about to write.
LEMMA ReadersRead ==
    ASSUME IInv, NEW u \in User
    PROVE  req[u].op = "read" => pc[u] \in {"idle"} \cup Reading
BY Types DEF IInv, UserInv, PlaceInv, Labels, Holding, Reading

\* Whoever has ended keeps what was read, and holds nothing.
LEMMA RefuseKeeps ==
    ASSUME IInv, NEW u \in User, Refuse(u)
    PROVE  IInv'
<1>1. /\ pc' = [pc EXCEPT ![u] = "idle"]
      /\ Release(u) /\ UNCHANGED <<req, seen>> /\ UNCHANGED tables
    BY DEF Refuse, End, Goto
<1>2. StepOf(u, "idle")
    BY <1>1, Types, HolderType DEF StepOf, IInv, Labels
<1>3. pc'[u] = "idle"
    BY <1>2, StepMoves
<1>4. UserInv(u)'
    <2>1. PlaceInv(u)' /\ HolderInv(u)'
        BY <1>1, <1>3 DEF IInv, UserInv, PlaceInv, HolderInv, Holding, Reading
    <2>2. ReaderInv(u)'
        <3>1. CASE pc[u] \in Reading
            <4>1. seen'[u].milestones = 0 /\ ReaderInv(u)
                BY <1>1, <3>1 DEF IInv, UserInv, PlaceInv
            <4>2. ~ (seen'[u].milestones > 0)
                BY <4>1
            <4>3. req'[u] = req[u] /\ seen'[u] = seen[u] /\ status' = status
                BY <1>1 DEF tables
            <4> QED
                BY <1>3, <4>1, <4>3, <4>2 DEF ReaderInv, Reading
        <3>2. CASE req[u].op # "read"
            BY <1>1, <3>2 DEF ReaderInv
        <3>3. CASE pc[u] = "idle"
            BY <1>1, <1>3, <3>3 DEF IInv, UserInv, ReaderInv, tables
        <3> QED
            BY <3>1, <3>2, <3>3, ReadersRead
    <2> QED
        BY <2>1, <2>2 DEF UserInv
<1> QED
    BY <1>1, <1>2, <1>4, LocalStep
-----------------------------------------------------------------------------
(* Requests *)

LEMMA SendKeeps ==
    ASSUME IInv, NEW u \in User,
           SendCreate(u) \/ SendUpdate(u) \/ SendTransition(u) \/ SendRead(u)
    PROVE  IInv'
<1> DEFINE Fits(r, first) ==
        /\ Send(u, r, first)
        /\ first \in {"insert plan", "authorize", "read plan"}
        /\ first = "insert plan" => r.op = "create"
        /\ first = "authorize" => r.op \in {"update", "transition"}
        /\ first = "read plan" => r.op = "read"
        /\ r.op \in {"create", "update"} => r.draft \in Draft
<1>1. PICK r \in RequestData : \E first : Fits(r, first)
    <2>1. CASE SendCreate(u)
        <3>1. PICK d \in Draft :
                  Send(u, [NoRequest EXCEPT !.op = "create", !.draft = d], "insert plan")
            BY <2>1 DEF SendCreate
        <3> DEFINE r == [NoRequest EXCEPT !.op = "create", !.draft = d]
        <3>2. r \in RequestData /\ r.op = "create" /\ r.draft = d
            BY DEF NoRequest, RequestData, Status
        <3> QED
            BY <3>1, <3>2
    <2>2. CASE SendUpdate(u)
        <3>1. PICK d \in Draft :
                  Send(u, [NoRequest EXCEPT !.op = "update", !.draft = d], "authorize")
            BY <2>2 DEF SendUpdate
        <3> DEFINE r == [NoRequest EXCEPT !.op = "update", !.draft = d]
        <3>2. r \in RequestData /\ r.op = "update" /\ r.draft = d
            BY DEF NoRequest, RequestData, Status
        <3> QED
            BY <3>1, <3>2
    <2>3. CASE SendTransition(u)
        <3>1. PICK s \in {"active", "closed"} :
                  Send(u, [NoRequest EXCEPT !.op = "transition", !.to = s], "authorize")
            BY <2>3 DEF SendTransition
        <3> DEFINE r == [NoRequest EXCEPT !.op = "transition", !.to = s]
        <3>2. r \in RequestData /\ r.op = "transition"
            BY DEF NoRequest, RequestData, Status
        <3> QED
            BY <3>1, <3>2
    <2>4. CASE SendRead(u)
        <3> DEFINE r == [NoRequest EXCEPT !.op = "read"]
        <3>1. r \in RequestData /\ r.op = "read"
            BY DEF NoRequest, RequestData, Status
        <3> QED
            BY <2>4, <3>1 DEF SendRead
    <2> QED
        BY <2>1, <2>2, <2>3, <2>4
<1>2. PICK first : Fits(r, first)
    BY <1>1
<1>3. Nothing \in Seen /\ Nothing.milestones = 0 /\ Nothing.status = "draft"
    <2>1. 0 \in 0 .. MaxVersion /\ "draft" \in Status
        BY MaxVersionAssumption DEF Status
    <2> QED
        BY <2>1 DEF Nothing, Seen
<1>4. /\ pc' = [pc EXCEPT ![u] = first]
      /\ req' = [req EXCEPT ![u] = r] /\ seen' = [seen EXCEPT ![u] = Nothing]
      /\ UNCHANGED holder /\ UNCHANGED tables
    BY <1>2 DEF Send, Goto
<1>5. StepOf(u, first)
    BY <1>2, <1>3, <1>4, Types DEF StepOf, IInv, Labels, Reading
<1>6. pc'[u] = first /\ req'[u] = r /\ seen'[u] = Nothing
    BY <1>4, <1>5, Types, StepMoves DEF IInv
<1>7. UserInv(u)'
    BY <1>2, <1>3, <1>6 DEF UserInv, PlaceInv, HolderInv, ReaderInv, Holding, Reading
<1> QED
    BY <1>4, <1>5, <1>7, LocalStep
-----------------------------------------------------------------------------
(* Statements that write nothing another transaction could see *)

LEMMA ContinueKeeps ==
    ASSUME IInv, NEW u \in User, NEW label \in Labels, Continue(u, label),
           (holder' = u /\ RowIsFree(u)) \/ holder' = holder,
           label \notin {"idle"} \cup Reading, pc[u] \notin {"idle"} \cup Reading,
           PlaceInv(u)', HolderInv(u)'
    PROVE  IInv'
<1>1. pc' = [pc EXCEPT ![u] = label] /\ UNCHANGED <<req, seen>> /\ UNCHANGED tables
    BY DEF Continue, Goto
<1>2. StepOf(u, label)
    BY <1>1, Types, NoneAssumption DEF StepOf, IInv, RowIsFree
<1>3. pc'[u] = label
    BY <1>2, StepMoves
<1>4. ReaderInv(u)'
    BY <1>1, ReadersRead DEF ReaderInv
<1> QED
    BY <1>1, <1>2, <1>4, LocalStep DEF UserInv
LEMMA InsertPlanKeeps ==
    ASSUME IInv, NEW u \in User, InsertPlan(u)
    PROVE  IInv'
<1>1. CASE owner = None
    <2>1. /\ pc[u] = "insert plan" /\ holder' = u /\ RowIsFree(u)
          /\ Continue(u, "write details")
        BY <1>1 DEF InsertPlan
    <2>2. pc'[u] = "write details" /\ UNCHANGED <<req, seen>> /\ UNCHANGED tables
        BY <2>1, Types DEF Continue, Goto, IInv
    <2>3. PlaceInv(u)' /\ HolderInv(u)'
        BY <1>1, <2>1, <2>2
        DEF IInv, UserInv, PlaceInv, HolderInv, Holding, Reading, tables
    <2> QED
        BY <2>1, <2>3, ContinueKeeps DEF Labels, Holding, Reading
<1>2. CASE owner # None
    BY <1>2, RefuseKeeps DEF InsertPlan
<1> QED
    BY <1>1, <1>2

LEMMA AuthorizeKeeps ==
    ASSUME IInv, NEW u \in User, Authorize(u)
    PROVE  IInv'
<1>1. CASE Refuse(u)
    BY <1>1, RefuseKeeps
<1>2. CASE ~ Refuse(u)
    <2>1. PICK label \in {"update plan", "lock plan"} :
              /\ pc[u] = "authorize" /\ owner # None /\ holder' = holder
              /\ Continue(u, label)
              /\ label = "update plan" <=> req[u].op = "update"
        BY <1>2 DEF Authorize
    <2>2. pc'[u] = label /\ UNCHANGED <<req, seen>> /\ UNCHANGED tables
        BY <2>1, Types DEF Continue, Goto, IInv
    <2>3. PlaceInv(u)' /\ HolderInv(u)'
        BY <2>1, <2>2 DEF IInv, UserInv, PlaceInv, HolderInv, Holding, Reading, tables
    <2> QED
        BY <2>1, <2>3, ContinueKeeps DEF Labels, Holding, Reading
<1> QED
    BY <1>1, <1>2

LEMMA UpdatePlanKeeps ==
    ASSUME IInv, NEW u \in User, UpdatePlan(u)
    PROVE  IInv'
<1>1. CASE Refuse(u)
    BY <1>1, RefuseKeeps
<1>2. CASE ~ Refuse(u)
    <2>1. /\ pc[u] = "update plan" /\ holder' = u /\ RowIsFree(u) /\ status = "draft"
          /\ Continue(u, "write details")
        BY <1>2 DEF UpdatePlan, StillDraft
    <2>2. pc'[u] = "write details" /\ UNCHANGED <<req, seen>> /\ UNCHANGED tables
        BY <2>1, Types DEF Continue, Goto, IInv
    <2>3. PlaceInv(u)' /\ HolderInv(u)'
        BY <2>1, <2>2 DEF IInv, UserInv, PlaceInv, HolderInv, Holding, Reading, tables
    <2> QED
        BY <2>1, <2>3, ContinueKeeps DEF Labels, Holding, Reading
<1> QED
    BY <1>1, <1>2

LEMMA WriteDetailsKeeps ==
    ASSUME IInv, NEW u \in User, WriteDetails(u)
    PROVE  IInv'
<1>1. /\ pc[u] = "write details" /\ Len(scope) < MaxVersion /\ holder' = holder
      /\ Continue(u, "commit")
    BY DEF WriteDetails
<1>2. pc'[u] = "commit" /\ UNCHANGED <<req, seen>> /\ UNCHANGED tables
    BY <1>1, Types DEF Continue, Goto, IInv
<1>3. PlaceInv(u)' /\ HolderInv(u)'
    BY <1>1, <1>2 DEF IInv, UserInv, PlaceInv, HolderInv, Holding, Reading, tables
<1> QED
    BY <1>1, <1>3, ContinueKeeps DEF Labels, Holding, Reading

LEMMA LockPlanKeeps ==
    ASSUME IInv, NEW u \in User, LockPlan(u)
    PROVE  IInv'
<1>1. CASE Refuse(u)
    BY <1>1, RefuseKeeps
<1>2. CASE ~ Refuse(u)
    <2>1. PICK label \in {"validate", "set status"} :
              /\ pc[u] = "lock plan" /\ holder' = u /\ RowIsFree(u)
              /\ ValidProjectPlanTransition(status, req[u].to)
              /\ Continue(u, label)
              /\ label = "validate" <=> req[u].to = "active"
        BY <1>2 DEF LockPlan, LockRow
    <2>2. pc'[u] = label /\ UNCHANGED <<req, seen>> /\ UNCHANGED tables
        BY <2>1, Types DEF Continue, Goto, IInv
    <2>3. PlaceInv(u)' /\ HolderInv(u)'
        BY <2>1, <2>2
        DEF IInv, UserInv, PlaceInv, HolderInv, Holding, Reading, tables,
            ValidProjectPlanTransition
    <2> QED
        BY <2>1, <2>3, ContinueKeeps DEF Labels, Holding, Reading
<1> QED
    BY <1>1, <1>2

LEMMA ValidateKeeps ==
    ASSUME IInv, NEW u \in User, Validate(u)
    PROVE  IInv'
<1>1. CASE Refuse(u)
    BY <1>1, RefuseKeeps
<1>2. CASE ~ Refuse(u)
    <2>1. /\ pc[u] = "validate" /\ HasLead /\ holder' = holder
          /\ Continue(u, "set status")
        BY <1>2 DEF Validate, HasLead
    <2>2. pc'[u] = "set status" /\ UNCHANGED <<req, seen>> /\ UNCHANGED tables
        BY <2>1, Types DEF Continue, Goto, IInv
    <2>3. PlaceInv(u)' /\ HolderInv(u)'
        BY <2>1, <2>2
        DEF IInv, UserInv, PlaceInv, HolderInv, Holding, Reading, tables, HasLead
    <2> QED
        BY <2>1, <2>3, ContinueKeeps DEF Labels, Holding, Reading
<1> QED
    BY <1>1, <1>2

LEMMA SetStatusKeeps ==
    ASSUME IInv, NEW u \in User, SetStatus(u)
    PROVE  IInv'
<1>1. /\ pc[u] = "set status" /\ holder' = u /\ RowIsFree(u)
      /\ Continue(u, "commit")
    BY DEF SetStatus
<1>2. pc'[u] = "commit" /\ UNCHANGED <<req, seen>> /\ UNCHANGED tables
    BY <1>1, Types DEF Continue, Goto, IInv
<1>3. PlaceInv(u)' /\ HolderInv(u)'
    BY <1>1, <1>2
    DEF IInv, UserInv, PlaceInv, HolderInv, Holding, Reading, tables, HasLead
<1> QED
    BY <1>1, <1>3, ContinueKeeps DEF Labels, Holding, Reading
-----------------------------------------------------------------------------
(* The commit *)

\* What a commit may do: the first version of a plan, another one of a draft, or
\* a transition, to active with a lead.
LEMMA CommitTables ==
    ASSUME IInv, NEW u \in User, Commit(u)
    PROVE  /\ holder = u /\ status' \in Status /\ owner' \in User
           /\ \/ /\ status = "draft" /\ UNCHANGED status
                 /\ scope' = Append(scope, req[u].draft) /\ req[u].draft \in Draft
                 /\ Len(scope) < MaxVersion
                 /\ written' = [p \in Part |-> Len(scope')]
              \/ /\ UNCHANGED <<owner, scope, written>>
                 /\ status' # "draft" /\ HasLead
<1>1. /\ pc[u] = "commit" /\ PlaceInv(u) /\ HolderInv(u)
      /\ TablesInv /\ ActivePlanHasLead
    BY DEF Commit, IInv, UserInv
<1>2. CASE req[u].op = "transition"
    BY <1>1, <1>2, Types
    DEF Commit, PlaceInv, HolderInv, Holding, ValidProjectPlanTransition, Status,
        TablesInv, ActivePlanHasLead, HasLead, IInv
<1>3. CASE req[u].op # "transition"
    BY <1>1, <1>3, Types
    DEF Commit, CommitDetails, PlaceInv, HolderInv, Holding, TablesInv, IInv
<1> QED
    BY <1>2, <1>3

LEMMA CommitKeeps ==
    ASSUME IInv, NEW u \in User, Commit(u)
    PROVE  IInv'
<1>1. /\ pc[u] = "commit" /\ pc' = [pc EXCEPT ![u] = "idle"]
      /\ Release(u) /\ UNCHANGED <<req, seen>>
    BY DEF Commit, End, Goto
<1>2. StepOf(u, "idle")
    BY <1>1, Types, HolderType DEF StepOf, IInv, Labels
<1>3. pc'[u] = "idle"
    BY <1>2, StepMoves
<1>4. Len(scope) \in Nat /\ owner' # None
    BY Types, NoneAssumption, CommitTables DEF IInv
<1>5. TypeOK' /\ TablesInv' /\ ActivePlanHasLead'
    <2>1. CASE UNCHANGED <<owner, scope, written>> /\ status' # "draft" /\ HasLead
        <3>1. TypeOK'
            BY <1>2, <2>1, CommitTables, Types, StepMoves
            DEF IInv, TypeOK, StepOf, Labels, Holding, Reading, RequestData, Seen
        <3> QED
            BY <1>4, <2>1, <3>1 DEF IInv, TablesInv, ActivePlanHasLead, HasLead
    <2>2. CASE /\ status = "draft" /\ UNCHANGED status
               /\ scope' = Append(scope, req[u].draft) /\ req[u].draft \in Draft
               /\ Len(scope) < MaxVersion
               /\ written' = [p \in Part |-> Len(scope')]
        <3>1. scope' \in Seq(Draft) /\ Len(scope') = Len(scope) + 1
            BY <2>2, Types DEF IInv
        <3>2. written' \in [Part -> 0 .. Len(scope')] /\ Len(scope') <= MaxVersion
            BY <1>4, <2>2, <3>1, MaxVersionAssumption
        <3>3. TypeOK'
            BY <1>2, <3>1, <3>2, CommitTables, Types, StepMoves
            DEF IInv, TypeOK, StepOf, Labels, Holding, Reading, RequestData, Seen
        <3> QED
            BY <1>4, <2>2, <3>3 DEF TablesInv, ActivePlanHasLead
    <2> QED
        BY <2>1, <2>2, CommitTables
<1>6. ASSUME NEW p \in User \ {u}
      PROVE  UserInv(p)'
    <2>1. Frame(p)
        BY <1>2, <1>4, CommitTables, StepMoves DEF Frame, StepOf
    <2> QED
        BY <2>1, FrameKeeps
<1>7. UserInv(u)'
    <2>1. req[u].op # "read"
        BY <1>1, ReadersRead DEF Reading
    <2> QED
        BY <1>1, <1>3, <2>1
        DEF IInv, UserInv, PlaceInv, HolderInv, ReaderInv, Holding, Reading
<1> QED
    BY <1>5, <1>6, <1>7 DEF IInv
-----------------------------------------------------------------------------
(* The four reads *)

LEMMA ReadKeeps ==
    ASSUME IInv, NEW u \in User, NEW from \in Reading, NEW to \in {"idle"} \cup Reading,
           NEW s \in Seen, Read(u, from, to, s),
           to \in Reading => s.milestones = 0,
           ReaderInv(u)'
    PROVE  IInv'
<1>1. /\ pc[u] = from /\ pc' = [pc EXCEPT ![u] = to]
      /\ seen' = [seen EXCEPT ![u] = s]
      /\ UNCHANGED <<holder, req>> /\ UNCHANGED tables
    BY DEF Read, Goto
<1>2. StepOf(u, to)
    BY <1>1, Types DEF StepOf, IInv, Labels
<1>3. pc'[u] = to /\ seen'[u] = s
    BY <1>1, <1>2, Types, StepMoves DEF IInv
<1>4. PlaceInv(u)' /\ HolderInv(u)'
    BY <1>1, <1>3 DEF IInv, UserInv, PlaceInv, HolderInv, Holding, Reading
<1> QED
    BY <1>1, <1>2, <1>4, LocalStep DEF UserInv

\* Every version a read may see is one there is, and of an active plan the last.
LEMMA Versions ==
    ASSUME IInv
    PROVE  /\ Len(scope) \in 0 .. MaxVersion
           /\ written.plan = Len(scope) /\ written.team = Len(scope)
           /\ written.milestones = Len(scope)
BY Types, MaxVersionAssumption DEF IInv, TablesInv, Part

LEMMA ReadPlanKeeps ==
    ASSUME IInv, NEW u \in User, ReadPlan(u)
    PROVE  IInv'
<1> DEFINE s == [seen[u] EXCEPT !.status = status, !.plan = written.plan]
<1>1. CASE owner = None
    BY <1>1, RefuseKeeps DEF ReadPlan
<1>2. CASE owner # None
    <2>1. Read(u, "read plan", "read scope", s)
        BY <1>2 DEF ReadPlan
    <2>2. seen[u] \in Seen /\ seen[u].milestones = 0
        BY <2>1, Types DEF Read, IInv, UserInv, PlaceInv, Reading
    <2>3. /\ s \in Seen /\ s.milestones = 0 /\ s.status = status
          /\ s.plan = Len(scope)
        BY <2>2, Types, Versions DEF IInv, Seen
    <2> HIDE DEF s
    <2>4. /\ pc'[u] = "read scope" /\ seen'[u] = s /\ UNCHANGED req
          /\ UNCHANGED tables
        BY <2>1, Types DEF Read, Goto, IInv
    <2>5. ReaderInv(u)'
        BY <2>3, <2>4 DEF ReaderInv, Reading, tables
    <2> QED
        BY <2>1, <2>3, <2>5, ReadKeeps DEF Reading
<1> QED
    BY <1>1, <1>2

LEMMA ReadScopeKeeps ==
    ASSUME IInv, NEW u \in User, ReadScope(u)
    PROVE  IInv'
<1> DEFINE s == [seen[u] EXCEPT !.scope = Len(scope)]
<1>1. Read(u, "read scope", "read team", s)
    BY DEF ReadScope
<1>2. seen[u] \in Seen /\ seen[u].milestones = 0
    BY <1>1, Types DEF Read, IInv, UserInv, PlaceInv, Reading
<1>3. /\ s \in Seen /\ s.milestones = 0 /\ s.status = seen[u].status
      /\ s.plan = seen[u].plan /\ s.scope = Len(scope)
    BY <1>2, Versions DEF Seen
<1> HIDE DEF s
<1>4. /\ pc[u] = "read scope" /\ pc'[u] = "read team" /\ seen'[u] = s
      /\ UNCHANGED req /\ UNCHANGED tables
    BY <1>1, Types DEF Read, Goto, IInv
<1>5. ReaderInv(u)'
    BY <1>3, <1>4 DEF IInv, UserInv, ReaderInv, Reading, tables
<1> QED
    BY <1>1, <1>3, <1>5, ReadKeeps DEF Reading

LEMMA ReadTeamKeeps ==
    ASSUME IInv, NEW u \in User, ReadTeam(u)
    PROVE  IInv'
<1> DEFINE s == [seen[u] EXCEPT !.team = written.team]
<1>1. Read(u, "read team", "read milestones", s)
    BY DEF ReadTeam
<1>2. seen[u] \in Seen /\ seen[u].milestones = 0
    BY <1>1, Types DEF Read, IInv, UserInv, PlaceInv, Reading
<1>3. /\ s \in Seen /\ s.milestones = 0 /\ s.status = seen[u].status
      /\ s.plan = seen[u].plan /\ s.scope = seen[u].scope /\ s.team = Len(scope)
    BY <1>2, Versions DEF Seen
<1> HIDE DEF s
<1>4. /\ pc[u] = "read team" /\ pc'[u] = "read milestones" /\ seen'[u] = s
      /\ UNCHANGED req /\ UNCHANGED tables
    BY <1>1, Types DEF Read, Goto, IInv
<1>5. ReaderInv(u)'
    BY <1>3, <1>4 DEF IInv, UserInv, ReaderInv, Reading, tables
<1> QED
    BY <1>1, <1>3, <1>5, ReadKeeps DEF Reading

LEMMA ReadMilestonesKeeps ==
    ASSUME IInv, NEW u \in User, ReadMilestones(u)
    PROVE  IInv'
<1> DEFINE s == [seen[u] EXCEPT !.milestones = written.milestones]
<1>1. Read(u, "read milestones", "idle", s)
    BY DEF ReadMilestones
<1>2. seen[u] \in Seen
    BY Types DEF IInv
<1>3. /\ s \in Seen /\ s.milestones = Len(scope) /\ s.status = seen[u].status
      /\ s.plan = seen[u].plan /\ s.scope = seen[u].scope /\ s.team = seen[u].team
    BY <1>2, Versions DEF Seen
<1> HIDE DEF s
<1>4. /\ pc[u] = "read milestones" /\ pc'[u] = "idle" /\ seen'[u] = s
      /\ UNCHANGED req /\ UNCHANGED tables
    BY <1>1, Types DEF Read, Goto, IInv
<1>5. ReaderInv(u)'
    BY <1>3, <1>4 DEF IInv, UserInv, ReaderInv, Reading, tables
<1> QED
    BY <1>1, <1>3, <1>5, ReadKeeps DEF Reading
-----------------------------------------------------------------------------
(* The invariant *)

LEMMA InitInvariant == Init => IInv
<1> SUFFICES ASSUME Init
             PROVE  IInv
    OBVIOUS
<1>1. Nothing \in Seen
    <2>1. 0 \in 0 .. MaxVersion /\ "draft" \in Status
        BY MaxVersionAssumption DEF Status
    <2> QED
        BY <2>1 DEF Nothing, Seen
<1>2. NoRequest \in RequestData /\ NoRequest.op = "none"
    BY DEF NoRequest, RequestData, Status
<1>3. scope = <<>> /\ scope \in Seq(Draft) /\ Len(scope) = 0
    BY DEF Init
<1>4. TypeOK
    BY <1>1, <1>2, <1>3, MaxVersionAssumption, Types
    DEF Init, Status, Labels
<1>5. TablesInv /\ ActivePlanHasLead
    BY <1>3 DEF Init, TablesInv, ActivePlanHasLead
<1>6. \A u \in User : UserInv(u)
    BY <1>2 DEF Init, UserInv, PlaceInv, HolderInv, ReaderInv, Holding, Reading
<1> QED
    BY <1>4, <1>5, <1>6 DEF IInv

LEMMA StepInvariant == IInv /\ [Next]_vars => IInv'
<1> SUFFICES ASSUME IInv, [Next]_vars
             PROVE  IInv'
    OBVIOUS
<1>1. CASE UNCHANGED vars
    <2>1. UNCHANGED tables /\ UNCHANGED <<holder, pc, req, seen>>
        BY <1>1 DEF vars, tables
    <2>2. \A u \in User : UserInv(u)'
        BY <2>1, FrameKeeps DEF Frame, tables
    <2> QED
        BY <2>1, <2>2 DEF IInv, TypeOK, TablesInv, ActivePlanHasLead, tables
<1>2. ASSUME NEW u \in User, Abandon(u)
      PROVE  IInv'
    BY <1>2, RefuseKeeps DEF Abandon
<1> QED
    BY <1>1, <1>2, SendKeeps, InsertPlanKeeps, AuthorizeKeeps, UpdatePlanKeeps,
       WriteDetailsKeeps, LockPlanKeeps, ValidateKeeps, SetStatusKeeps, CommitKeeps,
       ReadPlanKeeps, ReadScopeKeeps, ReadTeamKeeps, ReadMilestonesKeeps
    DEF Next

\* The inductive invariant holds of every behaviour.
THEOREM Invariant == Spec => []IInv
BY InitInvariant, StepInvariant, PTL DEF Spec

\* The types of the tables, the requests and what they have read.
THEOREM TypeCorrect == Spec => []TypeOK
<1>1. IInv => TypeOK
    BY DEF IInv
<1> QED
    BY <1>1, Invariant, PTL

\* An active or closed plan has a lead in its team, whatever updates came between
\* the validation and the activation (Validate of TransitionProjectPlan).
THEOREM ActivePlanHasLeadTheorem == Spec => []ActivePlanHasLead
<1>1. IInv => ActivePlanHasLead
    BY DEF IInv
<1> QED
    BY <1>1, Invariant, PTL

\* Nothing of an active plan changes but its status.
THEOREM FrozenOnceActiveTheorem == Spec => FrozenOnceActive
<1>1. IInv /\ [Next]_vars => [status # "draft" => UNCHANGED <<owner, scope, written>>]_vars
    <2> SUFFICES ASSUME IInv, Next, status # "draft"
                 PROVE  UNCHANGED <<owner, scope, written>>
        OBVIOUS
    <2>1. PICK u \in User : \/ UNCHANGED tables
                            \/ Commit(u)
        BY DEF Next, SendCreate, SendUpdate, SendTransition, SendRead, Send,
               InsertPlan, Authorize, UpdatePlan, WriteDetails, LockPlan, Validate,
               SetStatus, Abandon, Refuse, Continue, ReadPlan, ReadScope, ReadTeam,
               ReadMilestones, Read
    <2> QED
        BY <2>1, CommitTables DEF tables
<1> QED
    BY <1>1, Invariant, PTL DEF Spec, FrozenOnceActive

\* What was read of an active plan, without a transaction, is the whole of it.
THEOREM ActivePlanIsReadWholeTheorem == Spec => []ActivePlanIsReadWhole
<1>1. IInv => ActivePlanIsReadWhole
    BY DEF IInv, UserInv, ReaderInv, ActivePlanIsReadWhole
<1> QED
    BY <1>1, Invariant, PTL
=============================================================================
