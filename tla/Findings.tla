------------------------------ MODULE Findings ------------------------------
(***************************************************************************)
(* The findings of one engagement: created, confirmed by triage, closed by *)
(* rounds of retests, and linked to assets (store/postgres/auth.go).       *)
(*                                                                         *)
(* A step is a statement.  Each transaction takes the row of one finding,  *)
(* by an UPDATE or a SELECT ... FOR UPDATE, and keeps it until it ends; a  *)
(* statement that waited for the row sees it as it was last committed.     *)
(* The answer to a commit may be lost, and whoever did not hear it may     *)
(* send the same request again.                                            *)
(***************************************************************************)
EXTENDS Integers, Sequences, SequencesExt

CONSTANTS
    Finding,    \* identities of findings rows
    Asset,      \* identities of assets, those of other engagements included
    Foreign,    \* the assets of other engagements
    Work,       \* retests that someone carried out
    Caller,     \* requests served at the same time
    MaxRound,   \* bound: the largest round a caller names
    None        \* "no value"

ASSUME MaxRoundAssumption == MaxRound \in Nat \ {0}
ASSUME ForeignAssumption == Foreign \subseteq Asset
ASSUME NoneAssumption == None \notin Finding \cup Work \cup Caller

VARIABLES
    finding,    \* the committed state of each finding; None: there is none
    retests,    \* the committed rounds of each finding, in order
    asset,      \* the committed assets of the engagement
    links,      \* the committed asset set of each finding
    holder,     \* the caller whose transaction holds each finding's row
    pc,         \* the statement each caller's request comes to next
    req,        \* what each request is about
    reply       \* what each caller was last told

vars == <<finding, retests, asset, links, holder, pc, req, reply>>
tables == <<finding, retests, asset, links>>

Result == {"open", "fixed", "not_reproduced"}
\* validation_state and remediation_state: findings_state_consistency.
State == {"new"} \cup Result
ASSUME NoneIsNoState == None \notin State
Round == [work : Work, result : Result]

NoRequest == [op |-> "none", finding |-> None, work |-> None, round |-> 1,
              result |-> "open", assets |-> {}, cleared |-> {}]
RequestData == [op : {"none", "create", "triage", "retest", "assets"},
                finding : Finding \cup {None}, work : Work \cup {None},
                round : 1 .. MaxRound, result : Result,
                assets : SUBSET Asset, cleared : SUBSET Asset]

FirstStatement == [create |-> "insert finding", triage |-> "confirm",
                   retest |-> "advance", assets |-> "lock finding"]
Statements == {"insert finding", "confirm", "advance", "read history",
               "lock finding", "clear links", "insert links", "commit"}

TypeOK ==
    /\ finding \in [Finding -> State \cup {None}]
    /\ retests \in [Finding -> Seq(Round)]
    /\ asset \subseteq Asset \ Foreign
    /\ links \in [Finding -> SUBSET asset]
    /\ holder \in [Finding -> Caller \cup {None}]
    /\ pc \in [Caller -> {"idle", "unheard"} \cup Statements]
    /\ req \in [Caller -> RequestData]
    /\ reply \in [Caller -> {"none", "done", "not_found", "invalid_state"}]

Init ==
    /\ finding = [f \in Finding |-> None]
    /\ retests = [f \in Finding |-> <<>>]
    /\ asset = {}
    /\ links = [f \in Finding |-> {}]
    /\ holder = [f \in Finding |-> None]
    /\ pc = [c \in Caller |-> "idle"]
    /\ req = [c \in Caller |-> NoRequest]
    /\ reply = [c \in Caller |-> "none"]
-----------------------------------------------------------------------------
(* Transactions *)

Goto(c, label) == pc' = [pc EXCEPT ![c] = label]

\* The row c comes to is free.
RowIsFree(c) == holder[req[c].finding] \in {c, None}
TakeRow(c) == holder' = [holder EXCEPT ![req[c].finding] = c]

\* defer tx.Rollback, or the end of a commit.
Release(c) == holder' = [f \in Finding |-> IF holder[f] = c THEN None ELSE holder[f]]

\* An error path: nothing was written.
Refuse(c, status) ==
    /\ Goto(c, "idle")
    /\ reply' = [reply EXCEPT ![c] = status]
    /\ Release(c)
    /\ UNCHANGED <<tables, req>>

\* The first statement does not find the row in the state it asks for.
NoRow(c) == Refuse(c, IF finding[req[c].finding] = None THEN "not_found" ELSE "invalid_state")

\* A commit, heard of or not.
Answered(c) ==
    /\ Release(c)
    /\ UNCHANGED req
    /\ \/ Goto(c, "idle") /\ reply' = [reply EXCEPT ![c] = "done"]
       \/ Goto(c, "unheard") /\ UNCHANGED reply
-----------------------------------------------------------------------------
(* Requests *)

Send(c, r) ==
    /\ pc[c] = "idle"
    /\ req' = [req EXCEPT ![c] = r]
    /\ reply' = [reply EXCEPT ![c] = "none"]
    /\ Goto(c, FirstStatement[r.op])
    /\ UNCHANGED <<tables, holder>>

IsNew(w) ==
    /\ \A f \in Finding : \A i \in DOMAIN retests[f] : retests[f][i].work # w
    /\ \A c \in Caller : req[c].work # w

SendCreate(c) ==
    \E f \in Finding :
        /\ finding[f] = None
        /\ \A d \in Caller : req[d].op = "create" => req[d].finding # f
        /\ Send(c, [NoRequest EXCEPT !.op = "create", !.finding = f])

SendTriage(c) ==
    \E f \in Finding : Send(c, [NoRequest EXCEPT !.op = "triage", !.finding = f])

\* The round is the one the caller believes comes next: of an older answer too.
SendRetest(c) ==
    \E f \in Finding, w \in Work, n \in 1 .. MaxRound, s \in Result :
        /\ IsNew(w)
        /\ Send(c, [NoRequest EXCEPT !.op = "retest", !.finding = f, !.work = w,
                                     !.round = n, !.result = s])

SendAssets(c) ==
    \E f \in Finding, A \in SUBSET Asset :
        Send(c, [NoRequest EXCEPT !.op = "assets", !.finding = f, !.assets = A])

\* The same request again: a retest or a triage whose answer was lost.
Repeat(c) ==
    /\ pc[c] = "unheard"
    /\ req[c].op # "create"
    /\ Goto(c, FirstStatement[req[c].op])
    /\ UNCHANGED <<tables, holder, req, reply>>

GiveUp(c) ==
    /\ pc[c] = "unheard"
    /\ Goto(c, "idle")
    /\ UNCHANGED <<tables, holder, req, reply>>

\* Another transaction adds an asset to the engagement.
AddAsset ==
    \E a \in Asset \ (Foreign \cup asset) :
        /\ asset' = asset \cup {a}
        /\ UNCHANGED <<finding, retests, links, holder, pc, req, reply>>
-----------------------------------------------------------------------------
(* The first statements *)

\* INSERT INTO findings: nobody else knows the row yet.
InsertFinding(c) ==
    /\ pc[c] = "insert finding"
    /\ Goto(c, "commit")
    /\ UNCHANGED <<tables, holder, req, reply>>

\* Mutant: a finding that was retested is confirmed and opened again.
ConfirmAgain(c) ==
    /\ pc[c] = "confirm"
    /\ RowIsFree(c)
    /\ IF finding[req[c].finding] # None
       THEN TakeRow(c) /\ Goto(c, "commit") /\ UNCHANGED <<tables, req, reply>>
       ELSE NoRow(c)

\* UPDATE ... WHERE validation_state = 'new'
Confirm(c) ==
    /\ pc[c] = "confirm"
    /\ RowIsFree(c)
    /\ IF finding[req[c].finding] = "new"
       THEN TakeRow(c) /\ Goto(c, "commit") /\ UNCHANGED <<tables, req, reply>>
       ELSE NoRow(c)

\* UPDATE ... WHERE validation_state = 'confirmed' AND remediation_state = 'open'
Advance(c) ==
    /\ pc[c] = "advance"
    /\ RowIsFree(c)
    /\ IF finding[req[c].finding] = "open"
       THEN TakeRow(c) /\ Goto(c, "read history") /\ UNCHANGED <<tables, req, reply>>
       ELSE NoRow(c)

\* Mutant: the round is counted, and not compared with the caller's.
AnyRound(c, next) == TRUE

IsNext(c, next) == req[c].round = next

\* SELECT coalesce(max(round_number), 0) + 1
ReadHistory(c) ==
    /\ pc[c] = "read history"
    /\ IF IsNext(c, Len(retests[req[c].finding]) + 1)
       THEN Goto(c, "commit") /\ UNCHANGED <<tables, holder, req, reply>>
       ELSE Refuse(c, "invalid_state")

\* Mutant: the finding is read, not locked.
ReadFinding(c) == UNCHANGED holder

\* FOR UPDATE
LockRow(c) == TakeRow(c)

LockFinding(c) ==
    /\ pc[c] = "lock finding"
    /\ RowIsFree(c)
    /\ IF finding[req[c].finding] # None
       THEN LockRow(c) /\ Goto(c, "clear links") /\ UNCHANGED <<tables, req, reply>>
       ELSE NoRow(c)

\* DELETE FROM finding_assets: the links this statement sees.
ClearLinks(c) ==
    /\ pc[c] = "clear links"
    /\ req' = [req EXCEPT ![c].cleared = links[req[c].finding]]
    /\ Goto(c, "insert links")
    /\ UNCHANGED <<tables, holder, reply>>

\* INSERT ... SELECT ... JOIN assets; every requested asset has to be linked.
InsertLinks(c) ==
    /\ pc[c] = "insert links"
    /\ IF req[c].assets \subseteq asset
       THEN Goto(c, "commit") /\ UNCHANGED <<tables, holder, req, reply>>
       ELSE Refuse(c, "not_found")
-----------------------------------------------------------------------------
(* The last statements and the commit *)

CommitCreate(c, f) ==
    /\ finding' = [finding EXCEPT ![f] = "new"]
    /\ UNCHANGED <<retests, links>>

CommitTriage(c, f) ==
    /\ finding' = [finding EXCEPT ![f] = "open"]
    /\ UNCHANGED <<retests, links>>

\* Mutant: the round is recorded, the finding keeps its state.
RecordOnly(c, f) ==
    /\ retests' = [retests EXCEPT ![f] = Append(@, [work |-> req[c].work, result |-> req[c].result])]
    /\ UNCHANGED <<finding, links>>

\* The round and the state it produced.
CommitRetest(c, f) ==
    /\ retests' = [retests EXCEPT ![f] = Append(@, [work |-> req[c].work, result |-> req[c].result])]
    /\ finding' = [finding EXCEPT ![f] = req[c].result]
    /\ UNCHANGED links

CommitAssets(c, f) ==
    /\ links' = [links EXCEPT ![f] = (@ \ req[c].cleared) \cup req[c].assets]
    /\ UNCHANGED <<finding, retests>>

\* The audit event and the commit.
Commit(c) ==
    /\ pc[c] = "commit"
    /\ CASE req[c].op = "create" -> CommitCreate(c, req[c].finding)
         [] req[c].op = "triage" -> CommitTriage(c, req[c].finding)
         [] req[c].op = "retest" -> CommitRetest(c, req[c].finding)
         [] req[c].op = "assets" -> CommitAssets(c, req[c].finding)
    /\ UNCHANGED asset
    /\ Answered(c)

\* A statement fails or the caller hangs up: the transaction is rolled back.
Abandon(c) ==
    /\ pc[c] \in Statements
    /\ Goto(c, "unheard")
    /\ Release(c)
    /\ UNCHANGED <<tables, req, reply>>
-----------------------------------------------------------------------------
Step(c) ==
    \/ InsertFinding(c) \/ Confirm(c) \/ Advance(c) \/ ReadHistory(c)
    \/ LockFinding(c) \/ ClearLinks(c) \/ InsertLinks(c) \/ Commit(c)

Next ==
    \/ AddAsset
    \/ \E c \in Caller :
          \/ SendCreate(c) \/ SendTriage(c) \/ SendRetest(c) \/ SendAssets(c)
          \/ Repeat(c) \/ GiveUp(c)
          \/ Step(c) \/ Abandon(c)

Spec == Init /\ [][Next]_vars
-----------------------------------------------------------------------------
(* Properties *)

\* The state of a finding is the one its recorded rounds produced, and no round
\* follows the one that closed it (RecordRetest: "the state a reader sees is
\* always the one the recorded history produced").
StateIsHistory ==
    \A f \in Finding :
        /\ finding[f] \in {None, "new"} => retests[f] = <<>>
        /\ retests[f] # <<>> => finding[f] = Last(retests[f]).result
        /\ \A i \in DOMAIN retests[f] : i < Len(retests[f]) => retests[f][i].result = "open"

\* A retest that was carried out once is recorded once, however often its
\* request is repeated and whoever else retests in the meantime (RecordRetest:
\* "a replayed request is refused instead of appending a second round for the
\* same work").
WorkRecordedOnce ==
    \A f, g \in Finding : \A i \in DOMAIN retests[f], j \in DOMAIN retests[g] :
        retests[f][i].work = retests[g][j].work => f = g /\ i = j

\* Whoever was told that a round was recorded finds it under the number they
\* named, with their result.
RoundsAsAnswered ==
    \A c \in Caller :
        LET f == req[c].finding IN
        req[c].op = "retest" /\ reply[c] = "done" =>
            /\ req[c].round <= Len(retests[f])
            /\ retests[f][req[c].round] = [work |-> req[c].work, result |-> req[c].result]

\* A finding is never linked to a mixture: each change of its assets leaves the
\* whole set that one caller asked for.
AssetSetIsOneCallers ==
    [][\A f \in Finding :
        links'[f] # links[f] =>
            \E c \in Caller : req[c].op = "assets" /\ req[c].finding = f
                              /\ links'[f] = req[c].assets]_vars
=============================================================================
