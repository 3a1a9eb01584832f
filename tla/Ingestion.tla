----------------------------- MODULE Ingestion ------------------------------
(***************************************************************************)
(* The assets of one engagement: typed in by an operator (CreateAsset), or *)
(* imported from the artifact of a tool (httpapi/ingestions.go,            *)
(* RecordIngestion).                                                       *)
(*                                                                         *)
(* Two unique indexes decide every race: one on the names of assets, one   *)
(* on the digests of artifacts.  A transaction that inserts an entry which *)
(* another one has inserted and not committed waits to see how that ends.  *)
(* An import inserts its names one by one, in the order of the scan, so it *)
(* waits with some of them already inserted.                               *)
(***************************************************************************)
EXTENDS Integers, Sequences, SequencesExt

CONSTANTS
    Name,       \* names of assets
    Artifact,   \* files, as their digests tell them apart
    NamesOf,    \* the distinct names of an artifact, in the order of the scan
    Ingestion,  \* identities of tool_ingestions rows
    Request,    \* requests served at the same time
    None        \* "no value"

ASSUME NamesOfAssumption ==
    /\ NamesOf \in [Artifact -> Seq(Name)]
    /\ \A a \in Artifact : IsInjective(NamesOf[a])
ASSUME DistinctAssumption ==
    /\ None \notin Name \cup Artifact \cup Ingestion
    /\ "manual" \notin Ingestion \cup {None}

VARIABLES
    asset,      \* the source of each asset there is
    ingestions, \* the tool_ingestions table
    inserted,   \* the names each open transaction has inserted
    pc,         \* the statement each request comes to next
    req,        \* what each request is about
    reply       \* what was last answered to an upload

vars == <<asset, ingestions, inserted, pc, req, reply>>

Source == Ingestion \cup {"manual"}

Row == [id : Ingestion, artifact : Artifact, created : Nat, reused : Nat]

RequestData == [artifact : Artifact \cup {None}, id : Ingestion \cup {None},
                name : Name \cup {None}, read : Nat]
NoRequest == [artifact |-> None, id |-> None, name |-> None, read |-> 0]

\* 201 "created", or 409 "duplicate_artifact" and its "ingestionId".
Reply == [status : {"none", "created", "duplicate"}, artifact : Artifact \cup {None},
          id : Ingestion \cup {None}]
NoReply == [status |-> "none", artifact |-> None, id |-> None]

ImportSteps == {"look up", "insert names", "insert ingestion", "audit ingestion"}
CreateSteps == {"insert asset", "audit asset"}

TypeOK ==
    /\ asset \in [Name -> Source \cup {None}]
    /\ ingestions \subseteq Row
    /\ inserted \in [Request -> SUBSET Name]
    /\ pc \in [Request -> {"idle"} \cup ImportSteps \cup CreateSteps]
    /\ req \in [Request -> RequestData]
    /\ reply \in [Request -> Reply]

Init ==
    /\ asset = [n \in Name |-> None]
    /\ ingestions = {}
    /\ inserted = [q \in Request |-> {}]
    /\ pc = [q \in Request |-> "idle"]
    /\ req = [q \in Request |-> NoRequest]
    /\ reply = [q \in Request |-> NoReply]
-----------------------------------------------------------------------------
tables == <<asset, ingestions>>

Goto(q, label) == pc' = [pc EXCEPT ![q] = label]

\* Mutant: the transaction is left open.
EndWithoutRollback(q) ==
    /\ Goto(q, "idle")
    /\ req' = [req EXCEPT ![q] = NoRequest]
    /\ UNCHANGED inserted

\* The transaction ends: what it inserted is in the tables by now, or gone.
End(q) ==
    /\ Goto(q, "idle")
    /\ req' = [req EXCEPT ![q] = NoRequest]
    /\ inserted' = [inserted EXCEPT ![q] = {}]

Answer(q, status, id) ==
    reply' = [reply EXCEPT ![q] =
                 [status |-> status, artifact |-> req[q].artifact, id |-> id]]

\* The name the import q comes to.
NextName(q) == NamesOf[req[q].artifact][req[q].read + 1]

NoMoreNames(q) == req[q].read = Len(NamesOf[req[q].artifact])

\* Those who have n in the index, uncommitted.
Inserters(q, n) == {p \in Request \ {q} : n \in inserted[p]}

\* Mutant: no one waits for the digest.
NoOneRecording(q, a) == {}

\* Those who have the digest of a in tool_ingestions_artifact_key, uncommitted.
Recorders(q, a) ==
    {p \in Request \ {q} : pc[p] = "audit ingestion" /\ req[p].artifact = a}

\* The transactions q waits for.
Blockers(q) ==
    CASE pc[q] = "insert names" /\ ~ NoMoreNames(q) -> Inserters(q, NextName(q))
      [] pc[q] = "insert asset" -> Inserters(q, req[q].name)
      [] pc[q] = "insert ingestion" -> Recorders(q, req[q].artifact)
      [] OTHER -> {}

Earlier(a) == {i \in ingestions : i.artifact = a}
-----------------------------------------------------------------------------
(* recordIngestion and RecordIngestion *)

FreshId(i) ==
    /\ \A r \in ingestions : r.id # i
    /\ \A q \in Request : req[q].id # i

\* The artifact is read, parsed and hashed.
Upload(q) ==
    \E a \in Artifact, i \in Ingestion :
        /\ pc[q] = "idle"
        /\ FreshId(i)
        /\ req' = [req EXCEPT ![q] =
                      [artifact |-> a, id |-> i, name |-> None, read |-> 0]]
        /\ Goto(q, "look up")
        /\ reply' = [reply EXCEPT ![q] = NoReply]
        /\ UNCHANGED <<tables, inserted>>

LookUp(q) ==
    LET a == req[q].artifact IN
    /\ pc[q] = "look up"
    /\ IF Earlier(a) = {}
       THEN Goto(q, "insert names") /\ UNCHANGED <<inserted, req, reply>>
       ELSE /\ \E i \in Earlier(a) : Answer(q, "duplicate", i.id)
            /\ End(q)
    /\ UNCHANGED tables

\* INSERT ... ON CONFLICT DO NOTHING, one name.
InsertName(q) ==
    LET n == NextName(q) IN
    /\ pc[q] = "insert names"
    /\ ~ NoMoreNames(q)
    /\ Blockers(q) = {}
    /\ inserted' = IF asset[n] = None
                   THEN [inserted EXCEPT ![q] = @ \cup {n}]
                   ELSE inserted
    /\ req' = [req EXCEPT ![q].read = @ + 1]
    /\ UNCHANGED <<tables, pc, reply>>

NamesInserted(q) ==
    /\ pc[q] = "insert names"
    /\ NoMoreNames(q)
    /\ Goto(q, "insert ingestion")
    /\ UNCHANGED <<tables, inserted, req, reply>>

\* Mutant: tool_ingestions has no key on the digest.
NoArtifactKey(a) == TRUE

\* What tool_ingestions_artifact_key lets in.
FirstOfItsArtifact(a) == Earlier(a) = {}

InsertIngestion(q) ==
    LET a == req[q].artifact IN
    /\ pc[q] = "insert ingestion"
    /\ Blockers(q) = {}
    /\ IF FirstOfItsArtifact(a)
       THEN Goto(q, "audit ingestion") /\ UNCHANGED <<inserted, req, reply>>
       ELSE Answer(q, "duplicate", None) /\ End(q)
    /\ UNCHANGED tables

\* Mutant: ON CONFLICT DO UPDATE, an asset belongs to its last import.
LastImported(q) ==
    [n \in Name |-> IF n \in ToSet(NamesOf[req[q].artifact]) THEN req[q].id ELSE asset[n]]

\* The inventory with what the import q has inserted.
Imported(q) == [n \in Name |-> IF n \in inserted[q] THEN req[q].id ELSE asset[n]]

NewRow(q) ==
    LET a == req[q].artifact
        created == Cardinality(inserted[q])
    IN  [id |-> req[q].id, artifact |-> a, created |-> created,
         reused |-> Len(NamesOf[a]) - created]

\* Mutant: the error of the commit is not looked at.
CommitUnchecked(q) ==
    /\ pc[q] = "audit ingestion"
    /\ \/ asset' = Imported(q) /\ ingestions' = ingestions \cup {NewRow(q)}
       \/ UNCHANGED tables
    /\ Answer(q, "created", req[q].id)
    /\ End(q)

\* The audit events and the commit, whose answer may be lost on its way.
AuditIngestion(q) ==
    /\ pc[q] = "audit ingestion"
    /\ asset' = Imported(q)
    /\ ingestions' = ingestions \cup {NewRow(q)}
    /\ Answer(q, "created", req[q].id) \/ UNCHANGED reply
    /\ End(q)
-----------------------------------------------------------------------------
(* CreateAsset *)

Create(q) ==
    \E n \in Name :
        /\ pc[q] = "idle"
        /\ req' = [req EXCEPT ![q].name = n]
        /\ Goto(q, "insert asset")
        /\ reply' = [reply EXCEPT ![q] = NoReply]
        /\ UNCHANGED <<tables, inserted>>

InsertAsset(q) ==
    LET n == req[q].name IN
    /\ pc[q] = "insert asset"
    /\ Blockers(q) = {}
    /\ IF asset[n] = None
       THEN /\ inserted' = [inserted EXCEPT ![q] = {n}]
            /\ Goto(q, "audit asset")
            /\ UNCHANGED req
       ELSE End(q)
    /\ UNCHANGED <<tables, reply>>

AuditAsset(q) ==
    /\ pc[q] = "audit asset"
    /\ asset' = [asset EXCEPT ![req[q].name] = "manual"]
    /\ End(q)
    /\ UNCHANGED <<ingestions, reply>>
-----------------------------------------------------------------------------
\* A statement fails, the caller hangs up, or PostgreSQL chooses q as the victim
\* of a deadlock.
Abandon(q) ==
    /\ pc[q] # "idle"
    /\ End(q)
    /\ UNCHANGED <<tables, reply>>

Step(q) ==
    \/ LookUp(q) \/ InsertName(q) \/ NamesInserted(q)
    \/ InsertIngestion(q) \/ AuditIngestion(q)
    \/ InsertAsset(q) \/ AuditAsset(q)

Next == \E q \in Request : Upload(q) \/ Create(q) \/ Step(q) \/ Abandon(q)

Spec == Init /\ [][Next]_vars

\* These requests wait for each other and for nobody else.
InDeadlock(q) ==
    \E D \in SUBSET Request : q \in D /\ \A p \in D : Blockers(p) \cap D # {}

\* PostgreSQL serves those who wait in turn and breaks deadlocks.
Fairness ==
    \A q \in Request :
        /\ SF_vars(Step(q))
        /\ WF_vars(InDeadlock(q) /\ Abandon(q))

FairSpec == Spec /\ Fairness
-----------------------------------------------------------------------------
(* Properties *)

\* However many uploads of an artifact overlap, the engagement has it once
\* (migration 00014: "The same artifact is imported at most once into one
\* engagement").
ImportedOnce == \A i, j \in ingestions : i.artifact = j.artifact => i = j

\* The counts of an ingestion are those of its assets, today as when it was
\* recorded: imports that meet on a name count it once as created, and nothing
\* takes an asset from the import that created it (RecordIngestion: "reused as
\* it stands, never renamed or rewritten").
CountsTellTheInventory ==
    /\ \A i \in ingestions :
          LET names == ToSet(NamesOf[i.artifact]) IN
          /\ i.created = Cardinality({n \in Name : asset[n] = i.id})
          /\ i.created + i.reused = Cardinality(names)
          /\ \A n \in names : asset[n] # None
    /\ \A n \in Name :
          asset[n] \in Ingestion =>
              \E i \in ingestions :
                  i.id = asset[n] /\ n \in ToSet(NamesOf[i.artifact])

\* Whoever is told that an artifact was imported, now or before, finds it
\* imported: no upload is refused for one that is then rolled back.
AnswersAreTrue ==
    \A q \in Request :
        reply[q].status # "none" =>
            \E i \in ingestions :
                /\ i.artifact = reply[q].artifact
                /\ reply[q].id \in {i.id, None}

\* Every request ends, even when imports that list the same names in different
\* orders wait for each other.
EveryRequestEnds == \A q \in Request : pc[q] # "idle" ~> pc[q] = "idle"

\* A repeated upload is told which ingestion it repeats (docs/decisions/0003:
\* "responde 409 duplicate_artifact com o identificador da ingestao anterior").
DuplicateIsNamed ==
    \A q \in Request : reply[q].status = "duplicate" => reply[q].id # None
=============================================================================
