-------------------------- MODULE Ingestion_proofs --------------------------
(***************************************************************************)
(* Theorems about Ingestion, for any number of names, artifacts, uploads   *)
(* and requests.  The inductive invariant says that what open transactions *)
(* have inserted is in no two of them, nor in the inventory; that an       *)
(* import has met every name it has read; that the identity of an import   *)
(* is in no row and on no asset before it commits; and that whoever has    *)
(* recorded an artifact is the only one, and the first.                    *)
(***************************************************************************)
EXTENDS Ingestion, FiniteSetTheorems, TLAPS

\* What a request is about, at the statements that use it.
PlaceInv(q) ==
    /\ pc[q] \in ImportSteps =>
           /\ req[q].artifact \in Artifact /\ req[q].id \in Ingestion
           /\ req[q].read <= Len(NamesOf[req[q].artifact])
    /\ pc[q] \in {"insert ingestion", "audit ingestion"} => NoMoreNames(q)
    /\ pc[q] \in CreateSteps => req[q].name \in Name
    /\ pc[q] \in {"idle"} \cup CreateSteps => req[q].id = None
    /\ pc[q] \in {"idle", "look up", "insert asset"} => inserted[q] = {}
    /\ pc[q] = "audit asset" => inserted[q] = {req[q].name}

\* What a request has inserted is not in the inventory, and what an import has
\* read is there or inserted.
InsertedInv(q) ==
    /\ \A n \in inserted[q] : asset[n] = None
    /\ pc[q] \in ImportSteps =>
           LET names == NamesOf[req[q].artifact] IN
           /\ \A n \in inserted[q] : \E k \in 1 .. req[q].read : n = names[k]
           /\ \A k \in 1 .. req[q].read : names[k] \in inserted[q] \/ asset[names[k]] # None

\* The identity of a request is in no row yet, and neither is the artifact it
\* has recorded.
RowInv(q) ==
    /\ \A i \in ingestions : i.id # req[q].id
    /\ pc[q] = "audit ingestion" => Earlier(req[q].artifact) = {}

RequestInv(q) == PlaceInv(q) /\ InsertedInv(q) /\ RowInv(q)

\* What two requests cannot share.
ApartInv ==
    \A p, q \in Request : p # q =>
        /\ inserted[p] \cap inserted[q] = {}
        /\ req[p].id = req[q].id => req[p].id = None
        /\ pc[p] = "audit ingestion" /\ pc[q] = "audit ingestion" =>
               req[p].artifact # req[q].artifact

IInv ==
    /\ TypeOK
    /\ \A q \in Request : RequestInv(q)
    /\ ApartInv
    /\ ImportedOnce
    /\ CountsTellTheInventory
    /\ AnswersAreTrue
-----------------------------------------------------------------------------
(* Names and their numbers *)

LEMMA NothingRead == 1 .. 0 = {} /\ \A l \in Nat : 0 <= l
OBVIOUS

LEMMA TheRest ==
    ASSUME NEW l \in Nat, NEW c \in Nat, c <= l
    PROVE  l - c \in Nat /\ c + (l - c) = l
OBVIOUS

\* The names of an artifact are as many as it lists.
LEMMA NamesCount ==
    ASSUME NEW a \in Artifact
    PROVE  /\ NamesOf[a] \in Seq(Name) /\ Len(NamesOf[a]) \in Nat
           /\ \A k \in 1 .. Len(NamesOf[a]) : NamesOf[a][k] \in ToSet(NamesOf[a])
           /\ \A n \in ToSet(NamesOf[a]) : \E k \in 1 .. Len(NamesOf[a]) : n = NamesOf[a][k]
           /\ ToSet(NamesOf[a]) \subseteq Name
           /\ IsFiniteSet(ToSet(NamesOf[a]))
           /\ Cardinality(ToSet(NamesOf[a])) = Len(NamesOf[a])
<1> DEFINE names == NamesOf[a]
<1>1. names \in Seq(Name) /\ IsInjective(names)
    BY NamesOfAssumption
<1> HIDE DEF names
<1>2. Len(names) \in Nat /\ DOMAIN names = 1 .. Len(names)
    BY <1>1
<1>3. names \in [1 .. Len(names) -> ToSet(names)]
    BY <1>1, <1>2 DEF ToSet
<1>4. names \in Bijection(1 .. Len(names), ToSet(names))
    BY <1>1, <1>2, <1>3 DEF Bijection, Injection, Surjection, ToSet
<1>5. ExistsBijection(1 .. Len(names), ToSet(names))
    BY <1>4 DEF ExistsBijection
<1>6. IsFiniteSet(ToSet(names))
    BY <1>2, <1>5, FS_NatBijection
<1>7. Cardinality(ToSet(names)) = Len(names)
    BY <1>2, <1>5, FS_CountingElements
<1>8. /\ \A k \in 1 .. Len(names) : names[k] \in ToSet(names)
      /\ \A n \in ToSet(names) : \E k \in 1 .. Len(names) : n = names[k]
    BY <1>2, <1>3 DEF ToSet
<1>9. ToSet(names) \subseteq Name
    BY <1>1, <1>2 DEF ToSet
<1> QED
    BY <1>1, <1>2, <1>6, <1>7, <1>8, <1>9 DEF names

-----------------------------------------------------------------------------
(* What a step leaves to a request that does not take it *)

Labels == {"idle"} \cup ImportSteps \cup CreateSteps

LEMMA Types ==
    TypeOK <=>
        /\ asset \in [Name -> Source \cup {None}]
        /\ ingestions \subseteq Row
        /\ inserted \in [Request -> SUBSET Name]
        /\ pc \in [Request -> Labels]
        /\ req \in [Request -> RequestData]
        /\ reply \in [Request -> Reply]
BY DEF TypeOK, Labels

\* Nobody takes an asset from its source, a name that p has inserted, the
\* identity of p, or the artifact that p has recorded.
Frame(p) ==
    /\ pc'[p] = pc[p] /\ req'[p] = req[p] /\ inserted'[p] = inserted[p]
    /\ \A n \in Name : asset[n] # None => asset'[n] = asset[n]
    /\ \A n \in inserted[p] : asset[n] = None => asset'[n] = None
    /\ \A i \in ingestions' :
           i \in ingestions \/ (/\ i.id # req[p].id
                                /\ pc[p] = "audit ingestion" => i.artifact # req[p].artifact)

LEMMA FrameKeeps ==
    ASSUME IInv, NEW p \in Request, Frame(p)
    PROVE  RequestInv(p)'
<1>1. RequestInv(p) /\ pc'[p] = pc[p] /\ req'[p] = req[p] /\ inserted'[p] = inserted[p]
    BY DEF IInv, Frame
<1>2. PlaceInv(p)'
    BY <1>1 DEF RequestInv, PlaceInv, NoMoreNames
<1>3. \A n \in inserted'[p] : asset'[n] = None
    BY <1>1 DEF Frame, RequestInv, InsertedInv
<1>4. ASSUME pc[p] \in ImportSteps
      PROVE  LET names == NamesOf[req[p].artifact] IN
             /\ \A n \in inserted[p] : \E k \in 1 .. req[p].read : n = names[k]
             /\ \A k \in 1 .. req[p].read : names[k] \in inserted[p] \/ asset'[names[k]] # None
    <2>1. PICK names : names = NamesOf[req[p].artifact]
        OBVIOUS
    <2>2. req[p].artifact \in Artifact /\ req[p].read <= Len(names)
        BY <1>1, <1>4, <2>1 DEF RequestInv, PlaceInv
    <2>3. names \in Seq(Name) /\ req[p].read \in Nat
        BY <2>1, <2>2, NamesCount, Types DEF IInv, RequestData
    <2>4. \A k \in 1 .. req[p].read : names[k] \in Name
        BY <2>2, <2>3
    <2>5. /\ \A n \in inserted[p] : \E k \in 1 .. req[p].read : n = names[k]
          /\ \A k \in 1 .. req[p].read : names[k] \in inserted[p] \/ asset[names[k]] # None
        BY <1>1, <1>4, <2>1 DEF RequestInv, InsertedInv
    <2> QED
        BY <2>1, <2>4, <2>5 DEF Frame
<1>5. InsertedInv(p)'
    BY <1>1, <1>3, <1>4 DEF InsertedInv
<1>6. RowInv(p)'
    BY <1>1 DEF Frame, RequestInv, RowInv, Earlier
<1> QED
    BY <1>2, <1>5, <1>6 DEF RequestInv

\* A step of q alone.
StepOf(q, label) ==
    /\ pc' = [pc EXCEPT ![q] = label]
    /\ label \in Labels
    /\ req' \in [Request -> RequestData] /\ inserted' \in [Request -> SUBSET Name]
    /\ reply' \in [Request -> Reply]
    /\ \A p \in Request \ {q} :
           req'[p] = req[p] /\ inserted'[p] = inserted[p] /\ reply'[p] = reply[p]

LEMMA StepMoves ==
    ASSUME IInv, NEW q \in Request, NEW label, StepOf(q, label)
    PROVE  /\ pc' \in [Request -> Labels] /\ pc'[q] = label
           /\ \A p \in Request \ {q} : pc'[p] = pc[p]
BY Types DEF IInv, StepOf

\* After its step q still shares nothing with another.
ApartFrom(q) ==
    \A p \in Request \ {q} :
        /\ inserted'[q] \cap inserted[p] = {}
        /\ req'[q].id = req[p].id => req[p].id = None
        /\ pc'[q] = "audit ingestion" /\ pc[p] = "audit ingestion" =>
               req'[q].artifact # req[p].artifact

LEMMA ApartStep ==
    ASSUME IInv, NEW q \in Request, NEW label, StepOf(q, label), ApartFrom(q)
    PROVE  ApartInv'
<1> SUFFICES ASSUME NEW p \in Request, NEW r \in Request, p # r
             PROVE  /\ inserted'[p] \cap inserted'[r] = {}
                    /\ req'[p].id = req'[r].id => req'[p].id = None
                    /\ pc'[p] = "audit ingestion" /\ pc'[r] = "audit ingestion" =>
                           req'[p].artifact # req'[r].artifact
    BY DEF ApartInv
<1>1. \A g \in Request \ {q} :
          pc'[g] = pc[g] /\ req'[g] = req[g] /\ inserted'[g] = inserted[g]
    BY StepMoves DEF StepOf
<1>2. CASE p # q /\ r # q
    <2>1. /\ inserted[p] \cap inserted[r] = {}
          /\ req[p].id = req[r].id => req[p].id = None
          /\ pc[p] = "audit ingestion" /\ pc[r] = "audit ingestion" =>
                 req[p].artifact # req[r].artifact
        BY DEF IInv, ApartInv
    <2> QED
        BY <1>1, <1>2, <2>1
<1>3. CASE p = q
    BY <1>1, <1>3 DEF ApartFrom
<1>4. CASE r = q
    BY <1>1, <1>4 DEF ApartFrom
<1> QED
    BY <1>2, <1>3, <1>4

Told(q) ==
    reply[q].status # "none" =>
        \E i \in ingestions : i.artifact = reply[q].artifact /\ reply[q].id \in {i.id, None}

\* What is left to show of a step.
LEMMA StepKeeps ==
    ASSUME IInv, NEW q \in Request, NEW label, StepOf(q, label), ApartFrom(q),
           asset' \in [Name -> Source \cup {None}], ingestions' \subseteq Row,
           ingestions \subseteq ingestions',
           \A p \in Request \ {q} : Frame(p),
           RequestInv(q)', Told(q)', ImportedOnce', CountsTellTheInventory'
    PROVE  IInv'
<1>1. TypeOK'
    BY StepMoves DEF StepOf, TypeOK, Labels
<1>2. \A p \in Request : RequestInv(p)'
    BY FrameKeeps
<1>3. \A p \in Request : Told(p)'
    <2> SUFFICES ASSUME NEW p \in Request \ {q} PROVE Told(p)'
        OBVIOUS
    <2>1. Told(p) /\ reply'[p] = reply[p]
        BY DEF IInv, AnswersAreTrue, Told, StepOf
    <2> QED
        BY <2>1 DEF Told
<1>4. AnswersAreTrue'
    BY <1>3 DEF AnswersAreTrue, Told
<1> QED
    BY <1>1, <1>2, <1>4, ApartStep DEF IInv

\* One that leaves the tables alone.
LEMMA LocalStep ==
    ASSUME IInv, NEW q \in Request, NEW label, StepOf(q, label), ApartFrom(q),
           UNCHANGED tables, RequestInv(q)', Told(q)'
    PROVE  IInv'
<1>1. UNCHANGED <<asset, ingestions>>
    BY DEF tables
<1>2. asset' \in [Name -> Source \cup {None}] /\ ingestions' \subseteq Row
    BY <1>1, Types DEF IInv
<1>3. \A p \in Request \ {q} : Frame(p)
    BY <1>1, StepMoves DEF Frame, StepOf
<1>4. ImportedOnce' /\ CountsTellTheInventory'
    BY <1>1 DEF IInv, ImportedOnce, CountsTellTheInventory
<1> QED
    BY <1>1, <1>2, <1>3, <1>4, StepKeeps

\* Whoever has ended shares nothing and knows nothing.
LEMMA EndStep ==
    ASSUME IInv, NEW q \in Request, End(q), ingestions' \subseteq Row,
           reply' \in [Request -> Reply],
           \A p \in Request \ {q} : reply'[p] = reply[p]
    PROVE  StepOf(q, "idle") /\ ApartFrom(q) /\ RequestInv(q)'
<1>1. /\ pc' = [pc EXCEPT ![q] = "idle"]
      /\ req' = [req EXCEPT ![q] = NoRequest]
      /\ inserted' = [inserted EXCEPT ![q] = {}]
    BY DEF End, Goto
<1>2. NoRequest \in RequestData /\ NoRequest.id = None
    BY DEF NoRequest, RequestData
<1>3. StepOf(q, "idle")
    BY <1>1, <1>2, Types DEF IInv, StepOf, Labels
<1>4. pc'[q] = "idle" /\ req'[q] = NoRequest /\ inserted'[q] = {}
    BY <1>1, <1>3, StepMoves, Types DEF IInv
<1>5. ApartFrom(q)
    BY <1>2, <1>4 DEF ApartFrom
<1>6. PlaceInv(q)'
    BY <1>2, <1>4 DEF PlaceInv, ImportSteps, CreateSteps
<1>7. InsertedInv(q)'
    BY <1>4 DEF InsertedInv, ImportSteps
<1>8. RowInv(q)'
    BY <1>2, <1>4, DistinctAssumption DEF RowInv, Row
<1> QED
    BY <1>3, <1>5, <1>6, <1>7, <1>8 DEF RequestInv

\* What ends without a commit.
LEMMA EndKeeps ==
    ASSUME IInv, NEW q \in Request, End(q), UNCHANGED tables,
           reply' \in [Request -> Reply],
           \A p \in Request \ {q} : reply'[p] = reply[p],
           Told(q)'
    PROVE  IInv'
<1>1. ingestions' \subseteq Row
    BY Types DEF IInv, tables
<1> QED
    BY <1>1, EndStep, LocalStep

LEMMA RollBackKeeps ==
    ASSUME IInv, NEW q \in Request, End(q), UNCHANGED <<tables, reply>>
    PROVE  IInv'
<1>1. reply' \in [Request -> Reply]
    BY Types DEF IInv
<1>2. Told(q)'
    BY DEF IInv, AnswersAreTrue, Told, tables
<1> QED
    BY <1>1, <1>2, EndKeeps

\* The answer that an artifact has been imported.
LEMMA DuplicateKeeps ==
    ASSUME IInv, NEW q \in Request, NEW id \in Ingestion \cup {None},
           Answer(q, "duplicate", id), End(q), UNCHANGED tables,
           req[q].artifact \in Artifact,
           \E i \in ingestions : i.artifact = req[q].artifact /\ id \in {i.id, None}
    PROVE  IInv'
<1>1. PICK r : r = [status |-> "duplicate", artifact |-> req[q].artifact, id |-> id]
    OBVIOUS
<1>2. r \in Reply /\ r.artifact = req[q].artifact /\ r.id = id
    BY <1>1 DEF Reply
<1>3. reply' = [reply EXCEPT ![q] = r]
    BY <1>1 DEF Answer
<1>4. /\ reply' \in [Request -> Reply] /\ reply'[q] = r
      /\ \A p \in Request \ {q} : reply'[p] = reply[p]
    BY <1>2, <1>3, Types DEF IInv
<1>5. Told(q)'
    BY <1>2, <1>4 DEF Told, tables
<1> QED
    BY <1>4, <1>5, EndKeeps
-----------------------------------------------------------------------------
(* Requests *)

\* Who begins has inserted nothing, and an identity nobody has, if any.
LEMMA BeginKeeps ==
    ASSUME IInv, NEW q \in Request, NEW r \in RequestData,
           NEW label \in {"look up", "insert asset"},
           pc[q] = "idle", Goto(q, label), req' = [req EXCEPT ![q] = r],
           reply' = [reply EXCEPT ![q] = NoReply], UNCHANGED <<tables, inserted>>,
           label = "look up" => r.artifact \in Artifact /\ r.id \in Ingestion
                                /\ r.read = 0 /\ FreshId(r.id),
           label = "insert asset" => r.name \in Name /\ r.id = None
    PROVE  IInv'
<1>1. NoReply \in Reply /\ NoReply.status = "none"
    BY DEF NoReply, Reply
<1>2. StepOf(q, label)
    BY <1>1, Types DEF IInv, StepOf, Goto, Labels, ImportSteps, CreateSteps
<1>3. pc'[q] = label /\ req'[q] = r /\ reply'[q] = NoReply
    BY <1>2, StepMoves, Types DEF IInv
<1>4. inserted'[q] = {}
    BY DEF IInv, RequestInv, PlaceInv
<1>5. PlaceInv(q)'
    <2>1. CASE label = "look up"
        <3>1. PICK l \in Nat : l = Len(NamesOf[r.artifact])
            BY <2>1, NamesCount
        <3>2. r.read = 0
            BY <2>1
        <3>3. r.read <= l
            BY <3>2, NothingRead
        <3> QED
            BY <1>3, <1>4, <2>1, <3>1, <3>3 DEF PlaceInv, ImportSteps, CreateSteps
    <2>2. CASE label = "insert asset"
        BY <1>3, <1>4, <2>2 DEF PlaceInv, ImportSteps, CreateSteps
    <2> QED
        BY <2>1, <2>2
<1>6. InsertedInv(q)'
    <2>1. label = "look up" => 1 .. r.read = {}
        <3>1. label = "look up" => r.read = 0
            OBVIOUS
        <3> QED
            BY <3>1, NothingRead
    <2> QED
        BY <1>3, <1>4, <2>1 DEF InsertedInv, ImportSteps
<1>7. RowInv(q)'
    <2>1. CASE label = "look up"
        <3>1. ingestions' = ingestions /\ \A i \in ingestions : i.id # r.id
            BY <2>1 DEF FreshId, tables
        <3> QED
            BY <1>3, <2>1, <3>1 DEF RowInv
    <2>2. CASE label = "insert asset"
        <3>1. ingestions' = ingestions /\ \A i \in ingestions : i.id # None
            BY Types, DistinctAssumption DEF IInv, Row, tables
        <3> QED
            BY <1>3, <2>2, <3>1 DEF RowInv
    <2> QED
        BY <2>1, <2>2
<1>8. ApartFrom(q)
    <2>1. \A p \in Request : req[p].id = r.id => req[p].id = None
        BY DEF FreshId
    <2> QED
        BY <1>3, <1>4, <2>1 DEF ApartFrom
<1>9. Told(q)'
    BY <1>1, <1>3 DEF Told
<1> QED
    BY <1>2, <1>5, <1>6, <1>7, <1>8, <1>9, LocalStep DEF RequestInv

LEMMA UploadKeeps ==
    ASSUME IInv, NEW q \in Request, Upload(q)
    PROVE  IInv'
<1>1. PICK a \in Artifact, i \in Ingestion :
          /\ pc[q] = "idle" /\ FreshId(i)
          /\ req' = [req EXCEPT ![q] = [artifact |-> a, id |-> i, name |-> None, read |-> 0]]
          /\ Goto(q, "look up")
          /\ reply' = [reply EXCEPT ![q] = NoReply]
          /\ UNCHANGED <<tables, inserted>>
    BY DEF Upload
<1>2. PICK r : r = [artifact |-> a, id |-> i, name |-> None, read |-> 0]
    OBVIOUS
<1>3. r \in RequestData /\ r.artifact = a /\ r.id = i /\ r.read = 0
    BY <1>2 DEF RequestData
<1> QED
    BY <1>1, <1>2, <1>3, BeginKeeps

LEMMA CreateKeeps ==
    ASSUME IInv, NEW q \in Request, Create(q)
    PROVE  IInv'
<1>1. PICK n \in Name :
          /\ pc[q] = "idle" /\ req' = [req EXCEPT ![q] = [req[q] EXCEPT !.name = n]]
          /\ Goto(q, "insert asset")
          /\ reply' = [reply EXCEPT ![q] = NoReply]
          /\ UNCHANGED <<tables, inserted>>
    BY DEF Create
<1>2. PICK r : r = [req[q] EXCEPT !.name = n]
    OBVIOUS
<1>3. req[q] \in RequestData /\ req[q].id = None
    BY <1>1, Types DEF IInv, RequestInv, PlaceInv
<1>4. r \in RequestData /\ r.name = n /\ r.id = None
    BY <1>2, <1>3 DEF RequestData
<1> QED
    BY <1>1, <1>2, <1>4, BeginKeeps

\* What an import is about.
LEMMA ImportFacts ==
    ASSUME IInv, NEW q \in Request, pc[q] \in ImportSteps, NEW a, a = req[q].artifact
    PROVE  /\ a \in Artifact /\ req[q].id \in Ingestion /\ req[q] \in RequestData
           /\ req[q].read \in Nat /\ req[q].read <= Len(NamesOf[a])
           /\ NamesOf[a] \in Seq(Name) /\ Len(NamesOf[a]) \in Nat
           /\ \A n \in inserted[q] : \E k \in 1 .. req[q].read : n = NamesOf[a][k]
           /\ \A k \in 1 .. req[q].read :
                  NamesOf[a][k] \in inserted[q] \/ asset[NamesOf[a][k]] # None
<1>1. PlaceInv(q) /\ InsertedInv(q) /\ req[q] \in RequestData
    BY Types DEF IInv, RequestInv
<1>2. /\ a \in Artifact /\ req[q].id \in Ingestion /\ req[q].read <= Len(NamesOf[a])
    BY <1>1 DEF PlaceInv
<1>3. req[q].read \in Nat
    BY <1>1 DEF RequestData
<1>4. /\ \A n \in inserted[q] : \E k \in 1 .. req[q].read : n = NamesOf[a][k]
      /\ \A k \in 1 .. req[q].read :
             NamesOf[a][k] \in inserted[q] \/ asset[NamesOf[a][k]] # None
    BY <1>1 DEF InsertedInv
<1> QED
    BY <1>1, <1>2, <1>3, <1>4, NamesCount

\* A statement after which an import knows what it knew, and what the statement
\* has shown.
LEMMA MoveKeeps ==
    ASSUME IInv, NEW q \in Request, pc[q] \in ImportSteps,
           NEW label \in {"insert names", "insert ingestion", "audit ingestion"},
           Goto(q, label), UNCHANGED <<tables, inserted, req, reply>>,
           label # "insert names" => NoMoreNames(q),
           label = "audit ingestion" =>
               Earlier(req[q].artifact) = {} /\ Recorders(q, req[q].artifact) = {}
    PROVE  IInv'
<1>1. StepOf(q, label)
    BY Types DEF IInv, StepOf, Goto, Labels, ImportSteps
<1>2. pc'[q] = label
    BY <1>1, StepMoves
<1>3. RequestInv(q) /\ UNCHANGED <<asset, ingestions>>
    BY DEF IInv, tables
<1>4. PlaceInv(q)'
    BY <1>2, <1>3 DEF RequestInv, PlaceInv, NoMoreNames, ImportSteps, CreateSteps
<1>5. InsertedInv(q)'
    BY <1>2, <1>3 DEF RequestInv, InsertedInv, ImportSteps
<1>6. RowInv(q)'
    BY <1>2, <1>3 DEF RequestInv, RowInv, Earlier
<1>7. ApartFrom(q)
    <2> SUFFICES ASSUME NEW p \in Request \ {q}
                 PROVE  /\ inserted[q] \cap inserted[p] = {}
                        /\ req[q].id = req[p].id => req[p].id = None
                        /\ label = "audit ingestion" /\ pc[p] = "audit ingestion" =>
                               req[q].artifact # req[p].artifact
        BY <1>2 DEF ApartFrom
    <2>1. inserted[q] \cap inserted[p] = {} /\ (req[q].id = req[p].id => req[p].id = None)
        BY DEF IInv, ApartInv
    <2> QED
        BY <2>1 DEF Recorders
<1>8. Told(q)'
    BY <1>3 DEF IInv, AnswersAreTrue, Told
<1> QED
    BY <1>1, <1>4, <1>5, <1>6, <1>7, <1>8, LocalStep DEF RequestInv

LEMMA LookUpKeeps ==
    ASSUME IInv, NEW q \in Request, LookUp(q)
    PROVE  IInv'
<1>1. pc[q] = "look up" /\ pc[q] \in ImportSteps
    BY DEF LookUp, ImportSteps
<1>2. CASE Earlier(req[q].artifact) = {}
    BY <1>1, <1>2, MoveKeeps DEF LookUp
<1>3. CASE Earlier(req[q].artifact) # {}
    <2>1. PICK i \in Earlier(req[q].artifact) :
              Answer(q, "duplicate", i.id) /\ End(q) /\ UNCHANGED tables
        BY <1>3 DEF LookUp
    <2>2. i \in ingestions /\ i.artifact = req[q].artifact
        BY DEF Earlier
    <2>3. i.id \in Ingestion \cup {None}
        BY <2>2, Types DEF IInv, Row
    <2>4. req[q].artifact \in Artifact
        BY <1>1, ImportFacts
    <2>5. \E j \in ingestions : j.artifact = req[q].artifact /\ i.id \in {j.id, None}
        BY <2>2
    <2> QED
        BY <2>1, <2>3, <2>4, <2>5, DuplicateKeeps
<1> QED
    BY <1>2, <1>3

LEMMA NamesInsertedKeeps ==
    ASSUME IInv, NEW q \in Request, NamesInserted(q)
    PROVE  IInv'
BY MoveKeeps DEF NamesInserted, ImportSteps

LEMMA InsertIngestionKeeps ==
    ASSUME IInv, NEW q \in Request, InsertIngestion(q)
    PROVE  IInv'
<1>1. pc[q] = "insert ingestion" /\ pc[q] \in ImportSteps /\ NoMoreNames(q)
    BY DEF InsertIngestion, ImportSteps, IInv, RequestInv, PlaceInv
<1>2. CASE Earlier(req[q].artifact) = {}
    <2>1. /\ Blockers(q) = {} /\ Goto(q, "audit ingestion")
          /\ UNCHANGED <<tables, inserted, req, reply>>
        BY <1>2 DEF InsertIngestion, FirstOfItsArtifact
    <2>2. Recorders(q, req[q].artifact) = {}
        BY <1>1, <2>1 DEF Blockers
    <2> QED
        BY <1>1, <1>2, <2>1, <2>2, MoveKeeps
<1>3. CASE Earlier(req[q].artifact) # {}
    <2>1. Answer(q, "duplicate", None) /\ End(q) /\ UNCHANGED tables
        BY <1>3 DEF InsertIngestion, FirstOfItsArtifact
    <2>2. req[q].artifact \in Artifact
        BY <1>1, ImportFacts
    <2>3. \E i \in ingestions : i.artifact = req[q].artifact /\ None \in {i.id, None}
        BY <1>3 DEF Earlier
    <2> QED
        BY <2>1, <2>2, <2>3, DuplicateKeeps
<1> QED
    BY <1>2, <1>3

\* One more name: it is in the inventory, or nobody else has inserted it.
LEMMA InsertNameKeeps ==
    ASSUME IInv, NEW q \in Request, InsertName(q)
    PROVE  IInv'
<1>1. PICK a, k, n : a = req[q].artifact /\ k = req[q].read + 1 /\ n = NamesOf[a][k]
    OBVIOUS
<1>2. /\ pc[q] = "insert names" /\ ~ NoMoreNames(q) /\ Blockers(q) = {}
      /\ inserted' = IF asset[n] = None
                     THEN [inserted EXCEPT ![q] = inserted[q] \cup {n}] ELSE inserted
      /\ req' = [req EXCEPT ![q] = [req[q] EXCEPT !.read = req[q].read + 1]]
      /\ UNCHANGED <<tables, pc, reply>>
    BY <1>1 DEF InsertName, NextName
<1>3. /\ a \in Artifact /\ req[q].id \in Ingestion /\ req[q] \in RequestData
      /\ req[q].read \in Nat /\ req[q].read <= Len(NamesOf[a])
      /\ NamesOf[a] \in Seq(Name) /\ Len(NamesOf[a]) \in Nat
      /\ \A m \in inserted[q] : \E j \in 1 .. req[q].read : m = NamesOf[a][j]
      /\ \A j \in 1 .. req[q].read :
             NamesOf[a][j] \in inserted[q] \/ asset[NamesOf[a][j]] # None
    <2>1. pc[q] \in ImportSteps
        BY <1>2 DEF ImportSteps
    <2> QED
        BY <1>1, <2>1, ImportFacts
<1>4. k \in 1 .. Len(NamesOf[a]) /\ n \in Name
    <2>1. req[q].read # Len(NamesOf[a])
        BY <1>1, <1>2 DEF NoMoreNames
    <2>2. k \in 1 .. Len(NamesOf[a])
        BY <1>1, <1>3, <2>1
    <2> QED
        BY <1>1, <1>3, <2>2
<1>5. \A p \in Request \ {q} : n \notin inserted[p]
    <2>1. Inserters(q, NextName(q)) = {}
        BY <1>2 DEF Blockers
    <2> QED
        BY <1>1, <2>1 DEF Inserters, NextName
<1>6. PICK r : r = [req[q] EXCEPT !.read = req[q].read + 1]
    OBVIOUS
<1>7. r \in RequestData /\ r.artifact = a /\ r.id = req[q].id /\ r.read = k
    BY <1>1, <1>3, <1>6 DEF RequestData
<1>8. PICK S : S = IF asset[n] = None THEN inserted[q] \cup {n} ELSE inserted[q]
    OBVIOUS
<1>9. inserted[q] \subseteq S /\ S \subseteq inserted[q] \cup {n} /\ S \subseteq Name
    BY <1>4, <1>8, Types DEF IInv
<1>10. inserted' = [inserted EXCEPT ![q] = S]
    BY <1>2, <1>8, Types DEF IInv
<1>11. StepOf(q, "insert names")
    BY <1>2, <1>6, <1>7, <1>9, <1>10, Types DEF IInv, StepOf, Labels, ImportSteps
<1>12. pc'[q] = "insert names" /\ req'[q] = r /\ inserted'[q] = S
    BY <1>2, <1>6, <1>10, Types DEF IInv
<1>13. UNCHANGED <<asset, ingestions>> /\ RequestInv(q)
    BY <1>2 DEF tables, IInv
<1>14. PlaceInv(q)'
    <2>1. k <= Len(NamesOf[a])
        BY <1>3, <1>4
    <2> QED
        BY <1>3, <1>7, <1>12, <2>1 DEF PlaceInv, ImportSteps, CreateSteps
<1>15. InsertedInv(q)'
    <2>1. \A m \in S : asset[m] = None
        BY <1>8, <1>13 DEF RequestInv, InsertedInv
    <2>2. \A m \in S : \E j \in 1 .. k : m = NamesOf[a][j]
        BY <1>1, <1>3, <1>9
    <2>3. \A j \in 1 .. k : NamesOf[a][j] \in S \/ asset[NamesOf[a][j]] # None
        BY <1>1, <1>3, <1>8, <1>9
    <2> QED
        BY <1>7, <1>12, <1>13, <2>1, <2>2, <2>3 DEF InsertedInv
<1>16. RowInv(q)'
    BY <1>7, <1>12, <1>13 DEF RequestInv, RowInv
<1>17. ApartFrom(q)
    <2> SUFFICES ASSUME NEW p \in Request \ {q}
                 PROVE  S \cap inserted[p] = {} /\ (r.id = req[p].id => req[p].id = None)
        BY <1>12 DEF ApartFrom
    <2>1. inserted[q] \cap inserted[p] = {} /\ (req[q].id = req[p].id => req[p].id = None)
        BY DEF IInv, ApartInv
    <2> QED
        BY <1>5, <1>7, <1>9, <2>1
<1>18. Told(q)'
    BY <1>2, <1>13 DEF IInv, AnswersAreTrue, Told
<1> QED
    BY <1>2, <1>11, <1>14, <1>15, <1>16, <1>17, <1>18, LocalStep DEF RequestInv

\* A name that an operator types is inserted as an import inserts it.
LEMMA InsertAssetKeeps ==
    ASSUME IInv, NEW q \in Request, InsertAsset(q)
    PROVE  IInv'
<1>1. CASE End(q)
    BY <1>1, RollBackKeeps DEF InsertAsset
<1>2. CASE ~ End(q)
    <2>1. PICK n : n = req[q].name
        OBVIOUS
    <2>2. /\ pc[q] = "insert asset" /\ Blockers(q) = {} /\ asset[n] = None
          /\ inserted' = [inserted EXCEPT ![q] = {n}]
          /\ Goto(q, "audit asset") /\ UNCHANGED <<tables, req, reply>>
        BY <1>2, <2>1 DEF InsertAsset
    <2>3. RequestInv(q) /\ n \in Name /\ req[q].id = None
        BY <2>1, <2>2 DEF IInv, RequestInv, PlaceInv, CreateSteps
    <2>4. StepOf(q, "audit asset")
        BY <2>2, <2>3, Types DEF IInv, StepOf, Goto, Labels, CreateSteps
    <2>5. /\ pc'[q] = "audit asset" /\ req'[q] = req[q] /\ inserted'[q] = {n}
          /\ UNCHANGED <<asset, ingestions>>
        BY <2>2, <2>4, StepMoves, Types DEF IInv, tables
    <2>6. PlaceInv(q)'
        BY <2>1, <2>3, <2>5 DEF PlaceInv, ImportSteps, CreateSteps
    <2>7. InsertedInv(q)'
        BY <2>2, <2>5 DEF InsertedInv, ImportSteps
    <2>8. RowInv(q)'
        BY <2>3, <2>5 DEF RequestInv, RowInv
    <2>9. ApartFrom(q)
        <3>1. \A p \in Request \ {q} : n \notin inserted[p]
            BY <2>1, <2>2 DEF Blockers, Inserters
        <3>2. \A p \in Request \ {q} : req[q].id = req[p].id => req[p].id = None
            BY DEF IInv, ApartInv
        <3> QED
            BY <2>5, <3>1, <3>2 DEF ApartFrom
    <2>10. Told(q)'
        BY <2>2, <2>5 DEF IInv, AnswersAreTrue, Told
    <2> QED
        BY <2>2, <2>4, <2>6, <2>7, <2>8, <2>9, <2>10, LocalStep DEF RequestInv
<1> QED
    BY <1>1, <1>2
-----------------------------------------------------------------------------
(* The commits *)

\* A row's counts, and the assets that are its.
CountsOf(i) ==
    LET names == ToSet(NamesOf[i.artifact]) IN
    /\ i.created = Cardinality({n \in Name : asset[n] = i.id})
    /\ i.created + i.reused = Cardinality(names)
    /\ \A n \in names : asset[n] # None

SourceOf(n) ==
    asset[n] \in Ingestion =>
        \E i \in ingestions : i.id = asset[n] /\ n \in ToSet(NamesOf[i.artifact])

LEMMA CountsSplit ==
    /\ CountsTellTheInventory <=>
           (\A i \in ingestions : CountsOf(i)) /\ (\A n \in Name : SourceOf(n))
    /\ CountsTellTheInventory' <=>
           (\A i \in ingestions' : CountsOf(i)') /\ (\A n \in Name : SourceOf(n)')
BY DEF CountsTellTheInventory, CountsOf, SourceOf

\* A commit adds assets, of a source that no row names.
LEMMA RowsStayTrue ==
    ASSUME IInv, NEW source \in Source, NEW S \in SUBSET Name,
           \A i \in ingestions : i.id # source,
           \A n \in S : asset[n] = None,
           asset' = [n \in Name |-> IF n \in S THEN source ELSE asset[n]],
           NEW i \in ingestions
    PROVE  CountsOf(i)'
<1>1. CountsOf(i) /\ i \in Row
    BY CountsSplit, Types DEF IInv
<1>2. i.id # None /\ i.id # source /\ source # None
    BY <1>1, DistinctAssumption DEF Row, Source
<1>3. {n \in Name : asset'[n] = i.id} = {n \in Name : asset[n] = i.id}
    BY <1>2
<1>4. ToSet(NamesOf[i.artifact]) \subseteq Name
    BY <1>1, NamesCount DEF Row
<1>5. \A n \in ToSet(NamesOf[i.artifact]) : asset'[n] # None
    BY <1>1, <1>2, <1>4 DEF CountsOf
<1> QED
    BY <1>1, <1>3, <1>5 DEF CountsOf

\* The inventory stays one, and its assets keep their sources.
LEMMA AssetsStay ==
    ASSUME IInv, NEW source \in Source, NEW S \in SUBSET Name,
           \A n \in S : asset[n] = None,
           asset' = [n \in Name |-> IF n \in S THEN source ELSE asset[n]]
    PROVE  /\ asset' \in [Name -> Source \cup {None}]
           /\ \A n \in Name : asset[n] # None => asset'[n] = asset[n]
           /\ \A n \in Name \ S : asset'[n] = asset[n]
           /\ \A n \in S : asset'[n] = source
BY Types DEF IInv

LEMMA AuditAssetKeeps ==
    ASSUME IInv, NEW q \in Request, AuditAsset(q)
    PROVE  IInv'
<1>1. PICK n, source : n = req[q].name /\ source = "manual"
    OBVIOUS
<1>2. /\ pc[q] = "audit asset" /\ End(q) /\ UNCHANGED <<ingestions, reply>>
      /\ asset' = [asset EXCEPT ![n] = source]
    BY <1>1 DEF AuditAsset
<1>3. n \in Name /\ inserted[q] = {n} /\ asset[n] = None
    BY <1>1, <1>2 DEF IInv, RequestInv, PlaceInv, InsertedInv, CreateSteps
<1>4. asset' = [m \in Name |-> IF m \in {n} THEN source ELSE asset[m]]
    BY <1>2, <1>3, Types DEF IInv
<1>5. source \in Source /\ source \notin Ingestion /\ \A i \in ingestions : i.id # source
    BY <1>1, Types, DistinctAssumption DEF IInv, Row, Source
<1>6. /\ asset' \in [Name -> Source \cup {None}]
      /\ \A m \in Name : asset[m] # None => asset'[m] = asset[m]
      /\ \A m \in Name \ {n} : asset'[m] = asset[m]
      /\ asset'[n] = source
    <2>1. PICK S \in SUBSET Name : S = {n}
        BY <1>3
    <2>2. /\ asset' = [m \in Name |-> IF m \in S THEN source ELSE asset[m]]
          /\ \A m \in S : asset[m] = None
        BY <1>3, <1>4, <2>1
    <2> QED
        BY <1>5, <2>1, <2>2, AssetsStay
<1>7. ASSUME NEW p \in Request \ {q} PROVE Frame(p)
    <2>1. inserted[p] \subseteq Name \ {n}
        BY <1>3, Types DEF IInv, ApartInv
    <2>2. /\ pc'[p] = pc[p] /\ req'[p] = req[p] /\ inserted'[p] = inserted[p]
        BY <1>2, Types DEF IInv, End, Goto
    <2> QED
        BY <1>2, <1>6, <2>1, <2>2 DEF Frame
<1>8. \A i \in ingestions' : CountsOf(i)'
    BY <1>2, <1>3, <1>4, <1>5, RowsStayTrue
<1>9. \A m \in Name : SourceOf(m)'
    BY <1>2, <1>5, <1>6, CountsSplit DEF IInv, SourceOf
<1>10. CountsTellTheInventory'
    BY <1>8, <1>9, CountsSplit
<1>11. ImportedOnce' /\ Told(q)'
    BY <1>2 DEF IInv, ImportedOnce, AnswersAreTrue, Told
<1>12. ingestions' \subseteq Row /\ ingestions \subseteq ingestions' /\ reply' \in [Request -> Reply]
    BY <1>2, Types DEF IInv
<1> QED
    BY <1>2, <1>6, <1>7, <1>10, <1>11, <1>12, EndStep, StepKeeps

\* A row counts every name of its artifact.
CountsAll(r) == r.created + r.reused = Cardinality(ToSet(NamesOf[r.artifact]))

\* The counts of the new row: what was inserted, and the rest of its names.
LEMMA NewRowFacts ==
    ASSUME IInv, NEW q \in Request, pc[q] = "audit ingestion"
    PROVE  \E a \in Artifact, r \in Row, S \in SUBSET Name :
               /\ a = req[q].artifact /\ r = NewRow(q) /\ S = inserted[q]
               /\ r.id = req[q].id /\ r.artifact = a
               /\ r.created = Cardinality(S)
               /\ CountsAll(r)
               /\ S \subseteq ToSet(NamesOf[a])
               /\ \A n \in ToSet(NamesOf[a]) : n \in S \/ asset[n] # None
<1> PICK a : a = req[q].artifact
    OBVIOUS
<1> PICK r : r = NewRow(q)
    OBVIOUS
<1>1. /\ a \in Artifact /\ req[q].id \in Ingestion /\ req[q].read = Len(NamesOf[a])
      /\ NamesOf[a] \in Seq(Name) /\ Len(NamesOf[a]) \in Nat
      /\ \A n \in inserted[q] : \E k \in 1 .. req[q].read : n = NamesOf[a][k]
      /\ \A k \in 1 .. req[q].read :
             NamesOf[a][k] \in inserted[q] \/ asset[NamesOf[a][k]] # None
    <2>1. pc[q] \in ImportSteps
        BY DEF ImportSteps
    <2>2. NoMoreNames(q)
        BY DEF IInv, RequestInv, PlaceInv
    <2>3. req[q].read = Len(NamesOf[a])
        BY <2>2 DEF NoMoreNames
    <2> QED
        BY <2>1, <2>3, ImportFacts
<1>2. inserted[q] \subseteq ToSet(NamesOf[a])
    <2> SUFFICES ASSUME NEW n \in inserted[q] PROVE n \in ToSet(NamesOf[a])
        OBVIOUS
    <2>1. PICK k \in 1 .. Len(NamesOf[a]) : n = NamesOf[a][k]
        BY <1>1
    <2> QED
        BY <1>1, <2>1, NamesCount
<1>3. \A n \in ToSet(NamesOf[a]) : n \in inserted[q] \/ asset[n] # None
    <2> SUFFICES ASSUME NEW n \in ToSet(NamesOf[a])
                 PROVE  n \in inserted[q] \/ asset[n] # None
        OBVIOUS
    <2>1. PICK k \in 1 .. Len(NamesOf[a]) : n = NamesOf[a][k]
        BY <1>1, NamesCount
    <2> QED
        BY <1>1, <2>1
<1>4. PICK l \in Nat : /\ l = Len(NamesOf[a]) /\ l = Cardinality(ToSet(NamesOf[a]))
                       /\ IsFiniteSet(ToSet(NamesOf[a]))
    BY <1>1, NamesCount
<1>5. PICK c \in Nat : c = Cardinality(inserted[q]) /\ c <= l
    <2>1. IsFiniteSet(inserted[q]) /\ Cardinality(inserted[q]) <= Cardinality(ToSet(NamesOf[a]))
        BY <1>2, <1>4, FS_Subset
    <2>2. Cardinality(inserted[q]) \in Nat
        BY <2>1, FS_CardinalityType
    <2> QED
        BY <1>4, <2>1, <2>2
<1>6. PICK rest \in Nat : rest = l - c /\ c + rest = l
    BY <1>5, TheRest
<1>7. NewRow(q) = [id |-> req[q].id, artifact |-> a, created |-> c, reused |-> rest]
    BY <1>4, <1>5, <1>6 DEF NewRow
<1>8. /\ r \in Row /\ r.id = req[q].id /\ r.artifact = a /\ r.created = c
      /\ r.reused = rest
    <2>1. PICK id \in Ingestion : id = req[q].id
        BY <1>1
    <2>2. PICK t : t = [id |-> id, artifact |-> a, created |-> c, reused |-> rest]
        OBVIOUS
    <2>3. t \in Row /\ t.id = id /\ t.artifact = a /\ t.created = c /\ t.reused = rest
        BY <1>1, <2>2 DEF Row
    <2>4. r = t
        BY <1>7, <2>1, <2>2
    <2> QED
        BY <2>1, <2>3, <2>4
<1>9. CountsAll(r)
    BY <1>4, <1>6, <1>8 DEF CountsAll
<1>10. inserted[q] \in SUBSET Name
    BY Types DEF IInv
<1> QED
    BY <1>1, <1>2, <1>3, <1>5, <1>8, <1>9, <1>10

LEMMA AuditIngestionKeeps ==
    ASSUME IInv, NEW q \in Request, AuditIngestion(q)
    PROVE  IInv'
<1>1. pc[q] = "audit ingestion"
    BY DEF AuditIngestion
<1>2. PICK a \in Artifact, r \in Row, S \in SUBSET Name :
          /\ a = req[q].artifact /\ r = NewRow(q) /\ S = inserted[q]
          /\ r.id = req[q].id /\ r.artifact = a
          /\ r.created = Cardinality(S)
          /\ CountsAll(r)
          /\ S \subseteq ToSet(NamesOf[a])
          /\ \A n \in ToSet(NamesOf[a]) : n \in S \/ asset[n] # None
    BY <1>1, NewRowFacts
<1>3. PICK source : source = req[q].id
    OBVIOUS
<1>4. /\ pc[q] = "audit ingestion" /\ End(q)
      /\ asset' = [n \in Name |-> IF n \in S THEN source ELSE asset[n]]
      /\ ingestions' = ingestions \cup {r}
    BY <1>3, <1>2 DEF AuditIngestion, Imported
<1>5. /\ source \in Ingestion /\ source \in Source /\ source # None /\ a \in Artifact
    BY <1>3, <1>2, <1>4, DistinctAssumption DEF IInv, RequestInv, PlaceInv, ImportSteps, Source
<1>6. /\ \A i \in ingestions : i.id # source /\ i.artifact # a
      /\ \A n \in S : asset[n] = None
      /\ S \subseteq Name
    <2>1. RowInv(q) /\ InsertedInv(q)
        BY DEF IInv, RequestInv
    <2> QED
        BY <1>3, <1>2, <1>4, <2>1, Types DEF IInv, RowInv, InsertedInv, Earlier
<1>7. /\ asset' \in [Name -> Source \cup {None}]
      /\ \A n \in Name : asset[n] # None => asset'[n] = asset[n]
      /\ \A n \in Name \ S : asset'[n] = asset[n]
      /\ \A n \in S : asset'[n] = source
    BY <1>4, <1>5, <1>6, AssetsStay
<1>8. ASSUME NEW p \in Request \ {q} PROVE Frame(p)
    <2>1. /\ inserted[p] \subseteq Name \ S
          /\ req[p].id # source
          /\ pc[p] = "audit ingestion" => req[p].artifact # a
        <3>1. /\ inserted[q] \cap inserted[p] = {}
              /\ req[q].id = req[p].id => req[q].id = None
              /\ pc[q] = "audit ingestion" /\ pc[p] = "audit ingestion" =>
                     req[q].artifact # req[p].artifact
            BY DEF IInv, ApartInv
        <3>2. inserted[p] \subseteq Name
            BY Types DEF IInv
        <3> QED
            BY <1>3, <1>2, <1>4, <1>5, <3>1, <3>2
    <2>2. /\ pc'[p] = pc[p] /\ req'[p] = req[p] /\ inserted'[p] = inserted[p]
        BY <1>4, Types DEF IInv, End, Goto
    <2> QED
        BY <1>4, <1>2, <1>3, <1>7, <2>1, <2>2 DEF Frame
<1>9. \A i \in ingestions : CountsOf(i)'
    BY <1>4, <1>5, <1>6, RowsStayTrue
<1>10. CountsOf(r)'
    <2>1. \A n \in Name : asset[n] # source
        <3>1. \A n \in Name : SourceOf(n)
            BY CountsSplit DEF IInv
        <3> QED
            BY <1>5, <1>6, <3>1 DEF SourceOf
    <2>2. {n \in Name : asset'[n] = r.id} = S
        BY <1>2, <1>3, <1>6, <1>7, <2>1
    <2>3. \A n \in ToSet(NamesOf[a]) : asset'[n] # None
        BY <1>2, <1>5, <1>6, <1>7, NamesCount
    <2> QED
        BY <1>2, <2>2, <2>3 DEF CountsOf, CountsAll
<1>11. \A n \in Name : SourceOf(n)'
    <2> SUFFICES ASSUME NEW n \in Name, asset'[n] \in Ingestion
                 PROVE  \E i \in ingestions' :
                            i.id = asset'[n] /\ n \in ToSet(NamesOf[i.artifact])
        BY DEF SourceOf
    <2>1. CASE n \in S
        BY <1>4, <1>2, <1>3, <1>7, <2>1
    <2>2. CASE n \notin S
        <3>1. asset'[n] = asset[n] /\ SourceOf(n)
            BY <1>7, <2>2, CountsSplit DEF IInv
        <3> QED
            BY <1>4, <3>1 DEF SourceOf
    <2> QED
        BY <2>1, <2>2
<1>12. CountsTellTheInventory'
    BY <1>4, <1>9, <1>10, <1>11, CountsSplit
<1>13. ImportedOnce'
    BY <1>4, <1>2, <1>6 DEF IInv, ImportedOnce
<1>14. /\ reply' \in [Request -> Reply] /\ Told(q)'
       /\ \A p \in Request \ {q} : reply'[p] = reply[p]
    <2>1. CASE UNCHANGED reply
        BY <1>4, <2>1, Types DEF IInv, AnswersAreTrue, Told
    <2>2. CASE Answer(q, "created", req[q].id)
        <3>1. PICK t : t = [status |-> "created", artifact |-> a, id |-> source]
            OBVIOUS
        <3>2. t \in Reply /\ t.artifact = a /\ t.id = source
            BY <1>5, <3>1 DEF Reply
        <3>3. reply' = [reply EXCEPT ![q] = t]
            BY <1>3, <1>2, <2>2, <3>1 DEF Answer
        <3>4. /\ reply' \in [Request -> Reply] /\ reply'[q] = t
              /\ \A p \in Request \ {q} : reply'[p] = reply[p]
            BY <3>2, <3>3, Types DEF IInv
        <3>5. r \in ingestions'
            BY <1>4
        <3>6. Told(q)'
            BY <1>2, <1>3, <3>2, <3>4, <3>5 DEF Told
        <3> QED
            BY <3>4, <3>6
    <2> QED
        BY <2>1, <2>2 DEF AuditIngestion
<1>15. ingestions' \subseteq Row /\ ingestions \subseteq ingestions'
    BY <1>4, <1>2, Types DEF IInv
<1> QED
    BY <1>4, <1>7, <1>8, <1>12, <1>13, <1>14, <1>15, EndStep, StepKeeps
-----------------------------------------------------------------------------
(* The theorems *)

LEMMA InitInvariant == Init => IInv
<1> SUFFICES ASSUME Init PROVE IInv
    OBVIOUS
<1>1. /\ NoRequest \in RequestData /\ NoRequest.id = None
      /\ NoReply \in Reply /\ NoReply.status = "none"
    BY DEF NoRequest, RequestData, NoReply, Reply
<1>2. TypeOK
    BY <1>1 DEF Init, TypeOK
<1>3. ASSUME NEW q \in Request PROVE RequestInv(q)
    <2>1. pc[q] = "idle" /\ req[q] = NoRequest /\ inserted[q] = {} /\ ingestions = {}
        BY DEF Init
    <2>2. PlaceInv(q)
        BY <1>1, <2>1 DEF PlaceInv, ImportSteps, CreateSteps
    <2>3. InsertedInv(q)
        BY <2>1 DEF InsertedInv, ImportSteps
    <2>4. RowInv(q)
        BY <2>1 DEF RowInv
    <2> QED
        BY <2>2, <2>3, <2>4 DEF RequestInv
<1>4. ApartInv
    BY <1>1 DEF Init, ApartInv
<1>5. ImportedOnce /\ AnswersAreTrue
    BY <1>1 DEF Init, ImportedOnce, AnswersAreTrue
<1>6. CountsTellTheInventory
    BY DistinctAssumption DEF Init, CountsTellTheInventory
<1> QED
    BY <1>2, <1>3, <1>4, <1>5, <1>6 DEF IInv

LEMMA NextInvariant == IInv /\ [Next]_vars => IInv'
<1> SUFFICES ASSUME IInv, [Next]_vars PROVE IInv'
    OBVIOUS
<1>1. CASE UNCHANGED vars
    <2>1. UNCHANGED <<asset, ingestions, inserted, pc, req, reply>>
        BY <1>1 DEF vars
    <2>2. \A q \in Request : RequestInv(q)'
        BY <2>1, FrameKeeps DEF Frame
    <2>3. TypeOK' /\ ApartInv'
        BY <2>1 DEF IInv, TypeOK, ApartInv
    <2>4. ImportedOnce' /\ CountsTellTheInventory' /\ AnswersAreTrue'
        BY <2>1 DEF IInv, ImportedOnce, CountsTellTheInventory, AnswersAreTrue
    <2> QED
        BY <2>2, <2>3, <2>4 DEF IInv
<1>2. ASSUME NEW q \in Request, Abandon(q)
      PROVE  IInv'
    BY <1>2, RollBackKeeps DEF Abandon
<1>3. ASSUME NEW q \in Request, Step(q)
      PROVE  IInv'
    BY <1>3, LookUpKeeps, InsertNameKeeps, NamesInsertedKeeps, InsertIngestionKeeps,
       AuditIngestionKeeps, InsertAssetKeeps, AuditAssetKeeps DEF Step
<1> QED
    BY <1>1, <1>2, <1>3, UploadKeeps, CreateKeeps DEF Next

\* The inductive invariant holds of every behaviour.
THEOREM Invariant == Spec => []IInv
BY InitInvariant, NextInvariant, PTL DEF Spec

\* The types of the tables, the transactions, the requests and the answers.
THEOREM TypeCorrect == Spec => []TypeOK
<1>1. IInv => TypeOK
    BY DEF IInv
<1> QED
    BY <1>1, Invariant, PTL

\* An engagement has an artifact once, with any number of uploads of it: whoever
\* records it waits for whoever is recording it, and then sees its row.
THEOREM ImportedOnceTheorem == Spec => []ImportedOnce
<1>1. IInv => ImportedOnce
    BY DEF IInv
<1> QED
    BY <1>1, Invariant, PTL

\* The counts of an ingestion are those of its assets: what a transaction has
\* inserted is in the inventory only with its commit, and is nobody else's.
THEOREM CountsTellTheInventoryTheorem == Spec => []CountsTellTheInventory
<1>1. IInv => CountsTellTheInventory
    BY DEF IInv
<1> QED
    BY <1>1, Invariant, PTL

\* Whoever is told of an import finds it: a duplicate is answered only of a row
\* that has been committed.
THEOREM AnswersAreTrueTheorem == Spec => []AnswersAreTrue
<1>1. IInv => AnswersAreTrue
    BY DEF IInv
<1> QED
    BY <1>1, Invariant, PTL

\* No commit takes an asset from its source, nor an ingestion from the table, even
\* when its names were inserted long before ("reused as it stands, never renamed or
\* rewritten", RecordIngestion).
THEOREM NothingIsRewritten ==
    Spec => [][/\ \A n \in Name : asset[n] # None => asset'[n] = asset[n]
               /\ ingestions \subseteq ingestions']_vars
<1>1. IInv /\ [Next]_vars =>
          [/\ \A n \in Name : asset[n] # None => asset'[n] = asset[n]
           /\ ingestions \subseteq ingestions']_vars
    <2> SUFFICES ASSUME IInv, Next
                 PROVE  /\ \A n \in Name : asset[n] # None => asset'[n] = asset[n]
                        /\ ingestions \subseteq ingestions'
        OBVIOUS
    <2>1. PICK q \in Request : Upload(q) \/ Create(q) \/ Step(q) \/ Abandon(q)
        BY DEF Next
    <2>2. CASE Upload(q) \/ Create(q) \/ Abandon(q)
        BY <2>2 DEF Upload, Create, Abandon, tables
    <2>3. CASE LookUp(q) \/ InsertName(q) \/ NamesInserted(q) \/ InsertIngestion(q)
        BY <2>3 DEF LookUp, InsertName, NamesInserted, InsertIngestion, tables
    <2>4. CASE InsertAsset(q)
        BY <2>4 DEF InsertAsset, tables
    <2>5. CASE AuditAsset(q)
        <3>1. PICK m : m = req[q].name
            OBVIOUS
        <3>2. asset' = [asset EXCEPT ![m] = "manual"] /\ ingestions' = ingestions
            BY <2>5, <3>1 DEF AuditAsset
        <3>3. asset[m] = None
            BY <2>5, <3>1 DEF AuditAsset, IInv, RequestInv, PlaceInv, InsertedInv
        <3> QED
            BY <3>2, <3>3, Types DEF IInv
    <2>6. CASE AuditIngestion(q)
        <3>1. \A n \in inserted[q] : asset[n] = None
            BY DEF IInv, RequestInv, InsertedInv
        <3>2. /\ asset' = [n \in Name |-> IF n \in inserted[q] THEN req[q].id ELSE asset[n]]
              /\ ingestions \subseteq ingestions'
            BY <2>6 DEF AuditIngestion, Imported
        <3> QED
            BY <3>1, <3>2
    <2> QED
        BY <2>1, <2>2, <2>3, <2>4, <2>5, <2>6 DEF Step
<1> QED
    BY <1>1, Invariant, PTL DEF Spec
=============================================================================
