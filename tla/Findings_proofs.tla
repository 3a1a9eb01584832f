-------------------------- MODULE Findings_proofs ---------------------------
(***************************************************************************)
(* Theorems about Findings, for any number of findings, assets, retests    *)
(* and callers.  The inductive invariant says what a request knows of the  *)
(* finding whose row it holds (that it is new, or open; that the round it  *)
(* is about to record is the next one; that the links it cleared are all   *)
(* there are), and that the work of a request is recorded, if at all, as   *)
(* the round the request named.                                            *)
(***************************************************************************)
EXTENDS Findings, TLAPS

Retesting == {"read history", "commit"}
Linking == {"clear links", "insert links", "commit"}

\* Each statement belongs to the operation that comes to it.
PlaceInv(c) ==
    /\ pc[c] = "insert finding" => req[c].op = "create"
    /\ pc[c] = "confirm" => req[c].op = "triage"
    /\ pc[c] \in {"advance", "read history"} => req[c].op = "retest"
    /\ pc[c] \in {"lock finding", "clear links", "insert links"} => req[c].op = "assets"
    /\ pc[c] \in Statements \cup {"unheard"} => req[c].op # "none"
    /\ req[c].op # "none" => req[c].finding \in Finding
    /\ req[c].op = "retest" <=> req[c].work # None

\* What a request knows of its finding.
FindingInv(c) ==
    LET f == req[c].finding IN
    /\ pc[c] \in {"insert finding", "commit"} /\ req[c].op = "create" => finding[f] = None
    /\ pc[c] = "commit" /\ req[c].op = "triage" => holder[f] = c /\ finding[f] = "new"
    /\ pc[c] \in Retesting /\ req[c].op = "retest" =>
           /\ holder[f] = c /\ finding[f] = "open"
           /\ pc[c] = "commit" => req[c].round = Len(retests[f]) + 1
    /\ pc[c] \in Linking /\ req[c].op = "assets" =>
           /\ holder[f] = c
           /\ pc[c] # "clear links" => req[c].cleared = links[f]
           /\ pc[c] = "commit" => req[c].assets \subseteq asset

\* The work of a request is recorded at most as what the request said.
WorkInv(c) ==
    req[c].op = "retest" =>
        /\ \A f \in Finding : \A i \in DOMAIN retests[f] :
               retests[f][i].work = req[c].work => f = req[c].finding /\ i = req[c].round
        /\ reply[c] = "done" =>
               /\ req[c].round <= Len(retests[req[c].finding])
               /\ retests[req[c].finding][req[c].round] =
                      [work |-> req[c].work, result |-> req[c].result]

CallerInv(c) == PlaceInv(c) /\ FindingInv(c) /\ WorkInv(c)

\* Two requests never create one finding, nor report the same work.
ApartInv ==
    \A c, d \in Caller : c # d =>
        /\ req[c].op = "create" /\ req[d].op = "create" => req[c].finding # req[d].finding
        /\ req[c].op = "retest" /\ req[d].op = "retest" => req[c].work # req[d].work

IInv ==
    /\ TypeOK
    /\ \A c \in Caller : CallerInv(c)
    /\ ApartInv
    /\ StateIsHistory
    /\ WorkRecordedOnce
-----------------------------------------------------------------------------
(* What a step leaves to a caller who does not take it *)

Labels == {"idle", "unheard"} \cup Statements
Reply == {"none", "done", "not_found", "invalid_state"}

LEMMA Types ==
    TypeOK <=>
        /\ finding \in [Finding -> State \cup {None}]
        /\ retests \in [Finding -> Seq(Round)]
        /\ asset \subseteq Asset \ Foreign
        /\ links \in [Finding -> SUBSET asset]
        /\ holder \in [Finding -> Caller \cup {None}]
        /\ pc \in [Caller -> Labels]
        /\ req \in [Caller -> RequestData]
        /\ reply \in [Caller -> Reply]
BY DEF TypeOK, Labels, Reply

\* Nobody writes a row that p holds, makes the finding p is creating, or records
\* p's work.
Frame(p) ==
    /\ pc'[p] = pc[p] /\ req'[p] = req[p] /\ reply'[p] = reply[p]
    /\ asset \subseteq asset'
    /\ \A f \in Finding : holder[f] = p =>
          /\ holder'[f] = p /\ retests'[f] = retests[f] /\ links'[f] = links[f]
          /\ finding[f] # None => finding'[f] = finding[f]
    /\ \A f \in Finding :
          req[p].op = "create" /\ req[p].finding = f /\ finding[f] = None => finding'[f] = None
    /\ \A f \in Finding : retests'[f] # retests[f] =>
          \E r \in Round : retests'[f] = Append(retests[f], r) /\ r.work # req[p].work

LEMMA AppendFacts ==
    ASSUME NEW s \in Seq(Round), NEW r \in Round
    PROVE  /\ Append(s, r) \in Seq(Round)
           /\ Len(Append(s, r)) = Len(s) + 1
           /\ \A i \in DOMAIN s : i \in DOMAIN Append(s, r) /\ Append(s, r)[i] = s[i]
           /\ Append(s, r)[Len(s) + 1] = r
           /\ DOMAIN Append(s, r) = DOMAIN s \cup {Len(s) + 1}
           /\ Len(s) + 1 \notin DOMAIN s
           /\ Last(Append(s, r)) = r
           /\ Append(s, r) # <<>>
BY DEF Last

LEMMA FrameKeepsWork ==
    ASSUME IInv, NEW p \in Caller, Frame(p)
    PROVE  WorkInv(p)'
<1> SUFFICES ASSUME req[p].op = "retest"
             PROVE  WorkInv(p)'
    BY DEF WorkInv, Frame
<1>1. WorkInv(p) /\ req[p].finding \in Finding /\ req'[p] = req[p] /\ reply'[p] = reply[p]
    BY DEF IInv, CallerInv, PlaceInv, Frame
<1>2. req[p] \in RequestData /\ req[p].round \in 1 .. MaxRound
    BY Types DEF IInv, RequestData
<1>3. ASSUME NEW f \in Finding, NEW i \in DOMAIN retests'[f],
             retests'[f][i].work = req[p].work
      PROVE  f = req[p].finding /\ i = req[p].round
    <2>1. CASE retests'[f] = retests[f]
        BY <1>1, <1>3, <2>1 DEF WorkInv
    <2>2. CASE retests'[f] # retests[f]
        <3>1. PICK r \in Round : retests'[f] = Append(retests[f], r) /\ r.work # req[p].work
            BY <2>2 DEF Frame
        <3>2. retests[f] \in Seq(Round)
            BY Types DEF IInv
        <3>3. i \in DOMAIN retests[f] /\ retests[f][i].work = req[p].work
            BY <1>3, <3>1, <3>2, AppendFacts
        <3> QED
            BY <1>1, <3>3 DEF WorkInv
    <2> QED
        BY <2>1, <2>2
<1>4. ASSUME reply[p] = "done"
      PROVE  /\ req[p].round <= Len(retests'[req[p].finding])
             /\ retests'[req[p].finding][req[p].round]
                    = [work |-> req[p].work, result |-> req[p].result]
    <2>1. PICK f \in Finding : f = req[p].finding
        BY <1>1
    <2>2. /\ req[p].round <= Len(retests[f])
          /\ retests[f][req[p].round] = [work |-> req[p].work, result |-> req[p].result]
        BY <1>1, <1>4, <2>1 DEF WorkInv
    <2>3. retests[f] \in Seq(Round)
        BY Types DEF IInv
    <2>4. CASE retests'[f] = retests[f]
        BY <2>1, <2>2, <2>4
    <2>5. CASE retests'[f] # retests[f]
        <3>1. PICK r \in Round : retests'[f] = Append(retests[f], r)
            BY <2>5 DEF Frame
        <3>2. req[p].round \in DOMAIN retests[f] /\ req[p].round <= Len(retests[f]) + 1
            BY <1>2, <2>2, <2>3
        <3> QED
            BY <2>1, <2>2, <2>3, <3>1, <3>2, AppendFacts
    <2> QED
        BY <2>4, <2>5
<1> QED
    BY <1>1, <1>3, <1>4 DEF WorkInv

LEMMA FrameKeeps ==
    ASSUME IInv, NEW p \in Caller, Frame(p)
    PROVE  CallerInv(p)'
<1>1. CallerInv(p)
    BY DEF IInv
<1>2. PlaceInv(p)'
    BY <1>1 DEF Frame, CallerInv, PlaceInv
<1>3. FindingInv(p)'
    <2>1. CASE req[p].op = "none" \/ pc[p] \notin Statements
        BY <1>1, <2>1 DEF Frame, CallerInv, PlaceInv, FindingInv, Statements, Retesting, Linking
    <2>2. CASE req[p].op # "none" /\ pc[p] \in Statements
        <3>1. PICK f \in Finding : f = req[p].finding
            BY <1>1, <2>2 DEF CallerInv, PlaceInv
        <3>2. /\ pc'[p] = pc[p] /\ req'[p] = req[p] /\ asset \subseteq asset'
              /\ holder[f] = p =>
                    /\ holder'[f] = p /\ retests'[f] = retests[f] /\ links'[f] = links[f]
                    /\ finding[f] # None => finding'[f] = finding[f]
              /\ req[p].op = "create" /\ finding[f] = None => finding'[f] = None
            BY <3>1 DEF Frame
        <3>3. "new" # None /\ "open" # None
            BY NoneIsNoState DEF State, Result
        <3> QED
            BY <1>1, <3>1, <3>2, <3>3 DEF CallerInv, FindingInv
    <2> QED
        BY <2>1, <2>2
<1> QED
    BY <1>2, <1>3, FrameKeepsWork DEF CallerInv

\* A step of c alone, which takes a row from nobody.
StepOf(c, label) ==
    /\ pc' = [pc EXCEPT ![c] = label]
    /\ label \in Labels
    /\ req' \in [Caller -> RequestData] /\ reply' \in [Caller -> Reply]
    /\ \A p \in Caller \ {c} : req'[p] = req[p] /\ reply'[p] = reply[p]
    /\ holder' \in [Finding -> Caller \cup {None}]
    /\ \A f \in Finding : holder[f] \in Caller \ {c} => holder'[f] = holder[f]

LEMMA StepMoves ==
    ASSUME IInv, NEW c \in Caller, NEW label, StepOf(c, label)
    PROVE  /\ pc' \in [Caller -> Labels] /\ pc'[c] = label
           /\ \A p \in Caller \ {c} : pc'[p] = pc[p]
BY Types DEF IInv, StepOf

\* One that leaves the tables alone.
LEMMA LocalStep ==
    ASSUME IInv, NEW c \in Caller, NEW label, StepOf(c, label), UNCHANGED tables,
           CallerInv(c)', ApartInv'
    PROVE  IInv'
<1>1. TypeOK'
    <2>1. /\ finding' \in [Finding -> State \cup {None}]
          /\ retests' \in [Finding -> Seq(Round)]
          /\ asset' \subseteq Asset \ Foreign
          /\ links' \in [Finding -> SUBSET asset']
        BY Types DEF IInv, tables
    <2> QED
        BY <2>1, StepMoves DEF TypeOK, StepOf, Labels, Reply
<1>2. StateIsHistory' /\ WorkRecordedOnce'
    BY DEF IInv, StateIsHistory, WorkRecordedOnce, tables
<1>3. \A p \in Caller \ {c} : Frame(p)
    BY StepMoves DEF Frame, StepOf, tables
<1>4. \A p \in Caller : CallerInv(p)'
    BY <1>3, FrameKeeps
<1> QED
    BY <1>1, <1>2, <1>4 DEF IInv

\* The requests are about what they were about.
SameRequests ==
    \A p \in Caller : /\ req'[p].op = req[p].op /\ req'[p].finding = req[p].finding
                      /\ req'[p].work = req[p].work

LEMMA ApartStays ==
    ASSUME IInv, SameRequests
    PROVE  ApartInv'
BY DEF IInv, SameRequests, ApartInv

LEMMA HolderType ==
    ASSUME IInv, NEW c \in Caller,
           Release(c) \/ (TakeRow(c) /\ RowIsFree(c)) \/ UNCHANGED holder
    PROVE  /\ holder' \in [Finding -> Caller \cup {None}]
           /\ \A f \in Finding : holder[f] \in Caller \ {c} => holder'[f] = holder[f]
<1>1. holder \in [Finding -> Caller \cup {None}]
    BY Types DEF IInv
<1>2. CASE Release(c)
    BY <1>1, <1>2 DEF Release
<1>3. CASE TakeRow(c) /\ RowIsFree(c)
    BY <1>1, <1>3, NoneAssumption DEF TakeRow, RowIsFree
<1> QED
    BY <1>1, <1>2, <1>3

\* Whoever is at no statement holds no knowledge of a finding.
LEMMA RefuseKeeps ==
    ASSUME IInv, NEW c \in Caller, NEW status \in {"not_found", "invalid_state"},
           Refuse(c, status)
    PROVE  IInv'
<1>1. /\ pc' = [pc EXCEPT ![c] = "idle"] /\ reply' = [reply EXCEPT ![c] = status]
      /\ Release(c) /\ UNCHANGED req /\ UNCHANGED tables
    BY DEF Refuse, Goto
<1>2. StepOf(c, "idle")
    BY <1>1, Types, HolderType DEF StepOf, IInv, Labels, Reply
<1>3. pc'[c] = "idle" /\ reply'[c] = status
    BY <1>1, <1>2, Types, StepMoves DEF IInv
<1>4. CallerInv(c)'
    <2>1. PlaceInv(c)' /\ FindingInv(c)'
        BY <1>1, <1>3
        DEF IInv, CallerInv, PlaceInv, FindingInv, Statements, Retesting, Linking
    <2>2. WorkInv(c)'
        BY <1>1, <1>3 DEF IInv, CallerInv, WorkInv, tables
    <2> QED
        BY <2>1, <2>2 DEF CallerInv
<1>5. ApartInv'
    BY <1>1, ApartStays DEF SameRequests
<1> QED
    BY <1>1, <1>2, <1>4, <1>5, LocalStep
-----------------------------------------------------------------------------
(* Requests *)

LEMMA FirstStatements ==
    /\ 1 \in 1 .. MaxRound
    /\ FirstStatement["create"] = "insert finding"
    /\ FirstStatement["triage"] = "confirm"
    /\ FirstStatement["retest"] = "advance"
    /\ FirstStatement["assets"] = "lock finding"
BY MaxRoundAssumption DEF FirstStatement

\* A request which nobody has sent: of a finding that is not being created, or
\* of work that nobody has reported.
NewRequest(c, r) ==
    /\ r \in RequestData /\ r.op # "none" /\ r.finding \in Finding
    /\ r.op = "retest" <=> r.work # None
    /\ r.op = "retest" => r.work \in Work /\ IsNew(r.work)
    /\ r.op = "create" => /\ finding[r.finding] = None
                          /\ \A d \in Caller : req[d].op = "create" => req[d].finding # r.finding

LEMMA SendNewKeeps ==
    ASSUME IInv, NEW c \in Caller, NEW r, NewRequest(c, r), Send(c, r)
    PROVE  IInv'
<1>1. /\ pc' = [pc EXCEPT ![c] = FirstStatement[r.op]]
      /\ req' = [req EXCEPT ![c] = r] /\ reply' = [reply EXCEPT ![c] = "none"]
      /\ UNCHANGED tables /\ UNCHANGED holder
    BY DEF Send, Goto
<1>2. PICK label : label = FirstStatement[r.op]
    OBVIOUS
<1>3. /\ r.op \in {"create", "triage", "retest", "assets"}
      /\ r.op = "create" => label = "insert finding"
      /\ r.op = "triage" => label = "confirm"
      /\ r.op = "retest" => label = "advance"
      /\ r.op = "assets" => label = "lock finding"
    <2>1. r.op \in {"create", "triage", "retest", "assets"}
        BY DEF NewRequest, RequestData
    <2> QED
        BY <1>2, <2>1, FirstStatements
<1>4. StepOf(c, label)
    BY <1>1, <1>2, <1>3, Types, HolderType DEF StepOf, IInv, Labels, Statements, Reply, NewRequest
<1>5. pc'[c] = label /\ req'[c] = r /\ reply'[c] = "none"
    BY <1>1, <1>4, Types, StepMoves DEF IInv
<1>6. CallerInv(c)'
    <2>1. PlaceInv(c)'
        BY <1>3, <1>5 DEF PlaceInv, NewRequest
    <2>2. FindingInv(c)'
        BY <1>1, <1>3, <1>5 DEF FindingInv, NewRequest, tables, Retesting, Linking
    <2>3. WorkInv(c)'
        BY <1>1, <1>5 DEF WorkInv, NewRequest, IsNew, tables
    <2> QED
        BY <2>1, <2>2, <2>3 DEF CallerInv
<1>7. ApartInv'
    <2>1. \A p \in Caller \ {c} : req'[p] = req[p]
        BY <1>4 DEF StepOf
    <2>2. \A p \in Caller \ {c} :
              /\ r.op = "create" /\ req[p].op = "create" => req[p].finding # r.finding
              /\ r.op = "retest" => req[p].work # r.work
        BY DEF NewRequest, IsNew
    <2> QED
        BY <1>5, <2>1, <2>2 DEF IInv, ApartInv
<1> QED
    BY <1>1, <1>4, <1>6, <1>7, LocalStep

LEMMA SendKeeps ==
    ASSUME IInv, NEW c \in Caller,
           SendCreate(c) \/ SendTriage(c) \/ SendRetest(c) \/ SendAssets(c)
    PROVE  IInv'
<1>1. CASE SendCreate(c)
    <2>1. PICK f \in Finding :
              /\ finding[f] = None
              /\ \A d \in Caller : req[d].op = "create" => req[d].finding # f
              /\ Send(c, [NoRequest EXCEPT !.op = "create", !.finding = f])
        BY <1>1 DEF SendCreate
    <2>2. PICK r : r = [NoRequest EXCEPT !.op = "create", !.finding = f]
        OBVIOUS
    <2>3. r \in RequestData /\ r.op = "create" /\ r.finding = f /\ r.work = None
        BY <2>2, FirstStatements DEF NoRequest, RequestData, Result
    <2>4. NewRequest(c, r)
        BY <2>1, <2>3 DEF NewRequest
    <2> QED
        BY <2>1, <2>2, <2>4, SendNewKeeps
<1>2. CASE SendTriage(c)
    <2>1. PICK f \in Finding :
              Send(c, [NoRequest EXCEPT !.op = "triage", !.finding = f])
        BY <1>2 DEF SendTriage
    <2>2. PICK r : r = [NoRequest EXCEPT !.op = "triage", !.finding = f]
        OBVIOUS
    <2>3. r \in RequestData /\ r.op = "triage" /\ r.finding = f /\ r.work = None
        BY <2>2, FirstStatements DEF NoRequest, RequestData, Result
    <2>4. NewRequest(c, r)
        BY <2>3 DEF NewRequest
    <2> QED
        BY <2>1, <2>2, <2>4, SendNewKeeps
<1>3. CASE SendRetest(c)
    <2>1. PICK f \in Finding, w \in Work, n \in 1 .. MaxRound, s \in Result :
              /\ IsNew(w)
              /\ Send(c, [NoRequest EXCEPT !.op = "retest", !.finding = f, !.work = w,
                                           !.round = n, !.result = s])
        BY <1>3 DEF SendRetest
    <2>2. PICK r : r = [NoRequest EXCEPT !.op = "retest", !.finding = f, !.work = w,
                                         !.round = n, !.result = s]
        OBVIOUS
    <2>3. r \in RequestData /\ r.op = "retest" /\ r.finding = f /\ r.work = w
        BY <2>2 DEF NoRequest, RequestData, Result
    <2>4. NewRequest(c, r)
        BY <2>1, <2>3, NoneAssumption DEF NewRequest
    <2> QED
        BY <2>1, <2>2, <2>4, SendNewKeeps
<1>4. CASE SendAssets(c)
    <2>1. PICK f \in Finding, A \in SUBSET Asset :
              Send(c, [NoRequest EXCEPT !.op = "assets", !.finding = f, !.assets = A])
        BY <1>4 DEF SendAssets
    <2>2. PICK r : r = [NoRequest EXCEPT !.op = "assets", !.finding = f, !.assets = A]
        OBVIOUS
    <2>3. r \in RequestData /\ r.op = "assets" /\ r.finding = f /\ r.work = None
        BY <2>2, FirstStatements DEF NoRequest, RequestData, Result
    <2>4. NewRequest(c, r)
        BY <2>3 DEF NewRequest
    <2> QED
        BY <2>1, <2>2, <2>4, SendNewKeeps
<1> QED
    BY <1>1, <1>2, <1>3, <1>4

\* A step of a caller that is told nothing and writes nothing.
Quiet(c, label) ==
    /\ Goto(c, label)
    /\ label \in Labels
    /\ req' \in [Caller -> RequestData] /\ SameRequests
    /\ \A p \in Caller \ {c} : req'[p] = req[p]
    /\ req'[c].round = req[c].round /\ req'[c].result = req[c].result
    /\ UNCHANGED <<tables, reply>>
    /\ Release(c) \/ (TakeRow(c) /\ RowIsFree(c)) \/ UNCHANGED holder

LEMMA QuietKeeps ==
    ASSUME IInv, NEW c \in Caller, NEW label, Quiet(c, label), PlaceInv(c)', FindingInv(c)'
    PROVE  IInv'
<1>1. StepOf(c, label)
    BY Types, HolderType DEF Quiet, StepOf, IInv, Goto
<1>2. WorkInv(c)'
    BY DEF Quiet, SameRequests, IInv, CallerInv, WorkInv, tables
<1>3. ApartInv' /\ CallerInv(c)'
    BY <1>2, ApartStays DEF Quiet, CallerInv
<1> QED
    BY <1>1, <1>3, LocalStep DEF Quiet

LEMMA QuietMoves ==
    ASSUME IInv, NEW c \in Caller, NEW label \in Labels, Goto(c, label),
           UNCHANGED <<tables, req, reply>>,
           Release(c) \/ (TakeRow(c) /\ RowIsFree(c)) \/ UNCHANGED holder
    PROVE  Quiet(c, label) /\ pc'[c] = label
BY Types DEF Quiet, IInv, SameRequests, Goto

LEMMA RepeatKeeps ==
    ASSUME IInv, NEW c \in Caller, Repeat(c)
    PROVE  IInv'
<1>1. PICK label : label = FirstStatement[req[c].op]
    OBVIOUS
<1>2. /\ req[c].op \in {"triage", "retest", "assets"}
      /\ req[c].op = "triage" => label = "confirm"
      /\ req[c].op = "retest" => label = "advance"
      /\ req[c].op = "assets" => label = "lock finding"
    <2>1. req[c] \in RequestData /\ req[c].op # "none" /\ req[c].op # "create"
        BY Types DEF IInv, CallerInv, PlaceInv, Repeat, Statements
    <2> QED
        BY <1>1, <2>1, FirstStatements DEF RequestData
<1>3. Quiet(c, label) /\ pc'[c] = label /\ req'[c] = req[c]
    BY <1>1, <1>2, QuietMoves DEF Repeat, Labels, Statements
<1>4. PlaceInv(c)'
    BY <1>2, <1>3 DEF IInv, CallerInv, PlaceInv
<1>5. FindingInv(c)'
    BY <1>2, <1>3 DEF FindingInv, Retesting, Linking
<1> QED
    BY <1>3, <1>4, <1>5, QuietKeeps

\* Whoever is idle or has heard nothing knows nothing.
LEMMA LeaveKeeps ==
    ASSUME IInv, NEW c \in Caller, GiveUp(c) \/ Abandon(c)
    PROVE  IInv'
<1>1. PICK label \in {"idle", "unheard"} :
          /\ Quiet(c, label) /\ pc'[c] = label /\ req'[c] = req[c]
          /\ label = "unheard" => req[c].op # "none"
    <2>1. CASE GiveUp(c)
        BY <2>1, QuietMoves DEF GiveUp, Labels
    <2>2. CASE Abandon(c)
        BY <2>2, QuietMoves DEF Abandon, Labels, IInv, CallerInv, PlaceInv
    <2> QED
        BY <2>1, <2>2
<1>2. PlaceInv(c)'
    BY <1>1 DEF IInv, CallerInv, PlaceInv, Statements
<1>3. FindingInv(c)'
    BY <1>1 DEF FindingInv, Retesting, Linking
<1> QED
    BY <1>1, <1>2, <1>3, QuietKeeps
-----------------------------------------------------------------------------
(* Statements *)

LEMMA NoRowKeeps ==
    ASSUME IInv, NEW c \in Caller, NoRow(c)
    PROVE  IInv'
BY RefuseKeeps DEF NoRow

\* The row is there, and goes to whoever holds it.
LEMMA RowOf ==
    ASSUME IInv, NEW c \in Caller, req[c].finding \in Finding
    PROVE  /\ TakeRow(c) => holder'[req[c].finding] = c
           /\ UNCHANGED holder => holder'[req[c].finding] = holder[req[c].finding]
BY Types DEF IInv, TakeRow

LEMMA InsertFindingKeeps ==
    ASSUME IInv, NEW c \in Caller, InsertFinding(c)
    PROVE  IInv'
<1>1. Quiet(c, "commit") /\ pc'[c] = "commit" /\ req'[c] = req[c] /\ UNCHANGED tables
    BY QuietMoves DEF InsertFinding, Labels, Statements
<1>2. /\ pc[c] = "insert finding" /\ req[c].op = "create"
      /\ PlaceInv(c) /\ FindingInv(c)
    BY DEF InsertFinding, IInv, CallerInv, PlaceInv
<1>3. PlaceInv(c)'
    BY <1>1, <1>2 DEF PlaceInv
<1>4. FindingInv(c)'
    BY <1>1, <1>2 DEF FindingInv, tables
<1> QED
    BY <1>1, <1>3, <1>4, QuietKeeps

LEMMA ConfirmKeeps ==
    ASSUME IInv, NEW c \in Caller, Confirm(c)
    PROVE  IInv'
<1>1. CASE NoRow(c)
    BY <1>1, NoRowKeeps
<1>2. CASE ~ NoRow(c)
    <2>1. /\ pc[c] = "confirm" /\ finding[req[c].finding] = "new"
          /\ TakeRow(c) /\ RowIsFree(c) /\ Goto(c, "commit")
          /\ UNCHANGED <<tables, req, reply>>
        BY <1>2 DEF Confirm
    <2>2. Quiet(c, "commit") /\ pc'[c] = "commit" /\ req'[c] = req[c] /\ UNCHANGED tables
        BY <2>1, QuietMoves DEF Labels, Statements
    <2>3. req[c].op = "triage" /\ req[c].finding \in Finding /\ PlaceInv(c)
        BY <2>1 DEF IInv, CallerInv, PlaceInv
    <2>4. PlaceInv(c)'
        BY <2>2, <2>3 DEF PlaceInv
    <2>5. FindingInv(c)'
        BY <2>1, <2>2, <2>3, RowOf DEF FindingInv, tables
    <2> QED
        BY <2>2, <2>4, <2>5, QuietKeeps
<1> QED
    BY <1>1, <1>2

LEMMA AdvanceKeeps ==
    ASSUME IInv, NEW c \in Caller, Advance(c)
    PROVE  IInv'
<1>1. CASE NoRow(c)
    BY <1>1, NoRowKeeps
<1>2. CASE ~ NoRow(c)
    <2>1. /\ pc[c] = "advance" /\ finding[req[c].finding] = "open"
          /\ TakeRow(c) /\ RowIsFree(c) /\ Goto(c, "read history")
          /\ UNCHANGED <<tables, req, reply>>
        BY <1>2 DEF Advance
    <2>2. /\ Quiet(c, "read history") /\ pc'[c] = "read history"
          /\ req'[c] = req[c] /\ UNCHANGED tables
        BY <2>1, QuietMoves DEF Labels, Statements
    <2>3. req[c].op = "retest" /\ req[c].finding \in Finding /\ PlaceInv(c)
        BY <2>1 DEF IInv, CallerInv, PlaceInv
    <2>4. PlaceInv(c)'
        BY <2>2, <2>3 DEF PlaceInv
    <2>5. FindingInv(c)'
        BY <2>1, <2>2, <2>3, RowOf DEF FindingInv, tables
    <2> QED
        BY <2>2, <2>4, <2>5, QuietKeeps
<1> QED
    BY <1>1, <1>2

LEMMA ReadHistoryKeeps ==
    ASSUME IInv, NEW c \in Caller, ReadHistory(c)
    PROVE  IInv'
<1>1. CASE Refuse(c, "invalid_state")
    BY <1>1, RefuseKeeps
<1>2. CASE ~ Refuse(c, "invalid_state")
    <2>1. /\ pc[c] = "read history" /\ req[c].round = Len(retests[req[c].finding]) + 1
          /\ Goto(c, "commit") /\ UNCHANGED holder
          /\ UNCHANGED <<tables, req, reply>>
        BY <1>2 DEF ReadHistory, IsNext
    <2>2. Quiet(c, "commit") /\ pc'[c] = "commit" /\ req'[c] = req[c] /\ UNCHANGED tables
        BY <2>1, QuietMoves DEF Labels, Statements
    <2>3. /\ req[c].op = "retest" /\ req[c].finding \in Finding
          /\ PlaceInv(c) /\ FindingInv(c)
        BY <2>1 DEF IInv, CallerInv, PlaceInv
    <2>4. PlaceInv(c)'
        BY <2>2, <2>3 DEF PlaceInv
    <2>5. FindingInv(c)'
        BY <2>1, <2>2, <2>3, RowOf DEF FindingInv, tables, Retesting
    <2> QED
        BY <2>2, <2>4, <2>5, QuietKeeps
<1> QED
    BY <1>1, <1>2

LEMMA LockFindingKeeps ==
    ASSUME IInv, NEW c \in Caller, LockFinding(c)
    PROVE  IInv'
<1>1. CASE NoRow(c)
    BY <1>1, NoRowKeeps
<1>2. CASE ~ NoRow(c)
    <2>1. /\ pc[c] = "lock finding"
          /\ TakeRow(c) /\ RowIsFree(c) /\ Goto(c, "clear links")
          /\ UNCHANGED <<tables, req, reply>>
        BY <1>2 DEF LockFinding, LockRow
    <2>2. /\ Quiet(c, "clear links") /\ pc'[c] = "clear links"
          /\ req'[c] = req[c] /\ UNCHANGED tables
        BY <2>1, QuietMoves DEF Labels, Statements
    <2>3. req[c].op = "assets" /\ req[c].finding \in Finding /\ PlaceInv(c)
        BY <2>1 DEF IInv, CallerInv, PlaceInv
    <2>4. PlaceInv(c)'
        BY <2>2, <2>3 DEF PlaceInv
    <2>5. FindingInv(c)'
        BY <2>1, <2>2, <2>3, RowOf DEF FindingInv, tables
    <2> QED
        BY <2>2, <2>4, <2>5, QuietKeeps
<1> QED
    BY <1>1, <1>2

LEMMA ClearLinksKeeps ==
    ASSUME IInv, NEW c \in Caller, ClearLinks(c)
    PROVE  IInv'
<1>1. PICK r : r = [req[c] EXCEPT !.cleared = links[req[c].finding]]
    OBVIOUS
<1>2. /\ pc[c] = "clear links" /\ req' = [req EXCEPT ![c] = r]
      /\ Goto(c, "insert links") /\ UNCHANGED holder /\ UNCHANGED reply /\ UNCHANGED tables
    BY <1>1 DEF ClearLinks
<1>3. /\ req[c].op = "assets" /\ req[c].finding \in Finding
      /\ PlaceInv(c) /\ FindingInv(c) /\ req[c] \in RequestData
    BY <1>2, Types DEF IInv, CallerInv, PlaceInv
<1>4. links[req[c].finding] \subseteq Asset
    BY <1>3, Types DEF IInv
<1>5. /\ r \in RequestData /\ r.op = req[c].op /\ r.finding = req[c].finding
      /\ r.work = req[c].work /\ r.round = req[c].round /\ r.result = req[c].result
      /\ r.cleared = links[req[c].finding]
    BY <1>1, <1>3, <1>4 DEF RequestData
<1>6. pc'[c] = "insert links" /\ req'[c] = r /\ req' \in [Caller -> RequestData]
    BY <1>2, <1>5, Types DEF IInv, Goto
<1>7. \A p \in Caller \ {c} : req'[p] = req[p]
    BY <1>2, Types DEF IInv
<1>8. Quiet(c, "insert links")
    BY <1>2, <1>5, <1>6, <1>7 DEF Quiet, Labels, Statements, SameRequests
<1>9. PlaceInv(c)'
    BY <1>3, <1>5, <1>6 DEF PlaceInv
<1>10. FindingInv(c)'
    BY <1>2, <1>3, <1>5, <1>6, RowOf DEF FindingInv, tables, Linking
<1> QED
    BY <1>8, <1>9, <1>10, QuietKeeps

LEMMA InsertLinksKeeps ==
    ASSUME IInv, NEW c \in Caller, InsertLinks(c)
    PROVE  IInv'
<1>1. CASE Refuse(c, "not_found")
    BY <1>1, RefuseKeeps
<1>2. CASE ~ Refuse(c, "not_found")
    <2>1. /\ pc[c] = "insert links" /\ req[c].assets \subseteq asset
          /\ Goto(c, "commit") /\ UNCHANGED holder
          /\ UNCHANGED <<tables, req, reply>>
        BY <1>2 DEF InsertLinks
    <2>2. Quiet(c, "commit") /\ pc'[c] = "commit" /\ req'[c] = req[c] /\ UNCHANGED tables
        BY <2>1, QuietMoves DEF Labels, Statements
    <2>3. /\ req[c].op = "assets" /\ req[c].finding \in Finding
          /\ PlaceInv(c) /\ FindingInv(c)
        BY <2>1 DEF IInv, CallerInv, PlaceInv
    <2>4. PlaceInv(c)'
        BY <2>2, <2>3 DEF PlaceInv
    <2>5. FindingInv(c)'
        BY <2>1, <2>2, <2>3, RowOf DEF FindingInv, tables, Linking
    <2> QED
        BY <2>2, <2>4, <2>5, QuietKeeps
<1> QED
    BY <1>1, <1>2

LEMMA AddAssetKeeps ==
    ASSUME IInv, AddAsset
    PROVE  IInv'
<1>1. PICK a \in Asset \ (Foreign \cup asset) :
          /\ asset' = asset \cup {a}
          /\ UNCHANGED <<finding, retests, links, holder, pc, req, reply>>
    BY DEF AddAsset
<1>2. TypeOK'
    BY <1>1, Types DEF IInv, TypeOK, Labels, Reply
<1>3. \A p \in Caller : Frame(p)
    BY <1>1 DEF Frame
<1>4. ApartInv' /\ StateIsHistory' /\ WorkRecordedOnce'
    BY <1>1 DEF IInv, ApartInv, StateIsHistory, WorkRecordedOnce
<1> QED
    BY <1>2, <1>3, <1>4, FrameKeeps DEF IInv
-----------------------------------------------------------------------------
(* The commit *)

\* Whoever's answer was lost knows no more than whoever heard it.
LEMMA AnsweredStep ==
    ASSUME IInv, NEW c \in Caller, Answered(c), pc[c] = "commit"
    PROVE  /\ pc'[c] \in {"idle", "unheard"} /\ StepOf(c, pc'[c])
           /\ PlaceInv(c)' /\ FindingInv(c)' /\ ApartInv' /\ UNCHANGED req
<1>1. PICK label \in {"idle", "unheard"} :
          /\ pc' = [pc EXCEPT ![c] = label] /\ Release(c) /\ UNCHANGED req
          /\ reply' = [reply EXCEPT ![c] = "done"] \/ UNCHANGED reply
    BY DEF Answered, Goto
<1>2. StepOf(c, label)
    BY <1>1, Types, HolderType DEF StepOf, IInv, Labels, Reply
<1>3. pc'[c] = label
    BY <1>2, StepMoves
<1>4. PlaceInv(c)'
    BY <1>1, <1>3 DEF IInv, CallerInv, PlaceInv, Statements
<1>5. FindingInv(c)'
    BY <1>3 DEF FindingInv, Retesting, Linking
<1>6. ApartInv'
    BY <1>1, ApartStays DEF SameRequests
<1> QED
    BY <1>1, <1>2, <1>3, <1>4, <1>5, <1>6

\* What is left to show of a commit.
LEMMA CommitStep ==
    ASSUME IInv, NEW c \in Caller, Answered(c), pc[c] = "commit", UNCHANGED asset,
           finding' \in [Finding -> State \cup {None}],
           retests' \in [Finding -> Seq(Round)],
           links' \in [Finding -> SUBSET asset],
           \A p \in Caller \ {c} : Frame(p),
           WorkInv(c)', StateIsHistory', WorkRecordedOnce'
    PROVE  IInv'
<1>1. TypeOK'
    <2>1. asset' \subseteq Asset \ Foreign
        BY Types DEF IInv
    <2> QED
        BY <2>1, AnsweredStep, StepMoves DEF TypeOK, StepOf, Labels, Reply
<1>2. \A p \in Caller : CallerInv(p)'
    BY AnsweredStep, FrameKeeps DEF CallerInv
<1> QED
    BY <1>1, <1>2, AnsweredStep DEF IInv

\* The rounds stay, and so do the answers about them.
LEMMA SameRounds ==
    ASSUME IInv, NEW c \in Caller, Answered(c), pc[c] = "commit", UNCHANGED retests,
           req[c].op # "retest"
    PROVE  WorkInv(c)' /\ WorkRecordedOnce' /\ retests' \in [Finding -> Seq(Round)]
<1>1. WorkInv(c)'
    BY DEF Answered, WorkInv
<1>2. WorkRecordedOnce' /\ retests' \in [Finding -> Seq(Round)]
    BY Types DEF IInv, WorkRecordedOnce
<1> QED
    BY <1>1, <1>2

\* A commit leaves alone the rows that others hold.
LEMMA CommitFrame ==
    ASSUME IInv, NEW c \in Caller, NEW p \in Caller \ {c}, NEW f \in Finding,
           Answered(c), pc[c] = "commit", UNCHANGED asset,
           \A g \in Finding \ {f} :
               finding'[g] = finding[g] /\ retests'[g] = retests[g] /\ links'[g] = links[g],
           holder[f] = c \/ (finding[f] = None /\ retests'[f] = retests[f] /\ links'[f] = links[f]),
           finding[f] = None /\ req[p].op = "create" => req[p].finding # f,
           retests'[f] # retests[f] =>
               \E r \in Round : retests'[f] = Append(retests[f], r) /\ r.work # req[p].work
    PROVE  Frame(p)
<1>1. /\ pc'[p] = pc[p] /\ req'[p] = req[p] /\ reply'[p] = reply[p]
      /\ \A g \in Finding : holder[g] = p => holder'[g] = p
    BY AnsweredStep, StepMoves DEF StepOf
<1>2. ASSUME NEW g \in Finding, holder[g] = p
      PROVE  /\ retests'[g] = retests[g] /\ links'[g] = links[g]
             /\ finding[g] # None => finding'[g] = finding[g]
    BY <1>2
<1>3. ASSUME NEW g \in Finding, req[p].op = "create", req[p].finding = g, finding[g] = None
      PROVE  finding'[g] = None
    BY <1>3
<1>4. ASSUME NEW g \in Finding, retests'[g] # retests[g]
      PROVE  \E r \in Round : retests'[g] = Append(retests[g], r) /\ r.work # req[p].work
    BY <1>4
<1> QED
    BY <1>1, <1>2, <1>3, <1>4 DEF Frame

LEMMA CommitCreateKeeps ==
    ASSUME IInv, NEW c \in Caller, Commit(c), req[c].op = "create"
    PROVE  IInv'
<1>1. PICK f \in Finding : f = req[c].finding
    BY DEF IInv, CallerInv, PlaceInv
<1>2. /\ pc[c] = "commit" /\ Answered(c) /\ UNCHANGED <<asset, retests, links>>
      /\ finding' = [finding EXCEPT ![f] = "new"]
    BY <1>1 DEF Commit, CommitCreate
<1>3. finding[f] = None
    BY <1>1, <1>2 DEF IInv, CallerInv, FindingInv
<1>4. /\ finding' \in [Finding -> State \cup {None}] /\ finding'[f] = "new"
      /\ \A g \in Finding \ {f} : finding'[g] = finding[g]
    BY <1>2, Types DEF IInv, State
<1>5. ASSUME NEW p \in Caller \ {c} PROVE Frame(p)
    <2>1. req[p].op = "create" => req[p].finding # f
        BY <1>1 DEF IInv, ApartInv
    <2> QED
        BY <1>2, <1>3, <1>4, <2>1, CommitFrame
<1>6. StateIsHistory'
    BY <1>2, <1>3, <1>4 DEF IInv, StateIsHistory
<1>7. links' \in [Finding -> SUBSET asset]
    BY <1>2, Types DEF IInv
<1> QED
    BY <1>2, <1>4, <1>5, <1>6, <1>7, SameRounds, CommitStep

LEMMA CommitTriageKeeps ==
    ASSUME IInv, NEW c \in Caller, Commit(c), req[c].op = "triage"
    PROVE  IInv'
<1>1. PICK f \in Finding : f = req[c].finding
    BY DEF IInv, CallerInv, PlaceInv
<1>2. /\ pc[c] = "commit" /\ Answered(c) /\ UNCHANGED <<asset, retests, links>>
      /\ finding' = [finding EXCEPT ![f] = "open"]
    BY <1>1 DEF Commit, CommitTriage
<1>3. finding[f] = "new" /\ holder[f] = c
    BY <1>1, <1>2 DEF IInv, CallerInv, FindingInv
<1>4. /\ finding' \in [Finding -> State \cup {None}] /\ finding'[f] = "open"
      /\ \A g \in Finding \ {f} : finding'[g] = finding[g]
    BY <1>2, Types DEF IInv, State, Result
<1>5. "new" # None /\ "open" # None
    BY NoneIsNoState DEF State, Result
<1>6. \A p \in Caller \ {c} : Frame(p)
    BY <1>2, <1>3, <1>4, <1>5, CommitFrame
<1>7. StateIsHistory'
    BY <1>2, <1>3, <1>4, <1>5 DEF IInv, StateIsHistory
<1>8. links' \in [Finding -> SUBSET asset]
    BY <1>2, Types DEF IInv
<1> QED
    BY <1>2, <1>4, <1>6, <1>7, <1>8, SameRounds, CommitStep

LEMMA CommitAssetsKeeps ==
    ASSUME IInv, NEW c \in Caller, Commit(c), req[c].op = "assets"
    PROVE  /\ IInv'
           /\ links' = [links EXCEPT ![req[c].finding] = req[c].assets]
<1>1. PICK f \in Finding : f = req[c].finding
    BY DEF IInv, CallerInv, PlaceInv
<1>2. /\ pc[c] = "commit" /\ Answered(c) /\ UNCHANGED <<asset, finding, retests>>
      /\ links' = [links EXCEPT ![f] = (links[f] \ req[c].cleared) \cup req[c].assets]
    BY <1>1 DEF Commit, CommitAssets
<1>3. req[c].cleared = links[f] /\ req[c].assets \subseteq asset /\ holder[f] = c
    BY <1>1, <1>2 DEF IInv, CallerInv, FindingInv, Linking
<1>4. (links[f] \ req[c].cleared) \cup req[c].assets = req[c].assets
    BY <1>3
<1>5. links' = [links EXCEPT ![f] = req[c].assets]
    BY <1>2, <1>4
<1>6. /\ links' \in [Finding -> SUBSET asset]
      /\ \A g \in Finding \ {f} : links'[g] = links[g]
    BY <1>3, <1>5, Types DEF IInv
<1>7. \A p \in Caller \ {c} : Frame(p)
    <2> SUFFICES ASSUME NEW p \in Caller \ {c} PROVE Frame(p)
        OBVIOUS
    <2>1. /\ pc'[p] = pc[p] /\ req'[p] = req[p] /\ reply'[p] = reply[p]
          /\ \A g \in Finding : holder[g] = p => holder'[g] = p
        BY <1>2, AnsweredStep, StepMoves DEF StepOf
    <2> QED
        BY <1>2, <1>3, <1>6, <2>1 DEF Frame
<1>8. StateIsHistory'
    BY <1>2 DEF IInv, StateIsHistory
<1>9. finding' \in [Finding -> State \cup {None}]
    BY <1>2, Types DEF IInv
<1> QED
    BY <1>1, <1>2, <1>5, <1>6, <1>7, <1>8, <1>9, SameRounds, CommitStep

\* The round is the next one, and the first to be about its work.
LEMMA CommitRetestKeeps ==
    ASSUME IInv, NEW c \in Caller, Commit(c), req[c].op = "retest"
    PROVE  IInv'
<1>1. PICK f \in Finding : f = req[c].finding
    BY DEF IInv, CallerInv, PlaceInv
<1>2. PICK r : r = [work |-> req[c].work, result |-> req[c].result]
    OBVIOUS
<1>3. /\ pc[c] = "commit" /\ Answered(c) /\ UNCHANGED <<asset, links>>
      /\ retests' = [retests EXCEPT ![f] = Append(retests[f], r)]
      /\ finding' = [finding EXCEPT ![f] = req[c].result]
    BY <1>1, <1>2 DEF Commit, CommitRetest
<1>4. /\ holder[f] = c /\ finding[f] = "open" /\ req[c].round = Len(retests[f]) + 1
      /\ WorkInv(c)
    BY <1>1, <1>3 DEF IInv, CallerInv, FindingInv, Retesting
<1>5. r \in Round /\ r.work = req[c].work /\ r.result = req[c].result /\ r.result \in Result
    <2>1. req[c] \in RequestData /\ req[c].work # None
        BY Types DEF IInv, CallerInv, PlaceInv
    <2> QED
        BY <1>2, <2>1 DEF RequestData, Round
<1>6. /\ retests[f] \in Seq(Round)
      /\ retests' \in [Finding -> Seq(Round)] /\ retests'[f] = Append(retests[f], r)
      /\ \A g \in Finding \ {f} : retests'[g] = retests[g]
    BY <1>3, <1>5, Types, AppendFacts DEF IInv
<1>7. /\ finding' \in [Finding -> State \cup {None}] /\ finding'[f] = r.result
      /\ \A g \in Finding \ {f} : finding'[g] = finding[g]
    BY <1>3, <1>5, Types DEF IInv, State
<1>8. "open" # None /\ r.result # None /\ r.result # "new"
    BY <1>5, NoneIsNoState DEF State, Result
<1>9. \A p \in Caller \ {c} : Frame(p)
    <2> SUFFICES ASSUME NEW p \in Caller \ {c} PROVE Frame(p)
        OBVIOUS
    <2>1. r.work # req[p].work
        <3>1. CASE req[p].op = "retest"
            BY <1>5, <3>1 DEF IInv, ApartInv
        <3>2. CASE req[p].op # "retest"
            BY <1>5, <3>2 DEF IInv, CallerInv, PlaceInv
        <3> QED
            BY <3>1, <3>2
    <2>2. \A g \in Finding \ {f} : links'[g] = links[g]
        BY <1>3
    <2> QED
        BY <1>3, <1>4, <1>5, <1>6, <1>7, <1>8, <2>1, <2>2, CommitFrame
<1>10. \A g \in Finding : \A i \in DOMAIN retests'[g] :
           \/ g = f /\ i = Len(retests[f]) + 1 /\ retests'[g][i] = r
           \/ /\ i \in DOMAIN retests[g] /\ retests'[g][i] = retests[g][i]
              /\ retests[g][i].work # r.work
    <2> SUFFICES ASSUME NEW g \in Finding, NEW i \in DOMAIN retests'[g],
                        ~ (g = f /\ i = Len(retests[f]) + 1)
                 PROVE  /\ i \in DOMAIN retests[g] /\ retests'[g][i] = retests[g][i]
                        /\ retests[g][i].work # r.work
        BY <1>5, <1>6, AppendFacts
    <2>1. i \in DOMAIN retests[g] /\ retests'[g][i] = retests[g][i]
        BY <1>5, <1>6, AppendFacts
    <2>2. retests[g][i].work = req[c].work => g = f /\ i = Len(retests[f]) + 1
        BY <1>1, <1>4, <2>1 DEF WorkInv
    <2> QED
        BY <1>5, <2>1, <2>2
<1>11. WorkInv(c)'
    <2>1. req'[c] = req[c]
        BY <1>3 DEF Answered
    <2>2. \A g \in Finding : \A i \in DOMAIN retests'[g] :
              retests'[g][i].work = req[c].work => g = f /\ i = req[c].round
        BY <1>4, <1>5, <1>10
    <2>3. req[c].round <= Len(retests'[f]) /\ retests'[f][req[c].round] = r
        BY <1>4, <1>5, <1>6, AppendFacts
    <2> QED
        BY <1>1, <1>2, <2>1, <2>2, <2>3 DEF WorkInv
<1>12. WorkRecordedOnce'
    <2> SUFFICES ASSUME NEW g \in Finding, NEW h \in Finding,
                        NEW i \in DOMAIN retests'[g], NEW j \in DOMAIN retests'[h],
                        retests'[g][i].work = retests'[h][j].work
                 PROVE  g = h /\ i = j
        BY DEF WorkRecordedOnce
    <2>1. CASE g = f /\ i = Len(retests[f]) + 1 /\ retests'[g][i] = r
        BY <1>10, <2>1
    <2>2. CASE h = f /\ j = Len(retests[f]) + 1 /\ retests'[h][j] = r
        BY <1>10, <2>2
    <2>3. CASE /\ i \in DOMAIN retests[g] /\ retests'[g][i] = retests[g][i]
               /\ j \in DOMAIN retests[h] /\ retests'[h][j] = retests[h][j]
        BY <2>3 DEF IInv, WorkRecordedOnce
    <2> QED
        BY <1>10, <2>1, <2>2, <2>3
<1>13. StateIsHistory'
    <2>1. ASSUME NEW g \in Finding \ {f}
          PROVE  /\ finding'[g] \in {None, "new"} => retests'[g] = <<>>
                 /\ retests'[g] # <<>> => finding'[g] = Last(retests'[g]).result
                 /\ \A i \in DOMAIN retests'[g] :
                        i < Len(retests'[g]) => retests'[g][i].result = "open"
        BY <1>6, <1>7 DEF IInv, StateIsHistory
    <2>2. finding'[f] \notin {None, "new"} /\ finding'[f] = Last(retests'[f]).result
        BY <1>5, <1>6, <1>7, <1>8, AppendFacts
    <2>3. ASSUME NEW i \in DOMAIN retests'[f], i < Len(retests'[f])
          PROVE  retests'[f][i].result = "open"
        <3>1. i \in DOMAIN retests[f] /\ retests'[f][i] = retests[f][i]
            BY <1>5, <1>6, <2>3, AppendFacts
        <3>2. CASE i < Len(retests[f])
            BY <3>1, <3>2 DEF IInv, StateIsHistory
        <3>3. CASE i = Len(retests[f])
            <4>1. retests[f] # <<>> /\ Last(retests[f]) = retests[f][i]
                BY <1>6, <3>1, <3>3 DEF Last
            <4> QED
                BY <1>4, <3>1, <4>1 DEF IInv, StateIsHistory
        <3> QED
            BY <1>6, <3>1, <3>2, <3>3
    <2> QED
        BY <2>1, <2>2, <2>3 DEF StateIsHistory
<1>14. links' \in [Finding -> SUBSET asset]
    BY <1>3, Types DEF IInv
<1> QED
    BY <1>3, <1>6, <1>7, <1>9, <1>11, <1>12, <1>13, <1>14, CommitStep

LEMMA CommitKeeps ==
    ASSUME IInv, NEW c \in Caller, Commit(c)
    PROVE  IInv'
<1>1. req[c].op \in {"create", "triage", "retest", "assets"}
    <2>1. pc[c] = "commit" /\ req[c] \in RequestData
        BY Types DEF Commit, IInv
    <2>2. req[c].op # "none"
        BY <2>1 DEF IInv, CallerInv, PlaceInv, Statements
    <2> QED
        BY <2>1, <2>2 DEF RequestData
<1> QED
    BY <1>1, CommitCreateKeeps, CommitTriageKeeps, CommitRetestKeeps, CommitAssetsKeeps
-----------------------------------------------------------------------------
(* The theorems *)

LEMMA InitInv == Init => IInv
<1> SUFFICES ASSUME Init PROVE IInv
    OBVIOUS
<1>1. NoRequest \in RequestData /\ NoRequest.op = "none" /\ NoRequest.work = None
    BY FirstStatements DEF NoRequest, RequestData, Result
<1>2. \A c \in Caller : pc[c] = "idle" /\ req[c] = NoRequest
    BY DEF Init
<1>3. TypeOK
    BY <1>1 DEF Init, TypeOK
<1>4. \A c \in Caller : CallerInv(c)
    BY <1>1, <1>2 DEF CallerInv, PlaceInv, FindingInv, WorkInv, Statements, Retesting, Linking
<1>5. ApartInv
    BY <1>1, <1>2 DEF ApartInv
<1>6. StateIsHistory /\ WorkRecordedOnce
    BY DEF Init, StateIsHistory, WorkRecordedOnce
<1> QED
    BY <1>3, <1>4, <1>5, <1>6 DEF IInv

LEMMA NextInv == IInv /\ [Next]_vars => IInv'
<1> SUFFICES ASSUME IInv, [Next]_vars PROVE IInv'
    OBVIOUS
<1>1. CASE UNCHANGED vars
    <2>1. UNCHANGED tables /\ UNCHANGED <<holder, pc, req, reply>>
        BY <1>1 DEF vars, tables
    <2>2. \A c \in Caller : CallerInv(c)'
        BY <2>1, FrameKeeps DEF Frame, tables
    <2> QED
        BY <2>1, <2>2 DEF IInv, TypeOK, ApartInv, StateIsHistory, WorkRecordedOnce, tables
<1>2. CASE AddAsset
    BY <1>2, AddAssetKeeps
<1>3. CASE \E c \in Caller : Step(c)
    BY <1>3, InsertFindingKeeps, ConfirmKeeps, AdvanceKeeps, ReadHistoryKeeps,
       LockFindingKeeps, ClearLinksKeeps, InsertLinksKeeps, CommitKeeps DEF Step
<1>4. CASE \E c \in Caller :
               \/ SendCreate(c) \/ SendTriage(c) \/ SendRetest(c) \/ SendAssets(c)
               \/ Repeat(c) \/ GiveUp(c) \/ Abandon(c)
    BY <1>4, SendKeeps, RepeatKeeps, LeaveKeeps
<1> QED
    BY <1>1, <1>2, <1>3, <1>4 DEF Next

\* The invariant of every behaviour.
THEOREM Invariant == Spec => []IInv
<1> QED
    BY InitInv, NextInv, PTL DEF Spec

\* Every variable keeps its type.
THEOREM TypeCorrect == Spec => []TypeOK
<1>1. IInv => TypeOK
    BY DEF IInv
<1> QED
    BY <1>1, Invariant, PTL

\* The state of a finding is what its rounds produced: the update that moves the
\* finding and the insert of the round are one transaction, which holds the row.
THEOREM StateIsHistoryTheorem == Spec => []StateIsHistory
<1>1. IInv => StateIsHistory
    BY DEF IInv
<1> QED
    BY <1>1, Invariant, PTL

\* A retest is recorded once, however often it is reported: what repeats it
\* names a round that is no longer the next one.
THEOREM WorkRecordedOnceTheorem == Spec => []WorkRecordedOnce
<1>1. IInv => WorkRecordedOnce
    BY DEF IInv
<1> QED
    BY <1>1, Invariant, PTL

\* Whoever was told that a round was recorded finds it where they put it.
THEOREM RoundsAsAnsweredTheorem == Spec => []RoundsAsAnswered
<1>1. IInv => RoundsAsAnswered
    BY DEF IInv, CallerInv, WorkInv, RoundsAsAnswered
<1> QED
    BY <1>1, Invariant, PTL

\* A change of a finding's assets leaves the whole set of one caller: what it
\* cleared under the row's lock are all the links there are when it commits.
THEOREM AssetSetIsOneCallersTheorem == Spec => AssetSetIsOneCallers
<1>1. IInv /\ [Next]_vars =>
          [\A f \in Finding :
              links'[f] # links[f] =>
                  \E c \in Caller : req[c].op = "assets" /\ req[c].finding = f
                                    /\ links'[f] = req[c].assets]_vars
    <2> SUFFICES ASSUME IInv, Next, NEW f \in Finding, links'[f] # links[f]
                 PROVE  \E c \in Caller : req[c].op = "assets" /\ req[c].finding = f
                                          /\ links'[f] = req[c].assets
        OBVIOUS
    <2>1. PICK c \in Caller : Commit(c) /\ req[c].op = "assets"
        <3>1. ~ UNCHANGED links
            OBVIOUS
        <3>2. PICK c \in Caller : Commit(c)
            BY <3>1
            DEF Next, Step, AddAsset, SendCreate, SendTriage, SendRetest, SendAssets, Send,
                Repeat, GiveUp, Abandon, InsertFinding, Confirm, Advance, ReadHistory,
                LockFinding, ClearLinks, InsertLinks, NoRow, Refuse, tables
        <3>3. req[c].op \in {"create", "triage", "retest", "assets"}
            BY <3>2, Types DEF Commit, IInv, CallerInv, PlaceInv, Statements, RequestData
        <3> QED
            BY <3>1, <3>2, <3>3 DEF Commit, CommitCreate, CommitTriage, CommitRetest
    <2>2. links' = [links EXCEPT ![req[c].finding] = req[c].assets]
        BY <2>1, CommitAssetsKeeps
    <2>3. links \in [Finding -> SUBSET asset]
        BY Types DEF IInv
    <2> QED
        BY <2>1, <2>2, <2>3
<1> QED
    BY <1>1, Invariant, PTL DEF Spec, AssetSetIsOneCallers
=============================================================================
