----------------------------- MODULE Workspace -----------------------------
(***************************************************************************)
(* The workspace of the web client (web/app/page.tsx): a client, a project *)
(* and a finding are selected, lists are read for them, forms are sent.    *)
(* Handlers run up to an await; the calls they wait for are answered, or   *)
(* fail, in any order, and the operator goes on selecting meanwhile.       *)
(*                                                                         *)
(* A list is modelled by the set of those whose records it shows: the      *)
(* clients of the projects listed, the projects of the findings listed...  *)
(***************************************************************************)
CONSTANTS
    Client, Engagement, Finding,
    ClientOf, EngagementOf,     \* whose projects and findings these are
    Slot,                       \* handlers that may be waiting at once (bound)
    Nothing

ASSUME ClientOfAssumption == ClientOf \in [Engagement -> Client]
ASSUME EngagementOfAssumption == EngagementOf \in [Finding -> Engagement]

VARIABLES
    section,    \* the page: each is a mount of its own
    view,       \* what is selected and what is listed
    busy,       \* the operation whose button shows that it runs
    calls       \* the handlers that wait, each with the calls it waits for

pageVars == <<section, view, busy, calls>>

Section == {"overview", "clients", "projects", "findings", "evidence", "imports", "reports"}

ProjectReads == {"findings", "reports", "ingestions", "checklist"}
FindingReads == {"retests", "evidence"}
Posts == {"create client", "create engagement", "create finding", "triage", "retest",
          "capture", "report", "generate", "approve", "pdf"}
Reads == ProjectReads \cup FindingReads \cup {"context", "engagements", "own checklist"}

\* `then` is what follows the last call: "idle" clears busy, "own checklist" is the
\* second read of createEngagement.
Call == [id : Client \cup Engagement \cup Finding, left : SUBSET (Posts \cup Reads),
         ok : BOOLEAN, then : {"nothing", "idle", "own checklist"}]

ASSUME NothingAssumption == Nothing \notin Call

PageTypeOK ==
    /\ section \in Section
    /\ view \in [client : Client \cup {Nothing}, engagement : Engagement \cup {Nothing},
                 finding : Finding \cup {Nothing}, engagementRef : Engagement \cup {Nothing},
                 findingRef : Finding \cup {Nothing}, engagements : SUBSET Client,
                 findings : SUBSET Engagement, retests : SUBSET Finding, evidence : SUBSET Finding,
                 reports : SUBSET Engagement, pdfs : SUBSET Engagement,
                 ingestions : SUBSET Engagement, checklist : Engagement \cup {Nothing}]
    /\ busy \in Posts \cup {""}
    /\ calls \in [Slot -> Call \cup {Nothing}]
-----------------------------------------------------------------------------
(* Selections *)

Cleared(v) ==
    [v EXCEPT !.checklist = Nothing, !.findings = {}, !.finding = Nothing, !.findingRef = Nothing,
              !.retests = {}, !.evidence = {}, !.reports = {}, !.pdfs = {}]

\* selectClient: neither the reference to the project nor the imports are reset.
WithClient(v, c) ==
    [Cleared(v) EXCEPT !.client = c, !.engagements = {}, !.engagement = Nothing]

WithEngagement(v, e) ==
    [Cleared(v) EXCEPT !.engagement = e, !.engagementRef = e, !.ingestions = {}]

\* selectFinding: the lists of the last finding stay until others arrive.
WithFinding(v, f) ==
    [v EXCEPT !.finding = f, !.findingRef = f,
              !.retests = IF f = Nothing THEN {} ELSE @, !.evidence = IF f = Nothing THEN {} ELSE @]

Waiting(id, left, then) == [id |-> id, left |-> left, ok |-> TRUE, then |-> then]
Free(s) == calls[s] = Nothing
Begin(s, call) == Free(s) /\ calls' = [calls EXCEPT ![s] = call]

SelectClient(s, c) ==
    /\ view' = WithClient(view, c)
    /\ IF c = Nothing THEN UNCHANGED calls ELSE Begin(s, Waiting(c, {"engagements"}, "nothing"))
    /\ UNCHANGED <<section, busy>>

\* The control is disabled without a client, and offers what is listed.
SelectEngagement(s, e) ==
    /\ view.client # Nothing
    /\ e \in {Nothing} \cup {x \in Engagement : ClientOf[x] \in view.engagements}
    /\ view' = WithEngagement(view, e)
    /\ IF e = Nothing THEN UNCHANGED calls ELSE Begin(s, Waiting(e, ProjectReads, "nothing"))
    /\ UNCHANGED <<section, busy>>

SelectFinding(s, f) ==
    /\ section \in {"findings", "evidence"} /\ view.engagement # Nothing
    /\ f \in {x \in Finding : EngagementOf[x] \in view.findings}
             \cup (IF section = "evidence" THEN {Nothing} ELSE {})
    /\ view' = WithFinding(view, f)
    /\ IF f = Nothing THEN UNCHANGED calls ELSE Begin(s, Waiting(f, FindingReads, "nothing"))
    /\ UNCHANGED <<section, busy>>
-----------------------------------------------------------------------------
(* Forms and buttons *)

Submit(s, op, on, id) ==
    /\ section = on /\ busy # op
    /\ busy' = op
    /\ Begin(s, Waiting(id, {op}, "idle"))
    /\ UNCHANGED <<section, view>>

\* A new client: which one it is shows when it is answered.
CreateClient(s) == \E c \in Client : Submit(s, "create client", "clients", c)

CreateEngagement(s) ==
    view.client # Nothing /\ Submit(s, "create engagement", "projects", view.client)

CreateFinding(s) ==
    view.engagement # Nothing /\ Submit(s, "create finding", "findings", view.engagement)

\* What needs the selected finding to be in the list (selectedFinding).
Shown == view.finding # Nothing /\ EngagementOf[view.finding] \in view.findings

ConfirmFinding(s) ==
    Shown /\ \E on \in {"findings", "evidence"} : Submit(s, "triage", on, view.finding)

SubmitRetest(s) == Shown /\ Submit(s, "retest", "evidence", view.finding)
SubmitEvidence(s) == view.finding # Nothing /\ Submit(s, "capture", "evidence", view.finding)

SubmitReport(s) == view.engagement # Nothing /\ Submit(s, "report", "reports", view.engagement)
GenerateReport(s) == view.engagement # Nothing /\ Submit(s, "generate", "reports", view.engagement)
ApproveReport(s) == \E e \in view.reports : view.engagement # Nothing /\ Submit(s, "approve", "reports", e)
DerivePDF(s) == \E e \in view.reports : view.engagement # Nothing /\ Submit(s, "pdf", "reports", e)
-----------------------------------------------------------------------------
(* Answers *)

\* currentIngestions
CurrentIngestions(active, requested, shown) == IF active = requested THEN {requested} ELSE shown

\* Mutant: the answer is shown, whatever is selected by now.
AnyEvidence(v, id) == [v EXCEPT !.evidence = {id}]

LoadEvidence(v, id) == IF v.findingRef = id THEN [v EXCEPT !.evidence = {id}] ELSE v

\* What a read puts into the view.  Evidence alone is compared with the selection of
\* this moment: loadIngestions evaluates engagementIDRef.current, the first argument
\* of currentIngestions, before it awaits the last one, and at that time it still is
\* the project whose imports are asked for.
Loaded(v, read, id) ==
    CASE read = "engagements" -> [v EXCEPT !.engagements = {id}]
      [] read = "findings" -> [v EXCEPT !.findings = {id}]
      [] read = "retests" -> [v EXCEPT !.retests = {id}]
      [] read = "evidence" -> LoadEvidence(v, id)
      [] read = "reports" -> [v EXCEPT !.reports = {id}]
      [] read = "ingestions" ->
            [v EXCEPT !.ingestions = CurrentIngestions(id, id, v.ingestions)]
      [] read \in {"checklist", "own checklist"} -> [v EXCEPT !.checklist = id]
      [] read = "context" -> [v EXCEPT !.client = ClientOf[id], !.engagements = {ClientOf[id]}]

\* `finally { setBusy("") }`, whichever operation shows as busy by now.
ClearBusy == busy' = ""

\* What follows a group of calls, of which `left` are still on their way: nobody
\* waits for those any more, but they still do their part.
Continue(s, call, left) ==
    LET rest == IF call.then = "own checklist" THEN left \cup {"own checklist"} ELSE left
        then == IF call.then = "own checklist" THEN "idle" ELSE "nothing"
    IN  /\ calls' = [calls EXCEPT ![s] = IF rest = {} THEN Nothing
                        ELSE [call EXCEPT !.left = rest, !.ok = FALSE, !.then = then]]
        /\ IF call.then = "idle" THEN ClearBusy ELSE UNCHANGED busy

\* One of several calls is answered.  The checklist is put off to the end of its
\* Promise.all, where it is set.
Part(s, read) ==
    LET call == calls[s] IN
    /\ call.left # {read} \/ ~ call.ok
    /\ read \notin {"checklist", "own checklist"}
    /\ view' = Loaded(view, read, call.id)
    /\ calls' = [calls EXCEPT ![s] = IF call.left = {read} THEN Nothing ELSE [call EXCEPT !.left = @ \ {read}]]
    /\ UNCHANGED <<section, busy>>

LastPart(s, read) ==
    /\ calls[s].ok /\ calls[s].left = {read} /\ read \in Reads
    /\ view' = Loaded(view, read, calls[s].id)
    /\ Continue(s, calls[s], {})
    /\ UNCHANGED section

\* Mutant: the error is shown, and the operation goes on showing as busy.
RejectedUnfinished(s, call) ==
    /\ call.ok
    /\ calls' = [calls EXCEPT ![s] = Nothing]
    /\ UNCHANGED <<section, view, busy>>

\* The first failure of a group is caught (setError), and the handler goes on.
Rejected(s, call) ==
    /\ call.ok
    /\ \E lost \in call.left : Continue(s, call, call.left \ {lost, "checklist"})
    /\ UNCHANGED <<section, view>>

\* A later failure of the group goes unheard.
Unheard(s, read) ==
    LET call == calls[s] IN
    /\ ~ call.ok /\ read # "own checklist"
    /\ calls' = [calls EXCEPT ![s] = IF call.left = {read} THEN Nothing ELSE [call EXCEPT !.left = @ \ {read}]]
    /\ UNCHANGED <<section, view, busy>>

\* The second read of createEngagement, which looks at no selection either.
OwnChecklist(s) ==
    LET call == calls[s] IN
    /\ "own checklist" \in call.left
    /\ view' \in {view, Loaded(view, "own checklist", call.id)}
    /\ Continue(s, call, call.left \ {"own checklist"})
    /\ UNCHANGED section

\* What a form does when it has been answered and is not over yet.
GoOn(s, op, id) ==
    \/ /\ op = "create client"
       /\ view' = WithClient(view, id)
       /\ calls' = [calls EXCEPT ![s] = Waiting(id, {"engagements"}, "idle")]
    \/ /\ op = "create engagement"
       /\ \E e \in Engagement :
             /\ ClientOf[e] = id
             /\ view' = WithEngagement([view EXCEPT !.engagements = @ \cup {id}], e)
             /\ calls' = [calls EXCEPT ![s] = Waiting(e, ProjectReads, "own checklist")]
    \/ /\ op = "create finding"
       /\ \E f \in Finding :
             /\ EngagementOf[f] = id
             /\ view' = WithFinding([view EXCEPT !.findings = @ \cup {id}], f)
             /\ calls' = [calls EXCEPT ![s] = Waiting(f, FindingReads, "idle")]
    \/ /\ op = "capture"
       /\ calls' = [calls EXCEPT ![s] = Waiting(id, {"evidence"}, "idle")]
       /\ UNCHANGED view

\* ... and when it is: the answer is appended to the list that is there by now.
Appended(v, op, id) ==
    CASE op = "retest" -> [v EXCEPT !.retests = @ \cup {id}]
      [] op \in {"report", "generate"} -> [v EXCEPT !.reports = @ \cup {id}]
      [] op = "pdf" -> [v EXCEPT !.pdfs = @ \cup {id}]
      [] op \in {"triage", "approve"} -> v

Posted(s, op) ==
    LET id == calls[s].id IN
    /\ \/ /\ GoOn(s, op, id)
          /\ UNCHANGED busy
       \/ /\ op \in {"retest", "report", "generate", "pdf", "triage", "approve"}
          /\ view' = Appended(view, op, id)
          /\ Continue(s, calls[s], {})
    /\ UNCHANGED section
-----------------------------------------------------------------------------
NoView == [client |-> Nothing, engagement |-> Nothing, finding |-> Nothing, engagementRef |-> Nothing,
           findingRef |-> Nothing, engagements |-> {}, findings |-> {}, retests |-> {},
           evidence |-> {}, reports |-> {}, pdfs |-> {}, ingestions |-> {}, checklist |-> Nothing]

\* A page without a project, or the page of one: its context is read while the
\* project is selected.
PageInit ==
    /\ busy = ""
    /\ \/ /\ section \in {"overview", "clients", "projects"}
          /\ view = NoView
          /\ calls = [s \in Slot |-> Nothing]
       \/ \E e \in Engagement, s, t \in Slot :
             /\ s # t
             /\ section \in {"overview", "findings", "evidence", "imports", "reports"}
             /\ view = WithEngagement(NoView, e)
             /\ calls = [x \in Slot |-> CASE x = s -> Waiting(e, {"context"}, "nothing")
                                          [] x = t -> Waiting(e, ProjectReads, "nothing")
                                          [] OTHER -> Nothing]

Operator(s) ==
    \/ \E c \in Client \cup {Nothing} : SelectClient(s, c)
    \/ \E e \in Engagement \cup {Nothing} : SelectEngagement(s, e)
    \/ \E f \in Finding \cup {Nothing} : SelectFinding(s, f)
    \/ CreateClient(s) \/ CreateEngagement(s) \/ CreateFinding(s)
    \/ ConfirmFinding(s) \/ SubmitRetest(s) \/ SubmitEvidence(s)
    \/ SubmitReport(s) \/ GenerateReport(s) \/ ApproveReport(s) \/ DerivePDF(s)

CallReturns(s) ==
    /\ calls[s] # Nothing
    /\ \/ \E read \in calls[s].left \cap Reads : Part(s, read) \/ LastPart(s, read) \/ Unheard(s, read)
       \/ \E op \in calls[s].left \cap Posts : Posted(s, op)
       \/ Rejected(s, calls[s])
       \/ OwnChecklist(s)

PageNext == \E s \in Slot : Operator(s) \/ CallReturns(s)

PageSpec == PageInit /\ [][PageNext]_pageVars
-----------------------------------------------------------------------------
(* Properties *)

\* With a project selected, the imports shown are those of that project, whatever
\* was selected while they were read (operations.test.ts of currentIngestions: "keeps
\* imports only when their engagement remains selected").
ImportsAreTheProjects ==
    view.engagement # Nothing => view.ingestions \subseteq {view.engagement}

\* The custody chain never takes in evidence of another finding than the selected
\* one (loadEvidence), also when a capture reads it again after a new selection.
EvidenceIsTheFindings ==
    [][view'.evidence # view.evidence => view'.evidence \subseteq {view'.finding}]_pageVars

\* When no call is on its way no operation shows as busy, whichever of them failed,
\* and however they overlapped on the one variable that tells them apart.
BusyEndsWithTheCalls == (\A s \in Slot : Free(s)) => busy = ""
=============================================================================
