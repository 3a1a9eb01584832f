-------------------------------- MODULE Live --------------------------------
(***************************************************************************)
(* The helper of the design skill's live mode (live-server.mjs): a browser *)
(* posts what its user wants of a session, agents poll for it, lease an    *)
(* event, work, and reply.  The server is one thread, and yields while it  *)
(* prepares a generation.  What it holds is in memory; each session has a  *)
(* journal, of which `snap` is what a replay gives (session-store.mjs).    *)
(*                                                                         *)
(* Operators take and give the whole state, as handlers run to their end.  *)
(***************************************************************************)
EXTENDS Naturals, SequencesExt

CONSTANTS
    Session,
    Worker,         \* agents, each with one poll or one event at a time
    MaxFaults,      \* interruptions, failures and crashes (bound)
    Null

ASSUME MaxFaultsAssumption == MaxFaults \in Nat

VARIABLES
    snap,       \* what the journal of each session amounts to
    queue,      \* pendingEvents, with whether a lease runs
    worker,     \* what each agent does
    faults      \* how much went wrong so far

liveVars == <<snap, queue, worker, faults>>

Type == {"generate", "accept", "discard", "variant_mount_failed"}

\* `tried` and `ready` are scaffoldAttempted and generationReadyAt.
Event == [id : Session, type : Type, tried : BOOLEAN, ready : BOOLEAN]

ASSUME NullAssumption == Null \notin Event \cup Type

CompletedPhases == {"completed", "discarded"}
FencedPhases == CompletedPhases \cup {"accept_requested", "discard_requested", "carbonize_required"}
Phase == FencedPhases \cup {"new", "generate_requested", "generating", "cycling", "variants_ready", "agent_error"}

LiveTypeOK ==
    /\ snap \in [Session -> [phase : Phase, canceled : BOOLEAN, pending : Event \cup {Null}]]
    /\ queue \in Seq([event : Event, leased : BOOLEAN])
    /\ worker \in [Worker -> [at : {"idle", "parked"}, event : {Null}, current : {FALSE}]
                        \cup [at : {"preparing", "holding"}, event : Event, current : BOOLEAN]]
    /\ faults \in 0..MaxFaults

NewEvent(s, type) == [id |-> s, type |-> type, tried |-> FALSE, ready |-> FALSE]
Same(e, f) == e.id = f.id /\ e.type = f.type
Idle == [at |-> "idle", event |-> Null, current |-> FALSE]
Now == [snap |-> snap, queue |-> queue, worker |-> worker]
-----------------------------------------------------------------------------
(* The journal: what each entry does to the snapshot (applyEvent) *)

\* Mutant: only the phase tells that a generation was canceled.
FencedByPhase(sn) == sn.phase \in FencedPhases

\* A generation that is over, or was given up: late results are ghosts.
Fenced(sn) == sn.canceled \/ sn.phase \in FencedPhases

Requested(sn, e) ==
    [sn EXCEPT !.phase = IF e.type = "generate" THEN "generate_requested" ELSE @, !.pending = e]

Decided(sn, e) ==
    [phase |-> IF e.type = "accept" THEN "accept_requested" ELSE "discard_requested",
     canceled |-> TRUE, pending |-> e]

MountFailed(sn, e) == [sn EXCEPT !.pending = IF @ = Null THEN e ELSE @]
Checkpointed(sn, phase) == IF Fenced(sn) THEN sn ELSE [sn EXCEPT !.phase = phase]

\* agent_done
Done(sn, carbonize) ==
    IF Fenced(sn) /\ ~ (carbonize /\ sn.phase = "accept_requested") THEN sn
    ELSE [sn EXCEPT !.phase = IF carbonize THEN "carbonize_required" ELSE "variants_ready",
                    !.pending = Null]

\* agent_error, for an event of type `source` when the reply acknowledged one.
Failed(sn, source) ==
    IF sn.canceled /\ source = "generate" THEN sn
    ELSE [sn EXCEPT !.phase = "agent_error", !.pending = Null]

Replied(sn, kind, source) ==
    CASE kind = "done" -> Done(sn, FALSE)
      [] kind = "carbonize" -> Done(sn, TRUE)
      [] kind = "error" -> Failed(sn, source)
      [] kind = "complete" -> [sn EXCEPT !.phase = "completed", !.pending = Null]
      [] kind = "discarded" -> [sn EXCEPT !.phase = "discarded", !.pending = Null]
-----------------------------------------------------------------------------
(* The queue: leases and acknowledgements *)

Priority(e) ==
    CASE e.type \in {"accept", "discard"} -> 0 [] e.type = "generate" -> 2 [] OTHER -> 3

Unleased(st) == {i \in DOMAIN st.queue : ~ st.queue[i].leased}

\* selectAvailablePendingEvent
Selected(st) ==
    CHOOSE i \in Unleased(st) : \A j \in Unleased(st) :
        LET p == Priority(st.queue[i].event)
            q == Priority(st.queue[j].event)
        IN  p < q \/ (p = q /\ i <= j)

\* The lease of an event is over, for whoever holds it.
Ended(workers, e) ==
    [w \in Worker |-> IF workers[w].event # Null /\ Same(workers[w].event, e)
                      THEN [workers[w] EXCEPT !.current = FALSE] ELSE workers[w]]

Kept(st, w, e) ==
    [st EXCEPT !.worker[w].event = e,
               !.queue = [i \in DOMAIN @ |-> IF Same(@[i].event, e) THEN [event |-> e, leased |-> TRUE]
                                             ELSE @[i]]]

\* leaseEvent after its await: a generation is journaled again when it is handed out.
Delivered(st, w) ==
    LET e == st.worker[w].event
        handed == [st EXCEPT !.worker[w].at = "holding"]
        ready == [e EXCEPT !.ready = TRUE]
    IN  IF e.type = "generate" /\ ~ e.ready
        THEN [Kept(handed, w, ready) EXCEPT !.snap[e.id] = Requested(@, ready)]
        ELSE handed

\* Mutant: the entry is claimed when the lease is handed out.
ClaimedLate(st, w, i) ==
    LET e == st.queue[i].event
        prepares == e.type = "generate" /\ ~ e.tried
    IN  [st EXCEPT !.queue[i].leased = ~ prepares,
                   !.worker[w] = [at |-> "preparing", event |-> e, current |-> TRUE]]

Claimed(st, w, i) ==
    [st EXCEPT !.queue[i].leased = TRUE,
               !.worker[w] = [at |-> "preparing", event |-> st.queue[i].event, current |-> TRUE]]

\* leaseEvent up to its await, or to its end when there is nothing to prepare.
Leased(st, w) ==
    LET e == st.queue[Selected(st)].event
        claimed == Claimed(st, w, Selected(st))
    IN  IF e.type = "generate" /\ ~ e.tried THEN claimed ELSE Delivered(claimed, w)

\* flushPendingPolls: a handler makes at most one event available.
Flushed(st) ==
    LET parked == {w \in Worker : st.worker[w].at = "parked"}
    IN  IF parked = {} \/ Unleased(st) = {} THEN {st} ELSE {Leased(st, w) : w \in parked}

\* enqueueEvent
Enqueued(st, e) ==
    IF \E i \in DOMAIN st.queue : Same(st.queue[i].event, e) THEN st
    ELSE [st EXCEPT !.queue = Append(@, [event |-> e, leased |-> FALSE])]

Matching(st, s, source) ==
    {i \in DOMAIN st.queue : st.queue[i].event.id = s /\ source \in {Null, st.queue[i].event.type}}

First(indices) == CHOOSE i \in indices : \A j \in indices : i <= j

\* acknowledgePendingEvent, and retirePendingGeneration.
Removed(st, i) ==
    [st EXCEPT !.queue = RemoveAt(@, i), !.worker = Ended(@, st.queue[i].event)]

Retired(st, s) ==
    IF Matching(st, s, "generate") = {} THEN st ELSE Removed(st, First(Matching(st, s, "generate")))

Become(states) ==
    \E st \in states : snap' = st.snap /\ queue' = st.queue /\ worker' = st.worker
-----------------------------------------------------------------------------
(* The browser: POST /events *)

Generate(s) ==
    /\ snap[s].phase = "new"
    /\ LET e == NewEvent(s, "generate")
       IN  Become(Flushed(Enqueued([Now EXCEPT !.snap[s] = Requested(@, e)], e)))
    /\ UNCHANGED faults

\* The page accepts what has arrived, whether or not the generation is done, and
\* again when it hears that accepting failed; it discards when it likes.
Decide(s, type) ==
    /\ snap[s].phase \notin {"new"} \cup CompletedPhases
    /\ ~ snap[s].canceled \/ snap[s].phase = "agent_error"
    /\ LET e == NewEvent(s, type)
       IN  Become(Flushed(Enqueued(Retired([Now EXCEPT !.snap[s] = Decided(@, e)], s), e)))
    /\ UNCHANGED faults

\* The wrapper is gone from the source: no agent is asked.
DiscardOrphan(s) ==
    /\ snap[s].phase \notin {"new"} \cup CompletedPhases
    /\ LET discarded == Replied(Decided(snap[s], NewEvent(s, "discard")), "discarded", Null)
       IN  Become({Retired([Now EXCEPT !.snap[s] = discarded], s)})
    /\ UNCHANGED faults

\* The server takes it of any session it knows.
ReportMountFailure(s) ==
    /\ snap[s].phase # "new"
    /\ LET e == NewEvent(s, "variant_mount_failed")
       IN  Become(Flushed(Enqueued([Now EXCEPT !.snap[s] = MountFailed(@, e)], e)))
    /\ UNCHANGED faults

\* One with an older revision than the last changes nothing.
Checkpoint(s) ==
    /\ snap[s].phase # "new"
    /\ \E phase \in {"generating", "cycling"} : snap' = [snap EXCEPT ![s] = Checkpointed(@, phase)]
    /\ UNCHANGED <<queue, worker, faults>>
-----------------------------------------------------------------------------
(* The agents: GET /poll and POST /poll *)

Poll(w) ==
    /\ worker[w].at = "idle"
    /\ Become({IF Unleased(Now) # {} THEN Leased(Now, w) ELSE [Now EXCEPT !.worker[w].at = "parked"]})
    /\ UNCHANGED faults

\* The poll times out, or its client closes the connection.
PollEnds(w) ==
    /\ worker[w].at = "parked"
    /\ worker' = [worker EXCEPT ![w] = Idle]
    /\ UNCHANGED <<snap, queue, faults>>

\* prepareGenerateEventForLease comes back, with a scaffold or without, and journals
\* the event again, whatever has become of the session meanwhile.
Prepared(w) ==
    /\ worker[w].at = "preparing"
    /\ LET e == [worker[w].event EXCEPT !.tried = TRUE]
           prepared == [Kept(Now, w, e) EXCEPT !.snap[e.id] = Requested(@, e)]
       IN  Become({Delivered(prepared, w)})
    /\ UNCHANGED faults

\* inferSourceEventType, for replies that name none.
Inferred(s, kind) ==
    LET types == {queue[i].event.type : i \in Matching(Now, s, Null)}
        leased == {i \in Matching(Now, s, Null) : queue[i].leased}
    IN  CASE kind = "discarded" -> "discard"
          [] kind = "complete" /\ "accept" \in types -> "accept"
          [] kind = "complete" /\ "accept" \notin types ->
                IF "generate" \in types THEN "generate" ELSE Null
          [] kind = "done" -> IF "generate" \notin types /\ "variant_mount_failed" \in types
                              THEN "variant_mount_failed" ELSE "generate"
          [] kind = "error" -> IF leased # {} THEN queue[First(leased)].event.type ELSE "generate"

\* A reply acknowledges what it matches, and is journaled unless it came for nothing
\* to a session that is over.  With `delivered` FALSE it is bounced after that: the
\* variants do not compile.  (The flush that follows finds nothing new to hand out.)
Reply(st, s, kind, source, delivered) ==
    LET match == Matching(st, s, source)
        acked == IF match = {} THEN st ELSE Removed(st, First(match))
        type == IF match = {} THEN Null ELSE st.queue[First(match)].event.type
    IN  IF ~ delivered \/ (match = {} /\ st.snap[s].phase \in CompletedPhases) THEN acked
        ELSE [acked EXCEPT !.snap[s] = Replied(@, kind, type)]

\* What an agent may say of an event; of decisions, what live-accept.mjs came to.
Kinds(type) ==
    CASE type = "accept" -> {"complete", "carbonize", "done"}
      [] type = "discard" -> {"discarded"}
      [] OTHER -> {"done"}

Holds(w) == worker[w].at = "holding"
Fault == faults < MaxFaults /\ faults' = faults + 1

ReplyOf(w, kind) ==
    LET e == worker[w].event
        sources == IF e.type \in {"accept", "discard"} THEN {e.type} ELSE {Inferred(e.id, kind)}
    IN  Become({Reply([Now EXCEPT !.worker[w] = Idle], e.id, kind, source, TRUE) : source \in sources})

Answer(w) ==
    /\ Holds(w)
    /\ \E kind \in Kinds(worker[w].event.type) : ReplyOf(w, kind)
    /\ UNCHANGED faults

AnswerError(w) == Holds(w) /\ ReplyOf(w, "error") /\ Fault

\* The agent goes on with the variants, and will reply again.
Bounce(w) ==
    /\ Holds(w) /\ worker[w].event.type \notin {"accept", "discard"}
    /\ LET e == worker[w].event
       IN  Become({Reply(Now, e.id, "done", Inferred(e.id, "done"), FALSE)})
    /\ Fault

\* live-complete.mjs, after the agent has cleaned up or merged by hand.
Complete(s) ==
    /\ snap[s].phase \in {"carbonize_required", "accept_requested", "discard_requested"}
    /\ Matching(Now, s, "accept") \cup Matching(Now, s, "discard") = {}
    /\ LET kind == IF snap[s].phase = "discard_requested" THEN "discarded" ELSE "complete"
       IN  Become({Reply(Now, s, kind, Inferred(s, kind), TRUE)})
    /\ UNCHANGED faults

\* Mutant: what has been leased is never available again.
NeverExpires(i) == FALSE /\ UNCHANGED liveVars

\* The lease runs out and the timer flushes.  No lease is shorter than the fifteen
\* seconds a preparation may take.
Expire(i) ==
    /\ queue[i].leased
    /\ \A w \in Worker : worker[w].at = "preparing" => ~ Same(worker[w].event, queue[i].event)
    /\ Become(Flushed([Now EXCEPT !.queue[i].leased = FALSE, !.worker = Ended(@, queue[i].event)]))
    /\ UNCHANGED faults
-----------------------------------------------------------------------------
(* What goes wrong *)

\* The agent is interrupted, or its poll was gone when the lease was handed out.
Interrupt(w) ==
    /\ Holds(w)
    /\ worker' = [worker EXCEPT ![w] = Idle]
    /\ Fault
    /\ UNCHANGED <<snap, queue>>

\* The agent hands its event back (a reply of type retry).
Retry(w) ==
    /\ Holds(w)
    /\ LET e == worker[w].event
           match == Matching(Now, e.id, e.type)
           given == [Now EXCEPT !.worker[w] = Idle]
       IN  /\ match # {}
           /\ Become(Flushed([given EXCEPT !.queue[First(match)].leased = FALSE, !.worker = Ended(@, e)]))
    /\ Fault

\* The journal cannot be written: the poll is told of a time-out, the claim stays.
LeaseFails(w) ==
    /\ worker[w].at = "preparing"
    /\ LET e == [worker[w].event EXCEPT !.tried = TRUE]
       IN  Become({[Kept(Now, w, e) EXCEPT !.worker[w] = Idle]})
    /\ Fault

\* restorePendingEventsFromStore, for the sessions that are not over.
Restored ==
    LET active == {s \in Session : snap[s].pending # Null /\ snap[s].phase \notin CompletedPhases}
    IN  SetToSeq({[event |-> snap[s].pending, leased |-> FALSE] : s \in active})

\* The server dies and is started again.
Crash ==
    /\ queue' = Restored
    /\ worker' = [w \in Worker |-> IF Holds(w) THEN [worker[w] EXCEPT !.current = FALSE] ELSE Idle]
    /\ Fault
    /\ UNCHANGED snap
-----------------------------------------------------------------------------
LiveInit ==
    /\ snap = [s \in Session |-> [phase |-> "new", canceled |-> FALSE, pending |-> Null]]
    /\ queue = <<>>
    /\ worker = [w \in Worker |-> Idle]
    /\ faults = 0

Browser ==
    \E s \in Session :
        \/ Generate(s) \/ DiscardOrphan(s) \/ ReportMountFailure(s) \/ Checkpoint(s) \/ Complete(s)
        \/ \E type \in {"accept", "discard"} : Decide(s, type)

Agent(w) ==
    Poll(w) \/ PollEnds(w) \/ Prepared(w) \/ Answer(w) \/ AnswerError(w) \/ Bounce(w)

LiveNext ==
    \/ Browser
    \/ \E w \in Worker : Agent(w) \/ Interrupt(w) \/ Retry(w) \/ LeaseFails(w)
    \/ \E i \in DOMAIN queue : Expire(i)
    \/ Crash

LiveSpec == LiveInit /\ [][LiveNext]_liveVars

\* Each lease runs out, a preparation ends (there is a time limit), and an agent that
\* is not interrupted replies and polls again.
LiveFairness ==
    /\ \A s \in Session, type \in Type : WF_liveVars(\E i \in Matching(Now, s, type) : Expire(i))
    /\ \A w \in Worker : WF_liveVars(Poll(w) \/ Prepared(w) \/ Answer(w))

LiveFairSpec == LiveSpec /\ LiveFairness
-----------------------------------------------------------------------------
(* Properties *)

\* Once the user has accepted or discarded, no late reply, checkpoint or preparation
\* brings the session back to variants that are offered, in whatever order they come
\* (the fence of session-store.mjs).
LateWorkIsFenced ==
    \A s \in Session : snap[s].canceled => snap[s].phase \notin {"variants_ready", "generating", "cycling"}

\* No event is with two agents while its lease runs, although the server yields
\* between the choice of an event and its delivery (leaseEvent).
OneHolder ==
    \A v, w \in Worker :
        v # w /\ worker[v].current /\ worker[w].current => ~ Same(worker[v].event, worker[w].event)

InQueue(s, type) == Matching(Now, s, type) # {}

\* No event stays in the queue for ever: what interrupted agents and failed leases
\* leave behind is handed out again, until it is acknowledged or retired.  (A restart
\* also takes events out; which of them it puts back is DecisionsAreRequeued.)
NoEventIsStuck == \A s \in Session, type \in Type : []<> ~ InQueue(s, type)

\* A restart requeues what the user decided of a session that is not over, when no
\* agent has acknowledged it (reference/live.md: "startup requeues unacknowledged
\* events").
DecisionsAreRequeued ==
    [][Crash => \A s \in Session, type \in {"accept", "discard"} :
           InQueue(s, type) /\ snap[s].phase \notin CompletedPhases => InQueue(s, type)']_liveVars
=============================================================================
