----------------------------- MODULE MCOutside -----------------------------
(***************************************************************************)
(* The three parts that share no state with the store or each other: the   *)
(* recovery script, the page, and the helper of the live mode.  One of     *)
(* them, chosen at the start, moves; the others stay where they begin, as  *)
(* their interleavings would show nothing.                                 *)
(***************************************************************************)
EXTENDS Recovery, MCWorkspace, Live

VARIABLE part       \* the one that moves

outsideVars == <<part, recoveryVars, pageVars, liveVars>>

PageAtRest ==
    /\ section = "overview" /\ view = NoView /\ busy = ""
    /\ calls = [s \in Slot |-> Nothing]

OutsideInit ==
    /\ part \in {"recovery", "page", "live"}
    /\ RecoveryInit /\ LiveInit
    /\ IF part = "page" THEN PageInit ELSE PageAtRest

RecoveryMoves == part = "recovery" /\ RecoveryNext /\ UNCHANGED <<part, pageVars, liveVars>>
PageMoves == part = "page" /\ PageNext /\ UNCHANGED <<part, recoveryVars, liveVars>>
LiveMoves == part = "live" /\ LiveNext /\ UNCHANGED <<part, recoveryVars, pageVars>>

OutsideNext == RecoveryMoves \/ PageMoves \/ LiveMoves

\* The fairness of Live, for the runs in which it moves.
OutsideSpec ==
    /\ OutsideInit /\ [][OutsideNext]_outsideVars
    /\ part = "live" => LiveFairness
=============================================================================
