----------------------------- MODULE MCFindings -----------------------------
(* Instances of Findings for TLC. *)
EXTENDS Findings, TLC

Symmetry == Permutations(Caller) \cup Permutations(Work)
=============================================================================
