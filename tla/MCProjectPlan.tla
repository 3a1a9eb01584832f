---------------------------- MODULE MCProjectPlan ----------------------------
(* Instances of ProjectPlan for TLC. *)
EXTENDS ProjectPlan, TLC

Symmetry == Permutations(User \ Admins)
=============================================================================
