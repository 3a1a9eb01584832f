----------------------------- MODULE MCCustody ------------------------------
(* Instances of Custody for TLC. *)
EXTENDS Custody, TLC

Symmetry == Permutations(Request) \cup Permutations(Capture) \cup Permutations(Revision)
                \cup Permutations(Finding)
=============================================================================
