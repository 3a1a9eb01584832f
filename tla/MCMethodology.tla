--------------------------- MODULE MCMethodology ----------------------------
(* Instances of Methodology for TLC: two submissions with items, one without. *)
EXTENDS Methodology, TLC

CONSTANTS short, long, empty

MCItemsOf == short :> {1} @@ long :> {2, 3} @@ empty :> {}

Symmetry == Permutations(Request) \cup Permutations(Engagement)
=============================================================================
