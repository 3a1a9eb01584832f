----------------------------- MODULE MCDelivery -----------------------------
(* One revision of one engagement. *)
EXTENDS Delivery

SameEngagement == [r \in Revision |-> 1]
=============================================================================
