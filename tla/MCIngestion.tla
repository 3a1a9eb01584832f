---------------------------- MODULE MCIngestion -----------------------------
(* Instances of Ingestion for TLC: scans that saw the same hosts, in either  *)
(* order, and one that saw none.                                             *)
EXTENDS Ingestion, TLC

CONSTANTS up, down, none, n1, n2

MCNamesOf == [a \in Artifact |-> CASE a = up -> <<n1, n2>>
                                   [] a = down -> <<n2, n1>>
                                   [] a = none -> <<>>]
=============================================================================
