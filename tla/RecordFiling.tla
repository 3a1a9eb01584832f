---------------------------- MODULE RecordFiling ----------------------------
(***************************************************************************)
(* What an engagement's custody promises, without requests, rows or        *)
(* uploads that go astray: a record is claimed for some content, its bytes *)
(* come to the store, only then is it filed, and one filed record is       *)
(* approved.  None of this is taken back.  Custody implements it.          *)
(***************************************************************************)
CONSTANTS
    Record,     \* what can be filed
    Revision,   \* the records that can be approved
    Content     \* what a record can be claimed for

VARIABLES
    claimed,    \* what each record is claimed for: nothing, or one content
    there,      \* the records whose bytes are in the store
    filed,      \* the records that read as stored
    approved    \* the record that was approved

vars == <<claimed, there, filed, approved>>

Init ==
    /\ claimed = [x \in Record |-> {}]
    /\ there = {}
    /\ filed = {}
    /\ approved = {}

Claim(x) ==
    /\ claimed[x] = {}
    /\ \E c \in Content : claimed' = [claimed EXCEPT ![x] = {c}]
    /\ UNCHANGED <<there, filed, approved>>

Arrive(x) ==
    /\ claimed[x] # {}
    /\ there' = there \cup {x}
    /\ UNCHANGED <<claimed, filed, approved>>

File(x) ==
    /\ x \in there
    /\ filed' = filed \cup {x}
    /\ UNCHANGED <<claimed, there, approved>>

Approve(x) ==
    /\ x \in filed
    /\ approved = {}
    /\ approved' = {x}
    /\ UNCHANGED <<claimed, there, filed>>

Next ==
    \/ \E x \in Record : Claim(x) \/ Arrive(x) \/ File(x)
    \/ \E x \in Revision : Approve(x)

Spec == Init /\ [][Next]_vars
=============================================================================
