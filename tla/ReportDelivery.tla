--------------------------- MODULE ReportDelivery ---------------------------
(***************************************************************************)
(* What the report pipeline promises, without requests, reservations or an *)
(* object store: an approved DOCX revision is delivered as one PDF, once.  *)
(* Module Delivery is the detailed specification that implements this one. *)
(***************************************************************************)
CONSTANTS
    Revision,   \* the DOCX revisions of the organization
    Pdf,        \* the identities a delivered PDF can have
    NoPdf       \* "not delivered"

VARIABLES
    approved,   \* the revisions an approver accepted
    delivered   \* the PDF each revision was delivered as, or NoPdf

vars == <<approved, delivered>>

TypeOK ==
    /\ approved \subseteq Revision
    /\ delivered \in [Revision -> Pdf \cup {NoPdf}]

Init ==
    /\ approved = {}
    /\ delivered = [r \in Revision |-> NoPdf]

Approve(r) ==
    /\ r \notin approved
    /\ approved' = approved \cup {r}
    /\ UNCHANGED delivered

Deliver(r) ==
    /\ r \in approved
    /\ delivered[r] = NoPdf
    /\ \E p \in Pdf :
          /\ \A s \in Revision : delivered[s] # p
          /\ delivered' = [delivered EXCEPT ![r] = p]
    /\ UNCHANGED approved

Next == \E r \in Revision : Approve(r) \/ Deliver(r)

Spec == Init /\ [][Next]_vars

\* What a caller who keeps asking may count on.
EventuallyDelivered ==
    \A r \in Revision : r \in approved ~> delivered[r] # NoPdf
=============================================================================
