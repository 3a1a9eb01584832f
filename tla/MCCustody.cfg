SPECIFICATION Spec
CONSTANTS
    Finding = {f1, f2}
    Capture = {c1}
    Revision = {r1, r2}
    Document = {d1}
    MaxRetests = 1
    Request = {q1, q2}
    None = None
SYMMETRY Symmetry
INVARIANTS
    StoredIsInCustody
    Reconcilable
    ReportIsOneMoment
    OneApproval
PROPERTIES
    FilesOnce
