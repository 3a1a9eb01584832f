SPECIFICATION Spec
CONSTANTS
    User = {author, admin}
    Administrator = {admin}
    Template = {t1}
    Engagement = {e1, e2}
    short = short
    long = long
    empty = empty
    Submission = {short, long, empty}
    ItemsOf <- MCItemsOf
    Request = {q1, q2, q3}
    None = None
SYMMETRY Symmetry
INVARIANTS
    TypeOK
    VersionIsOneSubmission
    ChecklistIsTheVersion
    UpdatesMeetDrafts
