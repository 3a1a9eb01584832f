SPECIFICATION FairSpec
CONSTANTS
    User = {u1, u2}
    Admin = u1
    Session = {s1}
    Request = {q1, q2}
    Org = Org
    None = None
INVARIANTS
    AdminRemains
PROPERTIES
    ChangesOnlyWhatItWasAsked
    DeactivationEndsSessions
    EveryRequestEnds
