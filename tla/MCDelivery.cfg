SPECIFICATION FairSpec
CONSTANTS
    Revision = {r1}
    Engagement <- SameEngagement
    Pdf = {p1, p2, p3}
    Request = {q1, q2}
    Altered = Altered
    None = None
    MaxFaults = 2
INVARIANTS
    OneEffectivePdf
    StoredIsWhatWasApproved
    CreatedIsDelivered
    AuditTellsTheHistory
    NoStrayObject
PROPERTIES
    SettledForGood
    DeliversOnce
    EventuallyDelivered
