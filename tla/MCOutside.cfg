SPECIFICATION OutsideSpec
CONSTANTS
    Record = {r1, r2}
    Lost = Lost
    None = None
    Client = {a}
    Engagement = {p}
    Finding = {f, g}
    ClientOf <- MCClientOf
    EngagementOf <- MCEngagementOf
    Slot = {s1, s2}
    Nothing = Nothing
    Session = {s}
    Worker = {w1, w2}
    MaxFaults = 2
    Null = Null
CHECK_DEADLOCK FALSE
INVARIANTS
    BackupIsConsistent
    ApplicationRunsOnMatchingStores
    BusyEndsWithTheCalls
    LateWorkIsFenced
    OneHolder
PROPERTIES
    EvidenceIsTheFindings
    NoEventIsStuck
