SPECIFICATION PageSpec
CONSTANTS
    Client = {a}
    Engagement = {p, q}
    Finding = {f}
    ClientOf <- MCClientOf
    EngagementOf <- MCEngagementOf
    Slot = {s1, s2}
    Nothing = Nothing
INVARIANTS
    ImportsAreTheProjects
