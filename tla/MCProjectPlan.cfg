SPECIFICATION Spec
CONSTANTS
    User = {u1, u2, admin}
    Admins = {admin}
    Draft = {led, leaderless}
    WithLead = {led}
    MaxVersion = 2
    None = None
SYMMETRY Symmetry
INVARIANTS
    ActivePlanHasLead
    ActivePlanIsReadWhole
PROPERTIES
    FrozenOnceActive
