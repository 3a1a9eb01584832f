SPECIFICATION Spec
CONSTANTS
    Finding = {f1}
    Asset = {a1, a2, b}
    Foreign = {b}
    Work = {w1, w2}
    Caller = {c1, c2}
    MaxRound = 2
    None = None
SYMMETRY Symmetry
INVARIANTS
    StateIsHistory
    WorkRecordedOnce
    RoundsAsAnswered
PROPERTIES
    AssetSetIsOneCallers
