SPECIFICATION LiveFairSpec
CONSTANTS
    Session = {s1}
    Worker = {w1, w2}
    MaxFaults = 2
    Null = Null
PROPERTIES
    DecisionsAreRequeued
