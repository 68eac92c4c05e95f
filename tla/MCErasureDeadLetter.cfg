CONSTANTS
    j1 = j1
    j2 = j2
    k1 = k1
    Jobs = {j1}
    Keys = {k1}
    KeyOf <- KeyOfOne
    Workers = {w1}
    Sweepers = {s1}
    None = None
    Erasure = Erasure
    Subjects = {j1, Erasure}
    MessageIds = {m1, m2}
    MaxReceives = 2
    LatePuts = FALSE
    MaxFaults = 1
    MaxAttempts = 1
    MaxDeletionAttempts = 1
    MaxCalls = 0
SPECIFICATION Spec
INVARIANTS
    StuckJobCanBeRequeued
SYMMETRY Symmetry
CHECK_DEADLOCK FALSE
