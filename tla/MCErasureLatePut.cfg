CONSTANTS
    j1 = j1
    j2 = j2
    k1 = k1
    Jobs = {j1}
    Keys = {k1}
    KeyOf <- KeyOfOne
    Workers = {w1, w2}
    Sweepers = {s1}
    None = None
    Erasure = Erasure
    Subjects = {j1, Erasure}
    MessageIds = {m1, m2}
    MaxReceives = 0
    LatePuts = TRUE
    MaxFaults = 2
    MaxAttempts = 1
    MaxDeletionAttempts = 1
    MaxCalls = 0
SPECIFICATION Spec
INVARIANTS
    NoOrphanObject
SYMMETRY Symmetry
CHECK_DEADLOCK FALSE
