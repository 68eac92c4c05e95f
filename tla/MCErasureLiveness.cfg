CONSTANTS
    j1 = j1
    j2 = j2
    k1 = k1
    Jobs = {j1}
    Keys = {k1}
    KeyOf <- KeyOfOne
    Workers = {w1}
    Sweepers = {s1}
    None = None
    Erasure = Erasure
    Subjects = {j1, Erasure}
    MessageIds = {m1, m2, m3, m4}
    MaxReceives = 0
    LatePuts = FALSE
    MaxFaults = 1
    MaxAttempts = 2
    MaxDeletionAttempts = 2
    MaxCalls = 0
SPECIFICATION FairSpec
PROPERTIES
    DeletionSettles
    JobSettles
CHECK_DEADLOCK FALSE
