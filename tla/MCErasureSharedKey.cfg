CONSTANTS
    j1 = j1
    j2 = j2
    k1 = k1
    Jobs = {j1, j2}
    Keys = {k1}
    KeyOf <- KeyOfOne
    Workers = {w1}
    Sweepers = {s1}
    None = None
    Erasure = Erasure
    Subjects = {j1, j2, Erasure}
    MessageIds = {m1, m2}
    MaxReceives = 0
    LatePuts = FALSE
    MaxFaults = 1
    MaxAttempts = 1
    MaxDeletionAttempts = 2
    MaxCalls = 1
SPECIFICATION Spec
INVARIANTS
    ErasureInv
    CompletedJobHasArtifact
    TypeOK
    DeletionWakeUp
SYMMETRY SymmetryOfJobs
CHECK_DEADLOCK FALSE
