CONSTANTS
    u1 = u1
    w1 = w1
    w2 = w2
    legal = legal
    Users = {u1}
    Submitter = u1
    Roles = {legal}
    RoleOf <- RoleOfAll
    Policies <- OneStage
    ClientKeys = {}
    CommentKeys = {}
    Escalators = {}
    MaxActs = 1
    None = None
    Subjects <- WorkflowEvents
    MessageIds = {m1, m2}
    MaxReceives = 0
    Dispatchers = {d1}
    Relays = {r1}
    Workers = {w1}
    Migrated = {FALSE, TRUE}
    LateWrites = FALSE
    MaxFaults = 1
SPECIFICATION DeliverySpec
INVARIANTS
    EventWakeUp
    PackageTellsTheDecision
    DeletionKnowsPackages
SYMMETRY Symmetry
CHECK_DEADLOCK FALSE
