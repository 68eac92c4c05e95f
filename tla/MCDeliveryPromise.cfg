CONSTANTS
    u1 = u1
    w1 = w1
    w2 = w2
    legal = legal
    Users = {u1}
    Submitter = u1
    Roles = {legal}
    RoleOf <- RoleOfAll
    Policies <- OneStage
    ClientKeys = {}
    CommentKeys = {c1}
    Escalators = {}
    MaxActs = 2
    None = None
    Subjects <- WorkflowEvents
    MessageIds = {m1}
    MaxReceives = 0
    Dispatchers = {}
    Relays = {r1}
    Workers = {w1, w2}
    Migrated = {FALSE}
    LateWrites = TRUE
    MaxFaults = 1
SPECIFICATION FairDeliverySpec
INVARIANTS
    RetriesDoNotConflict
PROPERTIES
    KeepsPromise
CHECK_DEADLOCK FALSE
