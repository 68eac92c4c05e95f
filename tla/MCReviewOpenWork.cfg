CONSTANTS
    Scenes = {"review"}
    u1 = u1
    u2 = u2
    u3 = u3
    legal = legal
    business = business
    Users = {u1, u2, u3}
    Submitter = u1
    Roles = {legal, business}
    RoleOf <- RoleOfThree
    Policies <- SmallStage
    ClientKeys = {k1}
    CommentKeys = {}
    Escalators = {}
    MaxActs = 3
    None = None
    Requests = {"t1", "s1", "j1", "j2"}
    RouteOf <- RouteOfFour
    KeyOf <- KeyOfFour
    EstimateOf <- Estimates
    Actuals = {0, 4}
    TokenBudget = 5
    RateLimit = 1
    WindowLength = 2
    NoRow = NoRow
    Corpus = {"a", "b"}
    Checksums = {"d1", "d2"}
    VersionsOf <- VersionsOfAgreement
    Chunks = {"k1", "k2", "k3", "k4"}
    DocumentOf <- DocumentOfChunk
    Anchors = {"x", "y", "z", "h"}
    AnchorsOf <- AnchorsOfChunk
    Sentences = {"term", "law"}
    PreviewOf <- PreviewOfChunk
    Hostile = {"k4"}
    Threads = {"t", "u"}
    ScopeOf <- ScopeOfThread
    Callers = {k1}
    ChannelLimit = 1
    MaxAsking = 1
    Moving = {"a"}
    MaxTurns = 1
    Nothing = Nothing
SPECIFICATION Spec
PROPERTIES
    TerminalDecisionClosesWork
CHECK_DEADLOCK FALSE
