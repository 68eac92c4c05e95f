SPECIFICATION Spec
CONSTANTS
    Scenes = {"comparison"}
    PlaybookIds = {i1, i2}
    Routes = {nda}
    r1 = r1
    r2 = r2
    Rules = {r1, r2}
    ClauseOf <- ClauseOfRules
    Complete = {r1, r2}
    VersionIds = {o1, o2}
    Calls = {c1, c2}
    None = None
    PolicyIds = {i1, i2}
    Directions = {"counterparty"}
    Jurisdictions = {"UAE", "KSA"}
    Materialities = {}
    Precedences = {100}
    StageLists <- StageListsTwo
    MaxPolicyVersions = 2
    Publishers = {c1, c2}
    NoPolicy = NoPolicy
    AgreementIds = {i1, i2}
    Objects = {o1, o2}
    Transactions = {c1, c2}
    MaxVersions = 2
    Rewrites = {"archive", "restore"}
    MaxFaults = 0
    Nobody = Nobody
    Documents = {"d"}
    Texts = {o1, o2}
    Configurations = {i1, i2, "broken"}
    Valid = {i1, i2}
    BuiltIn = "builtin"
    MaxPromotions = 2
    Sinks = {c1, c2}
    Offers = {"p1", "p2"}
    RuleOf <- RuleOfOffer
    RankOf <- RankOfOffer
    Analyses <- AnalysesTwo
    CanonicalOf <- CanonicalOfClause
    Floor = 8
    DecisionChoices <- DecisionsThree
    Severity = "high"
    MaxJobs = 1
    MaxOverrides = 1
    MaxDecisions = 3
    Reviewers = {c1, c2}
    Nil = Nil
    Versions <- VersionsThree
    Contents <- ContentsOne
    Providers = {Absent}
    Comparers = {c1, c2}
    MaxReindexed = 0
    MaxCompared = 2
    MaxTries = 2
    Comparing = {c1, c2}
    Absent = Absent
    Deployments <- DeploymentsThree
    Settings = {"a", "b", "x"}
    SettingOf <- SettingOfThree
    DefaultSetting = "default"
    Passages = {"p", "q"}
    NoModel = NoModel
    MaxTokens = 4
    ChunkOverlap = 2
    Lengths = {1, 2, 4, 5}
    MaxBlocks = 4
SYMMETRY Symmetry
INVARIANT ComparisonsFindTheirSources
CHECK_DEADLOCK FALSE
