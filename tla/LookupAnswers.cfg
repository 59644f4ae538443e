SPECIFICATION Spec
CONSTANTS
    None = None
    Items = {p1, p2, a1}
    AtlasItems = {a1}
    Kinds = {"pim", "atlas", "feed"}
    KindOf <- MCKindOf
    Providers = {"pim", "atlas"}
    BatchKinds = {"pim"}
    Evidence <- MCEvidence
    Threshold <- MCThreshold
    PoolLimit = 2
    TrigramLimit = 2
    ImageTopK = 1
    WordLimit = 2
    Queries <- MCQueries
    MaxTouched = 1
    MaxGeneration = 1
SYMMETRY Symmetry
INVARIANT AnswerIsCurrent
INVARIANT IdentifiedItemIsFound
INVARIANT WordsDisplaceNothing
INVARIANT NothingBetterIsHidden
INVARIANT AuditIsTheAnswer
INVARIANT NoWarningMeansWholeQuery
CHECK_DEADLOCK FALSE
