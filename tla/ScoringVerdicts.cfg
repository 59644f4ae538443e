SPECIFICATION PairSpec
CONSTANTS
    Thresholds <- AllThresholds
    Similarities = {0, 79, 90}
    Ratios = {0, 60, 85, 86}
    Weights = {1000, 1200}
    Distances = {3, 8, 20}
    Cosines = {70, 91, 98}
    InBounds <- TextOrPicture
    None = None
INVARIANT MatchOutvotesNoConflict
INVARIANT MatchesAreRelevant
INVARIANT PictureLiftsOneStep
INVARIANT PictureIsNoProof
INVARIANT IdentifierDecides
PROPERTY AgreementNeverHurts
