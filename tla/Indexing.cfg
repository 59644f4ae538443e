SPECIFICATION FairSpec
CONSTANTS
    Refs = {r1, r2}
    NoRef = NoRef
    Nothing = Nothing
    TextWorkers = {w1}
    ImageWorkers = {i1}
    RawRefs = {r1}
    MaxChanges = 2
    Pictures = {p1, p2}
    Unusable = {}
    Models = {m1, none}
    NullModel = none
    ImageBatch = 2
    MaxRuns = 1
INVARIANT PicturesAreOwed
PROPERTY EventuallyFresh
PROPERTY EventuallyHashed
CHECK_DEADLOCK FALSE
