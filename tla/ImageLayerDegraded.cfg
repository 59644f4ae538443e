SPECIFICATION Spec
CONSTANTS
    Refs = {r1}
    Workers = {w1}
    Pictures = {p1, p2}
    Unusable = {}
    Models = {m1, none}
    NullModel = none
    Nothing = Nothing
    ImageBatch = 1
    MaxChanges = 3
    MaxPk = 1
    MaxRuns = 1
INVARIANT VectorIsOfHashedPicture
CHECK_DEADLOCK FALSE
