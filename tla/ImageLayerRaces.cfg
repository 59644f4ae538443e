SPECIFICATION Spec
CONSTANTS
    Refs = {r1, r2}
    Workers = {w1, w2}
    Pictures = {p1, p2, bad}
    Unusable = {bad}
    Models = {m1, m2, none}
    NullModel = none
    Nothing = Nothing
    ImageBatch = 2
    MaxChanges = 1
    MaxPk = 1
    MaxRuns = 1
INVARIANT TypeOK
INVARIANT StaleHashIsOwed
INVARIANT StampMatchesVector
SYMMETRY Symmetry
CHECK_DEADLOCK FALSE
