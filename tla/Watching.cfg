SPECIFICATION Spec
CONSTANTS
    Writers = {w1, w2}
    k1 = k1
    k2 = k2
    Kinds = {k1, k2}
    Refs = {r1, r2}
    NoRef = NoRef
    Contents = {c1, c2}
    Declarations <- MCDeclarations
    Nothing = Nothing
    Gone = Gone
    MaxWrites = 3
SYMMETRY Symmetry
INVARIANT ChangesAreAnnounced
INVARIANT SavesAreNotDisturbed
CHECK_DEADLOCK FALSE
