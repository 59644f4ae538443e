SPECIFICATION Spec
CONSTANTS
    Refs = {r1, r2}
    Workers = {w1, w2}
    Modes = {"backfill", "reconcile"}
    Batch = 1
    ImagesOn = TRUE
    RawRefs = {r1, r2}
    NoRef = NoRef
    MaxChanges = 3
INVARIANT TypeOK
INVARIANT StaleIsOwed
INVARIANT ReconcileRepairsPresence
INVARIANT BackfillRefreshes
INVARIANT RebuiltIsHandedOver
PROPERTY FollowsTheCatalog
SYMMETRY Symmetry
CHECK_DEADLOCK FALSE
