SPECIFICATION Spec
CONSTANTS
    Refs = {r1}
    Workers = {w1}
    Modes = {"reconcile"}
    Batch = 1
    ImagesOn = FALSE
    RawRefs = {}
    NoRef = NoRef
    MaxChanges = 1
INVARIANT ReconcileRepairsStaleness
