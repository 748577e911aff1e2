SPECIFICATION Spec
CONSTANTS
    N = 2
    Labels = {l1}
    l1 = l1
    Reqs = {r1, r2}
    r1 = r1
    r2 = r2
    Limit = 1
    MaxCalls = 3
INVARIANTS ErasedWasTrashed ListSettles
PROPERTY LeavesTrash
CHECK_DEADLOCK FALSE
SYMMETRY Symmetry
