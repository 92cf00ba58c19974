CONSTANTS
    a = a
    b = b
    c = c
    d = d
    mtx = mtx
    NULL = NULL
    Thread = {a, b, c, d}
    Priority <- RankedPriority
    WaitList = {mtx}
    Mtx = mtx
    SK_MUTEX_HOLD_MAX = 2
SPECIFICATION Spec
INVARIANTS
    OwnerConsistent
    WaitersHaveOwner
    MostUrgentNext
    MutualExclusion
PROPERTY MostUrgentServed
