CONSTANTS
    a = a
    b = b
    c = c
    idle = idle
    sem = sem
    NULL = NULL
    Thread = {a, b, idle}
    Idle = idle
    Priority <- RankedPriority
    PriorityMax = 3
    WaitList = {sem}
    UserTimer = {}
    TickMod = 3
    Period <- NoPeriod
    Slice <- ShortSlice
    BootThread = {a, b, idle}
    Times = {1}
    FLAG = 0
    Sem = sem
    InitValue = 0
    SK_SEM_VALUE_MAX = 2
SPECIFICATION Spec
CONSTRAINT Exact
INVARIANT ListedArePended
