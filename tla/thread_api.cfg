CONSTANTS
    a = a
    b = b
    c = c
    debug_timer = debug_timer
    idle = idle
    NULL = NULL
    Thread = {a, b, idle}
    Idle = idle
    Priority <- RankedPriority
    PriorityMax = 3
    WaitList = {}
    UserTimer = {}
    TickMod = 3
    Period <- UnitPeriod
    Slice <- ShortSlice
    BootThread = {a, idle}
    Calls = {"sleep", "suspend", "resume", "create", "exit"}
    Sleeps = {1}
SPECIFICATION Spec
INVARIANTS
    TypeOK
    ReadyListsExact
    LinkedOnce
    OneRunning
    SuspendedUntilResumed
    ContextIntact
PROPERTY DispatchesHighest
