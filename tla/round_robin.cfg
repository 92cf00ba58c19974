CONSTANTS
    a = a
    b = b
    c = c
    debug_timer = debug_timer
    idle = idle
    NULL = NULL
    Thread = {a, b, c, idle}
    Idle = idle
    Priority <- EqualPriority
    PriorityMax = 2
    WaitList = {}
    UserTimer = {}
    TickMod = 3
    Period <- UnitPeriod
    Slice <- UnitSlice
    BootThread = {a, b, c, idle}
    Calls = {"sleep"}
    Sleeps = {1}
SPECIFICATION FairSpec
PROPERTY TopThreadRuns
