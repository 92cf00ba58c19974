CONSTANTS
    a = a
    b = b
    c = c
    debug_timer = debug_timer
    idle = idle
    NULL = NULL
    Thread = {a, b, idle}
    Idle = idle
    Priority <- EqualPriority
    PriorityMax = 2
    WaitList = {}
    UserTimer = {debug_timer}
    TickMod = 3
    Period <- UnitPeriod
    Slice <- ShortSlice
    BootThread = {a, b, idle}
    Calls = {"sleep", "timer"}
    Sleeps = {1, 2}
SPECIFICATION FairSpec
PROPERTIES
    PreemptsForHigher
    SleepWakes
    HandlerReturns
