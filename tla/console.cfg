CONSTANTS
    u0 = u0
    u1 = u1
    n0 = n0
    n1 = n1
    x = x
    y = y
    NULL = NULL
    Device = {u0, u1}
    Name = {n0, n1}
    MaxOpens = 2
    buffer_size = 3
    Byte = {x, y}
    MaxChars = 10
    Burst = 3
    Reads = {1}
    SHELL_CMD_SIZE = 2
    SHELL_CMD_HISTORY_LINE = 3
    Typed = {"A", "x"}
SPECIFICATION FairConsoleSpec
INVARIANTS
    Lossless
    OpenerFindsRings
    IsrFindsRing
    LineEnds
    ScreenShowsLine
    HistoryInOrder
PROPERTIES
    IsFifo
    EveryCharRead
CHECK_DEADLOCK FALSE
