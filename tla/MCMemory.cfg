CONSTANTS
    t1 = t1
    t2 = t2
    Task <- MCTask
    InitTask = t1
    PAGE = 16
    FRAMES = 9
    KERNEL = 1
    HEAP_SIZE = 4
    HEADER = 2
    ALIGN = 2
    Top = 18
    Programs <- MCPrograms
    Requests = {1, 4, 5}
    LastPage = 4
    MaxCalls = 5
SPECIFICATION Spec
INVARIANTS FramesPrivate HeapTiled BlocksMapped
CHECK_DEADLOCK FALSE
