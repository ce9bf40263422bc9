SPECIFICATION Spec
CONSTANTS
    MaxPid = 4
    Status <- MCStatus
INVARIANT
    NoDoubleFree
CHECK_DEADLOCK FALSE
