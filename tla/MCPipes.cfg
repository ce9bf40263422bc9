SPECIFICATION Spec
CONSTANTS
    t1 = t1
    t2 = t2
    t3 = t3
    p1 = p1
    p2 = p2
    p3 = p3
    Task <- Tasks3
    First = t1
    Address <- Pipes3
    Name <- TwoNames
    MaxFd = 2
    MaxLen = 2
    MaxList = 2
SYMMETRY Symmetry
CONSTRAINT Bounds
INVARIANTS
    CountsExact
    MessagesCounted
    NoDanglingPipe
    QueueNamesUnique
CHECK_DEADLOCK FALSE
