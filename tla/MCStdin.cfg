SPECIFICATION StdinSpec
CONSTANTS
    t1 = t1
    t2 = t2
    t3 = t3
    Task <- MCTask
    MaxLine = 2
    MaxLines = 2
INVARIANTS
    ReaderFindsLine
    NoSleepBesideInput
    BackspaceWithinLine
PROPERTY
    EventuallyRead
