SPECIFICATION AtaSpec
CONSTANTS
    t1 = t1
    t2 = t2
    t3 = t3
    s1 = s1
    Task <- MCTask
    Sector <- MCSector
    Data <- MCData
INVARIANTS
    SleeperHasInterrupt
    QuietTransfersDone
PROPERTY
    EventuallyReturns
