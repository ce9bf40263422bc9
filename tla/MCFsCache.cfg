CONSTANTS
    t1 = t1
    t2 = t2
    t3 = t3
    Task <- MCTask
    Name <- MCName
    Path <- MCPath
    Stored <- MCStored
    Calls <- MCCalls
    MaxNodes = 4
    MaxRefs = 4
SPECIFICATION Spec
SYMMETRY Symmetry
INVARIANTS CacheUnique FilledBeforeUse FreedInUseOnlyAfterHit NoDeadlock
CHECK_DEADLOCK FALSE
