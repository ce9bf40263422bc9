CONSTANTS
    t1 = t1
    t2 = t2
    Task <- MCTask
    Name <- MCName
    Path <- MCPath
    Byte = 9
    SECTOR_SIZE = 7
    Radix = 4
    Up = 1
    Here = 2
    Empty = 3
    Bin = 10
    Cwds <- MCPath
    Texts <- MCTexts
    Opens <- MCOpens
    Reads <- MCReads
    Writes <- MCWrites
    MaxSector = 14
    MaxPos = 16
    MaxCrashes = 1
SPECIFICATION Spec
CONSTRAINT Bounds
SYMMETRY Symmetry
INVARIANTS TreeSound WritesLast FileOverrunOnlyWhenCut DirOverrunOnlyAstray PathsResolve
PROPERTY ImplementsTree
CHECK_DEADLOCK FALSE
