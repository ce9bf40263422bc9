CONSTANTS
    HeaderSize = 2
    PageSize = 6
    HeapStart = 6
    HeapSize = 28
    MaxRecs = 4
    AllocSizes = {1, 3}
    AlignedSizes = {6}
SPECIFICATION Spec
INVARIANTS IndexExact BlocksOwned OnlyStaleBackLink
CHECK_DEADLOCK FALSE
