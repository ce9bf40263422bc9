SPECIFICATION Spec
CONSTANTS
    MaxPid = 4
    Status <- MCStatus
INVARIANTS
    RunQueueSound
    HandedChildIsZombie
    NoSleepBesideZombie
    ParentsSound
PROPERTIES
    ReapsOwnZombie
    EventuallyRuns
CHECK_DEADLOCK FALSE
