CONSTANTS
    Flushers = {f1, f2}
    RATIO = 1
    SealAt = 1
    MAX_DISK_RUNS = 1
    MaxPost = 3
    MaxDead = 1
    MaxName = 4
    MaxFaults = 1
    MaxCrashes = 1
SPECIFICATION Spec
CHECK_DEADLOCK FALSE
SYMMETRY FlusherSymmetry
INVARIANTS
    TypeOK
    PostingsInOrder
    CheckpointLoadable
