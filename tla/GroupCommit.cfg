\* One publisher of each kind; a failed I/O call, and any number of crashes.
CONSTANTS
    Direct = {d1}
    Copies = {c1}
    Bulk = {b1}
    SegFrames = 2
    MaxFaults = 1
SPECIFICATION FairSpec
CHECK_DEADLOCK FALSE
INVARIANTS
    TypeOK
    AckedDurable

    
