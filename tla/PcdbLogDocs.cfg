CONSTANTS
    Ids <- DocIds
    Author <- DocAuthor
    Kind <- DocKind
    StrictTie = {}
    Created <- DocCreated
    DTags <- DocDTags
    ETags <- DocETags
    ATags <- DocATags
    Quotes <- DocQuotes
    Origins = {"direct", "wot"}
    SegFrames = 2
    MaxFrames = 4
    MaxSeg = 2
    MaxPuts = 1
SPECIFICATION Spec
CHECK_DEADLOCK FALSE
INVARIANTS
    
    ReplayExact
    OneLiveVersion
