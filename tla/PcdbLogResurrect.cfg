CONSTANTS
    Ids <- OneId
    Author <- OneAuthor
    Kind <- OneKind
    StrictTie = {}
    Created <- OneCreated
    DTags <- OneDTags
    ETags <- OneETags
    ATags <- OneATags
    Quotes <- OneETags
    Origins = {"wot"}
    SegFrames = 1
    MaxFrames = 8
    MaxSeg = 5
    MaxPuts = 3
SPECIFICATION Spec
CHECK_DEADLOCK FALSE
INVARIANT
    PurgeHolds
