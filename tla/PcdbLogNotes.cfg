CONSTANTS
    Ids <- NoteIds
    Author <- NoteAuthor
    Kind <- NoteKind
    StrictTie = {}
    Created <- NoteCreated
    DTags <- NoteDTags
    ETags <- NoteETags
    ATags <- NoteATags
    Quotes <- NoteQuotes
    Origins = {"direct"}
    SegFrames = 2
    MaxFrames = 5
    MaxSeg = 3
    MaxPuts = 1
SPECIFICATION Spec
CHECK_DEADLOCK FALSE
INVARIANTS
    TypeOK
    AckedNoteKept
    ReplayExact
    OneLiveRecord
    PurgeHolds
