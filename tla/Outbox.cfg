CONSTANTS
    w1 = w1
    w2 = w2
    r1 = r1
    p1 = p1
    p2 = p2
    Window = {w1, w2}
    Post = {p1, p2}
    Relay = {r1}
    Writes <- EachItsOwn
    Reaches <- FirstOnly
    Refuses <- BadPost
    MaxTries = 2
    MaxQueue = 2
    Delays = 1
    Racing = FALSE
    Events <- AllEvents
    MaxEvents = 1
SPECIFICATION FairSpec
INVARIANTS TypeOK ReceiptTrue NothingLost
PROPERTY QueueDrains
CHECK_DEADLOCK FALSE
