CONSTANTS
    Requests = {r1, r2}
    Relays = {x1, x2}
    Batch = 2
    MaxId = 3
SPECIFICATION FairSpec
INVARIANTS
    TypeOK
    MarkedWasPublished
    PublishedInOrder
PROPERTY EveryEventIsPublished
CHECK_DEADLOCK FALSE
