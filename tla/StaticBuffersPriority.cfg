CONSTANTS
    e1 = e1
    e2 = e2
    t1 = t1
    t2 = t2
    Items = {b1, b2, b3}
    Entities = {e1, e2}
    Receivers = {r1, r2}
    Takers = {t1, t2}
    Serves <- OwnEntity
    AppPreempts = FALSE
    Oversize = TRUE
    Counts = {1, 2}
    MaxArrivals = 4
    NoEntity = NoEntity
    NoBuffer = NoBuffer
SPECIFICATION Spec
INVARIANTS TypeOK Exclusive PutFromAllocated NoLeak Intact TakenOnce OkTakesAll
PROPERTY ImplementsMailbox
CHECK_DEADLOCK FALSE
