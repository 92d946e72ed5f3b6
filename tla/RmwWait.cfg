CONSTANTS
    e1 = e1
    e2 = e2
    t1 = t1
    t2 = t2
    Items = {b1, b2}
    Entities = {e1, e2}
    Receivers = {r1}
    Takers = {t1}
    Serves <- AllEntities
    AppPreempts = TRUE
    Oversize = FALSE
    Counts = {1}
    MaxArrivals = 4
    NoEntity = NoEntity
    NoBuffer = NoBuffer
    Timeouts = {0, 1, 2, 8, 100}
    Infinite = 100
    Millisecond = 2
    Wrap = 4
SPECIFICATION FairWaitSpec
INVARIANTS WaitTypeOK NoLostWakeup PutFromAllocated NoLeak
PROPERTIES ReturnTells BoundedReturns PoolDrains
CHECK_DEADLOCK FALSE
