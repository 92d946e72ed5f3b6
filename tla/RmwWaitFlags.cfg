CONSTANTS
    e1 = e1
    e2 = e2
    t1 = t1
    t2 = t2
    Items = {b1, b2}
    Entities = {e1, e2}
    Receivers = {r1}
    Takers = {t1}
    Serves <- AllEntities
    AppPreempts = FALSE
    Oversize = FALSE
    Counts = {1}
    MaxArrivals = 3
    NoEntity = NoEntity
    NoBuffer = NoBuffer
    Timeouts = {100}
    Infinite = 100
    Millisecond = 2
    Wrap = 4
SPECIFICATION FairWaitSpec
PROPERTY ReadyHasData
CHECK_DEADLOCK FALSE
