CONSTANTS
    e1 = e1
    e2 = e2
    t1 = t1
    t2 = t2
    Items = {b1, b2}
    Entities = {e1, e2}
    Receivers = {r1}
    Takers = {t1}
    Serves <- AllEntities
    AppPreempts = TRUE
    Oversize = FALSE
    Counts = {1}
    MaxArrivals = 3
    NoEntity = NoEntity
    NoBuffer = NoBuffer
SPECIFICATION Spec
INVARIANT FindsRelated
CHECK_DEADLOCK FALSE
