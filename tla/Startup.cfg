CONSTANTS
    Threads = {t1, t2, t3}
    Readers = {r1}
    Contexts = {c1, c2}
    Domains = 2
    MaxNodes = 2
    MaxBuffers = 2
    MaxInits = 3
    Overlap = FALSE
    NoContext = NoContext
SPECIFICATION Spec
INVARIANTS TypeOK OneInside WaiterKept NodesApart NodesUsable
CHECK_DEADLOCK FALSE
