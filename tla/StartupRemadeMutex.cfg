CONSTANTS
    Threads = {t1}
    Readers = {r1, r2}
    Contexts = {c1, c2}
    Domains = 1
    MaxNodes = 2
    MaxBuffers = 1
    MaxInits = 2
    Overlap = FALSE
    NoContext = NoContext
SPECIFICATION Spec
INVARIANT BuffersApart
CHECK_DEADLOCK FALSE
