CONSTANTS
    t1 = t1
    t2 = t2
    Threads = {t1, t2}
    Creates <- Messagers
    Names <- TwoTopics
    MaxLength = 3
    MaxTypeLength = 2
    InOrder = TRUE
    Slots = 2
    MaxCalls = 3
    MaxEndpoints = 2
    Walkers = {}
SPECIFICATION Spec
INVARIANT Matches
CHECK_DEADLOCK FALSE
