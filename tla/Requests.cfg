CONSTANTS
    c1 = c1
    c2 = c2
    s1 = s1
    p1 = p1
    Clients = {c1, c2}
    Servers = {s1}
    Publishers = {p1}
    Process <- TwoProcesses
    MaxSent = 2
    Half = 2
SPECIFICATION Spec
INVARIANTS TypeOK AnswersMatch PublishedIntact
CHECK_DEADLOCK FALSE
