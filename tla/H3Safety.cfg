SPECIFICATION Spec
CONSTANTS
    Streams = {s1, s2}
    Workers = {w1, w2}
    s1 = s1
    s2 = s2
    w1 = w1
    w2 = w2
    None = None
    Watched = s1
    Limit = 2
    Sizes = {1, 3}
    BodyBytes = 4
    MaxRequests = 1
    ProgressWrap = 8
CHECK_DEADLOCK FALSE
INVARIANTS
    QueueIsCounted
    OneWholeAnswer
PROPERTIES
    ImplementsRelay
SYMMETRY Symmetry
