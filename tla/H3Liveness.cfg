SPECIFICATION RunningSpec
CONSTANTS
    Streams = {s1}
    Workers = {w1, w2}
    s1 = s1
    w2 = w2
    w1 = w1
    None = None
    Watched = s1
    Limit = 1
    Sizes = {1, 2}
    BodyBytes = 3
    MaxRequests = 2
    ProgressWrap = 8
CHECK_DEADLOCK FALSE
PROPERTIES
    WorkersComeBack
    EveryRequestEnds
