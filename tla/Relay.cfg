SPECIFICATION FairSpec
CONSTANTS
    Plugins = {1, 2}
    ReplyQueue = 2
    MaxUnasked = 1
    None = None
    Requests = 2
    Fronts = {"h3", "tcp"}
    MaxChunks = 1
    Capacity = 1
CHECK_DEADLOCK FALSE
INVARIANTS
    OneHookAtATime
    OwnBytes
    ChunksWereWanted
PROPERTIES
    EveryRequestIsAnswered
