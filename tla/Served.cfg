SPECIFICATION Spec
CONSTANTS
    Settings = {"auto", "low", "off", "none"}
    Configured = 70
    ReducedQuality = 50
    GreyQuality = 35
    MaxCopies = 1
    MaxRequests = 2
    MaxChanges = 2
    MaxChunks = 3
    NoEntry = NoEntry
CHECK_DEADLOCK FALSE
INVARIANTS
    CodingIsAsDeclared
    ServedAsAllowed
    KeptIsTheOrigins
    PageIsInOrder
