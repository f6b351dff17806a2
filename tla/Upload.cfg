SPECIFICATION BusySpec
CONSTANTS
    BodyBytes = 5
    MaxRead = 2
    ChannelDepth = 2
    ParkCap = 2
    MaxBuffered = 4
    Fronts = {"h3", "tcp"}
    IdleTimer = TRUE
CHECK_DEADLOCK FALSE
INVARIANTS
    ParkingIsBounded
    NothingLost
    AbortIsSeen
PROPERTIES
    UploadEnds
