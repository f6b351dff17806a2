SPECIFICATION HelloFairSpec
CONSTANTS
    RecordHeader = 2
    MessageHeader = 2
    MaxRecord = 4
    Streams <- MCStreams
    Lengths = {1, 2, 4, 5}
    Tails = {0, 3}
    Bodies = {0, 3}
    MaxRecords = 3
CHECK_DEADLOCK FALSE
INVARIANTS
    ListsAreKeptTo
    WantIsABound
PROPERTY Decided
