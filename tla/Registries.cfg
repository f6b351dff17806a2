SPECIFICATION Spec
CONSTANTS
    MaxTime = 4
    Names = {n1, n2, n3}
    n1 = n1
    n2 = n2
    n3 = n3
    Spellings = {"plain", "dotted"}
    Handshakes = {h1, h2}
    h1 = h1
    h2 = h2
    MaxLeaves = 2
    LeafTtl = 2
    RefreshMargin = 1
    Hosts = {a, b}
    a = a
    b = b
    Tasks = {t1, t2}
    t1 = t1
    t2 = t2
    MaxTokens = 2
    OfferTtl = 2
    BypassTtl = 2
    Clients = {c1, c2}
    c1 = c1
    c2 = c2
    Samples = {0, 2, 6, 20}
    ConfigFloors <- MCFloors
    UpgradeSamples = 3
    LinkTtl = 2
    MaxClients = 1
    SmallestChunk = 1
    LargestChunk = 2
    Depth = 3
    SampleEvery = 2
    MinBytes = 1
    MaxChunks = 6
    Limit = 3
    Sizes = {1, 2, 5}
    ProgressWrap = 16
    BodyBytes = 10
    Addresses = {p, q}
    p = p
    q = q
    Firsts = {d1, d2}
    d1 = d1
    d2 = d2
    TokenTtl = 1
    MaxRetries = 2
    MaxEpochs = 2
CHECK_DEADLOCK FALSE
INVARIANTS
    LeavesAreSound
    TokensAreSpentOnce
    WavedThroughAsGranted
    TierIsEarned
    MeasuresTheClient
    SleepersAreWoken
    ConnectionsAreVouchedFor
PROPERTIES
    EvictsTheIdle
    NoFlapping
