SPECIFICATION FairSpec
CONSTANTS
    Urls = {u1}
    u1 = u1
    Texts <- MCTexts
    None = None
    Fails = TRUE
    Savers = {t1, t2}
    t1 = t1
    t2 = t2
    Sites = {c}
    c = c
    MaxRestarts = 1
INVARIANTS
    LearnedIsSaved
PROPERTIES
    FailsOneWay
    Converges
