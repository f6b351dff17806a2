SPECIFICATION Spec
CONSTANTS
    Sites = {"site", "sub"}
    Selectors = {"ad", "box", "bad", "long"}
    TooLong = {"long"}
    MaxSites = 1
    MaxPerSite = 1
    Choices = {"auto", "low", "off"}
    Default = "auto"
    NoPage = NoPage
    NoFile = NoFile
    Garbled = Garbled
    Domains = {"site", "sub"}
    Above <- MCAbove
    Allowed = {"elsewhere"}
    Hideable = {"ad", "box"}
    Usable = {"ad", "box"}
    Generic = TRUE
    Registries = {"blocklist", "cosmetic"}
    Texts <- MCTexts
    FileText <- MCFileText
    NoText = NoText
CHECK_DEADLOCK FALSE
INVARIANTS
    AnsweredIsKept
    SheetIsCurrent
    ListsAreObeyed
PROPERTIES
    OutageKeepsRules
