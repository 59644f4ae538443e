SPECIFICATION ServiceSpec
CONSTANTS
    open = open
    inner = inner
    listed = listed
    mail = mail
    none = none
    Nothing = none
    Stopwords = {"the", "and"}
    LegalForms <- MCLegalForms
    Aliases <- MCAliases
    Palette <- MCPalette
    PackPatterns <- MCPackPatterns
    SizePatterns <- MCSizePatterns
    BareSizes = {"m"}
    Gtins <- MCGtins
    Urls <- MCUrls
    Unfetchable = {mail}
    Private <- MCPrivate
    Allowed = {listed}
    Requests <- MCPlainRequests
    Settings <- MCSoundSettings
    Budget <- MCBudget
    Fallback <- MCFallback
    Cap = 2
    MaxRequests = 3
    Sizes = {1, 3, 5}
    MaxBatch = 2
    Concurrency = 2
    MaxTries = 3
INVARIANT BudgetsAreApart
CHECK_DEADLOCK FALSE
