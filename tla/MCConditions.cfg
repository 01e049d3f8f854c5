SPECIFICATION Spec
CONSTANTS
    Tokens <- MCTokens
    Contexts <- MCContexts
    Filters <- MCFilters
    MaxTokens = 5
    IntWidth = 4
    Variable = "doc"
    Functions <- MCFunctions
INVARIANTS
    ParserMeaning
    FailsClosed
    ComplianceSound
    DiscoveryComplete
CHECK_DEADLOCK FALSE
