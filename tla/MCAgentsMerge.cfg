CONSTANTS
    Holders = {bot}
    ScopesOf <- MCScopesOf
    Titles = {t1, t2}
    Bodies = {x, y}
    NoArticle = NoArticle
    MaxWrites = 3
    MaxCalls = 1
SPECIFICATION AgentsSpec
PROPERTY OmittedFieldsAreKept
CHECK_DEADLOCK FALSE
