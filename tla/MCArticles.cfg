CONSTANTS
    x = x
    d1 = d1
    d2 = d2
    w = w
    Slugs = {x}
    Dates = {d1, d2}
    Posts <- MCPosts
    SlugOf <- MCSlugOf
    Contents = {v, w, d}
    Malformed = {}
    Drafts = {d}
    PublishAt <- MCPublishAt
    DateOf <- MCDateOf
    Absent = Absent
    NoFile = NoFile
    Main = main
    Handlers = {h1, h2}
    Threads = {main, h1, h2, other}
    NoThread = NoThread
    NoSite = NoSite
    DiskMayFill = FALSE
    AuditMayFail = TRUE
    MaxTime = 0
    MaxFailures = 1
    MaxOps = 3
    MaxExternal = 0
    MaxCrashes = 1
SYMMETRY Symmetry
SPECIFICATION TidySpec
INVARIANTS
    OneFilePerSlug
    NoLostUpdate
    UpdateKeepsAVersion
    SavedIsServed
    AuditIsTheHistory
    UndoRestores
PROPERTY FailedChangeIsUndone
CHECK_DEADLOCK FALSE
