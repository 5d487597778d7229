CONSTANTS
    x = x
    d1 = d1
    d2 = d2
    w = w
    Slugs = {x}
    Dates = {d1, d2}
    Posts <- MCPosts
    SlugOf <- MCSlugOf
    Contents = {v, w, bad}
    Malformed = {bad}
    Drafts = {}
    PublishAt <- MCPublishAt
    DateOf <- MCDateOf
    Absent = Absent
    NoFile = NoFile
    Main = main
    Handlers = {h1, h2}
    Threads = {main, h1, h2, other}
    NoThread = NoThread
    NoSite = NoSite
    DiskMayFill = TRUE
    AuditMayFail = FALSE
    MaxTime = 1
    MaxFailures = 0
    MaxOps = 2
    MaxExternal = 1
    MaxCrashes = 0
SPECIFICATION FairTidySpec
PROPERTY OperationsEnd
CHECK_DEADLOCK FALSE
