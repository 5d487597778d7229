CONSTANTS
    w = w
    Posts = {p}
    Slugs = {p}
    SlugOf <- MCSlugOf
    Contents = {v, w}
    Malformed = {}
    Drafts = {}
    PublishAt <- MCPublishAt
    Absent = Absent
    Main = main
    Watch = watch
    Sched = sched
    Threads = {main, watch, sched, other}
    NoThread = NoThread
    NoSite = NoSite
    MaxTime = 1
    MaxFailures = 1
    MaxEdits = 2
    MaxCrashes = 0
SPECIFICATION LoopsSpec
PROPERTY SkipOnlyWhenRead
CHECK_DEADLOCK FALSE
