CONSTANTS
    Handlers = {h1, h2}
    Watch = Watch
    Restorers = {r1}
    Threads = {h1, h2, Watch, r1}
    NoThread = NoThread
    NPages = 2
    Blank = Blank
    Missing = Missing
    Broken = Broken
    Refused = Refused
    Looks <- MCLooks
    FirstLook = "plain"
    BadLooks <- MCBadLooks
    Entries <- MCEntries
    Icons <- MCIcons
    Builtin = Builtin
    Edits <- MCEdits
    HandEdits <- MCHandEdits
    DiskMayFill = FALSE
    MaxEdits = 2
    MaxHand = 1
    MaxFailures = 2
SPECIFICATION FairSiteSpec
INVARIANTS
    ChangesAreKept
PROPERTY
    ReadersCatchUp
CHECK_DEADLOCK FALSE
