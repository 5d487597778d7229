CONSTANTS
    pic = pic
    Images = {pic}
    Handlers = {h1, h2}
    Watch = Watch
    Encoder = Encoder
    Filler = Filler
    Restorers = {r1}
    Threads = {h1, h2, Watch, Encoder, Filler, r1}
    NoThread = NoThread
    NPages = 1
    Blank = Blank
    Missing = Missing
    Broken = Broken
    Refused = Refused
    Looks <- MCLooks
    FirstLook = "plain"
    BadLooks <- MCBadLooks
    Entries <- MCEntries
    Icons <- MCIcons
    Builtin = Builtin
    Edits <- MCEdits
    HandEdits <- MCHandEdits
    DiskMayFill = FALSE
    MaxEdits = 1
    MaxHand = 0
    MaxFailures = 1
    Backups <- MCBackups
    MaxTasks = 2
SPECIFICATION FairMediaSpec
PROPERTY
    NothingUsedIsDeleted
    SizesAreShown
    LocksAreReleased
CHECK_DEADLOCK FALSE
