CONSTANTS
    linkA = linkA
    linkB = linkB
    linkBad = linkBad
    Editors = {e1}
    Pollers = {p1, p2}
    Buttons = {p2}
    NoBuilder = NoBuilder
    Hrefs = {linkA, linkB, linkBad}
    UnsafeHrefs = {linkBad}
    FeedItems <- MCFeedItems
    ItemsPerFeed = 2
    ListLimit = 1
    DatesOf <- MCDatesOf
    FirstLinks <- MCFirstLinks
    Archives <- MCArchives
    MaxLinkOps = 3
    MaxPolls = 2
    MaxLinkFailures = 1
    MaxLinkRestarts = 1
    Mentions = {m1}
    Notices = {n1}
    MaxReports = 2
    MaxSourceChanges = 1
    MaxPostChanges = 2
    MaxTroubles = 2
    MaxMentionCrashes = 1
    Addresses = {x, y}
    NoAddress = NoAddress
    MaxAddressChanges = 2
    MaxKeyChanges = 1
    MaxRefreshes = 1
    MaxOutages = 1
    Clients = {k1, k2}
    Callers = {c1, c2}
    NoBucket = NoBucket
    Burst = 2
    Per = 3
    SweepEvery = 3
    MaxWait = 1
    MaxTicks = 6
    Browsers = {tab1, tab2}
    TotpPeriod = 1
    Codes = {1, 2, 6}
    MaxLoginTicks = 8
    MaxLoginRestarts = 1
    Ids = {t1}
    Requests = {q1, q2}
    Offered <- MCOffered
    NotMinted = NotMinted
    Minute = 2
    MaxTokenTicks = 5
    MaxTouchFailures = 1
    MaxTokenRestarts = 1
    Holders = {bot}
    ScopesOf <- MCScopesOf
    Titles = {title1, title2}
    Bodies = {text1, text2}
    NoArticle = NoArticle
    MaxWrites = 3
    MaxCalls = 1
    Slugs = {s1, s2}
    Listers = {l1, l2}
    MaxLists = 4
    MaxPostMoves = 3
    Visitors = {v1}
    Paths = {home, post, junk}
    Pages = {home, post}
    Referrers = {r1}
    NoReferrer = NoReferrer
    DaysPerMonth = 3
    Ranges = {0, 1, 3}
    ChartDayLimit = 1
    MaxDashboardRows = 1
    MaxDay = 3
    MaxBeacons = 2
    MaxDashboards = 1
SPECIFICATION Spec
INVARIANTS
    LinksAreShown
    ModerationStands
    ToldOnce
    NeverMoreThanAllowed
    CodesAreSpent
    LastUseIsShown
    ListHeals
    NumbersAddUp
PROPERTY
    RemovesWhatWasSeen
    OutageKeepsKey
    LinksAreAnnounced
    PatchLeavesTheRest
CHECK_DEADLOCK FALSE
