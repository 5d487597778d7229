CONSTANTS
    a = a
    b = b
    a1 = a1
    a2 = a2
    b1 = b1
    v = v
    w = w
    d = d
    bad = bad
    Posts = {a1, b1}
    Slugs = {a, b}
    SlugOf <- MCSlugOf
    Contents = {v, w}
    Malformed = {}
    Drafts = {}
    PublishAt <- MCPublishAt
    Absent = Absent
    Main = main
    Threads = {main}
    NoThread = NoThread
    Readers = {r}
    Pages = {home}
    Gens = {g1, g2, g3}
    PublicDir = PublicDir
    NoGen = NoGen
    NoSite = NoSite
    NoDir = NoDir
    Legacy <- MCLegacy
    MaxTime = 0
    MaxFailures = 1
SYMMETRY GenNames
SPECIFICATION Spec
INVARIANTS
    TypeOK
    OneSnapshot
    IndexMatchesSite
    GraceOfOneSwitch
    NoLeftovers
