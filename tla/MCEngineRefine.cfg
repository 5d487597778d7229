CONSTANTS
    a = a
    b = b
    a1 = a1
    a2 = a2
    b1 = b1
    v = v
    w = w
    d = d
    bad = bad
    Posts = {a1, a2}
    Slugs = {a}
    SlugOf <- MCSlugOf
    Contents = {v, w, d}
    Malformed = {}
    Drafts = {d}
    PublishAt <- MCPublishAt
    Absent = Absent
    Main = main
    Threads = {main, t}
    NoThread = NoThread
    Readers = {}
    Pages = {home}
    Gens = {g1, g2, g3}
    PublicDir = PublicDir
    NoGen = NoGen
    NoSite = NoSite
    NoDir = NoDir
    Legacy <- MCNoLegacy
    MaxTime = 1
    MaxFailures = 1
SYMMETRY GenNames
SPECIFICATION Spec
INVARIANT NothingEarly
PROPERTY ImplementsSiteBuild
