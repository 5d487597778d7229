CONSTANTS
    pic = pic
    other = other
    r1 = r1
    Contents = {c1, c2}
    Images = {pic}
    Rows = {r1, r2}
    None = None
    Keep = 2
    Safety = 1
    Interval = 1
    MaxTime = 1
    MaxOps = 3
    MaxChanges = 1
    MaxCrashes = 1
SYMMETRY Symmetry
SPECIFICATION MCSpec
CHECK_DEADLOCK FALSE
INVARIANT NothingGoesUnsaved
