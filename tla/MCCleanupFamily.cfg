SPECIFICATION FamilySpec
CONSTANTS
    n1 = n1
    Threads = {t1, t2}
    Providers = {p1, p2}
    Controls = {c1, c2}
    Dirs = {d1}
    None = None
    Busy = Busy
    Resources = {r1}
    NoControl = NoControl
    Names = {n1}
    KeepName <- MCKeepName
    Vacant = Vacant
    Foreign = Foreign
    Budgets = {0}
    Unbounded = Unbounded
    MaxEntries = 1
    MaxFaults = 0
SYMMETRY MCSymmetry
INVARIANTS
    FamilyLimits
