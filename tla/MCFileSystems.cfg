SPECIFICATION MCSpec
CONSTANTS
    t1 = t1
    Threads = {t1, t2}
    Systems = {f1, f2}
    Controls = {c1}
    ChosenIds = {i1}
    Work = {0, 1}
    Unlimited <- MCUnlimited
    MaxChanges = 2
    MaxBuilds = 3
    None = None
SYMMETRY Symmetric
INVARIANTS
    GeneratedIdsUnique
    LimitsOfItsOwn
