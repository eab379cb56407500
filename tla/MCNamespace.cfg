CONSTANTS
    Clients = {c1, c2}
    Paths = {p1, p2}
    Files = {f}
    Trees = {t}
    NewDir = NewDir
    Other = Other
    Absent = Absent
    Requests <- MCRequests
    MaxTries = 2
SYMMETRY MCSymmetry
SPECIFICATION Spec
INVARIANTS EffectTruthful GuaranteeKept AtMostOnce CallInv
PROPERTIES NoClobber
CHECK_DEADLOCK FALSE
