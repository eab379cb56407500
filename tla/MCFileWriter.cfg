CONSTANTS
    Writers = {w1, w2}
    Absent = Absent
    Foreign = Foreign
    MaxBytes = 1
SPECIFICATION Spec
SYMMETRY MCSymmetry
INVARIANTS
    PublicationTruthful
    RetryHonoured
    AbortRemembers
    WriterInv
PROPERTIES
    VerdictFinal
    ContractSpec
