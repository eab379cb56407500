CONSTANTS
    r1 = r1
    n1 = n1
    Resources = {r1}
    Controls = {c1}
    NoControl = NoControl
    Names = {n1}
    KeepName <- MCKeepName
    Vacant = Vacant
    Foreign = Foreign
    Budgets = {0, 2}
    Unbounded = Unbounded
    MaxEntries = 3
    MaxFaults = 1
SPECIFICATION Spec
INVARIANTS
    EffectTruthful
    AuthorityReported
    HandleRetained
    SessionInv
PROPERTIES
    LimitsInForce
    ContractSpec
