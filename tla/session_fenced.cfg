SPECIFICATION Spec
CONSTANTS
    None = None
    o1 = o1
    o2 = o2
    i1 = i1
    i2 = i2
    Operator <- TwoOperators
    Instance <- OneInstance
    Request <- ThreeRequests
    InitAssigned <- NoOne
    Kinds <- TakeCommand
    LOCK_TTL = 1
    DEADMAN = 2
    ENFORCEMENT = FALSE
    MaxTime = 3
SYMMETRY Symmetry
INVARIANTS
    HolderNeverFenced
