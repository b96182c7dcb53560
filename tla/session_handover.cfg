SPECIFICATION Spec
CONSTANTS
    None = None
    o1 = o1
    o2 = o2
    i1 = i1
    i2 = i2
    Operator <- OneOperator
    Instance <- OneInstance
    Request <- FourRequests
    InitAssigned <- NoOne
    Kinds <- TakeHandoverCommand
    LOCK_TTL = 2
    DEADMAN = 3
    ENFORCEMENT = FALSE
    MaxTime = 1
SYMMETRY Symmetry
INVARIANTS
    OldTokenRejected
