SPECIFICATION FairSpec
CONSTANTS
    None = None
    o1 = o1
    o2 = o2
    i1 = i1
    i2 = i2
    Operator <- OneOperator
    Instance <- TwoInstances
    Request <- ThreeRequests
    InitAssigned <- OneOperator
    Kinds <- AllKinds
    LOCK_TTL = 2
    DEADMAN = 3
    ENFORCEMENT = TRUE
    MaxTime = 0
INVARIANTS
    DeadmanCovers
PROPERTIES
    EventuallyStopped
    NoResurrection
