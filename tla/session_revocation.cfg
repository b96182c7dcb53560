\* TLC stops at the first one it refutes: check them one at a time.
SPECIFICATION Spec
CONSTANTS
    None = None
    o1 = o1
    o2 = o2
    i1 = i1
    i2 = i2
    Operator <- TwoOperators
    Instance <- OneInstance
    Request <- ThreeRequests
    InitAssigned <- TwoOperators
    Kinds <- TakeHandoverRevoke
    LOCK_TTL = 2
    DEADMAN = 3
    ENFORCEMENT = TRUE
    MaxTime = 3
SYMMETRY Symmetry
INVARIANT UnassignedHoldsNothing
INVARIANT RevokeSparesSuccessor
