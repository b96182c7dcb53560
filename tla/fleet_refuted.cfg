\* TLC stops at the first one it refutes: check them one at a time.
SPECIFICATION Spec
CONSTANTS
    None = None
    r1 = r1
    r2 = r2
    r3 = r3
    r4 = r4
    m1 = m1
    m2 = m2
    c1 = c1
    c2 = c2
    tires = tires
    lidar = lidar
    Request <- FourRequests
    Mission <- TwoMissions
    Checklist <- TwoChecklists
    Item <- Items
    OperatorItem <- OperatorItems
    CriticalItem <- Items
    MaxFaults = 0
SYMMETRY Symmetry
INVARIANTS
    FinalIsFinal
    OneLiveMission
CHECK_DEADLOCK FALSE
