SPECIFICATION Spec
CONSTANTS
    None = None
    r1 = r1
    r2 = r2
    r3 = r3
    m1 = m1
    m2 = m2
    c1 = c1
    c2 = c2
    tires = tires
    r4 = r4
    lidar = lidar
    Request <- ThreeRequests
    Mission <- TwoMissions
    Checklist <- TwoChecklists
    Item <- Items
    OperatorItem <- OperatorItems
    CriticalItem <- Items
    MaxFaults = 2
SYMMETRY Symmetry
INVARIANTS
    ConfirmedIsClean
    StartedWasChecked
    NoOrphanMission
CHECK_DEADLOCK FALSE
