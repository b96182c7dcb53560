--------------------------- MODULE MCFleetMission ---------------------------
(* Instances of FleetMission: three or four requests, two missions, two    *)
(* checklists of a self-diagnosis item and one operator item.              *)
EXTENDS FleetMission, TLC

CONSTANTS r1, r2, r3, r4, m1, m2, c1, c2, tires, lidar

ThreeRequests == {r1, r2, r3}
FourRequests == {r1, r2, r3, r4}
TwoMissions == {m1, m2}
TwoChecklists == {c1, c2}
Items == {tires, lidar}
OperatorItems == {tires}
Symmetry == Permutations(Request) \cup Permutations(TwoMissions)
                \cup Permutations(TwoChecklists)
=============================================================================
