--------------------------- MODULE MCSessionLock ---------------------------
(* Instances of SessionLock for TLC. *)
EXTENDS SessionLock, TLC

CONSTANTS o1, o2, i1, i2

OneOperator == {o1}
TwoOperators == {o1, o2}
OneInstance == {i1}
TwoInstances == {i1, i2}
ThreeRequests == 1..3
FourRequests == 1..4

NoOne == {}
TakeHandoverRevoke == {"take", "handover", "revoke"}
TakeHandoverCommand == {"take", "handover", "command"}
TakeCommand == {"take", "command"}

\* Names carry no order.
Symmetry == Permutations(Operator) \cup Permutations(Instance)

=============================================================================
