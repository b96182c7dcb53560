----------------------------- MODULE MCManeuver -----------------------------
(* Instances of Maneuver: two decide requests, one or two proposals.       *)
EXTENDS Maneuver, TLC

CONSTANTS q1, q2

TwoRequests == {q1, q2}
Symmetry == Permutations(TwoRequests)
=============================================================================
