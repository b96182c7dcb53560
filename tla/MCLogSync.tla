----------------------------- MODULE MCLogSync -----------------------------
(* Instances of LogSync for TLC. *)
EXTENDS LogSync

CONSTANTS h1, h2

OneHandler == {h1}
TwoHandlers == {h1, h2}

\* Events of an earlier boot and more of the next one than the buffer holds.
Growing == [b \in 0..1 |-> b + 1]
OneEvent == [b \in {0} |-> 1]

=============================================================================
