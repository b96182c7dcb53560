--------------------------- MODULE MCZoneDelivery ---------------------------
(* Zone delivery with a short clock, for TLC. *)
EXTENDS ZoneDelivery

\* Open at once, opening later, and already lapsed (refused) permits.
SomePermits ==
    {[from |-> None, until |-> 3, limit |-> 3],
     [from |-> 3, until |-> 4, limit |-> None],
     [from |-> None, until |-> 1, limit |-> None]}
ZeroLimit == {[from |-> None, until |-> 3, limit |-> 0]}
=============================================================================
