-------------------------- MODULE ProposalContract --------------------------
(***************************************************************************)
(* What ICD 6 promises about a vehicle's maneuver proposals, without       *)
(* deadlines, latches, messages and operators: they are made one after the *)
(* other, the next only when the one before is settled, and each is        *)
(* settled once and for all, by a decision or by its safe default.         *)
(* Maneuver implements this specification.                                 *)
(***************************************************************************)
EXTENDS Naturals

CONSTANT MaxProposals

VARIABLE status   \* per proposal

Settled == {"DECIDED", "TIMED_OUT"}

Init == status = [p \in 1..MaxProposals |-> "unborn"]

Open(p) ==
    /\ status[p] = "unborn"
    /\ \A q \in 1..(p - 1) : status[q] \in Settled
    /\ status' = [status EXCEPT ![p] = "open"]

Close(p) ==
    /\ status[p] = "open"
    /\ \E how \in Settled : status' = [status EXCEPT ![p] = how]

Next == \E p \in 1..MaxProposals : Open(p) \/ Close(p)

Spec == Init /\ [][Next]_status
=============================================================================
