-------------------------- MODULE MCVehicleKernel --------------------------
(* Instances of VehicleKernel for TLC. *)
EXTENDS VehicleKernel

\* A verified envelope for this vehicle, sent at ts under token tok.
Sent(id, action, tok, ts, ttl) ==
    [commandId |-> id, own |-> TRUE, verified |-> TRUE, action |-> action,
     mode |-> InferMode(action), issuedAt |-> tok, timestamp |-> ts,
     ttlMs |-> ttl, speedKmh |-> 0]

(* ingest: two operators' tokens (1 then 2), every admission fault. *)
IngestId == {"stop1", "drive1", "clear2", "drive2", "foreign", "forged"}
IngestEnvelope ==
    {Sent("stop1", "E_STOP", 1, 0, 1),
     Sent("drive1", "DRIVE", 1, 0, 1),
     Sent("clear2", "CLEAR_SAFE_STOP", 2, 1, 1),
     [Sent("drive2", "DRIVE", 2, 1, 1) EXCEPT !.mode = "MODE1"],
     [Sent("foreign", "SAFE_STOP", 3, 1, 1) EXCEPT !.own = FALSE],
     [Sent("forged", "DRIVE", 3, 1, 1) EXCEPT !.verified = FALSE]}

(* territory: a permit that opens at 1 and one that lapses at 1. *)
TerritoryId == {"creep", "clear"}
TerritoryEnvelope ==
    {[Sent("creep", "CREEP", 1, 0, 1) EXCEPT !.speedKmh = 5],
     Sent("clear", "CLEAR_SAFE_STOP", 1, 0, 1)}
Permit(from, until, rev) ==
    [zone |-> "depot", validFrom |-> from, validUntil |-> until,
     speedLimit |-> 3, revision |-> rev]
PermitDoc == {Permit(1, None, 1), Permit(None, 0, 2)}

(* watchdogs: silence of the cloud and of the pose feed, with CLEARs. *)
ClearId == {"clear"}
ClearEnvelope == {Sent("clear", "CLEAR_SAFE_STOP", 1, 3, 2)}
StillPose == {[inside |-> TRUE, moving |-> FALSE]}
SomePing == {1, 4}
OnePing == {1}

(* race: one motion command against the watchdogs. *)
RaceId == {"clear", "drive"}
RaceEnvelope ==
    {Sent("clear", "CLEAR_SAFE_STOP", 1, 3, 2), Sent("drive", "DRIVE", 1, 3, 2)}

NoDocs == {}
NoPose == {}
NoPing == {}
AnyPose == [inside : BOOLEAN, moving : {TRUE}]

=============================================================================
