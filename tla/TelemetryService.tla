-------------------------- MODULE TelemetryService --------------------------
(***************************************************************************)
(* What the cloud makes of a vehicle's heartbeats and samples: the latch   *)
(* evidence and the link monitor (HeartbeatWatch) beside the store         *)
(* (TelemetryStore).  The three share no variable that one of them writes: *)
(* the store is explored before the first heartbeat only, and the monitor  *)
(* only while the vehicle has not latched, whose flag it does not read.    *)
(***************************************************************************)
EXTENDS HeartbeatWatch, TelemetryStore

ServiceInit == Init /\ StoreInit

ServiceNext ==
    \/ /\ sent = {} /\ ~ready /\ UNCHANGED storeVars
       /\ Next /\ (age' = None \/ entries' = 0)
    \/ /\ age = None /\ beat = 0 /\ entries = 0 /\ UNCHANGED vars
       /\ StoreNext

ServiceSpec == ServiceInit /\ [][ServiceNext]_<<vars, storeVars>>
=============================================================================
