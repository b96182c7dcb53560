--------------------------- MODULE ZoneModePolicy ---------------------------
(***************************************************************************)
(* The zone/mode policy of packages/contract/src/index.ts: which operation *)
(* mode a command action belongs to and which modes a zone admits.  The    *)
(* contract build emits these tables as schemas/ZoneModePolicy.json; Gate  *)
(* 1 (the command service) evaluates them in TypeScript and Gate 2 (the    *)
(* vehicle's safety kernel) loads the generated file at start-up, so both  *)
(* gates share the definitions below.                                      *)
(***************************************************************************)

ZoneType ==
    {"public_approved_route", "public_test_permit", "depot", "private",
     "permitted_test", "out_of_tod"}

OperationMode == {"MODE1", "MODE2", "DIAG"}

(***************************************************************************)
(* The command catalogue.  The three maneuver decisions are Mode 1 actions *)
(* as well; the mission, signalling and recycling actions are represented  *)
(* by HAZARD_LIGHTS, which both gates treat exactly alike.                 *)
(***************************************************************************)
MODE1_ACTIONS == {"E_STOP", "SAFE_STOP", "CLEAR_SAFE_STOP", "HAZARD_LIGHTS"}

MODE2_ACTIONS ==
    {"STEER", "DRIVE", "SELECT_DIRECTION", "CREEP", "TURN", "PARK", "LIGHTS"}

DIAG_READ_ACTIONS == {"PULL_LOGS"}

DIAG_DISRUPTIVE_ACTIONS ==
    {"RESTART_SERVICE", "RESTART_COMPUTER", "RESTART_SENSOR", "UPDATE_CONFIG"}

Action ==
    MODE1_ACTIONS \cup MODE2_ACTIONS
      \cup DIAG_READ_ACTIONS \cup DIAG_DISRUPTIVE_ACTIONS

\* Everything the matrix does not name as Mode 2 or diagnostics is Mode 1.
InferMode(action) ==
    IF action \in MODE2_ACTIONS THEN "MODE2"
    ELSE IF action \in DIAG_READ_ACTIONS \cup DIAG_DISRUPTIVE_ACTIONS
         THEN "DIAG" ELSE "MODE1"

ZONE_MODE_MATRIX ==
    [z \in ZoneType |->
       [mode1       |-> z # "out_of_tod",
        mode2       |-> z \notin {"public_approved_route", "out_of_tod"},
        diagRead    |-> TRUE,
        diagActions |-> z # "out_of_tod"]]

IsModeAllowedInZone(zone, mode) ==
    CASE mode = "MODE1" -> ZONE_MODE_MATRIX[zone].mode1
      [] mode = "MODE2" -> ZONE_MODE_MATRIX[zone].mode2
      [] mode = "DIAG"  -> ZONE_MODE_MATRIX[zone].diagRead

DIAG_RESTRICTED_ZONES == {"public_approved_route"}

\* A restart opens a perception gap: never outside the approved territory,
\* and on a public route only while the vehicle stands.
IsDiagDisruptiveAllowed(action, zone, isStationary) ==
    action \in DIAG_DISRUPTIVE_ACTIONS =>
      /\ ZONE_MODE_MATRIX[zone].diagActions
      /\ zone \in DIAG_RESTRICTED_ZONES => isStationary

=============================================================================
