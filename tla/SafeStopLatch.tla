--------------------------- MODULE SafeStopLatch ---------------------------
(***************************************************************************)
(* What the safety kernel promises about its safe-stop latch, without the  *)
(* commands, zones, tasks' effects and channels that bring it about: any   *)
(* trigger may engage the latch at any time; it is released only together  *)
(* with cloud contact; and two periodic watchdogs engage it while the      *)
(* cloud, once heard, or the pose feed, once received, has been silent for *)
(* longer than SILENCE.  VehicleKernel implements this specification when  *)
(* both watchdog tasks run.                                                *)
(***************************************************************************)
EXTENDS Integers

CONSTANTS
    SILENCE,   \* a natural number: longest silence the watchdogs tolerate
    PERIOD     \* a natural number: their period

VARIABLES
    now,
    latched, releasedAt,           \* the latch and its last release
    armed, lastContact, watchRun,  \* the cloud watchdog
    ext, lastPose, poseRun         \* the pose watchdog

latch == <<latched, releasedAt>>
cloud == <<armed, lastContact>>
pose == <<ext, lastPose>>
lvars == <<now, latch, cloud, pose, watchRun, poseRun>>

Init ==
    /\ now = 0
    /\ latched = FALSE /\ releasedAt = 0
    /\ armed = FALSE /\ lastContact = 0 /\ watchRun = 0
    /\ ext = FALSE /\ lastPose = 0 /\ poseRun = 0

Contact == armed' = TRUE /\ lastContact' = now

\* A verified message, which may also engage the latch or release it.
Hear ==
    /\ Contact
    /\ \/ UNCHANGED latch
       \/ latched' = TRUE /\ UNCHANGED releasedAt
       \/ latched /\ latched' = FALSE /\ releasedAt' = now
    /\ UNCHANGED <<now, pose, watchRun, poseRun>>

\* A geofence violation, noticed with or without a command.
Stop ==
    /\ latched' = TRUE
    /\ UNCHANGED <<now, releasedAt, cloud, pose, watchRun, poseRun>>

CloudWatchdog ==
    /\ watchRun' = now
    /\ latched' = IF armed /\ now > lastContact + SILENCE THEN TRUE ELSE latched
    /\ UNCHANGED <<now, releasedAt, cloud, pose, poseRun>>

PoseWatchdog ==
    /\ poseRun' = now
    /\ latched' = IF ext /\ now > lastPose + SILENCE THEN TRUE ELSE latched
    /\ UNCHANGED <<now, releasedAt, cloud, pose, watchRun>>

Pose ==
    /\ ext' = TRUE /\ lastPose' = now
    /\ UNCHANGED <<now, latch, cloud, watchRun, poseRun>>

Advance ==
    /\ now < watchRun + PERIOD /\ now < poseRun + PERIOD
    /\ now' = now + 1
    /\ UNCHANGED <<latch, cloud, pose, watchRun, poseRun>>

Next == Hear \/ Stop \/ CloudWatchdog \/ PoseWatchdog \/ Pose \/ Advance

Spec == Init /\ [][Next]_lvars

-----------------------------------------------------------------------------
(***************************************************************************)
(* The two bounds the watchdogs give, and what makes them inductive: each  *)
(* watchdog has run within the last PERIOD, and what it saw then still     *)
(* binds unless the feed was heard or the latch released since.            *)
(***************************************************************************)
SilenceBound == armed /\ now > lastContact + SILENCE + PERIOD => latched

PoseBound ==
    /\ ext
    /\ now > lastPose + SILENCE + PERIOD
    /\ now > releasedAt + PERIOD
    => latched

LatchTypeOK ==
    /\ now \in Nat /\ releasedAt \in Nat
    /\ lastContact \in Nat /\ watchRun \in Nat
    /\ lastPose \in Nat /\ poseRun \in Nat
    /\ latched \in BOOLEAN /\ armed \in BOOLEAN /\ ext \in BOOLEAN

PastOnly ==
    /\ releasedAt <= now /\ lastContact <= now /\ lastPose <= now
    /\ watchRun <= now /\ now <= watchRun + PERIOD
    /\ poseRun <= now /\ now <= poseRun + PERIOD

CloudSeen == armed /\ watchRun > lastContact + SILENCE => latched

PoseSeen ==
    /\ ext
    /\ poseRun > lastPose + SILENCE
    /\ poseRun > releasedAt
    => latched

LatchInv == LatchTypeOK /\ PastOnly /\ CloudSeen /\ PoseSeen
=============================================================================
