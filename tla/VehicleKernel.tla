---------------------------- MODULE VehicleKernel ----------------------------
(***************************************************************************)
(* Gate 2: the vehicle's safety kernel, edge/sim/src/main.rs.  Five tokio  *)
(* tasks share the kernel's state behind one mutex per variable:           *)
(*                                                                         *)
(*   main       the MQTT event loop: commands, deadman pings, log-sync     *)
(*              acks and zone-config documents;                            *)
(*   watchdog   latches when the cloud has been silent too long;           *)
(*   pose       latches when the bridge's pose feed has been silent;       *)
(*   telemetry  drives the motion simulation and latches outside the       *)
(*              approved territory;                                        *)
(*   heartbeat  repeats the latch to the bridge and to the cloud.          *)
(*                                                                         *)
(* A task decides under the mutexes and then performs its effects one by   *)
(* one, in program order, with every other task running in between: the    *)
(* events it sends on the actuation channel, the event-log records it      *)
(* writes and the messages it publishes.  outbox[t] holds the effects task *)
(* t has still to perform; Emit(t) performs the next one.  A command is    *)
(* handled in three steps, cut where the handler re-reads state that other *)
(* tasks write: admission up to the latch gate, the zone gate, and the     *)
(* permit/diagnostics gate with the hand-over to actuation.                *)
(*                                                                         *)
(* What is published goes through the MQTT client's bounded request        *)
(* channel: a task whose publish finds it full waits, and does nothing     *)
(* else, until the main loop's poll has taken a request out, which it does *)
(* only while the link is up and no message is being handled.              *)
(*                                                                         *)
(* Running names the background tasks that get a turn in an instance.  The *)
(* kernel spawns all four; leaving one out keeps the behaviours in which   *)
(* it has not been scheduled yet, which is enough for questions the task   *)
(* has no part in.                                                         *)
(***************************************************************************)
EXTENDS Integers, Sequences, FiniteSets, ZoneModePolicy

CONSTANTS
    None,            \* the absent value of an Option
    CommandId,       \* the command ids
    Envelope,        \* the command envelopes the network may deliver
    ZoneDoc,         \* the verified zone-config documents it may deliver
    InitialZone,     \* EDGE_ZONE_TYPE
    PoseSample,      \* what the bridge may report: [inside, moving]
    PingTime,        \* the timestamps of the deadman pings it may deliver
    BridgeExists,    \* whether an actuation bridge is deployed
    Running,         \* the background tasks that get scheduled
    DEDUP_CAP,       \* capacity of the command-id store
    CHANNEL_CAP,     \* capacity of the actuation broadcast channel
    REQUEST_CAP,     \* 64: capacity of the MQTT client's request channel
    IS_AWS,          \* whether applied zone documents are reported back
    SILENCE,         \* 3000 ms: silence after which a watchdog latches
    PERIOD,          \* 1000 ms: period of the two watchdog tasks
    DEADMAN_FRESH,   \* freshness bound of a deadman ping
    MaxTime          \* bound on the clock, for model checking only

EnvelopeType ==
    [commandId : CommandId, own : BOOLEAN, verified : BOOLEAN,
     action : Action, mode : OperationMode, issuedAt : Nat,
     timestamp : Nat, ttlMs : Nat, speedKmh : Nat]

ZoneState ==
    [zone : ZoneType, validUntil : Nat \cup {None},
     validFrom : Nat \cup {None}, speedLimit : Nat \cup {None},
     revision : Nat]

ASSUME NoneAssumption == None \notin Nat /\ None \notin CommandId

ASSUME EnvelopeAssumption ==
    /\ Envelope \subseteq EnvelopeType
    \* commandId is a fresh uuid per envelope (command.controller.ts:352)
    /\ \A a, b \in Envelope : a.commandId = b.commandId => a = b

ASSUME ConfigAssumption ==
    /\ ZoneDoc \subseteq ZoneState
    /\ InitialZone \in ZoneType
    /\ PoseSample \subseteq [inside : BOOLEAN, moving : BOOLEAN]
    /\ PingTime \subseteq Nat
    /\ BridgeExists \in BOOLEAN
    /\ Running \subseteq {"watchdog", "pose", "telemetry", "heartbeat",
                           "others"}
    /\ DEDUP_CAP \in Nat \ {0} /\ CHANNEL_CAP \in Nat \ {0}
    /\ REQUEST_CAP \in Nat \ {0} /\ IS_AWS \in BOOLEAN
    /\ SILENCE \in Nat /\ PERIOD \in Nat \ {0}
    /\ DEADMAN_FRESH \in Nat /\ MaxTime \in Nat

VARIABLES
    now,          \* now_ms()
    latched,      \* the safe-stop latch
    newestToken,  \* newest fencing-token issuedAt seen
    acks,         \* command id -> stored answer, or "none"
    order,        \* the stored ids, oldest first
    lastDeadman,  \* newest accepted deadman timestamp
    zoneState,    \* the applied zone configuration
    lastContact, armed,            \* cloud liveness
    watchRun, poseRun,             \* when each watchdog task last ran
    inside, moving,                \* location and speed, abstracted
    ext, lastPose,                 \* external pose feed
    stage, cmd, zoneSeen,          \* main: the command being handled
    teleSaw, teleExt,              \* telemetry: latch and ext as last read
    outbox,       \* task -> effects still to perform
    requests,     \* number of requests in the MQTT client's channel
    bridgeUp, chan,                \* actuation channel to the bridge
    latchLog,     \* the last latch record in the event log
    reported,     \* the latch as last published in a heartbeat
    replies,      \* auxiliary: command id -> answers published
    applied, reapplied, evicted,   \* auxiliary: ids applied, again, evicted
    lastApplied,  \* auxiliary: token of the last applied command
    releasedAt    \* auxiliary: when the latch was last released

ingestVars == <<newestToken, acks, order, stage, cmd, zoneSeen,
                evicted, applied, reapplied, lastApplied>>
contactVars == <<lastContact, armed>>
poseVars == <<inside, moving, ext, lastPose>>
sinkVars == <<requests, bridgeUp, chan, latchLog, reported, replies>>
latchVars == <<latched, releasedAt>>
teleVars == <<teleSaw, teleExt>>
taskVars == <<watchRun, poseRun, teleVars>>

vars == <<now, latchVars, ingestVars, lastDeadman, zoneState, contactVars,
          poseVars, taskVars, outbox, sinkVars>>

Task == {"main", "watchdog", "pose", "telemetry", "heartbeat"}

Reason == {"ACK", "SCHEMA_INVALID", "UNAUTHORIZED", "TTL_EXPIRED",
           "INVALID_TOKEN", "MODE_MISMATCH", "SAFE_STOP_LATCHED",
           "GEOFENCE_VIOLATION", "PERMIT_SPEED_LIMIT", "DIAG_DEFERRED"}

LogType == {"LATCH_ENGAGED", "LATCH_RELEASED", "ZONE_CONFIG_APPLIED"}

LatchWord(b) == IF b THEN "latched" ELSE "clear"

Effect ==
    [kind : {"state", "heartbeat"}, id : {None}, arg : {"latched", "clear"}]
      \cup [kind : {"command"}, id : CommandId, arg : Action]
      \cup [kind : {"log"}, id : {None}, arg : LogType]
      \cup [kind : {"ack"}, id : CommandId, arg : Reason]
      \cup [kind : {"telemetry", "shadow"}, id : {None}, arg : {"sample"}]

\* The events and messages a task emits.
StateEvent(b)   == [kind |-> "state", id |-> None, arg |-> LatchWord(b)]
HeartbeatUp(b)  == [kind |-> "heartbeat", id |-> None, arg |-> LatchWord(b)]
CommandEvent(e, action) ==
    [kind |-> "command", id |-> e.commandId, arg |-> action]
LogEvent(type)  == [kind |-> "log", id |-> None, arg |-> type]
AckMsg(e, why)  == [kind |-> "ack", id |-> e.commandId, arg |-> why]
TelemetryMsg    == [kind |-> "telemetry", id |-> None, arg |-> "sample"]
ShadowReport    == [kind |-> "shadow", id |-> None, arg |-> "sample"]

\* The effects that are publishes and need room in the request channel.
IsPublish(f) == f.kind \in {"ack", "heartbeat", "telemetry", "shadow"}

-----------------------------------------------------------------------------
(* Zone evaluation on the vehicle. *)

\* Mutant: the opening of the permit window is not checked.
CurrentZoneTypeIgnoringStart(zs, t) ==
    IF zs.validUntil # None /\ t > zs.validUntil
    THEN "public_approved_route" ELSE zs.zone

CurrentZoneType(zs, t) ==
    IF \/ zs.validUntil # None /\ t > zs.validUntil
       \/ zs.validFrom # None /\ t < zs.validFrom
    THEN "public_approved_route" ELSE zs.zone

ActivePermitSpeedLimit(zs, t) ==
    IF CurrentZoneType(zs, t) = zs.zone THEN zs.speedLimit ELSE None

EffectiveZone(in, zs, t) ==
    IF in THEN CurrentZoneType(zs, t) ELSE "out_of_tod"

Zone == EffectiveZone(inside, zoneState, now)

-----------------------------------------------------------------------------
(* Building blocks of the main loop. *)

MainIdle == stage = "idle" /\ outbox["main"] = <<>>

\* Mutant: contact does not arm the watchdog.
ContactWithoutArming == lastContact' = now /\ UNCHANGED armed

MarkCloudContact == lastContact' = now /\ armed' = TRUE

\* Mutant: the oldest id leaves the queue but its answer stays in the map.
RememberAckLeaking(e, why) ==
    LET id    == e.commandId
        queue == IF acks[id] # "none" THEN order ELSE Append(order, id)
        full  == Len(queue) > DEDUP_CAP
    IN  /\ order' = IF full THEN Tail(queue) ELSE queue
        /\ acks' = [acks EXCEPT ![id] = why]
        /\ evicted' = IF full THEN evicted \cup {Head(queue)} ELSE evicted

\* remember_ack: store the answer; past the capacity the oldest id goes.
RememberAck(e, why) ==
    LET id    == e.commandId
        known == acks[id] # "none"
        queue == IF known THEN order ELSE Append(order, id)
        full  == Len(queue) > DEDUP_CAP
    IN  /\ order' = IF full THEN Tail(queue) ELSE queue
        /\ acks' = [i \in CommandId |->
                      IF full /\ i = Head(queue) THEN "none"
                      ELSE IF i = id THEN why ELSE acks[i]]
        /\ evicted' = IF full THEN evicted \cup {Head(queue)} ELSE evicted

\* The command takes effect on the vehicle.
Apply(e) ==
    /\ applied' = applied \cup {e.commandId}
    /\ reapplied' = IF e.commandId \in applied
                    THEN reapplied \cup {e.commandId} ELSE reapplied
    /\ lastApplied' = e.issuedAt

NotApplied == UNCHANGED <<applied, reapplied, lastApplied>>

\* Answer e with `why` after the other effects, and be idle again.
Answer(e, effects, why) ==
    /\ RememberAck(e, why)
    /\ outbox' = [outbox EXCEPT !["main"] = Append(effects, AckMsg(e, why))]
    /\ stage' = "idle" /\ cmd' = None /\ zoneSeen' = "out_of_tod"

EngageLatch == latched' = TRUE /\ UNCHANGED releasedAt
ReleaseLatch == latched' = FALSE /\ releasedAt' = now

-----------------------------------------------------------------------------
(* Admission: signature, idempotency, addressee, TTL, fencing token. *)

IsEstop(e, topic) == topic = "estop" \/ e.action = "E_STOP"
IsStop(e, topic) == IsEstop(e, topic) \/ e.action = "SAFE_STOP"

\* dispatch sends an E_STOP on both topics and everything else on the command
\* topic; the deadman's SAFE_STOP goes out on the estop topic.
Topics(e) == IF e.action \in {"E_STOP", "SAFE_STOP"}
             THEN {"estop", "command"} ELSE {"command"}

\* Mutant: CLEAR_SAFE_STOP is exempt from the TTL like the stops are.
TtlExemptingClear(e, topic) ==
    /\ ~IsStop(e, topic) /\ e.action # "CLEAR_SAFE_STOP"
    /\ now > e.timestamp + e.ttlMs

TtlExpired(e, topic) == ~IsStop(e, topic) /\ now > e.timestamp + e.ttlMs

\* Mutant: the fencing token is not compared.
StaleNever(e) == FALSE

StaleToken(e) == e.issuedAt < newestToken

AdmissionFault(e, topic) ==
    IF ~e.own THEN "UNAUTHORIZED"
    ELSE IF TtlExpired(e, topic) THEN "TTL_EXPIRED"
    ELSE IF StaleToken(e) THEN "INVALID_TOKEN"
    ELSE "none"

\* Mutant: only refused commands are recognised as duplicates.
KnownIfRefused(e) == acks[e.commandId] \notin {"none", "ACK"}

Known(e) == acks[e.commandId] # "none"

Admitted(e, topic) ==
    /\ MainIdle
    /\ e.verified
    /\ ~Known(e)
    /\ AdmissionFault(e, topic) = "none"

mainFrame == <<now, lastDeadman, zoneState, poseVars, taskVars, sinkVars>>

\* Schema or signature invalid: NACKed, not stored, no cloud contact.
RejectUnverified(e) ==
    /\ MainIdle
    /\ ~e.verified
    /\ outbox' = [outbox EXCEPT !["main"] = <<AckMsg(e, "SCHEMA_INVALID")>>]
    /\ UNCHANGED <<mainFrame, latchVars, ingestVars, contactVars>>

\* Mutant: a duplicate is answered ACK whatever its first answer was.
ReplayAsAck(e) ==
    /\ MainIdle
    /\ e.verified
    /\ Known(e)
    /\ MarkCloudContact
    /\ outbox' = [outbox EXCEPT !["main"] = <<AckMsg(e, "ACK")>>]
    /\ UNCHANGED <<mainFrame, latchVars, ingestVars>>

\* A known id is answered with its stored ack and has no other effect.
ReplayDuplicate(e) ==
    /\ MainIdle
    /\ e.verified
    /\ Known(e)
    /\ MarkCloudContact
    /\ outbox' = [outbox EXCEPT !["main"] = <<AckMsg(e, acks[e.commandId])>>]
    /\ UNCHANGED <<mainFrame, latchVars, ingestVars>>

RefuseAdmission(e, topic) ==
    /\ MainIdle
    /\ e.verified
    /\ ~Known(e)
    /\ AdmissionFault(e, topic) # "none"
    /\ MarkCloudContact
    /\ Answer(e, <<>>, AdmissionFault(e, topic))
    /\ NotApplied
    /\ UNCHANGED <<mainFrame, latchVars, newestToken>>

\* Every admitted command raises the newest token seen.
RaiseToken(e) == newestToken' = e.issuedAt

ApplyStop(e, topic) ==
    /\ Admitted(e, topic)
    /\ IsStop(e, topic)
    /\ MarkCloudContact
    /\ RaiseToken(e)
    /\ EngageLatch
    /\ Apply(e)
    /\ Answer(e, <<StateEvent(TRUE),
                   CommandEvent(e, IF IsEstop(e, topic)
                                   THEN "E_STOP" ELSE "SAFE_STOP"),
                   LogEvent("LATCH_ENGAGED")>>, "ACK")
    /\ UNCHANGED mainFrame

RefuseMode(e, topic) ==
    /\ Admitted(e, topic)
    /\ ~IsStop(e, topic)
    /\ e.mode # InferMode(e.action)
    /\ MarkCloudContact
    /\ RaiseToken(e)
    /\ Answer(e, <<>>, "MODE_MISMATCH")
    /\ NotApplied
    /\ UNCHANGED <<mainFrame, latchVars>>

\* Admitted, not a stop, mode as inferred: the command is at the latch gate.
AtLatchGate(e, topic) ==
    /\ Admitted(e, topic)
    /\ ~IsStop(e, topic)
    /\ e.mode = InferMode(e.action)
    /\ MarkCloudContact
    /\ RaiseToken(e)

RefuseLatched(e, topic) ==
    /\ AtLatchGate(e, topic)
    /\ latched
    /\ e.action # "CLEAR_SAFE_STOP"
    /\ Answer(e, <<>>, "SAFE_STOP_LATCHED")
    /\ NotApplied
    /\ UNCHANGED <<mainFrame, latchVars>>

ClearSafeStop(e, topic) ==
    /\ AtLatchGate(e, topic)
    /\ latched
    /\ e.action = "CLEAR_SAFE_STOP"
    /\ ReleaseLatch
    /\ Apply(e)
    /\ Answer(e, <<StateEvent(FALSE), CommandEvent(e, "CLEAR_SAFE_STOP"),
                   LogEvent("LATCH_RELEASED")>>, "ACK")
    /\ UNCHANGED mainFrame

ClearNoop(e, topic) ==
    /\ AtLatchGate(e, topic)
    /\ ~latched
    /\ e.action = "CLEAR_SAFE_STOP"
    /\ Answer(e, <<>>, "ACK")
    /\ NotApplied
    /\ UNCHANGED <<mainFrame, latchVars>>

PassLatchGate(e, topic) ==
    /\ AtLatchGate(e, topic)
    /\ ~latched
    /\ e.action # "CLEAR_SAFE_STOP"
    /\ stage' = "zone" /\ cmd' = e
    /\ NotApplied
    /\ UNCHANGED <<mainFrame, latchVars, acks, order, evicted, zoneSeen,
                   outbox>>

-----------------------------------------------------------------------------
(* Zone gate, then permit/diagnostics gate and actuation. *)

gateFrame == <<mainFrame, contactVars, newestToken>>

GeofenceStop ==
    /\ stage = "zone"
    /\ Zone = "out_of_tod"
    /\ cmd.mode \in {"MODE1", "MODE2"}
    /\ EngageLatch
    /\ Answer(cmd, <<StateEvent(TRUE), LogEvent("LATCH_ENGAGED")>>,
              "GEOFENCE_VIOLATION")
    /\ NotApplied
    /\ UNCHANGED gateFrame

RefuseZone ==
    /\ stage = "zone"
    /\ ~(Zone = "out_of_tod" /\ cmd.mode \in {"MODE1", "MODE2"})
    /\ ~IsModeAllowedInZone(Zone, cmd.mode)
    /\ Answer(cmd, <<>>, "MODE_MISMATCH")
    /\ NotApplied
    /\ UNCHANGED <<gateFrame, latchVars>>

PassZoneGate ==
    /\ stage = "zone"
    /\ IsModeAllowedInZone(Zone, cmd.mode)
    /\ stage' = "final" /\ zoneSeen' = Zone
    /\ NotApplied
    /\ UNCHANGED <<gateFrame, latchVars, cmd, acks, order, evicted, outbox>>

\* The permit's limit is evaluated against a second reading of the clock,
\* the diagnostics rule against the zone seen at the zone gate.
FinalFault(e) ==
    LET limit == ActivePermitSpeedLimit(zoneState, now)
    IN  IF limit # None /\ e.action = "CREEP" /\ e.speedKmh > limit
        THEN "PERMIT_SPEED_LIMIT"
        ELSE IF ~IsDiagDisruptiveAllowed(e.action, zoneSeen, ~moving)
        THEN "DIAG_DEFERRED" ELSE "none"

RefuseFinal ==
    /\ stage = "final"
    /\ FinalFault(cmd) # "none"
    /\ Answer(cmd, <<>>, FinalFault(cmd))
    /\ NotApplied
    /\ UNCHANGED <<gateFrame, latchVars>>

AcceptCommand ==
    /\ stage = "final"
    /\ FinalFault(cmd) = "none"
    /\ Apply(cmd)
    /\ Answer(cmd, <<CommandEvent(cmd, cmd.action)>>, "ACK")
    /\ UNCHANGED <<gateFrame, latchVars>>

-----------------------------------------------------------------------------
(* The other inputs of the main loop. *)

\* A signed ping for this vehicle, fresh and newer than the last one.
DeadmanPing(ts) ==
    /\ MainIdle
    /\ ts + DEADMAN_FRESH >= now /\ ts <= now + DEADMAN_FRESH
    /\ ts > lastDeadman
    /\ lastDeadman' = ts
    /\ MarkCloudContact
    /\ UNCHANGED <<now, latchVars, ingestVars, zoneState, poseVars, taskVars,
                   outbox, sinkVars>>

\* A signed log-sync ack of this boot is cloud contact (the buffer it trims
\* is the subject of module LogSync).
LogSyncAck ==
    /\ MainIdle
    /\ MarkCloudContact
    /\ UNCHANGED <<mainFrame, latchVars, ingestVars, outbox>>

\* A verified document is contact even when its revision is stale.
ZoneConfig(doc) ==
    /\ MainIdle
    /\ MarkCloudContact
    /\ IF doc.revision > zoneState.revision
       THEN /\ zoneState' = doc
            /\ outbox' = [outbox EXCEPT !["main"] =
                            <<LogEvent("ZONE_CONFIG_APPLIED")>>
                              \o IF IS_AWS THEN <<ShadowReport>> ELSE <<>>]
       ELSE UNCHANGED <<zoneState, outbox>>
    /\ UNCHANGED <<now, latchVars, ingestVars, lastDeadman, poseVars,
                   taskVars, sinkVars>>

-----------------------------------------------------------------------------
(* The watchdogs, telemetry and heartbeat tasks. *)

LatchFrom(t) ==
    IF latched THEN UNCHANGED <<latchVars, outbox>>
    ELSE /\ EngageLatch
         /\ outbox' = [outbox EXCEPT
                         ![t] = <<StateEvent(TRUE), LogEvent("LATCH_ENGAGED")>>]

\* Mutant: silence is noticed one watchdog period late.
CloudSilentLate == armed /\ now > lastContact + SILENCE + PERIOD

CloudSilent == armed /\ now > lastContact + SILENCE

WatchdogTick ==
    /\ "watchdog" \in Running
    /\ outbox["watchdog"] = <<>>
    /\ now >= watchRun + PERIOD
    /\ watchRun' = now
    /\ IF CloudSilent THEN LatchFrom("watchdog")
                      ELSE UNCHANGED <<latchVars, outbox>>
    /\ UNCHANGED <<now, ingestVars, lastDeadman, zoneState, contactVars,
                   poseVars, poseRun, teleVars, sinkVars>>

PoseSilent == ext /\ now > lastPose + SILENCE

PoseWatchdogTick ==
    /\ "pose" \in Running
    /\ outbox["pose"] = <<>>
    /\ now >= poseRun + PERIOD
    /\ poseRun' = now
    /\ IF PoseSilent THEN LatchFrom("pose")
                     ELSE UNCHANGED <<latchVars, outbox>>
    /\ UNCHANGED <<now, ingestVars, lastDeadman, zoneState, contactVars,
                   poseVars, watchRun, teleVars, sinkVars>>

\* An iteration starts by reading the latch and whether a bridge feeds poses.
TelemetryRead ==
    /\ "telemetry" \in Running
    /\ outbox["telemetry"] = <<>>
    /\ teleSaw = "none"
    /\ teleSaw' = LatchWord(latched)
    /\ teleExt' = ext
    /\ UNCHANGED <<now, latchVars, ingestVars, lastDeadman, zoneState,
                   contactVars, poseVars, watchRun, poseRun, outbox, sinkVars>>

\* Mutant: only the simulated motion is held to the territory.
StrayedInSimulation == Zone = "out_of_tod" /\ teleSaw = "clear" /\ ~teleExt

\* Outside the territory, and not known to be latched.
Strayed == Zone = "out_of_tod" /\ teleSaw = "clear"

\* The motion simulation stays inside the territory; it stands when the
\* latch was read engaged and otherwise gains speed or is held to the
\* permit's limit.  The sample's publish ends the iteration: while it waits
\* for room, neither motion nor territory is looked at.
TelemetryStep ==
    /\ teleSaw # "none"
    /\ teleSaw' = "none"
    /\ IF Strayed
       THEN /\ EngageLatch
            /\ moving' = (teleExt /\ moving)
            /\ outbox' = [outbox EXCEPT !["telemetry"] =
                            <<StateEvent(TRUE), LogEvent("LATCH_ENGAGED"),
                              TelemetryMsg>>]
       ELSE /\ moving' \in IF teleExt THEN {moving}
                           ELSE IF teleSaw = "latched" THEN {FALSE}
                           ELSE BOOLEAN
            /\ outbox' = [outbox EXCEPT !["telemetry"] = <<TelemetryMsg>>]
            /\ UNCHANGED latchVars
    /\ UNCHANGED <<now, ingestVars, lastDeadman, zoneState, contactVars,
                   inside, ext, lastPose, watchRun, poseRun, teleExt,
                   sinkVars>>

\* The latch goes to the bridge and then to the cloud; while the publish
\* waits for room there is no further turn.
HeartbeatTick ==
    /\ "heartbeat" \in Running
    /\ outbox["heartbeat"] = <<>>
    /\ outbox' = [outbox EXCEPT !["heartbeat"] =
                    <<StateEvent(latched), HeartbeatUp(latched)>>]
    /\ UNCHANGED <<now, latchVars, ingestVars, lastDeadman, zoneState,
                   contactVars, poseVars, taskVars, sinkVars>>

-----------------------------------------------------------------------------
(* Effects, the actuation server and the clock. *)

\* The broadcast channel keeps the newest CHANNEL_CAP events.
Push(c, ev) == IF ~bridgeUp THEN c
               ELSE IF Len(c) < CHANNEL_CAP THEN Append(c, ev)
               ELSE Append(Tail(c), ev)

Emit(t) ==
    /\ outbox[t] # <<>>
    /\ LET f == Head(outbox[t])
       IN  /\ IsPublish(f) => requests < REQUEST_CAP
           /\ requests' = IF IsPublish(f) THEN requests + 1 ELSE requests
           /\ chan' = IF f.kind \in {"state", "command"} THEN Push(chan, f)
                      ELSE chan
           /\ latchLog' = IF f.kind = "log" /\ f.arg # "ZONE_CONFIG_APPLIED"
                          THEN f.arg ELSE latchLog
           /\ reported' = IF f.kind = "heartbeat" THEN f.arg ELSE reported
           /\ replies' = [i \in CommandId |->
                            IF f.kind = "ack" /\ i = f.id
                            THEN replies[i] \cup {f.arg} ELSE replies[i]]
    /\ outbox' = [outbox EXCEPT ![t] = Tail(@)]
    /\ UNCHANGED <<now, latchVars, ingestVars, lastDeadman, zoneState,
                   contactVars, poseVars, taskVars, bridgeUp>>

\* The main loop is back at its poll and the link takes a request.
Poll ==
    /\ MainIdle
    /\ requests > 0
    /\ requests' = requests - 1
    /\ UNCHANGED <<now, latchVars, ingestVars, lastDeadman, zoneState,
                   contactVars, poseVars, taskVars, outbox, bridgeUp, chan,
                   latchLog, reported, replies>>

\* The tasks of other modules (log-sync drain, maneuver generator, renewed
\* subscriptions) put a request into the same channel.
OtherRequest ==
    /\ "others" \in Running
    /\ requests < REQUEST_CAP
    /\ requests' = requests + 1
    /\ UNCHANGED <<now, latchVars, ingestVars, lastDeadman, zoneState,
                   contactVars, poseVars, taskVars, outbox, bridgeUp, chan,
                   latchLog, reported, replies>>

\* A bridge connects and is sent the latch first.
AcceptBridge ==
    /\ BridgeExists
    /\ ~bridgeUp
    /\ bridgeUp' = TRUE
    /\ chan' = <<StateEvent(latched)>>
    /\ UNCHANGED <<now, latchVars, ingestVars, lastDeadman, zoneState,
                   contactVars, poseVars, taskVars, outbox, requests,
                   latchLog, reported, replies>>

LoseBridge ==
    /\ bridgeUp
    /\ bridgeUp' = FALSE
    /\ chan' = <<>>
    /\ UNCHANGED <<now, latchVars, ingestVars, lastDeadman, zoneState,
                   contactVars, poseVars, taskVars, outbox, requests,
                   latchLog, reported, replies>>

\* The writer task hands the oldest event to the bridge.
Forward ==
    /\ bridgeUp
    /\ chan # <<>>
    /\ chan' = Tail(chan)
    /\ UNCHANGED <<now, latchVars, ingestVars, lastDeadman, zoneState,
                   contactVars, poseVars, taskVars, outbox, requests,
                   bridgeUp, latchLog, reported, replies>>

PoseFeed(p) ==
    /\ bridgeUp
    /\ inside' = p.inside
    /\ moving' = p.moving
    /\ lastPose' = now
    /\ ext' = TRUE
    /\ UNCHANGED <<now, latchVars, ingestVars, lastDeadman, zoneState,
                   contactVars, taskVars, outbox, sinkVars>>

\* The watchdog tasks are punctual: the clock does not pass a due iteration.
Tick ==
    /\ now < MaxTime
    /\ "watchdog" \in Running => now < watchRun + PERIOD
    /\ "pose" \in Running => now < poseRun + PERIOD
    /\ now' = now + 1
    /\ UNCHANGED <<latchVars, ingestVars, lastDeadman, zoneState, contactVars,
                   poseVars, taskVars, outbox, sinkVars>>

-----------------------------------------------------------------------------
Init ==
    /\ now = 0
    /\ latched = FALSE /\ releasedAt = 0
    /\ newestToken = 0
    /\ acks = [i \in CommandId |-> "none"] /\ order = <<>>
    /\ stage = "idle" /\ cmd = None /\ zoneSeen = "out_of_tod"
    /\ evicted = {} /\ applied = {} /\ reapplied = {} /\ lastApplied = 0
    /\ lastDeadman = 0
    /\ zoneState = [zone |-> InitialZone, validUntil |-> None,
                    validFrom |-> None, speedLimit |-> None, revision |-> 0]
    /\ lastContact = 0 /\ armed = FALSE
    /\ inside = TRUE /\ moving = FALSE /\ ext = FALSE /\ lastPose = 0
    /\ watchRun = 0 /\ poseRun = 0
    /\ teleSaw = "none" /\ teleExt = FALSE
    /\ outbox = [t \in Task |-> <<>>] /\ requests = 0
    /\ bridgeUp = FALSE /\ chan = <<>>
    /\ latchLog = "none" /\ reported = "none"
    /\ replies = [i \in CommandId |-> {}]

Command(e, topic) ==
    \/ RefuseAdmission(e, topic)
    \/ ApplyStop(e, topic)
    \/ RefuseMode(e, topic)
    \/ RefuseLatched(e, topic)
    \/ ClearSafeStop(e, topic)
    \/ ClearNoop(e, topic)
    \/ PassLatchGate(e, topic)

Gates == GeofenceStop \/ RefuseZone \/ PassZoneGate
           \/ RefuseFinal \/ AcceptCommand

KernelNext ==
    \/ \E e \in Envelope : RejectUnverified(e) \/ ReplayDuplicate(e)
    \/ \E e \in Envelope : \E topic \in Topics(e) : Command(e, topic)
    \/ Gates
    \/ \E ts \in PingTime : DeadmanPing(ts)
    \/ LogSyncAck
    \/ \E doc \in ZoneDoc : ZoneConfig(doc)
    \/ WatchdogTick \/ PoseWatchdogTick
    \/ TelemetryRead \/ TelemetryStep
    \/ HeartbeatTick
    \/ \E t \in Task : Emit(t)
    \/ Poll \/ OtherRequest
    \/ Tick

Next ==
    \/ KernelNext
    \/ AcceptBridge \/ LoseBridge \/ Forward
    \/ \E p \in PoseSample : PoseFeed(p)

\* The runtime keeps scheduling the background tasks, and senders that wait
\* for room in the request channel are served in turn: strong fairness, as
\* others may fill it in between.  Nothing is assumed of the main loop, of
\* the link (Poll), the bridge or the clock.
Fairness ==
    /\ WF_vars(WatchdogTick) /\ WF_vars(PoseWatchdogTick)
    /\ WF_vars(TelemetryRead) /\ WF_vars(TelemetryStep)
    /\ WF_vars(HeartbeatTick)
    /\ \A t \in Task \cap Running : SF_vars(Emit(t))

Spec == Init /\ [][Next]_vars
FairSpec == Spec /\ Fairness
MainFairSpec == Spec /\ WF_vars(Gates) /\ SF_vars(Emit("main"))

-----------------------------------------------------------------------------
(* Properties. *)

TypeOK ==
    /\ now \in Nat /\ latched \in BOOLEAN /\ releasedAt \in Nat
    /\ newestToken \in Nat
    /\ acks \in [CommandId -> Reason \cup {"none"}]
    /\ order \in Seq(CommandId)
    /\ stage \in {"idle", "zone", "final"}
    /\ IF stage = "idle" THEN cmd = None ELSE cmd \in Envelope
    /\ zoneSeen \in ZoneType
    /\ evicted \subseteq CommandId /\ applied \subseteq CommandId
    /\ reapplied \subseteq CommandId /\ lastApplied \in Nat
    /\ lastDeadman \in Nat /\ zoneState \in ZoneState
    /\ lastContact \in Nat /\ armed \in BOOLEAN
    /\ inside \in BOOLEAN /\ moving \in BOOLEAN
    /\ ext \in BOOLEAN /\ lastPose \in Nat
    /\ watchRun \in Nat /\ poseRun \in Nat
    /\ teleSaw \in {"none", "latched", "clear"} /\ teleExt \in BOOLEAN
    /\ outbox \in [Task -> Seq(Effect)]
    /\ requests \in 0..REQUEST_CAP
    /\ bridgeUp \in BOOLEAN /\ chan \in Seq(Effect)
    /\ latchLog \in {"none", "LATCH_ENGAGED", "LATCH_RELEASED"}
    /\ reported \in {"none", "latched", "clear"}
    /\ replies \in [CommandId -> SUBSET Reason]

(***************************************************************************)
(* RES-01: once the cloud has been heard, a vehicle that has received no   *)
(* verified message for SILENCE plus one watchdog period is latched.  No   *)
(* CLEAR, no race with the main loop and no other latch trigger can leave  *)
(* it unlatched: releasing the latch takes a verified message, which is    *)
(* itself contact.                                                         *)
(***************************************************************************)
SilenceLatches == armed /\ now > lastContact + SILENCE + PERIOD => latched

(***************************************************************************)
(* The pose watchdog: with the pose feed silent the vehicle is unlatched   *)
(* for at most one period after the silence is due or after an operator's  *)
(* CLEAR ("an operator CLEAR re-latches within 1 s").                      *)
(***************************************************************************)
PoseSilenceLatches ==
    /\ ext
    /\ now > lastPose + SILENCE + PERIOD
    /\ now > releasedAt + PERIOD
    => latched

(***************************************************************************)
(* The kernel implements the latch of SafeStopLatch: whatever the five     *)
(* tasks, the network and the bridge do, the latch is engaged by any       *)
(* trigger, released only together with verified contact, and the two      *)
(* watchdogs act on it punctually.                                         *)
(***************************************************************************)
Latch == INSTANCE SafeStopLatch
ImplementsLatch == Latch!Spec

(***************************************************************************)
(* Fencing (ICD section 8): commands take effect in the order of their     *)
(* tokens, although a command passes the token gate some steps before it   *)
(* takes effect.                                                           *)
(***************************************************************************)
FencingOrder == [][lastApplied' >= lastApplied]_vars

(***************************************************************************)
(* The command-id store is a map and a queue that remember_ack keeps in    *)
(* step: the ids with an answer are those in the queue, each once, and     *)
(* there are never more than its capacity.                                 *)
(***************************************************************************)
StoreConsistent ==
    /\ Len(order) <= DEDUP_CAP
    /\ \A i, j \in 1..Len(order) : order[i] = order[j] => i = j
    /\ \A id \in CommandId :
         acks[id] # "none" <=> \E i \in 1..Len(order) : order[i] = id

(***************************************************************************)
(* Idempotency (ICD section 4): whatever the network redelivers, a command *)
(* takes effect a second time only if its id was evicted from the bounded  *)
(* store.                                                                  *)
(***************************************************************************)
ReplayOnlyAfterEviction == reapplied \subseteq evicted

(***************************************************************************)
(* Why both hold although a command is applied some steps after it was     *)
(* admitted: the command in hand carries the newest token and is not in    *)
(* the store yet, and what was applied is in the store or was evicted.     *)
(***************************************************************************)
InHand == stage # "idle" => /\ cmd.issuedAt = newestToken
                            /\ acks[cmd.commandId] = "none"
StoredOrEvicted == \A i \in applied : acks[i] # "none" \/ i \in evicted
IngestInv == /\ lastApplied <= newestToken
             /\ InHand
             /\ StoredOrEvicted
             /\ ReplayOnlyAfterEviction

(***************************************************************************)
(* ... and all copies of a command get the same answer.                    *)
(***************************************************************************)
SameResponse == \A i \in CommandId \ evicted : Cardinality(replies[i]) <= 1

(***************************************************************************)
(* RES-04: no task ever releases the latch; only a CLEAR_SAFE_STOP that is *)
(* verified, addressed to this vehicle, within its TTL, not answered       *)
(* before, and not older than any command that has taken effect.           *)
(***************************************************************************)
LatchReleasedOnlyByClear ==
    [][latched /\ ~latched' =>
         \E e \in Envelope :
           /\ e.action = "CLEAR_SAFE_STOP" /\ e.verified /\ e.own
           /\ now <= e.timestamp + e.ttlMs
           /\ acks[e.commandId] = "none"
           /\ e.issuedAt >= lastApplied /\ lastApplied' = e.issuedAt]_vars

(***************************************************************************)
(* Mode 2 and permits (ICD section 1): when a driving command is about to  *)
(* reach actuation the configured zone is one that admits Mode 2 and its   *)
(* permit window has opened, whatever configuration, position or time did  *)
(* while the command was being handled; and at the zone gate the vehicle   *)
(* was inside the territory.                                               *)
(***************************************************************************)
DrivingNeedsPermit ==
    stage = "final" /\ cmd.mode = "MODE2" =>
      /\ zoneState.zone \notin {"public_approved_route", "out_of_tod"}
      /\ zoneState.validFrom = None \/ zoneState.validFrom <= now
      /\ zoneSeen = zoneState.zone

(***************************************************************************)
(* RES-03: unless the request channel is full for good, a vehicle outside  *)
(* the approved territory latches by itself, without any command arriving. *)
(* The telemetry task waits for room in that channel between two looks at  *)
(* the territory, so the link must take requests again and again.          *)
(***************************************************************************)
OutsideLatches ==
    []<>(requests < REQUEST_CAP) =>
      ((Zone = "out_of_tod") ~> (latched \/ Zone # "out_of_tod"))

-----------------------------------------------------------------------------
(* Statements of the source that the code does not keep. *)

(***************************************************************************)
(* main.rs:911-912: "latch autonomously the moment the vehicle leaves      *)
(* approved territory".  Offline, the publish at 960 waits on a full       *)
(* channel and the territory is not looked at again.                       *)
(***************************************************************************)
OutsideLatchesOffline ==
    (Zone = "out_of_tod") ~> (latched \/ Zone # "out_of_tod")

(***************************************************************************)
(* main.rs:603-608: awaiting the client in the task that also polls "would *)
(* deadlock on a full channel", which headroom and a spawned resubscribe   *)
(* exclude.  Every ack is awaited in that task (1417 to 1738): a command   *)
(* that arrives while the channel is still full of backlog, as it is after *)
(* an offline stretch, leaves the main loop waiting for itself.            *)
(***************************************************************************)
MainReturns == []<>MainIdle

(***************************************************************************)
(* main.rs:1541: "While latched, only an authorized CLEAR_SAFE_STOP is     *)
(* accepted."  A command that is past the latch gate when another task     *)
(* latches is still accepted and handed to actuation.                      *)
(***************************************************************************)
NothingAcceptedWhileLatched ==
    [][\A e \in Envelope :
         /\ stage = "final" /\ cmd = e /\ e.commandId \notin applied
         /\ e.commandId \in applied'
         => ~latched]_vars

(***************************************************************************)
(* main.rs:824-825: "While the feed stays silent an operator CLEAR         *)
(* re-latches within 1 s -- no motion command is honoured without a        *)
(* ground-truth basis."  Between the CLEAR and the next watchdog iteration *)
(* a motion command is honoured.                                           *)
(***************************************************************************)
NoMotionWithoutPose ==
    [][\A e \in Envelope :
         /\ stage = "final" /\ cmd = e /\ e.action \in MODE2_ACTIONS
         /\ e.commandId \notin applied /\ e.commandId \in applied'
         => ~PoseSilent]_vars

(***************************************************************************)
(* main.rs:1602-1604: "A Mode 2 command that names a target speed above    *)
(* the active permit's limit is refused ON THE VEHICLE".  The zone gate    *)
(* and the speed gate read the clock separately: a permit that lapses in   *)
(* between still admits the command but no longer limits it.               *)
(***************************************************************************)
PermitLimitsCreep ==
    [][\A e \in Envelope :
         /\ stage = "final" /\ cmd = e /\ e.action = "CREEP"
         /\ zoneState.speedLimit # None
         /\ e.commandId \notin applied /\ e.commandId \in applied'
         => e.speedKmh <= zoneState.speedLimit]_vars

(***************************************************************************)
(* main.rs:394-395: latch transitions "are recorded LOCALLY the moment     *)
(* they happen".  With every task's effects performed, the last latch      *)
(* record would then tell the latch; two tasks that change the latch and   *)
(* then write their records can write them in the other order.             *)
(***************************************************************************)
LogTellsLatch ==
    /\ \A t \in Task : outbox[t] = <<>>
    /\ latchLog # "none"
    => (latchLog = "LATCH_ENGAGED") = latched

=============================================================================
