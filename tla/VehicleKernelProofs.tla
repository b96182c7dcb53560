------------------------ MODULE VehicleKernelProofs ------------------------
(***************************************************************************)
(* Proofs about the safety kernel for every set of envelopes, documents,   *)
(* pose samples and pings, and every value of the bounds.                  *)
(***************************************************************************)
EXTENDS VehicleKernel, FiniteSetTheorems, TLAPS

-----------------------------------------------------------------------------
(* Type correctness. *)

\* What the tasks send, log and publish are effects.
LEMMA EffectTypes ==
    /\ \A b \in BOOLEAN : StateEvent(b) \in Effect /\ HeartbeatUp(b) \in Effect
    /\ \A e \in Envelope, a \in Action : CommandEvent(e, a) \in Effect
    /\ \A e \in Envelope, why \in Reason : AckMsg(e, why) \in Effect
    /\ \A type \in LogType : LogEvent(type) \in Effect
    /\ TelemetryMsg \in Effect /\ ShadowReport \in Effect
  BY EnvelopeAssumption
     DEF Effect, StateEvent, HeartbeatUp, CommandEvent, AckMsg, LogEvent,
         TelemetryMsg, ShadowReport, LatchWord, EnvelopeType

\* Storing an answer keeps the command-id store well-formed.
LEMMA RememberAckType ==
    ASSUME acks \in [CommandId -> Reason \cup {"none"}],
           order \in Seq(CommandId), evicted \subseteq CommandId,
           NEW e \in Envelope, NEW why \in Reason, RememberAck(e, why)
    PROVE  /\ acks' \in [CommandId -> Reason \cup {"none"}]
           /\ order' \in Seq(CommandId)
           /\ evicted' \subseteq CommandId
<1> DEFINE id == e.commandId
           queue == IF acks[id] # "none" THEN order ELSE Append(order, id)
<1>1. id \in CommandId
  BY EnvelopeAssumption DEF EnvelopeType
<1>2. queue \in Seq(CommandId)
  BY <1>1
<1>3. Len(queue) > DEDUP_CAP => /\ queue # <<>>
                                /\ Head(queue) \in CommandId
                                /\ Tail(queue) \in Seq(CommandId)
  BY <1>2, ConfigAssumption
<1>4. order' \in Seq(CommandId)
  BY <1>2, <1>3 DEF RememberAck
<1>5. evicted' \subseteq CommandId
  BY <1>2, <1>3 DEF RememberAck
<1>6. acks' \in [CommandId -> Reason \cup {"none"}]
  BY <1>1 DEF RememberAck
<1> QED BY <1>4, <1>5, <1>6

\* What a command's answer may change is well-formed afterwards.
TypedAnswer ==
    /\ acks' \in [CommandId -> Reason \cup {"none"}]
    /\ order' \in Seq(CommandId)
    /\ evicted' \subseteq CommandId
    /\ outbox' \in [Task -> Seq(Effect)]
    /\ stage' = "idle" /\ cmd' = None /\ zoneSeen' \in ZoneType

\* Short tuples over a set are sequences over it.
LEMMA Tuples ==
    ASSUME NEW S
    PROVE  /\ <<>> \in Seq(S)
           /\ \A a \in S : <<a>> \in Seq(S)
           /\ \A a, b \in S : <<a, b>> \in Seq(S)
           /\ \A a, b, c \in S : <<a, b, c>> \in Seq(S)
  OBVIOUS

\* An answer with well-formed effects leaves the handler's state well-formed.
LEMMA AnswerType ==
    ASSUME TypeOK, NEW e \in Envelope, NEW why \in Reason,
           NEW effects \in Seq(Effect), Answer(e, effects, why)
    PROVE  TypedAnswer
<1>1. RememberAck(e, why)
  BY DEF Answer
<1>2. AckMsg(e, why) \in Effect
  BY EffectTypes
<1>3. Append(effects, AckMsg(e, why)) \in Seq(Effect)
  BY <1>2
<1>4. outbox' \in [Task -> Seq(Effect)]
  BY <1>3 DEF Answer, TypeOK, Task
<1>5. stage' = "idle" /\ cmd' = None /\ zoneSeen' \in ZoneType
  BY DEF Answer, ZoneType
<1> QED BY <1>1, <1>4, <1>5, RememberAckType DEF TypedAnswer, TypeOK

\* Every step keeps the state well-formed.
LEMMA TypeStep == TypeOK /\ [Next]_vars => TypeOK'
<1> SUFFICES ASSUME TypeOK, [Next]_vars PROVE TypeOK'
  OBVIOUS
<1> USE DEF ingestVars, contactVars, poseVars, sinkVars, latchVars, teleVars,
            taskVars, mainFrame, gateFrame
<1>1. ASSUME NEW e \in Envelope, RejectUnverified(e) PROVE TypeOK'
  <2>1. outbox' \in [Task -> Seq(Effect)]
    BY <1>1, EffectTypes DEF RejectUnverified, TypeOK, Task, Reason
  <2> QED BY <1>1, <2>1 DEF RejectUnverified, TypeOK
<1>2. ASSUME NEW e \in Envelope, ReplayDuplicate(e) PROVE TypeOK'
  <2>1. outbox' \in [Task -> Seq(Effect)]
    BY <1>2, EffectTypes, EnvelopeAssumption
       DEF ReplayDuplicate, TypeOK, Task, Known, EnvelopeType
  <2> QED BY <1>2, <2>1 DEF ReplayDuplicate, TypeOK, MarkCloudContact
<1>3. ASSUME NEW e \in Envelope, NEW topic \in Topics(e), Command(e, topic)
      PROVE  TypeOK'
  <2> USE <1>3
  <2>0. e \in EnvelopeType /\ <<>> \in Seq(Effect)
    BY EnvelopeAssumption
  <2>1. CASE RefuseAdmission(e, topic)
    <3>1. AdmissionFault(e, topic) \in Reason
      BY <2>1 DEF RefuseAdmission, AdmissionFault, Reason
    <3>2. TypedAnswer
      BY <2>0, <2>1, <3>1, AnswerType DEF RefuseAdmission
    <3> QED BY <2>1, <3>2
            DEF TypedAnswer, RefuseAdmission, TypeOK, MarkCloudContact,
                NotApplied
  <2>2. CASE ApplyStop(e, topic)
    <3> DEFINE action == IF IsEstop(e, topic) THEN "E_STOP" ELSE "SAFE_STOP"
               sent == <<StateEvent(TRUE), CommandEvent(e, action),
                         LogEvent("LATCH_ENGAGED")>>
    <3>1. sent \in Seq(Effect)
      <4>1. action \in Action
        BY DEF Action, MODE1_ACTIONS
      <4> QED BY <4>1, EffectTypes, Tuples DEF LogType
    <3>2. Answer(e, sent, "ACK")
      BY <2>2 DEF ApplyStop
    <3> HIDE DEF sent
    <3>3. TypedAnswer
      BY <2>0, <2>2, <3>1, <3>2, AnswerType DEF ApplyStop, Reason
    <3> QED BY <2>0, <2>2, <3>3
            DEF TypedAnswer, ApplyStop, TypeOK, MarkCloudContact, Apply,
            Reason,
                EngageLatch, RaiseToken, EnvelopeType
  <2>3. CASE RefuseMode(e, topic)
    <3>1. TypedAnswer
      BY <2>0, <2>3, AnswerType DEF RefuseMode, Reason
    <3> QED BY <2>0, <2>3, <3>1
            DEF TypedAnswer, RefuseMode, TypeOK, MarkCloudContact,
                NotApplied, RaiseToken, EnvelopeType
  <2>4. CASE RefuseLatched(e, topic)
    <3>1. TypedAnswer
      BY <2>0, <2>4, AnswerType DEF RefuseLatched, Reason
    <3> QED BY <2>0, <2>4, <3>1
            DEF TypedAnswer, RefuseLatched, AtLatchGate, TypeOK,
                MarkCloudContact, NotApplied, RaiseToken, EnvelopeType
  <2>5. CASE ClearSafeStop(e, topic)
    <3> DEFINE sent == <<StateEvent(FALSE), CommandEvent(e, "CLEAR_SAFE_STOP"),
                         LogEvent("LATCH_RELEASED")>>
    <3>1. sent \in Seq(Effect)
      BY EffectTypes, Tuples DEF LogType, Action, MODE1_ACTIONS
    <3>2. Answer(e, sent, "ACK")
      BY <2>5 DEF ClearSafeStop
    <3> HIDE DEF sent
    <3>3. TypedAnswer
      BY <2>0, <2>5, <3>1, <3>2, AnswerType DEF ClearSafeStop, Reason
    <3>4. /\ applied' \subseteq CommandId /\ reapplied' \subseteq CommandId
          /\ lastApplied' \in Nat
      BY <2>0, <2>5 DEF ClearSafeStop, Apply, TypeOK, EnvelopeType
    <3>5. /\ latched' \in BOOLEAN /\ releasedAt' \in Nat
          /\ newestToken' \in Nat
          /\ lastContact' \in Nat /\ armed' \in BOOLEAN
      BY <2>0, <2>5
         DEF ClearSafeStop, AtLatchGate, MarkCloudContact, ReleaseLatch,
             RaiseToken, TypeOK, EnvelopeType
    <3>6. UNCHANGED mainFrame
      BY <2>5 DEF ClearSafeStop
    <3> QED BY <3>3, <3>4, <3>5, <3>6 DEF TypedAnswer, TypeOK
  <2>6. CASE ClearNoop(e, topic)
    <3>1. TypedAnswer
      BY <2>0, <2>6, AnswerType DEF ClearNoop, Reason
    <3> QED BY <2>0, <2>6, <3>1
            DEF TypedAnswer, ClearNoop, AtLatchGate, TypeOK,
                MarkCloudContact, NotApplied, RaiseToken, EnvelopeType
  <2>7. CASE PassLatchGate(e, topic)
    BY <2>0, <2>7
       DEF PassLatchGate, AtLatchGate, TypeOK, MarkCloudContact, NotApplied,
           RaiseToken, EnvelopeType
  <2> QED BY <2>1, <2>2, <2>3, <2>4, <2>5, <2>6, <2>7 DEF Command
<1>4. CASE Gates
  <2>0. (stage # "idle" => cmd \in Envelope /\ cmd \in EnvelopeType)
        /\ <<>> \in Seq(Effect)
    BY EnvelopeAssumption DEF TypeOK
  <2>1. CASE GeofenceStop
    <3> DEFINE sent == <<StateEvent(TRUE), LogEvent("LATCH_ENGAGED")>>
    <3>1. sent \in Seq(Effect)
      BY EffectTypes, Tuples DEF LogType
    <3>2. Answer(cmd, sent, "GEOFENCE_VIOLATION")
      BY <2>1 DEF GeofenceStop
    <3> HIDE DEF sent
    <3>3. TypedAnswer
      BY <2>0, <2>1, <3>1, <3>2, AnswerType DEF GeofenceStop, Reason
    <3> QED BY <2>0, <2>1, <3>3
            DEF TypedAnswer, GeofenceStop, TypeOK, NotApplied, Reason,
            EngageLatch
  <2>2. CASE RefuseZone
    <3>1. TypedAnswer
      BY <2>0, <2>2, AnswerType DEF RefuseZone, Reason
    <3> QED BY <2>0, <2>2, <3>1
            DEF TypedAnswer, RefuseZone, TypeOK, NotApplied
  <2>3. CASE PassZoneGate
    BY <2>0, <2>3
       DEF PassZoneGate, TypeOK, NotApplied, Zone, EffectiveZone,
           CurrentZoneType, ZoneState, ZoneType
  <2>4. CASE RefuseFinal
    <3>1. FinalFault(cmd) \in Reason
      BY <2>4 DEF RefuseFinal, FinalFault, Reason
    <3>2. TypedAnswer
      BY <2>0, <2>4, <3>1, AnswerType DEF RefuseFinal
    <3> QED BY <2>4, <3>2 DEF TypedAnswer, RefuseFinal, TypeOK, NotApplied
  <2>5. CASE AcceptCommand
    <3> DEFINE sent == <<CommandEvent(cmd, cmd.action)>>
    <3>1. sent \in Seq(Effect)
      BY <2>0, <2>5, EffectTypes, Tuples DEF AcceptCommand, EnvelopeType
    <3>2. Answer(cmd, sent, "ACK")
      BY <2>5 DEF AcceptCommand
    <3> HIDE DEF sent
    <3>3. TypedAnswer
      BY <2>0, <2>5, <3>1, <3>2, AnswerType DEF AcceptCommand, Reason
    <3> QED BY <2>0, <2>5, <3>3
            DEF TypedAnswer, AcceptCommand, TypeOK, Apply, Reason, EnvelopeType
  <2> QED BY <1>4, <2>1, <2>2, <2>3, <2>4, <2>5 DEF Gates
<1>5. ASSUME NEW ts \in PingTime, DeadmanPing(ts) PROVE TypeOK'
  BY <1>5, ConfigAssumption DEF DeadmanPing, TypeOK, MarkCloudContact
<1>6. CASE LogSyncAck
  BY <1>6 DEF LogSyncAck, TypeOK, MarkCloudContact
<1>7. ASSUME NEW doc \in ZoneDoc, ZoneConfig(doc) PROVE TypeOK'
  <2>1. outbox' \in [Task -> Seq(Effect)] /\ zoneState' \in ZoneState
    <3>1. <<LogEvent("ZONE_CONFIG_APPLIED")>>
            \o (IF IS_AWS THEN <<ShadowReport>> ELSE <<>>) \in Seq(Effect)
      <4>1. <<LogEvent("ZONE_CONFIG_APPLIED")>> \in Seq(Effect)
            /\ <<ShadowReport>> \in Seq(Effect) /\ <<>> \in Seq(Effect)
        BY EffectTypes, Tuples DEF LogType
      <4> QED BY <4>1
    <3> QED BY <1>7, <3>1, ConfigAssumption DEF ZoneConfig, TypeOK, Task
  <2> QED BY <1>7, <2>1 DEF ZoneConfig, TypeOK, MarkCloudContact
<1>0. <<StateEvent(TRUE), LogEvent("LATCH_ENGAGED")>> \in Seq(Effect)
  BY EffectTypes, Tuples DEF LogType
<1>8. ASSUME NEW t \in Task, LatchFrom(t) \/ UNCHANGED <<latchVars, outbox>>
      PROVE  latched' \in BOOLEAN /\ releasedAt' \in Nat
             /\ outbox' \in [Task -> Seq(Effect)]
  BY <1>0, <1>8 DEF LatchFrom, EngageLatch, TypeOK
<1>9. CASE WatchdogTick
  BY SMTT(30), <1>8, <1>9 DEF WatchdogTick, TypeOK, Task
<1>10. CASE PoseWatchdogTick
  BY <1>8, <1>10 DEF PoseWatchdogTick, TypeOK, Task
<1>11. CASE TelemetryRead
  BY <1>11 DEF TelemetryRead, TypeOK, LatchWord
<1>12. CASE TelemetryStep
  <2>1. outbox' \in [Task -> Seq(Effect)] /\ latched' \in BOOLEAN
        /\ releasedAt' \in Nat
    <3>1. <<StateEvent(TRUE), LogEvent("LATCH_ENGAGED"), TelemetryMsg>>
             \in Seq(Effect) /\ <<TelemetryMsg>> \in Seq(Effect)
      BY EffectTypes, Tuples DEF LogType
    <3> QED BY <1>12, <3>1 DEF TelemetryStep, EngageLatch, TypeOK, Task
  <2>2. moving' \in BOOLEAN
    BY <1>12 DEF TelemetryStep, TypeOK
  <2> QED BY <1>12, <2>1, <2>2 DEF TelemetryStep, TypeOK
<1>13. CASE HeartbeatTick
  <2>1. outbox' \in [Task -> Seq(Effect)]
    BY <1>13, EffectTypes DEF HeartbeatTick, TypeOK, Task
  <2> QED BY <1>13, <2>1 DEF HeartbeatTick, TypeOK
<1>14. ASSUME NEW t \in Task, Emit(t) PROVE TypeOK'
  <2> DEFINE f == Head(outbox[t])
  <2>1. outbox[t] \in Seq(Effect) /\ outbox[t] # <<>>
    BY <1>14 DEF Emit, TypeOK
  <2>2. f \in Effect /\ Tail(outbox[t]) \in Seq(Effect)
    BY <2>1
  <2>3. outbox' \in [Task -> Seq(Effect)]
    BY <1>14, <2>2 DEF Emit, TypeOK
  <2>4. chan' \in Seq(Effect)
    BY <1>14, <2>2, ConfigAssumption DEF Emit, Push, TypeOK
  <2>5. /\ latchLog' \in {"none", "LATCH_ENGAGED", "LATCH_RELEASED"}
        /\ reported' \in {"none", "latched", "clear"}
    BY <1>14, <2>2 DEF Emit, TypeOK, Effect, LogType
  <2>6. replies' \in [CommandId -> SUBSET Reason]
    BY <1>14, <2>2 DEF Emit, TypeOK, Effect
  <2>7. requests' \in 0..REQUEST_CAP
    BY <1>14, ConfigAssumption DEF Emit, TypeOK
  <2> QED BY <1>14, <2>3, <2>4, <2>5, <2>6, <2>7 DEF Emit, TypeOK
<1>15. CASE Tick
  BY <1>15 DEF Tick, TypeOK
<1>16. CASE AcceptBridge
  <2>1. chan' \in Seq(Effect)
    BY <1>16, EffectTypes DEF AcceptBridge, TypeOK
  <2> QED BY <1>16, <2>1 DEF AcceptBridge, TypeOK
<1>17. CASE LoseBridge
  <2>1. chan' \in Seq(Effect)
    BY <1>17, Tuples DEF LoseBridge
  <2>2. /\ bridgeUp' \in BOOLEAN
        /\ UNCHANGED <<now, latchVars, ingestVars, lastDeadman, zoneState,
                       contactVars, poseVars, taskVars, outbox, requests,
                       latchLog, reported, replies>>
    BY <1>17 DEF LoseBridge
  <2> QED BY <2>1, <2>2 DEF TypeOK
<1>18. CASE Forward
  BY <1>18 DEF Forward, TypeOK
<1>19. ASSUME NEW p \in PoseSample, PoseFeed(p) PROVE TypeOK'
  BY <1>19, ConfigAssumption DEF PoseFeed, TypeOK
<1>20. CASE UNCHANGED vars
  BY <1>20 DEF vars, TypeOK
<1>21. CASE Poll \/ OtherRequest
  <2>1. requests' \in 0..REQUEST_CAP
    BY <1>21, ConfigAssumption DEF Poll, OtherRequest, TypeOK
  <2>2. UNCHANGED <<now, latchVars, ingestVars, lastDeadman, zoneState,
                    contactVars, poseVars, taskVars, outbox, bridgeUp, chan,
                    latchLog, reported, replies>>
    BY <1>21 DEF Poll, OtherRequest
  <2> QED BY <2>1, <2>2 DEF TypeOK
<1> QED BY <1>1, <1>2, <1>3, <1>4, <1>5, <1>6, <1>7, <1>9, <1>10, <1>11,
           <1>12, <1>13, <1>14, <1>15, <1>16, <1>17, <1>18, <1>19, <1>20,
           <1>21
        DEF Next, KernelNext

\* The initial state is well-formed, whatever zone the vehicle starts in.
LEMMA TypeInit == Init => TypeOK
<1> SUFFICES ASSUME Init PROVE TypeOK
  OBVIOUS
<1>1. zoneState \in ZoneState
  BY ConfigAssumption DEF Init, ZoneState
<1>2. /\ order \in Seq(CommandId) /\ chan \in Seq(Effect)
      /\ outbox \in [Task -> Seq(Effect)]
  BY Tuples DEF Init
<1>3. /\ acks \in [CommandId -> Reason \cup {"none"}]
      /\ replies \in [CommandId -> SUBSET Reason]
      /\ zoneSeen \in ZoneType
  BY DEF Init, ZoneType
<1>4. requests \in 0..REQUEST_CAP
  BY ConfigAssumption DEF Init
<1> QED BY <1>1, <1>2, <1>3, <1>4 DEF Init, TypeOK

(***************************************************************************)
(* The kernel's state is well-formed in every reachable state: no handler  *)
(* leaves a command in hand when it is idle, and only effects the tasks    *)
(* can send are ever queued.                                               *)
(***************************************************************************)
THEOREM TypeCorrect == Spec => []TypeOK
  BY TypeInit, TypeStep, PTL DEF Spec

-----------------------------------------------------------------------------
(* The latch: refinement of SafeStopLatch, and the watchdogs' bounds. *)

\* With both watchdogs running, every step of the kernel is a step of the
\* latch or leaves the latch's variables alone.
LEMMA LatchRefinementStep ==
    ASSUME {"watchdog", "pose"} \subseteq Running
    PROVE  [Next]_vars => [Latch!Next]_(Latch!lvars)
<1> SUFFICES ASSUME [Next]_vars PROVE [Latch!Next]_(Latch!lvars)
  OBVIOUS
<1> USE DEF ingestVars, contactVars, poseVars, sinkVars, latchVars, teleVars,
            taskVars, mainFrame, gateFrame,
            Latch!latch, Latch!cloud, Latch!pose, Latch!lvars
<1>1. ASSUME NEW e \in Envelope, RejectUnverified(e)
      PROVE  UNCHANGED Latch!lvars
  BY <1>1 DEF RejectUnverified
<1>2. ASSUME NEW e \in Envelope, ReplayDuplicate(e) PROVE Latch!Hear
  BY <1>2 DEF ReplayDuplicate, MarkCloudContact, Latch!Hear, Latch!Contact
<1>3. ASSUME NEW e \in Envelope, NEW topic \in Topics(e), Command(e, topic)
      PROVE  Latch!Hear
  <2> USE <1>3 DEF MarkCloudContact, AtLatchGate, Latch!Hear, Latch!Contact
  <2>1. CASE RefuseAdmission(e, topic)
    BY <2>1 DEF RefuseAdmission
  <2>2. CASE ApplyStop(e, topic)
    BY <2>2 DEF ApplyStop, EngageLatch
  <2>3. CASE RefuseMode(e, topic)
    BY <2>3 DEF RefuseMode
  <2>4. CASE RefuseLatched(e, topic)
    BY <2>4 DEF RefuseLatched
  <2>5. CASE ClearSafeStop(e, topic)
    BY <2>5 DEF ClearSafeStop, ReleaseLatch
  <2>6. CASE ClearNoop(e, topic)
    BY <2>6 DEF ClearNoop
  <2>7. CASE PassLatchGate(e, topic)
    BY <2>7 DEF PassLatchGate
  <2> QED BY <2>1, <2>2, <2>3, <2>4, <2>5, <2>6, <2>7 DEF Command
<1>4. ASSUME Gates PROVE Latch!Stop \/ UNCHANGED Latch!lvars
  <2>1. CASE GeofenceStop
    BY <2>1 DEF GeofenceStop, EngageLatch, Latch!Stop
  <2>2. CASE RefuseZone
    BY <2>2 DEF RefuseZone
  <2>3. CASE PassZoneGate
    BY <2>3 DEF PassZoneGate
  <2>4. CASE RefuseFinal
    BY <2>4 DEF RefuseFinal
  <2>5. CASE AcceptCommand
    BY <2>5 DEF AcceptCommand
  <2> QED BY <1>4, <2>1, <2>2, <2>3, <2>4, <2>5 DEF Gates
<1>5. ASSUME NEW ts \in PingTime, DeadmanPing(ts) PROVE Latch!Hear
  BY <1>5 DEF DeadmanPing, MarkCloudContact, Latch!Hear, Latch!Contact
<1>6. ASSUME LogSyncAck PROVE Latch!Hear
  BY <1>6 DEF LogSyncAck, MarkCloudContact, Latch!Hear, Latch!Contact
<1>7. ASSUME NEW doc \in ZoneDoc, ZoneConfig(doc) PROVE Latch!Hear
  BY <1>7 DEF ZoneConfig, MarkCloudContact, Latch!Hear, Latch!Contact
<1>8. ASSUME WatchdogTick PROVE Latch!CloudWatchdog \/ UNCHANGED Latch!lvars
  BY <1>8 DEF WatchdogTick, CloudSilent, LatchFrom, EngageLatch,
              Latch!CloudWatchdog
<1>9. ASSUME PoseWatchdogTick
      PROVE  Latch!PoseWatchdog \/ UNCHANGED Latch!lvars
  BY <1>9 DEF PoseWatchdogTick, PoseSilent, LatchFrom, EngageLatch,
              Latch!PoseWatchdog
<1>10. ASSUME TelemetryRead PROVE UNCHANGED Latch!lvars
  BY <1>10 DEF TelemetryRead
<1>11. ASSUME TelemetryStep PROVE Latch!Stop \/ UNCHANGED Latch!lvars
  BY <1>11 DEF TelemetryStep, EngageLatch, Latch!Stop
<1>12. ASSUME HeartbeatTick PROVE UNCHANGED Latch!lvars
  BY <1>12 DEF HeartbeatTick
<1>13. ASSUME NEW t \in Task, Emit(t) PROVE UNCHANGED Latch!lvars
  BY <1>13 DEF Emit
<1>14. ASSUME Tick PROVE Latch!Advance
  BY <1>14 DEF Tick, Latch!Advance
<1>15. ASSUME AcceptBridge \/ LoseBridge \/ Forward \/ Poll \/ OtherRequest
       PROVE  UNCHANGED Latch!lvars
  BY <1>15 DEF AcceptBridge, LoseBridge, Forward, Poll, OtherRequest
<1>16. ASSUME NEW p \in PoseSample, PoseFeed(p) PROVE Latch!Pose
  BY <1>16 DEF PoseFeed, Latch!Pose
<1>17. CASE UNCHANGED vars
  BY <1>17 DEF vars
<1> QED BY <1>1, <1>2, <1>3, <1>4, <1>5, <1>6, <1>7, <1>8, <1>9, <1>10, <1>11,
           <1>12, <1>13, <1>14, <1>15, <1>16, <1>17
        DEF Next, KernelNext, Latch!Next

(***************************************************************************)
(* The kernel implements the latch contract: five tasks, a command ingest  *)
(* in three steps and an actuation channel add nothing that could engage   *)
(* or release the latch outside the contract.                              *)
(***************************************************************************)
THEOREM KernelImplementsLatch ==
    ASSUME {"watchdog", "pose"} \subseteq Running
    PROVE  Spec => ImplementsLatch
<1>1. Init => Latch!Init
  BY DEF Init, Latch!Init
<1> QED BY <1>1, LatchRefinementStep, PTL DEF Spec, ImplementsLatch, Latch!Spec

\* LatchInv holds initially.
LEMMA LatchInit ==
    ASSUME SILENCE \in Nat, PERIOD \in Nat
    PROVE  Latch!Init => Latch!LatchInv
<1> SUFFICES ASSUME Latch!Init PROVE Latch!LatchInv
  OBVIOUS
<1>1. Latch!LatchTypeOK
  BY DEF Latch!Init, Latch!LatchTypeOK
<1>2. Latch!PastOnly
  BY DEF Latch!Init, Latch!PastOnly
<1>3. Latch!CloudSeen /\ Latch!PoseSeen
  BY DEF Latch!Init, Latch!CloudSeen, Latch!PoseSeen
<1> QED BY <1>1, <1>2, <1>3 DEF Latch!LatchInv

\* Every step of the latch keeps LatchInv.
LEMMA LatchStep ==
    ASSUME SILENCE \in Nat, PERIOD \in Nat
    PROVE  Latch!LatchInv /\ [Latch!Next]_(Latch!lvars) => Latch!LatchInv'
<1> SUFFICES ASSUME Latch!LatchInv, [Latch!Next]_(Latch!lvars) PROVE Latch!LatchInv'
  OBVIOUS
<1> USE DEF Latch!latch, Latch!cloud, Latch!pose
<1>1. CASE Latch!Hear
  <2>1. Latch!LatchTypeOK'
    BY <1>1 DEF Latch!Hear, Latch!Contact, Latch!LatchInv, Latch!LatchTypeOK
  <2>2. Latch!PastOnly'
    BY <1>1 DEF Latch!Hear, Latch!Contact, Latch!LatchInv, Latch!LatchTypeOK,
       Latch!PastOnly
  <2>3. Latch!CloudSeen'
    BY <1>1 DEF Latch!Hear, Latch!Contact, Latch!LatchInv, Latch!LatchTypeOK,
       Latch!PastOnly, Latch!CloudSeen
  <2>4. Latch!PoseSeen'
    BY <1>1 DEF Latch!Hear, Latch!Contact, Latch!LatchInv, Latch!LatchTypeOK,
       Latch!PastOnly, Latch!PoseSeen
  <2> QED BY <2>1, <2>2, <2>3, <2>4 DEF Latch!LatchInv
<1>2. CASE Latch!Stop
  BY <1>2 DEF Latch!Stop, Latch!LatchInv, Latch!LatchTypeOK, Latch!PastOnly,
     Latch!CloudSeen, Latch!PoseSeen
<1>3. CASE Latch!CloudWatchdog
  <2>1. Latch!LatchTypeOK'
    BY <1>3 DEF Latch!CloudWatchdog, Latch!LatchInv, Latch!LatchTypeOK
  <2>2. Latch!PastOnly'
    BY <1>3 DEF Latch!CloudWatchdog, Latch!LatchInv, Latch!LatchTypeOK,
       Latch!PastOnly
  <2>3. Latch!CloudSeen'
    BY <1>3 DEF Latch!CloudWatchdog, Latch!CloudSeen
  <2>4. Latch!PoseSeen'
    BY <1>3 DEF Latch!CloudWatchdog, Latch!LatchInv, Latch!PoseSeen
  <2> QED BY <2>1, <2>2, <2>3, <2>4 DEF Latch!LatchInv
<1>4. CASE Latch!PoseWatchdog
  <2>1. Latch!LatchTypeOK'
    BY <1>4 DEF Latch!PoseWatchdog, Latch!LatchInv, Latch!LatchTypeOK
  <2>2. Latch!PastOnly'
    BY <1>4 DEF Latch!PoseWatchdog, Latch!LatchInv, Latch!LatchTypeOK,
       Latch!PastOnly
  <2>3. Latch!CloudSeen'
    BY <1>4 DEF Latch!PoseWatchdog, Latch!LatchInv, Latch!CloudSeen
  <2>4. Latch!PoseSeen'
    BY <1>4 DEF Latch!PoseWatchdog, Latch!PoseSeen
  <2> QED BY <2>1, <2>2, <2>3, <2>4 DEF Latch!LatchInv
<1>5. CASE Latch!Pose
  <2>1. Latch!LatchTypeOK' /\ Latch!PastOnly'
    BY <1>5 DEF Latch!Pose, Latch!LatchInv, Latch!LatchTypeOK, Latch!PastOnly
  <2>2. Latch!CloudSeen'
    BY <1>5 DEF Latch!Pose, Latch!LatchInv, Latch!CloudSeen
  <2>3. Latch!PoseSeen'
    BY <1>5 DEF Latch!Pose, Latch!LatchInv, Latch!LatchTypeOK, Latch!PastOnly,
       Latch!PoseSeen
  <2> QED BY <2>1, <2>2, <2>3 DEF Latch!LatchInv
<1>6. CASE Latch!Advance
  <2>1. Latch!LatchTypeOK' /\ Latch!PastOnly'
    BY <1>6 DEF Latch!Advance, Latch!LatchInv, Latch!LatchTypeOK,
       Latch!PastOnly
  <2>2. Latch!CloudSeen' /\ Latch!PoseSeen'
    BY <1>6 DEF Latch!Advance, Latch!LatchInv, Latch!CloudSeen, Latch!PoseSeen
  <2> QED BY <2>1, <2>2 DEF Latch!LatchInv
<1>7. CASE UNCHANGED Latch!lvars
  BY <1>7 DEF Latch!lvars, Latch!LatchInv, Latch!LatchTypeOK, Latch!PastOnly,
     Latch!CloudSeen, Latch!PoseSeen
<1> QED BY <1>1, <1>2, <1>3, <1>4, <1>5, <1>6, <1>7 DEF Latch!Next

\* The invariant gives both bounds.
LEMMA LatchBounds ==
    ASSUME SILENCE \in Nat, PERIOD \in Nat
    PROVE  Latch!LatchInv => Latch!SilenceBound /\ Latch!PoseBound
  BY DEF Latch!LatchInv, Latch!LatchTypeOK, Latch!PastOnly, Latch!CloudSeen,
     Latch!PoseSeen,
         Latch!SilenceBound, Latch!PoseBound

(***************************************************************************)
(* A latch driven by two punctual watchdogs is engaged PERIOD after either *)
(* feed has been silent for SILENCE (main.rs, the two watchdog tasks).     *)
(***************************************************************************)
THEOREM WatchdogBounds ==
    ASSUME SILENCE \in Nat, PERIOD \in Nat
    PROVE  Latch!Spec => [](Latch!SilenceBound /\ Latch!PoseBound)
  BY LatchInit, LatchStep, LatchBounds, PTL DEF Latch!Spec

(***************************************************************************)
(* RES-01 and the pose watchdog, for every instance: silence of the cloud  *)
(* or of the pose feed is followed by the latch within one period.         *)
(***************************************************************************)
THEOREM WatchdogSafety ==
    ASSUME {"watchdog", "pose"} \subseteq Running
    PROVE  Spec => [](SilenceLatches /\ PoseSilenceLatches)
<1>1. SILENCE \in Nat /\ PERIOD \in Nat
  BY ConfigAssumption
<1>2. Latch!Spec => [](Latch!SilenceBound /\ Latch!PoseBound)
  BY <1>1, WatchdogBounds
<1>3. Latch!SilenceBound /\ Latch!PoseBound
        <=> SilenceLatches /\ PoseSilenceLatches
  BY DEF Latch!SilenceBound, Latch!PoseBound, SilenceLatches,
         PoseSilenceLatches
<1> QED BY <1>2, <1>3, KernelImplementsLatch, PTL DEF ImplementsLatch

-----------------------------------------------------------------------------
(* Ingest: fencing order, idempotency and the release of the latch. *)

ingestState == <<newestToken, acks, order, stage, cmd, evicted, applied, reapplied,
                 lastApplied>>

\* Steps outside command handling leave the ingest's state alone.
LEMMA IngestFrame ==
    ASSUME [Next]_vars,
           ~ \E e \in Envelope : \E topic \in Topics(e) : Command(e, topic),
           ~ Gates
    PROVE  UNCHANGED ingestState /\ (latched => latched')
<1> USE DEF ingestVars, contactVars, poseVars, sinkVars, latchVars, teleVars,
            taskVars, mainFrame, gateFrame, ingestState
<1>1. ASSUME NEW e \in Envelope, RejectUnverified(e) \/ ReplayDuplicate(e)
      PROVE  UNCHANGED ingestState /\ UNCHANGED latched
  BY <1>1 DEF RejectUnverified, ReplayDuplicate
<1>2. ASSUME NEW ts \in PingTime, DeadmanPing(ts)
      PROVE  UNCHANGED ingestState /\ UNCHANGED latched
  BY <1>2 DEF DeadmanPing
<1>3. ASSUME NEW doc \in ZoneDoc, ZoneConfig(doc)
      PROVE  UNCHANGED ingestState /\ UNCHANGED latched
  BY <1>3 DEF ZoneConfig
<1>4. ASSUME WatchdogTick
      PROVE  UNCHANGED ingestState /\ (latched => latched')
  BY <1>4 DEF WatchdogTick, LatchFrom, EngageLatch
<1>5. ASSUME PoseWatchdogTick
      PROVE  UNCHANGED ingestState /\ (latched => latched')
  BY <1>5 DEF PoseWatchdogTick, LatchFrom, EngageLatch
<1>6. ASSUME TelemetryStep
      PROVE  UNCHANGED ingestState /\ (latched => latched')
  BY <1>6 DEF TelemetryStep, EngageLatch
<1>7. ASSUME LogSyncAck \/ TelemetryRead \/ HeartbeatTick \/ Tick
      PROVE  UNCHANGED ingestState /\ UNCHANGED latched
  BY <1>7 DEF LogSyncAck, TelemetryRead, HeartbeatTick, Tick
<1>8. ASSUME NEW t \in Task, Emit(t)
      PROVE  UNCHANGED ingestState /\ UNCHANGED latched
  BY <1>8 DEF Emit
<1>9. ASSUME AcceptBridge \/ LoseBridge \/ Forward \/ Poll \/ OtherRequest
      PROVE  UNCHANGED ingestState /\ UNCHANGED latched
  BY <1>9 DEF AcceptBridge, LoseBridge, Forward, Poll, OtherRequest
<1>10. ASSUME NEW p \in PoseSample, PoseFeed(p)
       PROVE  UNCHANGED ingestState /\ UNCHANGED latched
  BY <1>10 DEF PoseFeed
<1>11. ASSUME UNCHANGED vars
       PROVE  UNCHANGED ingestState /\ UNCHANGED latched
  BY <1>11 DEF vars
<1> QED BY <1>1, <1>2, <1>3, <1>4, <1>5, <1>6, <1>7, <1>8, <1>9, <1>10, <1>11
        DEF Next, KernelNext

\* After an answer the id is in the store or evicted, other ids are in the
\* store as before or evicted, and nothing leaves the evicted set.
LEMMA Remembered ==
    ASSUME TypeOK, NEW e \in Envelope, NEW why \in Reason, RememberAck(e, why)
    PROVE  /\ acks'[e.commandId] # "none" \/ e.commandId \in evicted'
           /\ \A i \in CommandId :
                acks[i] # "none" => acks'[i] # "none" \/ i \in evicted'
           /\ evicted \subseteq evicted'
<1>1. e.commandId \in CommandId
  BY EnvelopeAssumption DEF EnvelopeType
<1>2. why # "none"
  BY DEF Reason
<1> QED BY <1>1, <1>2 DEF RememberAck, TypeOK

\* An answer to a command, applied or not, keeps the ingest's invariant.
LEMMA AnswerKeepsIngestInv ==
    ASSUME TypeOK, IngestInv, NEW e \in Envelope, NEW why \in Reason,
           NEW effects, Answer(e, effects, why),
           (Apply(e) /\ newestToken' = e.issuedAt) \/ NotApplied,
           newestToken' \in Nat, newestToken <= newestToken',
           acks[e.commandId] = "none"
    PROVE  IngestInv'
<1> USE DEF IngestInv
<1>1. e.commandId \in CommandId /\ e.issuedAt \in Nat
  BY EnvelopeAssumption DEF EnvelopeType
<1>2. RememberAck(e, why) /\ stage' = "idle"
  BY DEF Answer
<1>3. (lastApplied <= newestToken)'
  BY <1>1 DEF Apply, NotApplied, TypeOK
<1>4. InHand'
  BY <1>2 DEF InHand
<1>5. StoredOrEvicted'
  BY <1>1, <1>2, Remembered DEF StoredOrEvicted, Apply, NotApplied, TypeOK
<1>6. ReplayOnlyAfterEviction'
  BY <1>1, <1>2, Remembered
     DEF ReplayOnlyAfterEviction, StoredOrEvicted, Apply, NotApplied
<1> QED BY <1>3, <1>4, <1>5, <1>6

\* A command that passed the admission gates is new and not behind its peers.
LEMMA AdmittedFacts ==
    ASSUME TypeOK, NEW e \in Envelope, NEW topic, Admitted(e, topic)
    PROVE  /\ newestToken <= e.issuedAt /\ acks[e.commandId] = "none"
           /\ e.verified /\ e.own /\ ~TtlExpired(e, topic)
<1>1. e.issuedAt \in Nat /\ newestToken \in Nat
  BY EnvelopeAssumption DEF EnvelopeType, TypeOK
<1>2. e.own /\ ~TtlExpired(e, topic) /\ ~StaleToken(e)
  BY DEF Admitted, AdmissionFault
<1> QED BY <1>1, <1>2 DEF Admitted, Known, StaleToken

\* Every step keeps the ingest's invariant.
LEMMA IngestStep == TypeOK /\ IngestInv /\ [Next]_vars => IngestInv'
<1> SUFFICES ASSUME TypeOK, IngestInv, [Next]_vars PROVE IngestInv'
  OBVIOUS
<1> USE DEF mainFrame, gateFrame
<1>1. ASSUME NEW e \in Envelope, NEW topic \in Topics(e), Command(e, topic)
      PROVE  IngestInv'
  <2> USE <1>1
  <2>0. e.issuedAt \in Nat /\ newestToken \in Nat
    BY EnvelopeAssumption DEF EnvelopeType, TypeOK
  <2>1. CASE RefuseAdmission(e, topic)
    <3>1. AdmissionFault(e, topic) \in Reason
      BY <2>1 DEF RefuseAdmission, AdmissionFault, Reason
    <3>2. /\ Answer(e, <<>>, AdmissionFault(e, topic)) /\ NotApplied
          /\ newestToken' = newestToken /\ acks[e.commandId] = "none"
      BY <2>1 DEF RefuseAdmission, Known
    <3> QED BY <2>0, <3>1, <3>2, AnswerKeepsIngestInv
  <2>2. ASSUME Admitted(e, topic), RaiseToken(e), NEW effects,
               NEW why \in Reason, Answer(e, effects, why),
               Apply(e) \/ NotApplied
        PROVE  IngestInv'
    <3>1. newestToken <= e.issuedAt /\ acks[e.commandId] = "none"
      BY <2>2, AdmittedFacts
    <3>2. newestToken' = e.issuedAt
      BY <2>2 DEF RaiseToken
    <3> QED BY <2>0, <2>2, <3>1, <3>2, AnswerKeepsIngestInv
  <2>3. CASE ApplyStop(e, topic)
    <3>1. "ACK" \in Reason
      BY DEF Reason
    <3> QED BY <2>2, <2>3, <3>1 DEF ApplyStop
  <2>4. CASE RefuseMode(e, topic)
    <3>1. "MODE_MISMATCH" \in Reason
      BY DEF Reason
    <3> QED BY <2>2, <2>4, <3>1 DEF RefuseMode
  <2>5. CASE RefuseLatched(e, topic)
    <3>1. "SAFE_STOP_LATCHED" \in Reason
      BY DEF Reason
    <3> QED BY <2>2, <2>5, <3>1 DEF RefuseLatched, AtLatchGate
  <2>6. CASE ClearSafeStop(e, topic)
    <3>1. "ACK" \in Reason
      BY DEF Reason
    <3> QED BY <2>2, <2>6, <3>1 DEF ClearSafeStop, AtLatchGate
  <2>7. CASE ClearNoop(e, topic)
    <3>1. "ACK" \in Reason
      BY DEF Reason
    <3> QED BY <2>2, <2>7, <3>1 DEF ClearNoop, AtLatchGate
  <2>8. CASE PassLatchGate(e, topic)
    <3>1. newestToken <= e.issuedAt /\ acks[e.commandId] = "none"
      BY <2>8, AdmittedFacts DEF PassLatchGate, AtLatchGate
    <3>2. /\ cmd' = e /\ newestToken' = e.issuedAt
          /\ UNCHANGED <<acks, evicted, applied, reapplied, lastApplied>>
      BY <2>8 DEF PassLatchGate, AtLatchGate, RaiseToken, NotApplied
    <3> QED BY <2>0, <3>1, <3>2
            DEF IngestInv, InHand, StoredOrEvicted, ReplayOnlyAfterEviction,
                TypeOK
  <2> QED BY <2>1, <2>3, <2>4, <2>5, <2>6, <2>7, <2>8 DEF Command
<1>2. CASE Gates
  <2>1. /\ cmd \in Envelope /\ cmd.issuedAt = newestToken
        /\ acks[cmd.commandId] = "none"
    BY <1>2 DEF Gates, GeofenceStop, RefuseZone, PassZoneGate, RefuseFinal,
                AcceptCommand, IngestInv, InHand, TypeOK
  <2>2. newestToken' = newestToken /\ newestToken \in Nat
    BY <1>2 DEF Gates, GeofenceStop, RefuseZone, PassZoneGate, RefuseFinal,
                AcceptCommand, TypeOK
  <2>3. ASSUME NEW effects, NEW why \in Reason, Answer(cmd, effects, why),
               Apply(cmd) \/ NotApplied
        PROVE  IngestInv'
    BY <2>1, <2>2, <2>3, AnswerKeepsIngestInv
  <2>4. CASE GeofenceStop
    <3>1. "GEOFENCE_VIOLATION" \in Reason
      BY DEF Reason
    <3> QED BY <2>3, <2>4, <3>1 DEF GeofenceStop
  <2>5. CASE RefuseZone
    <3>1. "MODE_MISMATCH" \in Reason
      BY DEF Reason
    <3> QED BY <2>3, <2>5, <3>1 DEF RefuseZone
  <2>6. CASE PassZoneGate
    <3>1. UNCHANGED <<cmd, acks, evicted, applied, reapplied, lastApplied>>
      BY <2>6 DEF PassZoneGate, NotApplied
    <3> QED BY <2>1, <2>2, <3>1
            DEF IngestInv, InHand, StoredOrEvicted, ReplayOnlyAfterEviction
  <2>7. CASE RefuseFinal
    <3>1. FinalFault(cmd) \in Reason
      BY <2>7 DEF RefuseFinal, FinalFault, Reason
    <3> QED BY <2>3, <2>7, <3>1 DEF RefuseFinal
  <2>8. CASE AcceptCommand
    <3>1. "ACK" \in Reason
      BY DEF Reason
    <3> QED BY <2>3, <2>8, <3>1 DEF AcceptCommand
  <2> QED BY <1>2, <2>4, <2>5, <2>6, <2>7, <2>8 DEF Gates
<1>3. CASE UNCHANGED ingestState
  BY <1>3 DEF ingestState, IngestInv, InHand, StoredOrEvicted,
              ReplayOnlyAfterEviction
<1> QED BY <1>1, <1>2, <1>3, IngestFrame

\* The ingest's invariant and the types, in every reachable state.
LEMMA IngestInvariant == Spec => [](TypeOK /\ IngestInv)
<1>1. Init => IngestInv
  BY DEF Init, IngestInv, InHand, StoredOrEvicted, ReplayOnlyAfterEviction
<1> QED BY <1>1, IngestStep, TypeInit, TypeStep, PTL DEF Spec

(***************************************************************************)
(* Idempotency for any number of commands, any redelivery and any size of  *)
(* the store: a command takes effect twice only after its eviction.        *)
(***************************************************************************)
THEOREM Idempotent == Spec => []ReplayOnlyAfterEviction
<1>1. IngestInv => ReplayOnlyAfterEviction
  BY DEF IngestInv
<1> QED BY <1>1, IngestInvariant, PTL

\* An answer keeps the two halves of the store in step.
LEMMA StoreKept ==
    ASSUME TypeOK, StoreConsistent, NEW e \in Envelope, NEW why \in Reason,
           RememberAck(e, why)
    PROVE  StoreConsistent'
<1> DEFINE id == e.commandId
           queue == IF acks[id] # "none" THEN order ELSE Append(order, id)
           full == Len(queue) > DEDUP_CAP
<1>1. id \in CommandId /\ why # "none" /\ DEDUP_CAP \in Nat \ {0}
  BY EnvelopeAssumption, ConfigAssumption DEF EnvelopeType, Reason
<1>2. order \in Seq(CommandId) /\ acks \in [CommandId -> Reason \cup {"none"}]
  BY DEF TypeOK
<1>3. /\ queue \in Seq(CommandId) /\ Len(queue) <= DEDUP_CAP + 1
      /\ \A i, j \in 1..Len(queue) : queue[i] = queue[j] => i = j
      /\ \A c \in CommandId :
           (\E i \in 1..Len(queue) : queue[i] = c) <=> c = id \/ acks[c] # "none"
  <2>1. CASE acks[id] # "none"
    BY <1>1, <1>2, <2>1 DEF StoreConsistent
  <2>2. CASE acks[id] = "none"
    <3>1. /\ queue = Append(order, id) /\ Len(queue) = Len(order) + 1
          /\ queue[Len(queue)] = id
          /\ \A i \in 1..Len(order) : queue[i] = order[i] /\ order[i] # id
      BY <1>1, <1>2, <2>2 DEF StoreConsistent
    <3> QED BY <1>1, <1>2, <2>2, <3>1 DEF StoreConsistent
  <2> QED BY <2>1, <2>2
<1>4. /\ order' = IF full THEN Tail(queue) ELSE queue
      /\ acks' = [i \in CommandId |->
                    IF full /\ i = Head(queue) THEN "none"
                    ELSE IF i = id THEN why ELSE acks[i]]
  BY DEF RememberAck
<1> HIDE DEF queue
<1>5. CASE ~full
  BY <1>1, <1>3, <1>4, <1>5 DEF StoreConsistent
<1>6. CASE full
  <2>1. /\ Len(queue) = DEDUP_CAP + 1 /\ Head(queue) = queue[1]
        /\ order' = Tail(queue) /\ Len(order') = Len(queue) - 1
        /\ \A i \in 1..Len(order') : order'[i] = queue[i + 1]
    BY <1>1, <1>3, <1>4, <1>6
  <2>2. \A i, j \in 1..Len(order') : order'[i] = order'[j] => i = j
    BY <1>1, <1>3, <2>1
  <2>3. ASSUME NEW c \in CommandId
        PROVE  (\E i \in 1..Len(order') : order'[i] = c)
                 <=> c # queue[1] /\ (c = id \/ acks[c] # "none")
    <3>1. (\E i \in 1..Len(order') : order'[i] = c)
            <=> \E i \in 2..Len(queue) : queue[i] = c
      <4>1. ASSUME NEW i \in 2..Len(queue), queue[i] = c
            PROVE  i - 1 \in 1..Len(order') /\ order'[i - 1] = c
        BY <1>1, <2>1, <4>1
      <4> QED BY <1>1, <2>1, <4>1
    <3>2. (\E i \in 2..Len(queue) : queue[i] = c)
            <=> c # queue[1] /\ \E i \in 1..Len(queue) : queue[i] = c
      BY <1>1, <1>3, <2>1
    <3> QED BY <1>3, <3>1, <3>2
  <2>4. \A c \in CommandId :
          acks'[c] # "none" <=> c # queue[1] /\ (c = id \/ acks[c] # "none")
    BY <1>1, <1>4, <1>6, <2>1
  <2> QED BY <1>1, <2>1, <2>2, <2>3, <2>4 DEF StoreConsistent
<1> QED BY <1>5, <1>6

\* A command step answers one command or leaves the store alone.
LEMMA OneAnswer ==
    ASSUME TypeOK,
           Gates \/ \E e \in Envelope : \E topic \in Topics(e) : Command(e, topic)
    PROVE  \/ \E e \in Envelope, why \in Reason : RememberAck(e, why)
           \/ UNCHANGED <<acks, order>>
<1>1. ASSUME NEW e \in Envelope, NEW topic \in Topics(e), Command(e, topic)
      PROVE  (\E why \in Reason : RememberAck(e, why))
               \/ UNCHANGED <<acks, order>>
  <2>1. CASE RefuseAdmission(e, topic)
    BY <2>1 DEF RefuseAdmission, AdmissionFault, Reason, Answer
  <2>2. CASE PassLatchGate(e, topic)
    BY <2>2 DEF PassLatchGate
  <2>3. ASSUME NEW why \in {"ACK", "MODE_MISMATCH", "SAFE_STOP_LATCHED"},
               NEW effects, Answer(e, effects, why)
        PROVE  \E w \in Reason : RememberAck(e, w)
    BY <2>3 DEF Answer, Reason
  <2> QED BY <1>1, <2>1, <2>2, <2>3
          DEF Command, ApplyStop, RefuseMode, RefuseLatched, ClearSafeStop,
              ClearNoop
<1>2. ASSUME Gates
      PROVE  (cmd \in Envelope /\ \E why \in Reason : RememberAck(cmd, why))
               \/ UNCHANGED <<acks, order>>
  <2>1. cmd \in Envelope
    BY <1>2 DEF Gates, GeofenceStop, RefuseZone, PassZoneGate, RefuseFinal,
                AcceptCommand, TypeOK
  <2>2. CASE PassZoneGate
    BY <2>2 DEF PassZoneGate
  <2>3. CASE RefuseFinal
    BY <2>1, <2>3 DEF RefuseFinal, FinalFault, Reason, Answer
  <2>4. ASSUME NEW why \in {"ACK", "MODE_MISMATCH", "GEOFENCE_VIOLATION"},
               NEW effects, Answer(cmd, effects, why)
        PROVE  \E w \in Reason : RememberAck(cmd, w)
    BY <2>4 DEF Answer, Reason
  <2> QED BY <1>2, <2>1, <2>2, <2>3, <2>4
          DEF Gates, GeofenceStop, RefuseZone, AcceptCommand
<1> QED BY <1>1, <1>2

(***************************************************************************)
(* For every capacity and any mix of commands: the map and the queue of    *)
(* the command-id store never drift apart, so the store is bounded and     *)
(* what it evicts is what it forgets.                                      *)
(***************************************************************************)
THEOREM StoreStaysConsistent == Spec => []StoreConsistent
<1>1. Init => StoreConsistent
  BY ConfigAssumption DEF Init, StoreConsistent
<1>2. TypeOK /\ StoreConsistent /\ [Next]_vars => StoreConsistent'
  <2> SUFFICES ASSUME TypeOK, StoreConsistent, [Next]_vars
               PROVE  StoreConsistent'
    OBVIOUS
  <2>1. CASE UNCHANGED <<acks, order>>
    BY <2>1 DEF StoreConsistent
  <2>2. CASE Gates \/ \E e \in Envelope : \E topic \in Topics(e) :
                         Command(e, topic)
    BY <2>1, <2>2, OneAnswer, StoreKept
  <2> QED BY <2>1, <2>2, IngestFrame DEF ingestState
<1> QED BY <1>1, <1>2, TypeCorrect, PTL DEF Spec

\* A step that applies a command applies one at least as new as the last.
LEMMA FencingStep ==
    ASSUME TypeOK, IngestInv, [Next]_vars
    PROVE  lastApplied' >= lastApplied
<1>0. lastApplied \in Nat /\ newestToken \in Nat /\ lastApplied <= newestToken
  BY DEF TypeOK, IngestInv
<1>1. ASSUME NEW e \in Envelope, NEW topic \in Topics(e), Command(e, topic)
      PROVE  lastApplied' >= lastApplied
  <2>0. e.issuedAt \in Nat
    BY EnvelopeAssumption DEF EnvelopeType
  <2>1. ASSUME Admitted(e, topic), Apply(e) PROVE lastApplied' >= lastApplied
    <3>1. newestToken <= e.issuedAt
      BY <2>1, AdmittedFacts
    <3> QED BY <1>0, <2>0, <2>1, <3>1 DEF Apply
  <2>2. CASE ApplyStop(e, topic)
    BY <2>1, <2>2 DEF ApplyStop
  <2>3. CASE ClearSafeStop(e, topic)
    BY <2>1, <2>3 DEF ClearSafeStop, AtLatchGate
  <2>4. CASE NotApplied
    BY <1>0, <2>4 DEF NotApplied
  <2> QED BY <1>1, <2>2, <2>3, <2>4
          DEF Command, RefuseAdmission, RefuseMode, RefuseLatched, ClearNoop,
              PassLatchGate
<1>2. ASSUME Gates PROVE lastApplied' >= lastApplied
  <2>1. CASE AcceptCommand
    BY <1>0, <2>1 DEF AcceptCommand, Apply, IngestInv, InHand
  <2>2. CASE NotApplied
    BY <1>0, <2>2 DEF NotApplied
  <2> QED BY <1>2, <2>1, <2>2
          DEF Gates, GeofenceStop, RefuseZone, PassZoneGate, RefuseFinal
<1>3. CASE UNCHANGED ingestState
  BY <1>0, <1>3 DEF ingestState
<1> QED BY <1>1, <1>2, <1>3, IngestFrame

(***************************************************************************)
(* Fencing for any number of operators and commands: tokens take effect in *)
(* order, even though the kernel compares the token at admission and acts  *)
(* two gates later.                                                        *)
(***************************************************************************)
THEOREM Fencing == Spec => FencingOrder
<1>1. TypeOK /\ IngestInv /\ [Next]_vars => [lastApplied' >= lastApplied]_vars
  BY FencingStep
<1> QED BY <1>1, IngestInvariant, PTL DEF Spec, FencingOrder

\* The envelope whose CLEAR_SAFE_STOP may release the latch in this step.
Releases(e) ==
    /\ e.action = "CLEAR_SAFE_STOP" /\ e.verified /\ e.own
    /\ now <= e.timestamp + e.ttlMs
    /\ acks[e.commandId] = "none"
    /\ e.issuedAt >= lastApplied /\ lastApplied' = e.issuedAt

\* A step that releases the latch is a valid CLEAR_SAFE_STOP.
LEMMA ReleaseStep ==
    ASSUME TypeOK, IngestInv, [Next]_vars, latched, ~latched'
    PROVE  \E e \in Envelope : Releases(e)
<1> USE DEF latchVars
<1>1. ASSUME NEW e \in Envelope, NEW topic \in Topics(e), Command(e, topic)
      PROVE  Releases(e)
  <2>1. ClearSafeStop(e, topic)
    BY <1>1 DEF Command, RefuseAdmission, ApplyStop, EngageLatch, RefuseMode,
                RefuseLatched, ClearNoop, PassLatchGate
  <2>2. Admitted(e, topic) /\ ~IsStop(e, topic) /\ Apply(e)
        /\ e.action = "CLEAR_SAFE_STOP"
    BY <2>1 DEF ClearSafeStop, AtLatchGate
  <2>3. /\ newestToken <= e.issuedAt /\ acks[e.commandId] = "none"
        /\ e.verified /\ e.own /\ ~TtlExpired(e, topic)
    BY <2>2, AdmittedFacts
  <2>4. now \in Nat /\ e.timestamp \in Nat /\ e.ttlMs \in Nat
        /\ e.issuedAt \in Nat /\ lastApplied \in Nat /\ newestToken \in Nat
    BY EnvelopeAssumption DEF EnvelopeType, TypeOK
  <2>5. now <= e.timestamp + e.ttlMs
    BY <2>2, <2>3, <2>4 DEF TtlExpired
  <2>6. e.issuedAt >= lastApplied /\ lastApplied' = e.issuedAt
    BY <2>2, <2>3, <2>4 DEF IngestInv, Apply
  <2> QED BY <2>2, <2>3, <2>5, <2>6 DEF Releases
<1>2. ~Gates
  BY DEF Gates, GeofenceStop, EngageLatch, RefuseZone, PassZoneGate,
         RefuseFinal, AcceptCommand
<1> QED BY <1>1, <1>2, IngestFrame

(***************************************************************************)
(* RES-04 for every instance: nothing but a valid CLEAR_SAFE_STOP releases *)
(* the latch.                                                              *)
(***************************************************************************)
THEOREM OnlyClearReleases == Spec => LatchReleasedOnlyByClear
<1>1. TypeOK /\ IngestInv /\ [Next]_vars
        => [latched /\ ~latched' => \E e \in Envelope : Releases(e)]_vars
  BY ReleaseStep
<1> QED BY <1>1, IngestInvariant, PTL
        DEF Spec, LatchReleasedOnlyByClear, Releases

-----------------------------------------------------------------------------
(* All copies of a command get the same answer.  What makes SameResponse   *)
(* inductive: every answer published or still in an outbox is the stored   *)
(* one or that of an envelope whose signature does not verify, and only    *)
(* verified commands are stored.                                           *)

\* An acknowledgement that task t has still to publish.
InFlight(t, i, a) ==
    \E k \in 1..Len(outbox[t]) : outbox[t][k] = [kind |-> "ack", id |-> i, arg |-> a]

\* The store or the signature accounts for the answer a to command i.
Accounted(i, a) ==
    \/ i \in evicted
    \/ acks[i] = a
    \/ a = "SCHEMA_INVALID" /\ \E e \in Envelope : e.commandId = i /\ ~e.verified

ResponseInv ==
    /\ stage # "idle" => cmd.verified
    /\ \A i \in CommandId : acks[i] # "none" =>
         \E e \in Envelope : e.commandId = i /\ e.verified
    /\ \A i \in CommandId, a \in Reason :
         a \in replies[i] \/ (\E t \in Task : InFlight(t, i, a)) => Accounted(i, a)

\* Storing the answer of a new command leaves every other answer accounted
\* for (remember_ack, main.rs).
LEMMA AccountedStays ==
    ASSUME TypeOK, ResponseInv, NEW e \in Envelope, e.verified, NEW why \in Reason,
           acks[e.commandId] = "none", RememberAck(e, why),
           NEW i \in CommandId, NEW a \in Reason, Accounted(i, a)
    PROVE  Accounted(i, a)'
<1>1. evicted \subseteq evicted' /\ "none" \notin Reason
  BY DEF RememberAck, Reason
<1>2. CASE acks[i] = a
  <2>1. i # e.commandId
    BY <1>1, <1>2
  <2>2. acks'[i] = acks[i] \/ i \in evicted'
    BY <2>1 DEF RememberAck
  <2> QED  BY <1>2, <2>2 DEF Accounted
<1>3. CASE acks[i] # a
  BY <1>1, <1>3 DEF Accounted
<1> QED  BY <1>2, <1>3

\* A command that is answered the first time gets the answer that is stored.
LEMMA AnswerKeepsResponses ==
    ASSUME TypeOK, ResponseInv, NEW e \in Envelope, e.verified, NEW why \in Reason,
           acks[e.commandId] = "none", NEW effects \in Seq(Effect),
           \A k \in 1..Len(effects) : effects[k].kind # "ack",
           Answer(e, effects, why), replies' = replies
    PROVE  ResponseInv'
<1>1. RememberAck(e, why) /\ stage' = "idle"
      /\ outbox' = [outbox EXCEPT !["main"] = Append(effects, AckMsg(e, why))]
  BY DEF Answer
<1>2. \A i \in CommandId : acks'[i] # "none" =>
         \E d \in Envelope : d.commandId = i /\ d.verified
  BY <1>1 DEF RememberAck, ResponseInv
<1>3. e.commandId \in CommandId
  BY EnvelopeAssumption DEF EnvelopeType
<1>4. ASSUME NEW i \in CommandId, NEW a \in Reason,
             a \in replies'[i] \/ (\E t \in Task : InFlight(t, i, a)')
      PROVE  Accounted(i, a)'
  <2>1. CASE a \in replies'[i]
    BY <1>1, <2>1, AccountedStays DEF ResponseInv
  <2>2. ASSUME NEW t \in Task, InFlight(t, i, a)'
        PROVE  Accounted(i, a)'
    <3>1. CASE t # "main"
      <4>1. outbox'[t] = outbox[t]
        BY <1>1, <3>1 DEF TypeOK
      <4>2. InFlight(t, i, a)
        BY <2>2, <4>1 DEF InFlight
      <4> QED  BY <1>1, <4>2, AccountedStays DEF ResponseInv
    <3>2. CASE t = "main"
      <4>1. outbox'["main"] = Append(effects, AckMsg(e, why))
        BY <1>1 DEF TypeOK, Task
      <4>2. PICK k \in 1..Len(outbox'["main"]) :
              outbox'["main"][k] = [kind |-> "ack", id |-> i, arg |-> a]
        BY <2>2, <3>2 DEF InFlight
      <4>3. k = Len(effects) + 1 \/ k \in 1..Len(effects)
        BY <4>1, <4>2
      <4>4. k \notin 1..Len(effects)
        BY <4>1, <4>2
      <4>5. AckMsg(e, why) = [kind |-> "ack", id |-> i, arg |-> a]
        BY <4>1, <4>2, <4>3, <4>4
      <4>6. i = e.commandId /\ a = why
        BY <4>5 DEF AckMsg
      <4>7. acks'[i] = why \/ i \in evicted'
        BY <1>1, <1>3, <4>6 DEF RememberAck
      <4> QED  BY <4>6, <4>7 DEF Accounted
    <3> QED  BY <3>1, <3>2
  <2> QED  BY <1>4, <2>1, <2>2
<1> QED  BY <1>1, <1>2, <1>4 DEF ResponseInv

\* A step that leaves the store alone and brings no unaccounted answer.
LEMMA ResponsesFrame ==
    ASSUME TypeOK, ResponseInv, UNCHANGED <<acks, evicted, stage, cmd>>,
           \A i \in CommandId, a \in Reason :
             (a \in replies'[i] \/ (\E t \in Task : InFlight(t, i, a)')) =>
                (a \in replies[i] \/ (\E t \in Task : InFlight(t, i, a))
                  \/ Accounted(i, a))
    PROVE  ResponseInv'
<1>1. \A i, a : Accounted(i, a) => Accounted(i, a)'
  BY DEF Accounted
<1> QED  BY <1>1 DEF ResponseInv

\* A task takes up effects that hold no acknowledgement.
LEMMA NoAckSent ==
    ASSUME TypeOK, ResponseInv, UNCHANGED <<acks, evicted, stage, cmd,
    replies>>,
           NEW t \in Task, NEW effects, \A k \in 1..Len(effects) : effects[k].kind # "ack",
           outbox' = outbox \/ outbox' = [outbox EXCEPT ![t] = effects]
    PROVE  ResponseInv'
<1>1. ASSUME NEW i \in CommandId, NEW a \in Reason, NEW u \in Task, InFlight(u, i, a)'
      PROVE  InFlight(u, i, a)
  <2>1. CASE outbox'[u] = outbox[u]
    BY <1>1, <2>1 DEF InFlight
  <2>2. CASE outbox'[u] = effects
    <3>1. PICK k \in 1..Len(effects) : effects[k] = [kind |-> "ack", id |-> i, arg |-> a]
      BY <1>1, <2>2 DEF InFlight
    <3>2. effects[k].kind = "ack"
      BY <3>1
    <3> QED  BY <3>2
  <2> QED  BY <2>1, <2>2 DEF TypeOK
<1> QED  BY <1>1, ResponsesFrame

\* What the background tasks and a zone configuration emit is no
\* acknowledgement.
LEMMA NoAckInPairs ==
    ASSUME NEW b
    PROVE  /\ \A k \in 1..Len(<<StateEvent(b), LogEvent("LATCH_ENGAGED")>>) :
                <<StateEvent(b), LogEvent("LATCH_ENGAGED")>>[k].kind # "ack"
           /\ \A k \in 1..Len(<<StateEvent(b), HeartbeatUp(b)>>) :
                <<StateEvent(b), HeartbeatUp(b)>>[k].kind # "ack"
  BY DEF StateEvent, LogEvent, HeartbeatUp

\* ... nor is a telemetry sample or the report of a zone document.
LEMMA NoAckInReports ==
    ASSUME NEW effects,
           \/ effects = <<LogEvent("ZONE_CONFIG_APPLIED")>>
                           \o (IF IS_AWS THEN <<ShadowReport>> ELSE <<>>)
           \/ effects = <<TelemetryMsg>>
           \/ effects = <<StateEvent(TRUE), LogEvent("LATCH_ENGAGED"),
                          TelemetryMsg>>
    PROVE  \A k \in 1..Len(effects) : effects[k].kind # "ack"
<1>1. CASE effects = <<LogEvent("ZONE_CONFIG_APPLIED")>>
                       \o (IF IS_AWS THEN <<ShadowReport>> ELSE <<>>)
  <2>1. CASE IS_AWS
    BY <1>1, <2>1 DEF LogEvent, ShadowReport
  <2>2. CASE ~IS_AWS
    BY <1>1, <2>2 DEF LogEvent
  <2> QED  BY <2>1, <2>2
<1>2. CASE effects = <<TelemetryMsg>>
  BY <1>2 DEF TelemetryMsg
<1>3. CASE effects = <<StateEvent(TRUE), LogEvent("LATCH_ENGAGED"),
                       TelemetryMsg>>
  BY <1>3 DEF StateEvent, LogEvent, TelemetryMsg
<1> QED  BY <1>1, <1>2, <1>3

\* The main loop answers a copy it does not process.
LEMMA CopyAnswered ==
    ASSUME TypeOK, ResponseInv, UNCHANGED <<acks, evicted, stage, cmd,
    replies>>,
           NEW e \in Envelope, NEW why, Accounted(e.commandId, why),
           outbox' = [outbox EXCEPT !["main"] = <<AckMsg(e, why)>>]
    PROVE  ResponseInv'
<1>1. ASSUME NEW i \in CommandId, NEW a \in Reason, NEW u \in Task, InFlight(u, i, a)'
      PROVE  InFlight(u, i, a) \/ Accounted(i, a)
  <2>1. CASE u # "main"
    <3>1. outbox'[u] = outbox[u]
      BY <2>1 DEF TypeOK
    <3> QED  BY <1>1, <3>1 DEF InFlight
  <2>2. CASE u = "main"
    <3>1. outbox'["main"] = <<AckMsg(e, why)>>
      BY DEF TypeOK, Task
    <3>2. AckMsg(e, why) = [kind |-> "ack", id |-> i, arg |-> a]
      BY <1>1, <2>2, <3>1 DEF InFlight
    <3>3. i = e.commandId /\ a = why
      BY <3>2 DEF AckMsg
    <3> QED  BY <3>3
  <2> QED  BY <2>1, <2>2
<1> QED  BY <1>1, ResponsesFrame

\* Publishing an acknowledgement takes it out of the outbox of its task.
LEMMA EmitKeepsResponses ==
    ASSUME TypeOK, ResponseInv, NEW t \in Task, Emit(t)
    PROVE  ResponseInv'
<1>1. UNCHANGED <<acks, evicted, stage, cmd>>
  BY DEF Emit, ingestVars
<1>2. PICK s \in Seq(Effect) : s = outbox[t]
  BY DEF TypeOK
<1>3. s # <<>> /\ outbox' = [outbox EXCEPT ![t] = Tail(s)]
  BY <1>2 DEF Emit
<1>4. PICK f : f = Head(s)
  OBVIOUS
<1>5. f \in Effect /\ f = s[1] /\ 1 \in 1..Len(s)
  BY <1>2, <1>3, <1>4
<1>6. \A i \in CommandId : replies'[i] =
        IF f.kind = "ack" /\ i = f.id THEN replies[i] \cup {f.arg} ELSE replies[i]
  BY <1>2, <1>4 DEF Emit
<1>7. ASSUME NEW i \in CommandId, NEW a \in Reason, a \in replies'[i]
      PROVE  a \in replies[i] \/ InFlight(t, i, a)
  <2>1. CASE f.kind = "ack" /\ i = f.id /\ a = f.arg
    <3>1. f = [kind |-> "ack", id |-> i, arg |-> a]
      BY <1>5, <2>1 DEF Effect
    <3> QED  BY <1>2, <1>5, <3>1 DEF InFlight
  <2>2. CASE ~(f.kind = "ack" /\ i = f.id /\ a = f.arg)
    BY <1>6, <1>7, <2>2
  <2> QED  BY <2>1, <2>2
<1>8. ASSUME NEW i \in CommandId, NEW a \in Reason, NEW u \in Task, InFlight(u, i, a)'
      PROVE  InFlight(u, i, a)
  <2>1. CASE u # t
    <3>1. outbox'[u] = outbox[u]
      BY <1>3, <2>1 DEF TypeOK
    <3> QED  BY <1>8, <3>1 DEF InFlight
  <2>2. CASE u = t
    <3>1. outbox'[t] = Tail(s)
      BY <1>3 DEF TypeOK
    <3>2. PICK k \in 1..Len(Tail(s)) : Tail(s)[k] = [kind |-> "ack", id |-> i, arg |-> a]
      BY <1>8, <2>2, <3>1 DEF InFlight
    <3>3. k + 1 \in 1..Len(s) /\ s[k + 1] = Tail(s)[k]
      BY <1>2, <1>3, <3>2
    <3> QED  BY <1>2, <2>2, <3>2, <3>3 DEF InFlight
  <2> QED  BY <2>1, <2>2
<1> QED  BY <1>1, <1>7, <1>8, ResponsesFrame

\* Admission, stops, the latch gate and CLEAR_SAFE_STOP.
LEMMA CommandKeepsResponses ==
    ASSUME TypeOK, ResponseInv, NEW e \in Envelope, NEW topic \in Topics(e),
           Command(e, topic)
    PROVE  ResponseInv'
<1> USE DEF mainFrame, sinkVars
<1>1. e.verified /\ acks[e.commandId] = "none"
  BY DEF Command, RefuseAdmission, ApplyStop, RefuseMode, RefuseLatched,
         ClearSafeStop, ClearNoop, PassLatchGate, AtLatchGate, Admitted, Known
<1>2. replies' = replies
  BY DEF Command, RefuseAdmission, ApplyStop, RefuseMode, RefuseLatched,
         ClearSafeStop, ClearNoop, PassLatchGate
<1>3. ASSUME NEW why \in Reason, Answer(e, <<>>, why)
      PROVE  ResponseInv'
  <2>1. <<>> \in Seq(Effect) /\ \A k \in 1..Len(<<>>) : <<>>[k].kind # "ack"
    OBVIOUS
  <2> QED  BY <1>1, <1>2, <1>3, <2>1, AnswerKeepsResponses
<1>4. ASSUME NEW b \in BOOLEAN, NEW action \in Action, NEW type \in LogType,
             Answer(e, <<StateEvent(b), CommandEvent(e, action), LogEvent(type)>>, "ACK")
      PROVE  ResponseInv'
  <2>1. PICK sent : sent = <<StateEvent(b), CommandEvent(e, action), LogEvent(type)>>
    OBVIOUS
  <2>2. sent \in Seq(Effect)
    BY <2>1, EffectTypes, Tuples
  <2>3. \A k \in 1..Len(sent) : sent[k].kind # "ack"
    BY <2>1 DEF StateEvent, CommandEvent, LogEvent
  <2>4. "ACK" \in Reason
    BY DEF Reason
  <2> QED  BY <1>1, <1>2, <1>4, <2>1, <2>2, <2>3, <2>4, AnswerKeepsResponses
<1>5. CASE RefuseAdmission(e, topic)
  <2>1. AdmissionFault(e, topic) \in Reason
    BY <1>5 DEF RefuseAdmission, AdmissionFault, Reason
  <2> QED  BY <1>3, <1>5, <2>1 DEF RefuseAdmission
<1>6. CASE RefuseMode(e, topic) \/ RefuseLatched(e, topic) \/ ClearNoop(e, topic)
  <2>1. {"ACK", "MODE_MISMATCH", "SAFE_STOP_LATCHED"} \subseteq Reason
    BY DEF Reason
  <2> QED  BY <1>3, <1>6, <2>1 DEF RefuseMode, RefuseLatched, ClearNoop
<1>7. CASE ApplyStop(e, topic) \/ ClearSafeStop(e, topic)
  <2>1. {"E_STOP", "SAFE_STOP", "CLEAR_SAFE_STOP"} \subseteq Action
        /\ {"LATCH_ENGAGED", "LATCH_RELEASED"} \subseteq LogType
    BY DEF Action, MODE1_ACTIONS, LogType
  <2> QED  BY <1>4, <1>7, <2>1 DEF ApplyStop, ClearSafeStop
<1>8. CASE PassLatchGate(e, topic)
  <2>1. cmd' = e /\ UNCHANGED <<acks, evicted, outbox, replies>>
    BY <1>8 DEF PassLatchGate
  <2>2. \A t, i, a : (InFlight(t, i, a)' <=> InFlight(t, i, a))
                     /\ (Accounted(i, a)' <=> Accounted(i, a))
    BY <2>1 DEF InFlight, Accounted
  <2> QED  BY <1>1, <2>1, <2>2 DEF ResponseInv
<1> QED  BY <1>5, <1>6, <1>7, <1>8 DEF Command

\* The zone gate, the permit and diagnostics gate, and actuation.
LEMMA GatesKeepResponses ==
    ASSUME TypeOK, IngestInv, ResponseInv, Gates
    PROVE  ResponseInv'
<1> USE DEF gateFrame, mainFrame, sinkVars
<1>1. stage # "idle" /\ replies' = replies
  BY DEF Gates, GeofenceStop, RefuseZone, PassZoneGate, RefuseFinal,
     AcceptCommand
<1>2. cmd \in Envelope /\ cmd.verified /\ acks[cmd.commandId] = "none" /\ cmd.action \in Action
  BY <1>1, EnvelopeAssumption DEF TypeOK, ResponseInv, IngestInv, InHand,
     EnvelopeType
<1>3. ASSUME NEW why \in Reason, NEW effects \in Seq(Effect),
             \A k \in 1..Len(effects) : effects[k].kind # "ack",
             Answer(cmd, effects, why)
      PROVE  ResponseInv'
  BY <1>1, <1>2, <1>3, AnswerKeepsResponses
<1>4. <<>> \in Seq(Effect) /\ \A k \in 1..Len(<<>>) : <<>>[k].kind # "ack"
  OBVIOUS
<1>5. CASE GeofenceStop
  <2>1. PICK sent : sent = <<StateEvent(TRUE), LogEvent("LATCH_ENGAGED")>>
    OBVIOUS
  <2>2. sent \in Seq(Effect) /\ "GEOFENCE_VIOLATION" \in Reason
    BY <2>1, EffectTypes, Tuples DEF LogType, Reason
  <2>3. \A k \in 1..Len(sent) : sent[k].kind # "ack"
    BY <2>1 DEF StateEvent, LogEvent
  <2> QED  BY <1>3, <1>5, <2>1, <2>2, <2>3 DEF GeofenceStop
<1>6. CASE RefuseZone
  <2>1. "MODE_MISMATCH" \in Reason
    BY DEF Reason
  <2> QED  BY <1>3, <1>4, <1>6, <2>1 DEF RefuseZone
<1>7. CASE RefuseFinal
  <2>1. FinalFault(cmd) \in Reason
    BY <1>7 DEF RefuseFinal, FinalFault, Reason
  <2> QED  BY <1>3, <1>4, <1>7, <2>1 DEF RefuseFinal
<1>8. CASE AcceptCommand
  <2>1. PICK sent : sent = <<CommandEvent(cmd, cmd.action)>>
    OBVIOUS
  <2>2. sent \in Seq(Effect) /\ "ACK" \in Reason
    BY <1>2, <2>1, EffectTypes, Tuples DEF Reason
  <2>3. \A k \in 1..Len(sent) : sent[k].kind # "ack"
    BY <2>1 DEF CommandEvent
  <2> QED  BY <1>3, <1>8, <2>1, <2>2, <2>3 DEF AcceptCommand
<1>9. CASE PassZoneGate
  <2>1. UNCHANGED <<cmd, acks, evicted, outbox, replies>>
    BY <1>9 DEF PassZoneGate
  <2>2. \A t, i, a : (InFlight(t, i, a)' <=> InFlight(t, i, a))
                     /\ (Accounted(i, a)' <=> Accounted(i, a))
    BY <2>1 DEF InFlight, Accounted
  <2> QED  BY <1>2, <2>1, <2>2 DEF ResponseInv
<1> QED  BY <1>5, <1>6, <1>7, <1>8, <1>9 DEF Gates

\* Every step keeps the answers accounted for.
LEMMA ResponseStep ==
    ASSUME TypeOK, IngestInv, ResponseInv, [Next]_vars
    PROVE  ResponseInv'
<1>1. ASSUME NEW e \in Envelope, RejectUnverified(e)
      PROVE  ResponseInv'
  <2>1. Accounted(e.commandId, "SCHEMA_INVALID")
    BY <1>1 DEF RejectUnverified, Accounted
  <2> QED  BY <1>1, <2>1, CopyAnswered DEF RejectUnverified, mainFrame,
              sinkVars, ingestVars
<1>2. ASSUME NEW e \in Envelope, ReplayDuplicate(e)
      PROVE  ResponseInv'
  <2>1. PICK why : why = acks[e.commandId]
    OBVIOUS
  <2>2. Accounted(e.commandId, why)
    BY <2>1 DEF Accounted
  <2> QED  BY <1>2, <2>1, <2>2, CopyAnswered DEF ReplayDuplicate, mainFrame,
              sinkVars, ingestVars
<1>3. CASE \E e \in Envelope : \E topic \in Topics(e) : Command(e, topic)
  BY <1>3, CommandKeepsResponses
<1>4. CASE Gates
  BY <1>4, GatesKeepResponses
<1>5. CASE \E t \in Task : Emit(t)
  BY <1>5, EmitKeepsResponses
<1>6. ASSUME UNCHANGED <<ingestState, replies>>,
             NEW t \in Task, NEW effects, \A k \in 1..Len(effects) : effects[k].kind # "ack",
             outbox' = outbox \/ outbox' = [outbox EXCEPT ![t] = effects]
      PROVE  ResponseInv'
  BY <1>6, NoAckSent DEF ingestState
<1>7. ASSUME UNCHANGED <<ingestState, replies, outbox>>
      PROVE  ResponseInv'
  <2>1. \A k \in 1..Len(<<>>) : <<>>[k].kind # "ack"
    OBVIOUS
  <2> QED  BY <1>6, <1>7, <2>1 DEF Task
<1>15. ASSUME UNCHANGED <<ingestState, replies>>, NEW t \in Task, NEW b,
              outbox' = outbox
                \/ outbox' = [outbox EXCEPT ![t] = <<StateEvent(b), LogEvent("LATCH_ENGAGED")>>]
                \/ outbox' = [outbox EXCEPT ![t] = <<StateEvent(b), HeartbeatUp(b)>>]
       PROVE  ResponseInv'
  <2>1. PICK effects :
          /\ \A k \in 1..Len(effects) : effects[k].kind # "ack"
          /\ outbox' = outbox \/ outbox' = [outbox EXCEPT ![t] = effects]
    BY <1>15, NoAckInPairs
  <2> QED  BY <1>6, <1>15, <2>1
<1> USE DEF ingestState, ingestVars, mainFrame, sinkVars, latchVars, taskVars, teleVars
<1>8. CASE \E doc \in ZoneDoc : ZoneConfig(doc)
  <2>1. PICK effects :
          /\ \/ effects = <<LogEvent("ZONE_CONFIG_APPLIED")>>
                            \o (IF IS_AWS THEN <<ShadowReport>> ELSE <<>>)
          /\ outbox' = outbox \/ outbox' = [outbox EXCEPT !["main"] = effects]
    BY <1>8 DEF ZoneConfig
  <2>2. UNCHANGED <<ingestState, replies>>
    BY <1>8 DEF ZoneConfig
  <2> QED  BY <1>6, <2>1, <2>2, NoAckInReports DEF Task
<1>9. CASE WatchdogTick
  <2>1. /\ UNCHANGED <<ingestState, replies>>
        /\ \/ outbox' = outbox
           \/ outbox' = [outbox EXCEPT !["watchdog"] =
                           <<StateEvent(TRUE), LogEvent("LATCH_ENGAGED")>>]
    BY <1>9 DEF WatchdogTick, LatchFrom
  <2> QED  BY <1>15, <2>1 DEF Task
<1>10. CASE PoseWatchdogTick
  <2>1. /\ UNCHANGED <<ingestState, replies>>
        /\ \/ outbox' = outbox
           \/ outbox' = [outbox EXCEPT !["pose"] =
                           <<StateEvent(TRUE), LogEvent("LATCH_ENGAGED")>>]
    BY <1>10 DEF PoseWatchdogTick, LatchFrom
  <2> QED  BY <1>15, <2>1 DEF Task
<1>11. CASE TelemetryStep
  <2>1. PICK effects :
          /\ \/ effects = <<TelemetryMsg>>
             \/ effects = <<StateEvent(TRUE), LogEvent("LATCH_ENGAGED"),
                            TelemetryMsg>>
          /\ outbox' = [outbox EXCEPT !["telemetry"] = effects]
    BY <1>11 DEF TelemetryStep
  <2>2. UNCHANGED <<ingestState, replies>>
    BY <1>11 DEF TelemetryStep
  <2> QED  BY <1>6, <2>1, <2>2, NoAckInReports DEF Task
<1>12. CASE HeartbeatTick
  <2>1. /\ UNCHANGED <<ingestState, replies>>
        /\ outbox' = [outbox EXCEPT !["heartbeat"] =
                        <<StateEvent(latched), HeartbeatUp(latched)>>]
    BY <1>12 DEF HeartbeatTick
  <2> QED  BY <1>15, <2>1 DEF Task
<1>13. CASE \/ \E ts \in PingTime : DeadmanPing(ts)
            \/ LogSyncAck \/ TelemetryRead \/ Tick
            \/ AcceptBridge \/ LoseBridge \/ Forward \/ Poll \/ OtherRequest
            \/ \E p \in PoseSample : PoseFeed(p)
  BY <1>7, <1>13 DEF DeadmanPing, LogSyncAck, TelemetryRead, Tick,
     AcceptBridge, LoseBridge, Forward, Poll, OtherRequest, PoseFeed
<1>14. CASE UNCHANGED vars
  BY <1>7, <1>14 DEF vars
<1> QED  BY <1>1, <1>2, <1>3, <1>4, <1>5, <1>8, <1>9, <1>10, <1>11, <1>12,
            <1>13, <1>14
         DEF Next, KernelNext

\* The answers and the types, in every reachable state.
LEMMA ResponseInvariant == Spec => [](TypeOK /\ ResponseInv)
<1>1. Init => ResponseInv
  BY DEF Init, ResponseInv, InFlight
<1>2. TypeOK /\ IngestInv /\ ResponseInv /\ [Next]_vars => ResponseInv'
  BY ResponseStep
<1> QED  BY <1>1, <1>2, IngestInvariant, PTL DEF Spec

(***************************************************************************)
(* ICD section 4, for any number of commands, any redelivery and any       *)
(* capacity of the store: whether a copy is handled, replayed from the     *)
(* store or refused for its signature, all the answers to a command that   *)
(* was not evicted are the same.                                           *)
(***************************************************************************)
THEOREM CopiesAnsweredAlike == Spec => []SameResponse
<1>1. TypeOK /\ ResponseInv => SameResponse
  <2> SUFFICES ASSUME TypeOK, ResponseInv, NEW i \in CommandId \ evicted
               PROVE  Cardinality(replies[i]) <= 1
    BY DEF SameResponse
  <2>1. replies[i] \subseteq Reason /\ "none" \notin Reason
    BY DEF TypeOK, Reason
  <2>2. \A a, b \in replies[i] : a = b
    <3> SUFFICES ASSUME NEW a \in replies[i], NEW b \in replies[i], acks[i] = a, acks[i] # b
                 PROVE  FALSE
      BY <2>1 DEF ResponseInv, Accounted
    <3>1. PICK d \in Envelope : d.commandId = i /\ ~d.verified
      BY <2>1 DEF ResponseInv, Accounted
    <3>2. PICK e \in Envelope : e.commandId = i /\ e.verified
      BY <2>1 DEF ResponseInv
    <3> QED  BY <3>1, <3>2, EnvelopeAssumption
  <2>3. CASE replies[i] = {}
    BY <2>3, FS_EmptySet
  <2>4. CASE replies[i] # {}
    <3>1. PICK a : replies[i] = {a}
      BY <2>2, <2>4
    <3>2. Cardinality({a}) = 1
      BY FS_Singleton, Zenon
    <3> QED  BY <3>1, <3>2
  <2> QED  BY <2>3, <2>4
<1> QED  BY <1>1, ResponseInvariant, PTL

-----------------------------------------------------------------------------
(* Mode 2 and permits. *)

\* DrivingNeedsPermit is inductive: no document is applied and the clock does
\* not go back while a command is past the zone gate (main.rs handles one
\* message at a time).
LEMMA PermitStep ==
    ASSUME TypeOK, DrivingNeedsPermit, [Next]_vars
    PROVE  DrivingNeedsPermit'
<1> USE DEF mainFrame, gateFrame, sinkVars, latchVars, taskVars, teleVars, ingestVars
<1>1. ASSUME stage' # "final" PROVE DrivingNeedsPermit'
  BY <1>1 DEF DrivingNeedsPermit
<1>2. CASE PassZoneGate
  <2>1. SUFFICES ASSUME cmd.mode = "MODE2" PROVE DrivingNeedsPermit'
    BY <1>2 DEF DrivingNeedsPermit, PassZoneGate
  <2>2. Zone \in ZoneType /\ zoneState \in ZoneState
    BY DEF Zone, EffectiveZone, CurrentZoneType, TypeOK, ZoneState, ZoneType
  <2>3. Zone \notin {"public_approved_route", "out_of_tod"}
    BY <1>2, <2>1, <2>2 DEF PassZoneGate, IsModeAllowedInZone, ZONE_MODE_MATRIX
  <2>4. /\ Zone = zoneState.zone
        /\ zoneState.validFrom = None \/ ~(now < zoneState.validFrom)
    BY <2>3 DEF Zone, EffectiveZone, CurrentZoneType
  <2>5. zoneState.validFrom = None \/ zoneState.validFrom <= now
    BY <2>2, <2>4 DEF TypeOK, ZoneState
  <2> QED  BY <1>2, <2>3, <2>4, <2>5 DEF DrivingNeedsPermit, PassZoneGate
<1>3. ASSUME UNCHANGED <<stage, cmd, zoneSeen, zoneState>>, now' \in Nat, now <= now'
      PROVE  DrivingNeedsPermit'
  <2>1. now \in Nat /\ zoneState.validFrom \in Nat \cup {None}
    BY DEF TypeOK, ZoneState
  <2>2. zoneState.validFrom = None \/ zoneState.validFrom <= now
          => zoneState.validFrom = None \/ zoneState.validFrom <= now'
    BY <1>3, <2>1
  <2> QED  BY <1>3, <2>2 DEF DrivingNeedsPermit
<1>4. ASSUME UNCHANGED <<stage, cmd, zoneSeen, zoneState, now>>
      PROVE  DrivingNeedsPermit'
  BY <1>4 DEF DrivingNeedsPermit
<1>5. CASE \E e \in Envelope : RejectUnverified(e) \/ ReplayDuplicate(e)
  BY <1>4, <1>5 DEF RejectUnverified, ReplayDuplicate
<1>6. CASE \E e \in Envelope : \E topic \in Topics(e) : Command(e, topic)
  BY <1>1, <1>6 DEF Command, RefuseAdmission, ApplyStop, RefuseMode,
     RefuseLatched,
                    ClearSafeStop, ClearNoop, PassLatchGate, Answer
<1>7. CASE GeofenceStop \/ RefuseZone \/ RefuseFinal \/ AcceptCommand
  BY <1>1, <1>7 DEF GeofenceStop, RefuseZone, RefuseFinal, AcceptCommand,
     Answer
<1>8. CASE \E doc \in ZoneDoc : ZoneConfig(doc)
  BY <1>1, <1>8 DEF ZoneConfig, MainIdle
<1>9. CASE \E ts \in PingTime : DeadmanPing(ts)
  BY <1>4, <1>9 DEF DeadmanPing
<1>10. CASE LogSyncAck \/ TelemetryRead \/ HeartbeatTick
  BY <1>4, <1>10 DEF LogSyncAck, TelemetryRead, HeartbeatTick
<1>11. CASE WatchdogTick \/ PoseWatchdogTick \/ TelemetryStep
  BY <1>4, <1>11 DEF WatchdogTick, PoseWatchdogTick, TelemetryStep
<1>12. CASE \E t \in Task : Emit(t)
  BY <1>4, <1>12 DEF Emit
<1>13. CASE Tick
  BY <1>3, <1>13 DEF Tick, TypeOK
<1>14. CASE AcceptBridge \/ LoseBridge \/ Forward \/ Poll \/ OtherRequest
              \/ (\E p \in PoseSample : PoseFeed(p))
  BY <1>4, <1>14 DEF AcceptBridge, LoseBridge, Forward, Poll, OtherRequest,
     PoseFeed
<1>15. CASE UNCHANGED vars
  BY <1>4, <1>15 DEF vars
<1> QED  BY <1>2, <1>5, <1>6, <1>7, <1>8, <1>9, <1>10, <1>11, <1>12, <1>13,
            <1>14, <1>15
         DEF Next, KernelNext, Gates

(***************************************************************************)
(* ICD section 1, for every set of documents and envelopes: a driving      *)
(* command is handed to actuation only in a zone that admits Mode 2 and    *)
(* whose window has opened, whatever the clock, the pose feed and the      *)
(* other tasks do between the two gates.                                   *)
(***************************************************************************)
THEOREM PermitHolds == Spec => []DrivingNeedsPermit
<1>1. Init => DrivingNeedsPermit
  BY DEF Init, DrivingNeedsPermit
<1>2. TypeOK /\ DrivingNeedsPermit /\ [Next]_vars => DrivingNeedsPermit'
  BY PermitStep
<1> QED  BY <1>1, <1>2, TypeCorrect, PTL DEF Spec
=============================================================================
