--------------------------- MODULE HeartbeatWatch ---------------------------
(***************************************************************************)
(* The two consumers of a vehicle's 1 Hz heartbeat in the cloud.  The      *)
(* command service turns changes of its latch flag into evidence           *)
(* (recordLatchTransition, services/command/src/mqtt.service.ts); the      *)
(* telemetry service judges the link by its arrival (handleHeartbeat and   *)
(* evaluateLinks, services/telemetry/src/mqtt.service.ts).                 *)
(*                                                                         *)
(* The vehicle's client keeps heartbeats while it is disconnected and      *)
(* sends them, in order, when it is back, behind those of the last         *)
(* connection that were not acknowledged (QoS 1).  A period is PERIOD      *)
(* ticks of the clock.  The monitor's interval and the vehicle's are       *)
(* punctual: the clock waits for them.                                     *)
(***************************************************************************)
EXTENDS Naturals, Sequences

CONSTANTS
    None,
    PERIOD,        \* HEARTBEAT_PERIOD_MS, in ticks
    DEGRADED,      \* DEGRADED_AFTER_MISSES
    LOST,          \* LOST_AFTER_MISSES
    MaxEntries,    \* bound: times the vehicle latches
    MaxQueue,      \* bound: heartbeats under way
    MaxUnacked,    \* bound: heartbeats without an acknowledgement
    MaxRepeats,    \* bound: heartbeats sent again
    MaxFaults,     \* bound: EDR inserts that fail
    MaxRestarts    \* bound: restarts of the command service

ASSUME HeartbeatAssumption ==
    /\ PERIOD \in Nat \ {0} /\ DEGRADED \in Nat \ {0} /\ LOST \in Nat
    /\ DEGRADED < LOST
    /\ None \notin BOOLEAN \cup Nat \cup {"HEALTHY", "DEGRADED", "LOST"}

VARIABLES
    latched,    \* the vehicle's latch
    entries,    \* history: times it was engaged
    beat,       \* ticks until the vehicle's next heartbeat
    net,        \* connected, or not
    unacked,    \* latch flags that arrived, and the client does not know it
    repeats,    \* history: heartbeats sent again
    toCommand,  \* latch flags on their way to the command service
    toLink,     \* heartbeats on their way to the telemetry service
    lastLatch,  \* the command service's last flag, None at its start
    inserts,    \* rows being inserted: ENGAGED ones and RELEASED ones
    engaged,    \* ENGAGED rows in the EDR
    age,        \* ticks since the last heartbeat was handled, None before it
    due,        \* ticks until the monitor's next turn
    status,     \* link status last broadcast
    faults, restarts

vehicleVars == <<latched, entries, beat>>
clientVars == <<net, unacked, repeats>>
recorderVars == <<lastLatch, inserts, engaged, faults, restarts>>
monitorVars == <<age, due, status>>
vars == <<vehicleVars, clientVars, toCommand, toLink, recorderVars, monitorVars>>

Init ==
    /\ latched = FALSE /\ entries = 0 /\ beat = 0
    /\ net = TRUE /\ unacked = <<>> /\ repeats = 0
    /\ toCommand = <<>> /\ toLink = 0
    /\ lastLatch = None /\ inserts = [b \in BOOLEAN |-> 0] /\ engaged = 0
    /\ age = None /\ due = PERIOD /\ status = None
    /\ faults = 0 /\ restarts = 0

-----------------------------------------------------------------------------
(* The vehicle *)

Latch ==
    /\ ~latched /\ entries < MaxEntries
    /\ latched' = TRUE /\ entries' = entries + 1
    /\ UNCHANGED <<beat, clientVars, toCommand, toLink, recorderVars, monitorVars>>

Release ==
    /\ latched
    /\ latched' = FALSE
    /\ UNCHANGED <<entries, beat, clientVars, toCommand, toLink, recorderVars,
                   monitorVars>>

\* Bound: a full queue costs the heartbeat, where the code waits for room and
\* sends those it missed one after the other.
Beat ==
    /\ beat = 0
    /\ beat' = PERIOD
    /\ toCommand' = IF Len(toCommand) < MaxQueue THEN Append(toCommand, latched)
                    ELSE toCommand
    /\ toLink' = IF toLink < MaxQueue THEN toLink + 1 ELSE toLink
    /\ UNCHANGED <<latched, entries, clientVars, recorderVars, monitorVars>>

PubAck ==
    /\ net /\ unacked # <<>>
    /\ unacked' = Tail(unacked)
    /\ UNCHANGED <<vehicleVars, net, repeats, toCommand, toLink, recorderVars,
                   monitorVars>>

Disconnect ==
    /\ net /\ net' = FALSE
    /\ UNCHANGED <<vehicleVars, unacked, repeats, toCommand, toLink, recorderVars,
                   monitorVars>>

Reconnect ==
    /\ ~net /\ net' = TRUE
    /\ repeats + Len(unacked) <= MaxRepeats
    /\ repeats' = repeats + Len(unacked)
    /\ toCommand' = unacked \o toCommand
    /\ toLink' = toLink + Len(unacked)
    /\ unacked' = <<>>
    /\ UNCHANGED <<vehicleVars, recorderVars, monitorVars>>

-----------------------------------------------------------------------------
(* The command service's record of the latch *)

\* Mutant: every heartbeat of a latched vehicle is a row.
EveryLatched(b) == b

\* A change, or a vehicle that is latched at the service's start.
Transition(b) == ~(lastLatch = b \/ (lastLatch = None /\ ~b))

\* recordLatchTransition up to its await.  The heartbeat's number is ignored.
RecordLatchTransition ==
    LET b == Head(toCommand) IN
    /\ net /\ toCommand # <<>>
    /\ toCommand' = Tail(toCommand)
    /\ unacked' = IF Len(unacked) < MaxUnacked THEN Append(unacked, b)
                  ELSE unacked
    /\ lastLatch' = b
    /\ inserts' = IF Transition(b) THEN [inserts EXCEPT ![b] = @ + 1] ELSE inserts
    /\ UNCHANGED <<vehicleVars, net, repeats, toLink, engaged, faults, restarts,
                   monitorVars>>

\* The insert succeeds or fails; a failure is logged and nothing else.
Insert(b) ==
    /\ inserts[b] > 0
    /\ inserts' = [inserts EXCEPT ![b] = @ - 1]
    /\ \/ engaged' = engaged + (IF b THEN 1 ELSE 0) /\ UNCHANGED faults
       \/ faults < MaxFaults /\ faults' = faults + 1 /\ UNCHANGED engaged
    /\ UNCHANGED <<vehicleVars, clientVars, toCommand, toLink, lastLatch, restarts,
                   monitorVars>>

\* lastLatch is in memory, and inserts under way are lost.
CommandRestart ==
    /\ restarts < MaxRestarts
    /\ restarts' = restarts + 1
    /\ lastLatch' = None
    /\ inserts' = [b \in BOOLEAN |-> 0]
    /\ UNCHANGED <<vehicleVars, clientVars, toCommand, toLink, engaged, faults,
                   monitorVars>>

-----------------------------------------------------------------------------
(* The telemetry service's view of the link *)

HandleHeartbeat ==
    /\ net /\ toLink > 0
    /\ toLink' = toLink - 1
    /\ age' = 0
    /\ status' = "HEALTHY"
    /\ UNCHANGED <<vehicleVars, clientVars, toCommand, recorderVars, due>>

\* Mutant: the weaker condition is tested first.
DegradedFirst(misses) ==
    IF misses >= DEGRADED THEN "DEGRADED"
    ELSE IF misses >= LOST THEN "LOST" ELSE status

Judge(misses) ==
    IF misses >= LOST THEN "LOST"
    ELSE IF misses >= DEGRADED THEN "DEGRADED" ELSE status

EvaluateLinks ==
    /\ due = 0
    /\ due' = PERIOD
    /\ status' = IF age = None THEN status ELSE Judge(age \div PERIOD)
    /\ UNCHANGED <<vehicleVars, clientVars, toCommand, toLink, recorderVars, age>>

\* Ages above the last threshold are alike.
Tick ==
    /\ beat > 0 /\ due > 0
    /\ beat' = beat - 1 /\ due' = due - 1
    /\ age' = IF age = None \/ age = (LOST + 1) * PERIOD THEN age ELSE age + 1
    /\ UNCHANGED <<latched, entries, clientVars, toCommand, toLink, recorderVars,
                   status>>

-----------------------------------------------------------------------------
Next ==
    \/ Latch \/ Release \/ Beat \/ PubAck \/ Disconnect \/ Reconnect
    \/ RecordLatchTransition \/ (\E b \in BOOLEAN : Insert(b)) \/ CommandRestart
    \/ HandleHeartbeat \/ EvaluateLinks \/ Tick

Spec == Init /\ [][Next]_vars

-----------------------------------------------------------------------------
(* Properties *)

\* telemetry mqtt.service.ts:8-12.  Whatever the phases of the heartbeat, its
\* delays and the monitor's turns: LOST and DEGRADED are only said after their
\* silence, HEALTHY and DEGRADED no longer than a turn past their limits.
StatusIsTrue ==
    age # None =>
        /\ status = "LOST" => age >= LOST * PERIOD
        /\ status = "DEGRADED" =>
             age >= DEGRADED * PERIOD /\ age < (LOST + 1) * PERIOD
        /\ status = "HEALTHY" => age < (DEGRADED + 1) * PERIOD
        /\ status # None

\* However heartbeats are delayed, every ENGAGED row stands for a latching of
\* its own, except that a restarted service and every heartbeat that is sent
\* again may each record a latch once more.
RowsAccountedFor == engaged + inserts[TRUE] <= entries + restarts + repeats

\* Not kept.  command mqtt.service.ts:178-179, the cloud "appends an EDR row on
\* every transition": heartbeats sent again after a reconnection repeat flags
\* of the past, and hb.seq is not looked at, so rows stand for no transition.
NoPhantomEntry == engaged + inserts[TRUE] <= entries + restarts

\* command mqtt.service.ts:176-181: "this cloud-side row exists so no latch
\* entry goes unrecorded".  With every heartbeat handled, every insert ended
\* and no failure, each latching has its row.
EveryEntryRecorded ==
    /\ latched /\ lastLatch = TRUE /\ toCommand = <<>>
    /\ \A b \in BOOLEAN : inserts[b] = 0
    /\ restarts = 0
    => engaged >= entries
=============================================================================
