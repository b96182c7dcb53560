------------------------------ MODULE Actuation ------------------------------
(***************************************************************************)
(* The local actuation channel between the safety kernel and the CARLA     *)
(* bridge: edge/sim/src/main.rs (the IPC server, the tasks that broadcast  *)
(* to it) and edge/carla-bridge/bridge.py (the reader threads, the control *)
(* loop and its fail-safe).                                                *)
(*                                                                         *)
(* Every kernel task changes or reads the latch under its mutex and sends  *)
(* the matching event afterwards, without the mutex: `outbox[t]` is what   *)
(* task t has yet to send.  A broadcast receiver holds Capacity events and *)
(* drops the oldest; its writer task moves events to the socket.  Each     *)
(* connection of the bridge has a reader thread of its own, which outlives *)
(* the connection by the lines it has not consumed yet.                    *)
(***************************************************************************)
EXTENDS Naturals, Sequences

CONSTANTS
  Capacity,     \* events a broadcast receiver holds (64 in the code)
  WireLines,    \* bound: lines in a socket buffer
  MaxConn,      \* bound: connections the bridge opens
  Motions,      \* the commands the operator issues, a subset of MotionCommands
  Latchers      \* the tasks that may latch on their own, a subset of Background

\* What the catalogue's commands do to the throttle and the brakes.
MotionCommands == {"DRIVE", "COAST", "CREEP", "PARK", "UNPARK", "NEUTRAL", "STEER"}

\* The tasks besides main and the heartbeat that hold a clone of actuation_tx.
Background == {"watchdog", "pose", "telemetry"}

ASSUME ActuationAssumption ==
  /\ Capacity \in Nat \ {0} /\ WireLines \in Nat \ {0} /\ MaxConn \in Nat \ {0}
  /\ Motions \subseteq MotionCommands /\ Latchers \subseteq Background

VARIABLES
  latched,   \* the kernel's safe-stop latch
  outbox,    \* task -> the events it has decided on and not sent yet
  posting,   \* the heartbeat task is in its turn, or waits in its publish
  rx,        \* the broadcast receiver of the current connection
  link,      \* how far the bridge is with its connection
  conn,      \* number of the latest connection, 0 before the first
  wire,      \* connection -> lines its reader thread has not consumed
  ctl,       \* ControlState: throttle and brakes on, latched
  applied,   \* what vehicle.apply was last called with: driving or not
  told,      \* history: a motion command was applied since the bridge's release
  heard,     \* history: the current connection has delivered a latch state
  held       \* history: braked for a latch it heard of, and no CLEAR since

kernelVars == <<latched, outbox, posting>>
bridgeVars == <<ctl, applied, told, heard, held>>
vars == <<latched, outbox, posting, rx, link, conn, wire, ctl, applied, told, heard, held>>

-----------------------------------------------------------------------------
(* Events *)

Tasks == {"main", "heartbeat"} \cup Latchers
StateEvent(b) == [type |-> "state", latched |-> b]
CommandEvent(a) == [type |-> "command", action |-> a]

Init ==
  /\ latched = FALSE
  /\ outbox = [t \in Tasks |-> <<>>]
  /\ posting = FALSE
  /\ rx = <<>>
  /\ link = "down"
  /\ conn = 0
  /\ wire = [c \in 1..MaxConn |-> <<>>]
  /\ ctl = [throttle |-> FALSE, brake |-> FALSE, latched |-> TRUE]
  /\ applied = FALSE
  /\ told = FALSE /\ heard = FALSE /\ held = FALSE

-----------------------------------------------------------------------------
(* The kernel's tasks *)

Decide(t, events) ==
  /\ outbox[t] = <<>>
  /\ outbox' = [outbox EXCEPT ![t] = events]
  /\ UNCHANGED <<rx, link, conn, wire, ctl, applied, told, heard>>

\* E_STOP and SAFE_STOP engage the latch whatever it is.
Stop ==
  /\ latched' = TRUE
  /\ Decide("main", <<StateEvent(TRUE), CommandEvent("STOP")>>)
  /\ UNCHANGED <<posting, held>>

\* A CLEAR_SAFE_STOP that finds the vehicle latched.
Clear ==
  /\ latched
  /\ latched' = FALSE
  /\ Decide("main", <<StateEvent(FALSE), CommandEvent("CLEAR")>>)
  /\ held' = FALSE
  /\ UNCHANGED posting

\* A command past the latch gate, and past all the gates behind it.
Accept(a) ==
  /\ ~latched
  /\ Decide("main", <<CommandEvent(a)>>)
  /\ UNCHANGED <<latched, posting, held>>

\* A watchdog of the kernel (cloud silence, pose silence) fires.
Watchdog(t) ==
  /\ ~latched
  /\ latched' = TRUE
  /\ Decide(t, <<StateEvent(TRUE)>>)
  /\ UNCHANGED <<posting, held>>

\* The telemetry task, or the zone gate of a command, sees the vehicle outside;
\* either's copy of the latch is older.
Geofence(t) ==
  /\ latched' = TRUE
  /\ Decide(t, <<StateEvent(TRUE)>>)
  /\ UNCHANGED <<posting, held>>

\* Mutant: the heartbeat no longer sends the latch to the bridge.
HeartbeatToCloudOnly ==
  /\ ~posting /\ posting' = TRUE
  /\ Decide("heartbeat", <<>>)
  /\ UNCHANGED <<latched, held>>

\* The 1 Hz snapshot: the latch is read here, and sent in a step of its own.
Heartbeat ==
  /\ ~posting /\ posting' = TRUE
  /\ Decide("heartbeat", <<StateEvent(latched)>>)
  /\ UNCHANGED <<latched, held>>

\* Behind the snapshot the turn publishes the heartbeat, and waits for a place
\* in the MQTT client's request channel, which may stay full while offline.
Posted ==
  /\ posting /\ outbox["heartbeat"] = <<>>
  /\ posting' = FALSE
  /\ UNCHANGED <<latched, outbox, rx, link, conn, wire, bridgeVars>>

\* broadcast::Sender::send: no receiver, no effect; a full one loses its oldest.
Broadcast(e) ==
  rx' = IF link \notin {"subscribed", "up"} THEN rx
        ELSE IF Len(rx) < Capacity THEN Append(rx, e) ELSE Append(Tail(rx), e)

Send(t) ==
  /\ outbox[t] # <<>>
  /\ Broadcast(Head(outbox[t]))
  /\ outbox' = [outbox EXCEPT ![t] = Tail(@)]
  /\ UNCHANGED <<latched, posting, link, conn, wire, bridgeVars>>

-----------------------------------------------------------------------------
(* The IPC server *)

\* The bridge connects; the server subscribes a new receiver.
Connect ==
  /\ link = "down" /\ conn < MaxConn
  /\ conn' = conn + 1
  /\ rx' = <<>>
  /\ link' = "subscribed"
  /\ UNCHANGED <<kernelVars, wire, bridgeVars>>

\* The latch snapshot is the connection's first line.
Snapshot ==
  /\ link = "subscribed"
  /\ wire' = [wire EXCEPT ![conn] = <<StateEvent(latched)>>]
  /\ link' = "up"
  /\ UNCHANGED <<kernelVars, rx, conn, bridgeVars>>

\* The writer task: recv, then write_all, which waits for room.
Forward ==
  /\ link = "up" /\ rx # <<>> /\ Len(wire[conn]) < WireLines
  /\ wire' = [wire EXCEPT ![conn] = Append(@, Head(rx))]
  /\ rx' = Tail(rx)
  /\ UNCHANGED <<kernelVars, link, conn, bridgeVars>>

-----------------------------------------------------------------------------
(* The bridge *)

Stopped(c) == [c EXCEPT !.throttle = FALSE, !.brake = TRUE]

\* ControlState.effective: does the vehicle move?  The latch wins.
Driving(c) == ~c.latched /\ c.throttle /\ ~c.brake

\* apply_command.  COAST is a DRIVE without throttle, PARK an engaging PARK;
\* steering and everything else leave throttle and brakes alone.
ApplyCommand(c, a) ==
  CASE a \in {"STOP", "PARK"} -> Stopped(c)
    [] a = "CLEAR" -> [c EXCEPT !.throttle = FALSE, !.brake = FALSE]
    [] a \in {"DRIVE", "CREEP"} -> [c EXCEPT !.throttle = TRUE, !.brake = FALSE]
    [] a = "COAST" -> [c EXCEPT !.throttle = FALSE, !.brake = FALSE]
    [] a = "UNPARK" -> [c EXCEPT !.brake = FALSE]
    [] a = "NEUTRAL" -> [c EXCEPT !.throttle = FALSE]
    [] OTHER -> c

\* Mutant: the bridge releases on the command alone, not on the kernel's state.
EngageOnly(c, b) ==
  [(IF b /\ ~c.latched THEN Stopped(c) ELSE c) EXCEPT !.latched = b \/ @]

ApplyState(c, b) ==
  [(IF b /\ ~c.latched THEN Stopped(c) ELSE c) EXCEPT !.latched = b]

\* reader_loop of connection c consumes a line, be its connection lost or not.
Read(c) ==
  /\ wire[c] # <<>>
  /\ LET e == Head(wire[c]) IN
       IF e.type = "state"
       THEN /\ ctl' = ApplyState(ctl, e.latched)
            /\ told' = (told /\ ~(ctl.latched /\ ~e.latched))
            /\ heard' = (heard \/ c = conn)
       ELSE /\ ctl' = ApplyCommand(ctl, e.action)
            /\ told' = (told \/ e.action \in {"DRIVE", "CREEP", "UNPARK"})
            /\ UNCHANGED heard
  /\ wire' = [wire EXCEPT ![c] = Tail(@)]
  /\ UNCHANGED <<kernelVars, rx, link, conn, applied, held>>

\* The bridge has heard of the latch and no line is on its way to it.
HeardLatch ==
  /\ latched /\ ctl.latched /\ heard
  /\ rx = <<>> /\ \A c \in 1..MaxConn : wire[c] = <<>>

\* One turn of the control loop, which starts before the first line is read.
ControlLoop ==
  /\ link \in {"subscribed", "up"}
  /\ applied' = Driving(ctl)
  /\ held' = (held \/ HeardLatch)
  /\ UNCHANGED <<kernelVars, rx, link, conn, wire, ctl, told, heard>>

\* The socket breaks.  The loop ends when the reader thread has (no line left)
\* or when sending the pose fails, and the fail-safe takes the control lock.
Lose ==
  /\ link \in {"subscribed", "up"} /\ conn < MaxConn
  /\ link' = "safing"
  /\ rx' = <<>>
  /\ ctl' = [Stopped(ctl) EXCEPT !.latched = TRUE]
  /\ heard' = FALSE
  /\ told' = FALSE
  /\ UNCHANGED <<kernelVars, conn, wire, applied, held>>

\* vehicle.apply(*ctl.effective()), after the lock is given back.
FailSafe ==
  /\ link = "safing"
  /\ applied' = Driving(ctl)
  /\ link' = "down"
  /\ UNCHANGED <<kernelVars, rx, conn, wire, ctl, told, heard, held>>

-----------------------------------------------------------------------------
KernelStep ==
  \/ Stop \/ Clear \/ Heartbeat \/ Posted
  \/ \E t \in Latchers \ {"telemetry"} : Watchdog(t)
  \/ \E t \in Tasks \cap {"telemetry", "main"} : Geofence(t)
  \/ \E a \in Motions : Accept(a)
  \/ \E t \in Tasks : Send(t)

Next ==
  \/ KernelStep
  \/ Connect \/ Snapshot \/ Forward
  \/ \E c \in 1..MaxConn : Read(c)
  \/ ControlLoop \/ Lose \/ FailSafe

Spec == Init /\ [][Next]_vars

\* The tasks of the kernel run, sockets deliver, the bridge reads, loops and
\* reconnects.  Nothing makes an operator drive or clear, nothing latches, and
\* nothing makes the MQTT client take a heartbeat.
FairSpec ==
  /\ Spec
  /\ WF_vars(Heartbeat)
  /\ \A t \in Tasks : WF_vars(Send(t))
  /\ WF_vars(Connect) /\ WF_vars(Snapshot) /\ WF_vars(Forward)
  /\ \A c \in 1..MaxConn : WF_vars(Read(c))
  /\ WF_vars(ControlLoop) /\ WF_vars(FailSafe)

-----------------------------------------------------------------------------
(* Properties *)

\* The heartbeat task gets through its publish again and again.
HeartbeatsGoOut == []<>~posting

\* While heartbeats go out, a latch that stays engaged brakes the vehicle for
\* good, however many events the receiver dropped, whatever stale snapshot or
\* late command was sent, and through every lost connection: the 1 Hz snapshot
\* makes the bridge converge.
EventuallyBraked == HeartbeatsGoOut /\ <>[]latched => <>[]~applied

\* The other way round: while heartbeats go out, once the latch stays released
\* and no command competes for the receiver's places, the bridge hears of the
\* release.
EventuallyReleased ==
  HeartbeatsGoOut /\ <>[](~latched /\ outbox["main"] = <<>>) => <>[]~ctl.latched

-----------------------------------------------------------------------------
(* What comments in the code say of it, and the code does not keep. *)

\* main.rs:804-805: "The bridge must brake on this even with zero cloud
\* connectivity": offline the heartbeat task may wait in its publish for ever,
\* and nothing repairs the stale snapshot it sent last.
BrakedOffline == <>[]latched => <>[]~applied

\* bridge.py: "latched -> full brake + hand brake until an authorized
\* CLEAR_SAFE_STOP releases the latch".
BrakedUntilCleared == held => ~applied

\* bridge.py, on CLEAR_SAFE_STOP: "released, but not moving until told to".
NotMovingUntilTold == Driving(ctl) => told

\* bridge.py: "If the SOCKET drops, the bridge brakes on its own": the vehicle
\* is not driven again before the new connection has delivered the latch.
BrakedUntilHeard == (link # "safing" /\ ~heard) => ~applied

==============================================================================
