----------------------------- MODULE TeleopLoop -----------------------------
(***************************************************************************)
(* The manual-driving panel (teleop/TeleopPanel.tsx, useTeleopInput.ts,    *)
(* profiles.ts and the buttons of pages/Operations.tsx) in a demo session, *)
(* where its frames reach the simulated vehicle at once and the zone       *)
(* always allows Mode 2.  Throttle and brake are levels from 0 to FULL and *)
(* share a frame.  An interval callback may be late, so a poll eases by    *)
(* any step up to the ramp, and it may or may not be the time to send.     *)
(*                                                                         *)
(* Left out: steering, whose frames are its own and move nothing.          *)
(***************************************************************************)
EXTENDS DemoVehicle

CONSTANTS
    FULL,                   \* 100 %
    UP, DOWN,               \* RAMP.throttleUp and throttleDown, per poll
    BRAKE_UP, BRAKE_DOWN,   \* RAMP.brakeUp and brakeDown
    EPS                     \* PEDAL_EPS_PCT

ASSUME TeleopAssumption ==
    {FULL, UP, DOWN, BRAKE_UP, BRAKE_DOWN, EPS} \subseteq Nat \ {0}

VARIABLES
    panel,      \* away (another page), idle or enabled
    held,       \* per pedal: the level the device asks for
    cur, last,  \* the eased level; the level of the last frame the loop sent
    button      \* the newest frame is a button's

teleopVars == <<panel, held, cur, last, button>>

Pedal == {"throttle", "brake"}
Pedals == [Pedal -> 0..FULL]
NoPedal == [p \in Pedal |-> 0]

TeleopInit ==
    panel = "away" /\ held = NoPedal /\ cur = NoPedal /\ last = NoPedal /\ button = FALSE

Armed == panel = "enabled" /\ control

\* What every effect run of a panel that is not active does, and so does the
\* unmount of an active one.
Release ==
    /\ DriveFrame(0, 0)
    /\ held' = NoPedal /\ cur' = NoPedal /\ last' = NoPedal
    /\ button' = (button /\ ~control)

OtherDemoVars == <<latched, pending, gap, control, card>>

\* The Operations page is opened: the panel mounts, not enabled.
OpenPanel ==
    /\ panel = "away" /\ panel' = "idle"
    /\ Release
    /\ UNCHANGED OtherDemoVars

\* Mutant: nothing is sent when the panel goes away.
LeaveSilently ==
    /\ panel # "away" /\ panel' = "away"
    /\ held' = NoPedal /\ cur' = NoPedal /\ last' = NoPedal
    /\ UNCHANGED <<driving, button, OtherDemoVars>>

LeavePanel ==
    /\ panel # "away" /\ panel' = "away"
    /\ IF Armed THEN Release
       ELSE /\ held' = NoPedal /\ cur' = NoPedal /\ last' = NoPedal
            /\ UNCHANGED <<driving, button>>
    /\ UNCHANGED OtherDemoVars

Enable ==
    /\ panel = "idle" /\ control
    /\ panel' = "enabled"
    /\ UNCHANGED <<held, cur, last, button, demoVars>>

Disable ==
    /\ panel = "enabled" /\ control
    /\ panel' = "idle"
    /\ Release
    /\ UNCHANGED OtherDemoVars

\* A key or a trigger; blur releases the keys, one after the other.
Hold(p, level) ==
    /\ Armed /\ held[p] # level /\ held' = [held EXCEPT ![p] = level]
    /\ UNCHANGED <<panel, cur, last, button, demoVars>>

\* The device is changed: the effect of the inactive panel runs again.
SelectDevice ==
    /\ panel = "idle"
    /\ Release
    /\ UNCHANGED <<panel, OtherDemoVars>>

\* The on-screen throttle and brake buttons.
PedalButton ==
    /\ panel # "away" /\ control
    /\ DriveFrame(1, 0) \/ DriveFrame(0, 1)
    /\ button' = (button \/ ~latched)
    /\ UNCHANGED <<panel, held, cur, last, OtherDemoVars>>

Ease(from, to, step) ==
    IF from < to THEN IF from + step < to THEN from + step ELSE to
    ELSE IF from > to + step THEN from - step ELSE to

Distance(a, b) == IF a < b THEN b - a ELSE a - b

\* Mutant: a change of exactly the threshold is not sent.
MovedPast(pedals) == \E p \in Pedal : Distance(pedals[p], last[p]) > EPS

\* The levels are worth a frame.
Moved(pedals) == \E p \in Pedal : Distance(pedals[p], last[p]) >= EPS

\* The pedals as they are at the next poll, for the steps that dt allows.
Ramp(p) ==
    LET rising == held[p] > cur[p] IN
    1..(IF p = "throttle" THEN IF rising THEN UP ELSE DOWN
                          ELSE IF rising THEN BRAKE_UP ELSE BRAKE_DOWN)

Eased ==
    {[p \in Pedal |-> Ease(cur[p], held[p], IF p = "throttle" THEN t ELSE b)] :
        t \in Ramp("throttle"), b \in Ramp("brake")}

\* A poll that only eases, and one at which it is time to send.
Poll(pedals) ==
    /\ Armed /\ cur # held
    /\ cur' = pedals
    /\ UNCHANGED <<panel, held, last, button, demoVars>>

Send(pedals) ==
    /\ Armed
    /\ cur' = pedals
    /\ IF Moved(pedals)
       THEN /\ last' = pedals /\ button' = FALSE
            /\ DriveFrame(pedals["throttle"], pedals["brake"])
       ELSE UNCHANGED <<last, driving, button>>
    /\ UNCHANGED <<panel, held, OtherDemoVars>>

-----------------------------------------------------------------------------
LoopSends == \E pedals \in Eased : Send(pedals)

TeleopStep ==
    \/ OpenPanel \/ LeavePanel \/ Enable \/ Disable \/ SelectDevice
    \/ PedalButton
    \/ \E p \in Pedal, level \in 0..FULL : Hold(p, level)
    \/ \E pedals \in Eased : Poll(pedals)
    \/ LoopSends

SessionStep == TeleopStep \/ (DemoStep /\ UNCHANGED teleopVars)

-----------------------------------------------------------------------------
(* Properties *)

TeleopTypeOK ==
    /\ panel \in {"away", "idle", "enabled"} /\ button \in BOOLEAN
    /\ {held, cur, last} \subseteq Pedals

\* useTeleopInput.ts:124-134: the stick moves the vehicle only while the panel
\* is armed and its last frame asked for throttle, without the brake.  However
\* the operator disarms it, or leaves the page, no frame of the loop stays in
\* force.
NoFrameLeftBehind ==
    driving /\ ~button => Armed /\ last["throttle"] > 0 /\ last["brake"] = 0
=============================================================================
