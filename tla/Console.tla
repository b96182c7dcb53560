------------------------------ MODULE Console ------------------------------
(***************************************************************************)
(* A tab of the operator console: the gate with the live connection        *)
(* (CloudSession), the demo session (TeleopLoop over DemoVehicle) and the  *)
(* control session of an operator (OperatorSession).                       *)
(*                                                                         *)
(* The sessions' state belongs to the mounted provider: entering or        *)
(* leaving a session or loading the page starts it afresh, and a page in   *)
(* the back-forward cache does not run.  A session shares no variable with *)
(* the hook but the tokens an operator's reads, so the two are interleaved *)
(* only when the hook is at rest, and a demo is explored once, in a tab    *)
(* where no sign-in has left a trace.                                      *)
(***************************************************************************)
EXTENDS CloudSession, TeleopLoop, OperatorSession

sessionVars == <<demoVars, teleopVars>>
consoleVars == <<cloudVars, sessionVars, operatorVars>>

ConsoleInit == CloudInit /\ DemoInit /\ TeleopInit /\ OperatorInit

\* A provider's state is new.  Whatever the lock is by now, LockMoves makes of 0.
Fresh ==
    /\ latched' = FALSE /\ driving' = FALSE
    /\ pending' = None /\ gap' = FIRST
    /\ control' = FALSE /\ card' = FALSE
    /\ panel' = "away" /\ held' = NoPedal /\ cur' = NoPedal /\ last' = NoPedal
    /\ button' = FALSE
    /\ token' = 0 /\ calls' = {} /\ lock' = 0

Runs(m) ==
    /\ mounted /\ mode = m /\ ~away /\ \A x \in tasks : x.at = "up"
    /\ m = "demo" => TRUE \notin {tokens, code, verifier, leaving, policy}

Remount == SelectDemo \/ EnterOperator \/ Leave \/ (\E c \in BOOLEAN : Load(c))
Kept == SignIn \/ Depart \/ Back \/ HookStep \/ LinkLost \/ CredentialsExpire

\* The timers of a demo: the proposal generator and the control loop.
DemoTimers ==
    Runs("demo") /\ DemoTime /\ UNCHANGED <<cloudVars, teleopVars, operatorVars>>
LoopTimer == Runs("demo") /\ LoopSends /\ UNCHANGED <<cloudVars, operatorVars>>

InOperator(A) == Runs("operator") /\ A /\ UNCHANGED <<cloudVars, sessionVars>>

HeartbeatTimer == InOperator(SendHeartbeat)
Service == InOperator(\E c \in calls : Serve(c, tokens))
Hearing == InOperator(\E c \in calls : Hear(c))

ConsoleNext ==
    \/ Remount /\ Fresh
    \/ Kept /\ calls = {} /\ UNCHANGED <<sessionVars, operatorVars>>
    \/ TokensExpire /\ UNCHANGED <<sessionVars, operatorVars>>
    \/ Runs("demo") /\ SessionStep /\ UNCHANGED <<cloudVars, operatorVars>>
    \/ HeartbeatTimer \/ Service \/ Hearing
    \/ InOperator(LockMoves \/ RequestControl \/ CmdPost
                  \/ \E c \in calls : Lose(c))

\* Timers fire and requests are answered.  The heartbeat goes out every 2 s:
\* that not every answer is lost is assumed of the network.
ConsoleSpec ==
    /\ ConsoleInit /\ [][ConsoleNext]_consoleVars
    /\ WF_consoleVars(HookStep /\ UNCHANGED <<sessionVars, operatorVars>>)
    /\ WF_consoleVars(DemoTimers) /\ WF_consoleVars(LoopTimer)
    /\ WF_consoleVars(HeartbeatTimer) /\ SF_consoleVars(Service)
    /\ SF_consoleVars(Hearing)

-----------------------------------------------------------------------------
(* Properties *)

ConsoleTypeOK == CloudTypeOK /\ DemoTypeOK /\ TeleopTypeOK /\ OperatorTypeOK

\* simulator.ts:223-227: the vehicle does not wait for an operator.  Every
\* proposal of a demo session that goes on ends, whatever the operator does.
ProposalSettles == card ~> ~card \/ away

\* useTeleopInput.ts:4-8: while the pedals are held where they are, the loop
\* brings the last frame to within the send threshold of both, and leaves it.
FrameFollowsStick ==
    <>[](Runs("demo") /\ Armed) /\ <>[][FALSE]_held
        => <>[](\A p \in Pedal : Distance(last[p], held[p]) < EPS)

\* Not kept.  simulator.ts:366-367, the loop "sends {throttle: 0, brake: 0} the
\* moment the operator releases the stick": a stick that stays released stops
\* the vehicle.  A last frame below the threshold is never followed by a zero.
ReleasedStickStops ==
    <>[](Runs("demo") /\ Armed /\ held = NoPedal /\ ~button) => <>[]~driving

\* SessionContext.tsx:271-289 and 308: a console whose session has ended on
\* the service finds out, even if its operator does nothing, unless the ID
\* token has expired: the heartbeat does not look at a 401.
ConsoleLearns ==
    <>[](Runs("operator") /\ tokens) => []<>(token = 0 \/ token = lock)

\* Not kept: a console whose token is in the lock keeps it.  Answers are
\* applied without a look at the token they are about, so a late one for an
\* earlier session drops the present one.
OwnTokenKept ==
    [][Hearing /\ tokens /\ token # 0 /\ token = lock => token' = token]_consoleVars
=============================================================================
