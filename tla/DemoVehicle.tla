---------------------------- MODULE DemoVehicle ----------------------------
(***************************************************************************)
(* The vehicle of a demo session, simulated in the tab                     *)
(* (apps/console/src/demo/simulator.ts), and what SessionContext.tsx keeps *)
(* about it: the control token and the proposal card.  Handlers are called *)
(* directly, so a proposal and its card change in one step.  Deadlines are *)
(* countdowns.                                                             *)
(*                                                                         *)
(* Left out: the position along the route, the direction of travel and the *)
(* battery, which decide nothing, and decisions for options that no card   *)
(* offers.                                                                 *)
(***************************************************************************)
EXTENDS Naturals

CONSTANTS
    None,
    WINDOW,   \* PROPOSAL_WINDOW_MS
    FIRST,    \* FIRST_PROPOSAL_MS
    GAP       \* PROPOSAL_GAP_MS

ASSUME DemoAssumption ==
    WINDOW \in Nat \ {0} /\ FIRST \in Nat /\ GAP \in Nat /\ None \notin Nat

VARIABLES
    latched, driving,   \* the simulated vehicle
    pending, gap,       \* time left of the open proposal; until the next one
    control,            \* the session holds the demo token
    card                \* the console shows a proposal

demoVars == <<latched, driving, pending, gap, control, card>>

DemoInit ==
    /\ latched = FALSE /\ driving = FALSE
    /\ pending = None /\ gap = FIRST
    /\ control = FALSE /\ card = FALSE

-----------------------------------------------------------------------------
(* What the console does with the vehicle's messages *)

\* Mutant: a withdrawn proposal is no end of it.
EndsWithoutCancelled(status) == status \in {"DECIDED", "TIMED_OUT"}

Ends(status) == status \in {"DECIDED", "TIMED_OUT", "CANCELLED"}

\* handleProposalStatus.
HandleProposalStatus(status) == card' = (card /\ ~Ends(status))

TakeControl ==
    /\ ~control /\ control' = TRUE
    /\ UNCHANGED <<latched, driving, pending, gap, card>>

-----------------------------------------------------------------------------
(* Proposals *)

\* The open proposal is over: quiet time starts and the console is told.
CloseProposal(status) ==
    /\ pending' = None /\ gap' = GAP
    /\ HandleProposalStatus(status)

TimeOut ==
    /\ ~latched /\ pending = 0
    /\ CloseProposal("TIMED_OUT")
    /\ driving' = FALSE
    /\ UNCHANGED <<latched, control>>

Propose ==
    /\ ~latched /\ pending = None /\ gap = 0
    /\ pending' = WINDOW /\ card' = TRUE
    /\ UNCHANGED <<latched, driving, gap, control>>

\* applyOutcome: waiting and a rejection stop, the reroute changes nothing.
OutcomeStops(decision) == decision # "CONFIRM"

\* The buttons of the card: its first option, the other one, which is to wait,
\* and none.
Decision == {"CONFIRM", "SELECT_ALTERNATIVE", "REJECT"}

\* decideManeuver and decideProposal.
DecideProposal(decision) ==
    /\ control /\ card
    /\ pending # None /\ pending > 0
    /\ CloseProposal("DECIDED")
    /\ driving' = (driving /\ ~OutcomeStops(decision))
    /\ UNCHANGED <<latched, control>>

DemoTick ==
    /\ (pending # None /\ pending > 0) \/ gap > 0
    /\ pending' = IF pending = None \/ pending = 0 THEN pending ELSE pending - 1
    /\ gap' = IF gap = 0 THEN 0 ELSE gap - 1
    /\ UNCHANGED <<latched, driving, control, card>>

-----------------------------------------------------------------------------
(* command *)

CancelOpenProposal ==
    IF pending = None THEN UNCHANGED <<pending, gap, card>>
    ELSE CloseProposal("CANCELLED")

\* E-STOP, from any button or the space bar, and SAFE_STOP.
StopVehicle ==
    /\ control
    /\ driving' = FALSE /\ latched' = TRUE
    /\ CancelOpenProposal
    /\ UNCHANGED control

ClearSafeStop ==
    /\ control /\ latched' = FALSE
    /\ UNCHANGED <<driving, pending, gap, control, card>>

\* A DRIVE frame is the whole pedal state.  It is sent under the token, and
\* a latched vehicle ignores it.
DriveFrame(throttle, brake) ==
    driving' = IF control /\ ~latched THEN throttle > 0 /\ brake = 0 ELSE driving

\* SELECT_DIRECTION NEUTRAL stops the vehicle as a frame without throttle does.
Neutral ==
    /\ control
    /\ DriveFrame(0, 0)
    /\ UNCHANGED <<latched, pending, gap, control, card>>

-----------------------------------------------------------------------------
DemoTime == DemoTick \/ TimeOut \/ Propose

DemoStep ==
    \/ DemoTime \/ TakeControl \/ StopVehicle \/ ClearSafeStop \/ Neutral
    \/ \E d \in Decision : DecideProposal(d)

-----------------------------------------------------------------------------
(* Properties *)

DemoTypeOK ==
    /\ {latched, driving, control, card} \subseteq BOOLEAN
    /\ pending \in (0..WINDOW) \cup {None} /\ gap \in 0..GAP \cup 0..FIRST
=============================================================================
