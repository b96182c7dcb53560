------------------------------ MODULE Maneuver ------------------------------
(***************************************************************************)
(* A maneuver proposal from the vehicle to its outcome (ICD 6): the        *)
(* proposal generator and the decision gate of the edge (main.rs), the     *)
(* cloud's table of open proposals (maneuver.service.ts) and the           *)
(* operators' decide requests (maneuver.controller.ts).                    *)
(*                                                                         *)
(* The vehicle publishes at least once and in order: its messages form a   *)
(* log, and a reconnect moves the cloud's position in it back.  Decisions  *)
(* travel one by one and may be lost, which stands for the gates a command *)
(* passes before the latch gate too.  Durations are countdowns.  EDR rows, *)
(* which nothing here reads, and the choice among the options are left     *)
(* out.                                                                    *)
(***************************************************************************)
EXTENDS Naturals, Sequences

CONSTANTS
    None,
    Request,         \* decide requests, each used once
    MaxProposals,    \* how many proposals the vehicle makes
    Window,          \* validity_ms: 30 s
    Gap,             \* PROPOSAL_MIN_GAP_MS: 120 s
    Grace,           \* the cloud's 2 s on top of the window
    MaxReconnects,   \* how often the vehicle repeats messages
    MaxLatches       \* how often a safe stop latches the vehicle

ASSUME ManeuverAssumption ==
    /\ MaxProposals \in Nat /\ MaxReconnects \in Nat /\ MaxLatches \in Nat
    /\ Window \in Nat \ {0} /\ Gap \in Nat /\ Grace \in Nat
    /\ None \notin Nat /\ None \notin [id : Nat, left : Nat]

Proposal == 1..MaxProposals

VARIABLES
    latched,     \* the vehicle's safe-stop latch
    latches,     \* latchings so far
    prop,        \* active_proposal: None, or its id and the time left
    made,        \* proposals made so far
    gap,         \* time until the next proposal may be made
    outcome,     \* per proposal: what the vehicle did about it, in order
    log,         \* maneuver messages of the vehicle, in order
    pos,         \* messages the cloud has handled
    reconnects,  \* repetitions so far
    card,        \* activeProposals: per proposal, None or its timer
    stray,       \* timers of entries that a repeated proposal replaced
    req,         \* per request: progress and proposal
    net,         \* decisions on their way to the vehicle
    refused      \* auxiliary: proposals a decision for which was refused

edgeVars == <<latched, latches, prop, made, gap, outcome>>
logVars == <<log, pos, reconnects>>
cloudVars == <<card, stray>>
decisionVars == <<req, net, refused>>
vars == <<edgeVars, logVars, cloudVars, decisionVars>>

Init ==
    /\ latched = FALSE /\ latches = 0
    /\ prop = None /\ made = 0 /\ gap = 0
    /\ outcome = [p \in Proposal |-> <<>>]
    /\ log = <<>> /\ pos = 0 /\ reconnects = 0
    /\ card = [p \in Proposal |-> None]
    /\ stray = [p \in Proposal |-> {}]
    /\ req = [q \in Request |-> [pc |-> "new", p |-> None]]
    /\ net = {} /\ refused = {}

Down(n) == IF n = 0 THEN 0 ELSE n - 1

\* A unit of time passes for the vehicle and for the cloud.
Tick ==
    /\ prop' = IF prop = None THEN None
               ELSE [id |-> prop.id, left |-> Down(prop.left)]
    /\ gap' = Down(gap)
    /\ card' = [p \in Proposal |-> IF card[p] = None THEN None
                                   ELSE Down(card[p])]
    /\ stray' = [p \in Proposal |-> {Down(n) : n \in stray[p]}]
    /\ UNCHANGED <<latched, latches, made, outcome, logVars, decisionVars>>

-----------------------------------------------------------------------------
(* The vehicle                                                             *)

\* A safe stop, for whatever reason, and its release.
Latch ==
    /\ ~latched /\ latches < MaxLatches
    /\ latched' = TRUE /\ latches' = latches + 1
    /\ UNCHANGED <<prop, made, gap, outcome, logVars, cloudVars, decisionVars>>

Unlatch ==
    /\ latched /\ latched' = FALSE
    /\ UNCHANGED <<latches, prop, made, gap, outcome, logVars, cloudVars,
                   decisionVars>>

\* The vehicle settles proposal p and says so.
Settle(p, how) ==
    /\ prop' = None
    /\ outcome' = [outcome EXCEPT ![p] = Append(@, [how |-> how,
                                                    left |-> prop.left])]
    /\ log' = Append(log, [kind |-> how, p |-> p])

\* The generator's tick finds the window closed: the safe default.
TimeOut ==
    /\ ~latched
    /\ prop # None /\ prop.left = 0
    /\ Settle(prop.id, "TIMED_OUT")
    /\ UNCHANGED <<latched, latches, made, gap, pos, reconnects, cloudVars,
                   decisionVars>>

\* Mutant: a new proposal replaces the active one.
ProposeOver ==
    /\ ~latched
    /\ gap = 0 /\ made < MaxProposals
    /\ made' = made + 1
    /\ prop' = [id |-> made + 1, left |-> Window]
    /\ gap' = Gap
    /\ log' = log \o <<[kind |-> "PROPOSAL", p |-> made + 1],
                       [kind |-> "PENDING", p |-> made + 1]>>
    /\ UNCHANGED <<latched, latches, outcome, pos, reconnects, cloudVars,
                   decisionVars>>

\* The generator's tick finds no proposal and makes one.
Propose ==
    /\ ~latched
    /\ prop = None /\ gap = 0 /\ made < MaxProposals
    /\ made' = made + 1
    /\ prop' = [id |-> made + 1, left |-> Window]
    /\ gap' = Gap
    /\ log' = log \o <<[kind |-> "PROPOSAL", p |-> made + 1],
                       [kind |-> "PENDING", p |-> made + 1]>>
    /\ UNCHANGED <<latched, latches, outcome, pos, reconnects, cloudVars,
                   decisionVars>>

\* Mutant: no look at the deadline, which the generator expires lazily.
MatchedById(p) == prop # None /\ prop.id = p

\* The decision gate: the proposal is the active one and its window is open.
Matched(p) == prop # None /\ prop.id = p /\ prop.left > 0

\* A decision arrives: the latch gate, then the decision gate.
ReceiveDecision(d) ==
    /\ d \in net
    /\ net' = net \ {d}
    /\ \/ /\ ~latched /\ Matched(d.p)
          /\ Settle(d.p, "DECIDED")
          /\ UNCHANGED refused
       \/ /\ latched \/ ~Matched(d.p)
          /\ refused' = refused \cup {d.p}
          /\ UNCHANGED <<prop, outcome, log>>
    /\ UNCHANGED <<latched, latches, made, gap, pos, reconnects, cloudVars, req>>

LoseDecision(d) ==
    /\ d \in net
    /\ net' = net \ {d}
    /\ UNCHANGED <<edgeVars, logVars, cloudVars, req, refused>>

-----------------------------------------------------------------------------
(* The cloud                                                               *)

\* Mutant: the grace period taken off the window instead of added to it.
ShortTimer == Window - Grace

CloudTimer == Window + Grace

Closes(kind) == kind \in {"DECIDED", "TIMED_OUT"}

\* handleProposal and handleStatusUpdate up to their first await.
HandleIncoming ==
    LET msg == log[pos + 1] IN
    /\ pos < Len(log)
    /\ pos' = pos + 1
    /\ \/ /\ msg.kind = "PROPOSAL"
          /\ card' = [card EXCEPT ![msg.p] = CloudTimer]
          /\ stray' = [stray EXCEPT ![msg.p] =
                         IF card[msg.p] = None THEN @ ELSE @ \cup {card[msg.p]}]
       \/ /\ Closes(msg.kind)
          /\ card' = [card EXCEPT ![msg.p] = None]
          /\ UNCHANGED stray
       \/ /\ msg.kind # "PROPOSAL" /\ ~Closes(msg.kind)
          /\ UNCHANGED cloudVars
    /\ UNCHANGED <<edgeVars, log, reconnects, decisionVars>>

\* The vehicle reconnects and repeats what was not acknowledged.
Reconnect ==
    /\ reconnects < MaxReconnects
    /\ reconnects' = reconnects + 1
    /\ pos' \in 0..pos
    /\ UNCHANGED <<edgeVars, log, cloudVars, decisionVars>>

\* Mutant: the timer only logs that the proposal has timed out.
TimerLogsOnly(p) ==
    /\ 0 \in stray[p]
    /\ stray' = [stray EXCEPT ![p] = @ \ {0}]
    /\ UNCHANGED <<card, edgeVars, logVars, decisionVars>>

\* The timer of the entry, or of one that was replaced, deletes the entry.
CardTimesOut(p) ==
    /\ \/ card[p] = 0 /\ UNCHANGED stray
       \/ 0 \in stray[p] /\ stray' = [stray EXCEPT ![p] = @ \ {0}]
    /\ card' = [card EXCEPT ![p] = None]
    /\ UNCHANGED <<edgeVars, logVars, decisionVars>>

\* decide: an open proposal, then awaits for the token and the EDR row.
Decide(q, p) ==
    /\ req[q].pc = "new"
    /\ card[p] # None
    /\ req' = [req EXCEPT ![q] = [pc |-> "publish", p |-> p]]
    /\ UNCHANGED <<edgeVars, logVars, cloudVars, net, refused>>

\* The token is invalid, the envelope does not validate, or the client is
\* offline: nothing is sent and the proposal stays open.
DecideFails(q) ==
    /\ req[q].pc = "publish"
    /\ req' = [req EXCEPT ![q] = [pc |-> "done", p |-> @.p]]
    /\ UNCHANGED <<edgeVars, logVars, cloudVars, net, refused>>

\* publish, then resolveProposal.
PublishDecision(q) ==
    LET p == req[q].p IN
    /\ req[q].pc = "publish"
    /\ req' = [req EXCEPT ![q] = [pc |-> "sent", p |-> p]]
    /\ net' = net \cup {[q |-> q, p |-> p]}
    /\ card' = [card EXCEPT ![p] = None]
    /\ UNCHANGED <<edgeVars, logVars, stray, refused>>

-----------------------------------------------------------------------------
Next ==
    \/ Tick
    \/ Latch \/ Unlatch
    \/ TimeOut \/ Propose
    \/ \E d \in net : ReceiveDecision(d) \/ LoseDecision(d)
    \/ HandleIncoming \/ Reconnect
    \/ \E p \in Proposal : CardTimesOut(p)
    \/ \E q \in Request :
         \/ \E p \in Proposal : Decide(q, p)
         \/ DecideFails(q)
         \/ PublishDecision(q)

Spec == Init /\ [][Next]_vars

(***************************************************************************)
(* Time passes, the generator's two-second interval fires, the cloud's     *)
(* event loop runs its timers and the broker delivers.  Nobody has to      *)
(* decide, and a latch need not be released.                               *)
(***************************************************************************)
FairSpec ==
    /\ Spec
    /\ WF_vars(Tick) /\ WF_vars(TimeOut) /\ WF_vars(HandleIncoming)
    /\ \A p \in Proposal : WF_vars(CardTimesOut(p))

-----------------------------------------------------------------------------
(* Properties                                                              *)

TypeOK ==
    /\ latched \in BOOLEAN /\ latches \in 0..MaxLatches
    /\ prop \in [id : Proposal, left : 0..Window] \cup {None}
    /\ made \in 0..MaxProposals /\ gap \in 0..Gap
    /\ outcome \in [Proposal -> Seq([how : {"DECIDED", "TIMED_OUT"},
                                     left : 0..Window])]
    /\ log \in Seq([kind : {"PROPOSAL", "PENDING", "DECIDED", "TIMED_OUT"},
                    p : Proposal])
    /\ pos \in 0..Len(log) /\ reconnects \in 0..MaxReconnects
    /\ card \in [Proposal -> (0..CloudTimer) \cup {None}]
    /\ stray \in [Proposal -> SUBSET (0..CloudTimer)]
    /\ req \in [Request -> [pc : {"new", "publish", "sent", "done"},
                            p : Proposal \cup {None}]]
    /\ net \subseteq [q : Request, p : Proposal]
    /\ refused \subseteq Proposal

\* main.rs:1643-1647.  However decisions, the generator and the latch
\* interleave, a proposal has at most one outcome: a decision taken inside the
\* window, or the safe default after it.
OneOutcome ==
    \A p \in Proposal :
        /\ Len(outcome[p]) <= 1
        /\ \A k \in DOMAIN outcome[p] :
             (outcome[p][k].how = "DECIDED") <=> (outcome[p][k].left > 0)

\* Requests have decided p, or are about to.
Answered(p) == \E q \in Request : req[q].p = p /\ req[q].pc = "sent"

\* The cloud has seen proposal p.
Seen(p) == \E k \in 1..pos : log[k] = [kind |-> "PROPOSAL", p |-> p]

\* maneuver.service.ts:99-103, "+2s grace: edge is authoritative".  As long as
\* the vehicle would still take a decision and none was sent, the cloud keeps
\* the proposal open: neither its timers nor repeated messages close it early.
CardOutlivesWindow ==
    \A p \in Proposal :
        prop # None /\ prop.id = p /\ prop.left > 0 /\ Seen(p) /\ ~Answered(p)
            => card[p] # None

\* Once the vehicle stays unlatched, every proposal reaches its outcome: nobody
\* has to answer, messages may be lost, and a latch that covered the whole
\* window only delays the safe default.
EventuallySettled ==
    <>[]~latched =>
        \A p \in Proposal : made >= p ~> outcome[p] # <<>>

\* Every open proposal is closed in the cloud, although messages repeat and
\* decisions get lost.
CardsClose == \A p \in Proposal : []<>(card[p] = None)

\* A proposal as the contract sees it.
Status(p) ==
    IF p > made THEN "unborn"
    ELSE IF outcome[p] = <<>> THEN "open" ELSE outcome[p][1].how

Contract == INSTANCE ProposalContract
                WITH MaxProposals <- MaxProposals,
                     status <- [p \in Proposal |-> Status(p)]

\* main.rs:1643-1665 and the generator: deadlines that expire lazily, latches
\* that cover a window, lost and repeated messages and late decisions leave
\* the contract as it is.
ImplementsContract == Contract!Spec

-----------------------------------------------------------------------------
(***************************************************************************)
(* What makes the two inductive.  The active proposal has no outcome yet,  *)
(* so no message of the log closes it, and no timer of the cloud for it    *)
(* runs out before its window.                                             *)
(***************************************************************************)
Fresh ==
    /\ \A p \in Proposal : p > made => outcome[p] = <<>>
    /\ prop # None => prop.id <= made /\ outcome[prop.id] = <<>>

LogHonest ==
    \A k \in DOMAIN log :
        /\ log[k].p <= made
        /\ Closes(log[k].kind) => outcome[log[k].p] # <<>>

TimersOutlast ==
    /\ \A p \in Proposal : p > made => card[p] = None /\ stray[p] = {}
    /\ prop # None =>
         /\ card[prop.id] # None => card[prop.id] >= prop.left
         /\ \A n \in stray[prop.id] : n >= prop.left

Requests == \A q \in Request : req[q].pc # "new" => req[q].p \in Proposal

ManeuverInv == /\ TypeOK
               /\ Fresh
               /\ LogHonest
               /\ TimersOutlast
               /\ Requests
               /\ OneOutcome
               /\ CardOutlivesWindow

-----------------------------------------------------------------------------
\* main.rs:1662-1664: "The proposal stays active on a refusal - the operator
\* can retry within the window".  While the vehicle still waits for a decision
\* of which it has refused one, the cloud would accept another.
RetryWithinWindow ==
    \A p \in Proposal :
        /\ prop # None /\ prop.id = p /\ prop.left > 0
        /\ p \in refused /\ ~latched
        => card[p] # None
=============================================================================
