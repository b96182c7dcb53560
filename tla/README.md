# Joppilot in TLA+

Formal models of joppilot, a teleoperation system: a safety kernel on the
vehicle (`src/edge/sim`, Rust), an actuation bridge beside it
(`src/edge/carla-bridge`, Python), NestJS services in the cloud
(`src/services/*`), joined by MQTT, Redis and Postgres, and a React console
(`src/apps/console`).  TLC checks each model
on small instances; TLAPS proves every safety property of the runs for all
values of the constants.  `PROJECT.json` is the index: runs, mutants, the map from
definitions to source lines, hazards, theorems.

    tlc -workers 2 -config session_deadman.cfg MCSessionLock     # a run
    tlapm SessionLockProofs.tla                                  # a proof

Contents: 1 the system, 2 inventory, 3 modules and code, 4 runs and bounds,
5 fairness, 6 proofs, 7 where the code departs from its words, 8 what is not
modelled, 9 plan.

## 1. The system

An operator sits at a console and sends commands over HTTP to the command
service (**Gate 1**).  The service checks session, role, assignment, mode and
zone, signs an envelope and publishes it over MQTT.  The vehicle's safety
kernel (**Gate 2**) trusts none of that: it verifies the signature, addressee,
TTL, fencing token and command id, and then its own latch, zone, permit and
diagnostics rules, before a command reaches the actuation channel.  The
*safe-stop latch* is the kernel's central state: anything may engage it, and
only an authorised CLEAR_SAFE_STOP may release it.  Evidence (the EDR, an
append-only table) is written by the cloud and by the vehicle's event log,
which is uploaded losslessly.

    console --HTTP--> command service --MQTT--> kernel --TCP--> bridge --> vehicle
                        |   ^    |                 |  ^            |
                      Redis |  Postgres            |  +-- pose ----+
                            +----- acks, heartbeats, log batches, maneuvers
    console --HTTP--> fleet service --> Postgres
    kernel  --MQTT--> telemetry service (link supervision, samples) --> Postgres
    kernel  --MQTT--> IoT rule --> SQS --> telemetry-ingest function --> Postgres
    console --WSS---> IoT broker (live telemetry, read only)

A visitor chooses a mode at the console's gate: a demo, whose vehicle is
simulated in the tab, or an operator session behind a Hosted-UI sign-in, which
dials the broker itself and sends commands through the services.  Samples are
stored by exactly one of two writers, the telemetry service in a local
deployment and a queue-fed function in the cloud.

Everything hard here comes from concurrency and partial failure: five tokio
tasks that share mutex-protected variables and act on them after unlocking;
async request handlers on several instances, and hooks of the console, that are
cut at every await; MQTT that loses, repeats and delays; timers that race late
answers; restarts that forget in-memory state.

## 2. Inventory

| component | state | operations | interacts with | what makes it correct |
|---|---|---|---|---|
| Safety kernel, `edge/sim/src/main.rs` | latch, newest token, dedup store, zone state, contact and pose times, the MQTT client's request channel | command handler and its gates, deadman ping, zone config, two watchdogs, telemetry/geofence, heartbeat | MQTT, actuation channel, event log | fencing order, idempotency, only CLEAR releases, silence latches in bounded time, no Mode 2 outside an open permit; a vehicle outside its territory latches while the link takes requests |
| Event log and upload | bounded buffer, boot id, sequence, batch in flight; EDR rows | log, drain, ack, reboot; `recordEdgeLogBatch` | MQTT, Postgres | an event leaves the buffer only into the EDR or by capacity; upload progresses |
| Operator session, `session.service.ts`, `assignment.service.ts` | Redis lock, assignments, deadman timers per instance | take control, handover, heartbeat, command, assign, revoke, deadman callback | Redis, Postgres, vehicle's fence | while no instance dies, every session is covered by a timer and ends in a stop; a lost session stays lost |
| Missions and checklists, `services/fleet` | missions, checklists, audit rows | create (mission, checklist, link, clean-up), start/pause/..., item update, confirm | Postgres | no unchecked departure, no dirty confirmation, no orphan after one failing call |
| Maneuver proposals, `main.rs`, `maneuver.*.ts` | active proposal, cloud's table and timers | propose, lazy timeout, decide, incoming messages | MQTT | one outcome, on the right side of the deadline; every card closes |
| Dispatch and evidence, `command.controller.ts`, `mqtt.service.ts` | EDR rows, ack watchers | log PENDING, publish, ack handler, NO_ACK watcher | MQTT, Postgres | every answer joins its command's chain; every command gets an outcome |
| Actuation channel and bridge, `main.rs`, `bridge.py` | broadcast receiver, socket, ControlState | send, forward, read, apply, control loop, fail-safe, reconnect | kernel tasks | while heartbeats go out, a latch that stays brakes for good and a release arrives |
| Zone delivery, `zone.service.ts`, `main.rs` | registry, revisions, retained document, vehicle's zone | setZone, publish, handler, expiry, restarts | MQTT | vehicle and cloud agree on what was delivered |
| Heartbeat consumers, both `mqtt.service.ts` | last latch flag, rows; link age and status | record transition, insert; handle heartbeat, evaluate links | MQTT, Postgres | status tells the silence; every row stands for a latching, a restart or a repeated heartbeat |
| Telemetry persistence, `telemetry-writer.service.ts`, `infra/lambda/telemetry-ingest` | write-behind buffer, batches at the database; queue, receive counts, dead letters | enqueue, flush by timer and threshold, schema retry, restart; receive, insert, report, redeliver, expire | MQTT, SQS, Postgres | one writer; only what is stored is deleted from the queue; a record without the required fields fails alone (a mistyped one does not, section 7) |
| Console cloud access, `apps/console/src/aws`, `mode` | mode and tokens of a tab, generation, dials, client, redial timer | choose, sign in, come back, exchange, attach, dial, fail, redial, tear down | Cognito, API Gateway, IoT broker | a dial that was overtaken opens nothing; a session is one thread that carries on, or an error after a refused subscription (section 7); LIVE is true |
| Operator console, `SessionContext.tsx`, `teleop/*` | fencing token, calls in flight; throttle and brake: held, eased and last frame | take control, heartbeat, commands; poll, send, disarm, buttons | command service, demo vehicle | a console learns that its session ended; frames follow the pedals; no panel leaves a frame behind |
| Demo simulator, `demo/simulator.ts` | latch, driving flag, proposal, card | commands, proposal generator, deadlines, decisions | console | every proposal ends and its card with it |
| Auth and roles, gateways, infrastructure | – | – | – | see 8 |

The hazards, each at its line and with the properties that cover it, are in
`PROJECT.json`.

## 3. Modules and the code

Every action stands for a whole handler, or for the part of it between two
awaits (TypeScript) or between two mutex acquisitions that other tasks can
interleave with (Rust).  What a handler does after its last shared read is
part of that step.

**ZoneModePolicy** – mode inference, the zone/mode matrix and the
disruptive-diagnostics rule as pure operators (kernel and contract package).

**VehicleKernel** – one run of the kernel. `latched`, `newestToken`,
`acks`/`order` (dedup store, oldest first), `zoneState`, `lastContact`/`armed`,
`ext`/`lastPose` are the mutex-protected variables. A command passes
`RejectUnverified`, `ReplayDuplicate`, `RefuseAdmission`, the stop and clear
actions and `PassLatchGate`, then the zone gate, then the permit/diagnostics
gate: the handler is cut where it re-reads state other tasks write. A task
decides under its mutexes and performs its effects afterwards, one by one:
`outbox[t]` and `Emit(t)`. A publish needs room in the MQTT client's request
channel (`requests`, 64 in the code) and its task does nothing else until there
is some; room is made by `Poll` alone, which the main loop reaches only between
messages, and other tasks take it too (`OtherRequest`). Abstractions: the
watchdogs read and latch in one step (a spurious latch in between is
fail-safe); watchdog tasks are punctual (the clock waits for them); `Running`
names the tasks an instance schedules, leaving one out keeps the behaviours in
which it has not run yet; signatures are a Boolean of the envelope; position is
*inside or not*, speed *moving or not*. Maneuver decisions have a module of
their own.

**SafeStopLatch** – the latch contract without commands, zones or channels:
who may engage and release, and two watchdogs.  `VehicleKernel!Latch` is the
refinement (`ImplementsLatch`, variables of the same names).

**LogSync** – buffer `low+1..seq` of a boot, whose oldest events a
full buffer discards, drain task, acks, reboot, a
network of sets, handlers cut at `findFirst`, `create` and the ack.  The 5 s
for which an unacknowledged batch is left alone is a nondeterministic delay;
duplicates come from retries.

**SessionLock** – Redis key, assignments, deadman timers of several instances,
requests cut at their awaits, and the vehicle's fence. Requests are numbered
and a token is the request that minted it. Durations are countdowns; the clock,
only needed for `issuedAt`, saturates at `MaxTime`. A deadman callback ends
before the next timer of its instance can fire. `Crash` is an instance that
stops, and a callback whose Redis get or EDR insert fails: nothing catches it,
and Node ends the process. Timers, the callback and the requests of the
instance are gone; a command it cut short is one that was never delivered. The
code calls this layer best-effort (session.service.ts:70-79); the vehicle's own
watchdog is the backstop, see VehicleKernel.

**FleetMission** – mission requests cut at their queries, the two of `start`
(the mission, then its checklist) included; item updates and confirmations are
one step because their transactions take an advisory lock first. The verdict of
an item update is not validated (fleet.controller.ts:60): one that is neither
PASS nor FAIL is stored as it comes, and counts as neither pending nor failed.
Every query of every request may fail, up to `MaxFaults` times per request.
Requests are one-shot; requests the session gate refuses change nothing; a
confirmation's age is membership in `recent`.

**Maneuver** – the vehicle's messages form a log that the cloud reads in
order; a reconnect moves its position back (at least once).  Decisions travel
singly and may be lost.  The choice among options and EDR rows are left out.

**ProposalContract** – what ICD 6 promises about proposals, without deadlines,
latches, messages and operators: made one after the other, each settled once
and for all before the next.  `Maneuver!Contract` is the refinement
(`ImplementsContract`); a proposal's status is computed from `made` and
`outcome`.

**CommandEvidence** – per command the EDR rows, publish, answer, concurrent
ack handlers and the watcher.  Both publishes of an E-STOP test
`client.connected` in the same turn of the event loop, so PUBLISH_DEGRADED is
never written.

**Actuation** – the kernel's senders (`outbox` per task, after the mutex is
released), a bounded receiver that drops the oldest, the socket, one reader
thread per connection that outlives it, ControlState, the control loop and the
fail-safe.  The heartbeat task sends its snapshot and then waits in its publish
(`posting`) until the MQTT client takes it, for ever if need be.  `Lose` detects
the lost connection and changes ControlState under the lock; `FailSafe` applies
it after the lock is given back.  `Latchers` are the tasks an instance lets latch.

**ZoneDelivery** – setZone, revisions that start from the clock, the retained
document, a clean vehicle session, restarts of both sides.  Zone types are
two classes, those that open Mode 2 and those that do not.  A restart takes
longer than revisions run ahead of the clock (guard of `Restart`).

**HeartbeatWatch** – the command service's latch recorder and the telemetry
service's link monitor on delayed and bursty heartbeats, which are sent again,
in order, when the client reconnects before it has heard that they arrived (QoS
1; `unacked`, `PubAck`, `Disconnect`, `Reconnect`). Both periodic timers are
punctual, with any phase between them. One instance of the command service:
with several, each writes a row of its own for a transition.

**TelemetryStore** – both writers; `persist` is the deployment.  Locally:
buffer, batches taken by flushes that wait for the database at the same time,
an insert that fails and drops its batch (RTP-08 documents the loss), the
schema retry, restarts.  In the cloud: a queue that hands a record out up to
`MAX_RECEIVE` times, the function's parse, insert and report of failed records,
invocations that die or lose the connection before they hear of the insert, a
record that is handed out after it was deleted (a standard queue), and retention:
what no invocation takes for an hour expires.

**TelemetryService** – HeartbeatWatch beside TelemetryStore.  They share no
variable, so interleaving them adds nothing to properties of either side: the
store's steps are explored before the first heartbeat only, and the link monitor
only while the vehicle has not latched yet, whose flag it does not read.

**CloudSession** – a tab of the console: gate, mode and tokens in
sessionStorage, the PKCE round trip, reloads and the back-forward cache, and
the hook that dials the broker.  A task is a piece of the hook that waits (for
the exchange, for an await of `dial`, as a client, as a redial timer) and
carries the generation it captured, as the code's `gen` constants do.  The
policy function is its two outcomes.

**DemoVehicle**, **TeleopLoop** – the simulated vehicle with its proposals and
what the console keeps of it, and the driving panel over it: the loop eases
throttle and brake towards the pedals, each with its own ramps, and sends one
frame for both when either moved far enough.  An interval may be late, so a poll
eases by any step up to the ramp.  Steering has frames of its own, which move
nothing, and is left out.

**OperatorSession** – the fencing token in the console.  Calls are asked,
served and answered, lost or overtaken; the service's side is only its lock
(SessionLock has the rest).

**Console** – the three over one tab. Entering and leaving a session or loading
the page starts its state afresh (`Fresh`). The session shares no variable with
the hook but the tokens, so three reductions are sound: sessions run only while
the hook is at rest, the hook moves only with no call in flight, and a demo is
explored in a tab in which no sign-in has left a trace. Tokens may expire at
any time.

`MC*` modules give the constants values; `*Proofs` modules hold the proofs:
VehicleKernelProofs (with those of SafeStopLatch), LogSyncProofs,
SessionLockProofs, FleetMissionProofs, ManeuverProofs, CommandServiceProofs
(ZoneDelivery and CommandEvidence, both in the command service),
TelemetryServiceProofs (HeartbeatWatch and TelemetryStore) and ConsoleProofs
(CloudSession and TeleopLoop).
Definitions marked *Mutant* are plausible bugs; each checked property is shown
to fail under one of them (`mutants` in `PROJECT.json`).

## 4. Runs and bounds

| run | properties | instance, and why it is enough |
|---|---|---|
| `kernel_ingest` | StoreConsistent, ReplayOnlyAfterEviction, SameResponse, FencingOrder, LatchReleasedOnlyByClear | two sessions' tokens, a stop, a clear, motion, a wrong mode, a foreign and an unverifiable envelope against a store of two: every admission fault, eviction and redelivery happen, and answers wait for room in a request channel of one that other tasks fill |
| `kernel_watchdogs` | SilenceLatches, ImplementsLatch | both watchdogs and the heartbeat, a ping, a CLEAR, poses; silence 1, period 1, clock to 4: one tick beyond both limits after a contact and after a release |
| `kernel_territory` | DrivingNeedsPermit, OutsideLatches (fair) | a permit that opens at 1 and one that lapses at 1, clock to 1, CREEP and CLEAR, position in and out, the telemetry task, a request channel of one |
| `logsync_progress` | AckMeansEvidenced, NothingLost, EventuallyEvidenced (fair) | a boot of one event and one of two, a buffer of one, so the second overflows, batches of one: stale batches and acks of an earlier boot; the safety properties are proved for any batch size |
| `session_deadman` | DeadmanCovers, EventuallyStopped (fair), NoResurrection | three requests of every kind, two instances, one operator with assignment enforcement: a session, its renewal by the other instance or its replacement, and a third request in between, with instances that die at any point; TTL 2 < deadman 3, so a renewal prolongs the lock beyond the first timer |
| `fleet_departure` | ConfirmedIsClean, StartedWasChecked, NoOrphanMission | three requests with up to two failing calls each, two missions and checklists, a third kind of verdict (symmetry) |
| `maneuver_outcome` | OneOutcome, CardOutlivesWindow, ImplementsContract, EventuallySettled, CardsClose (fair) | two proposals, two decide requests, one latch, one repetition |
| `evidence_chain` | AckJoinsChain, EventuallyConcluded (fair) | an E-STOP with its two copies and a command, two handlers, one failing query |
| `actuation_converges` | EventuallyBraked, EventuallyReleased (fair) | a receiver and a socket of one event, so nearly everything is dropped, one lost connection, a watchdog that latches and a heartbeat that may block |
| `zone_agreement` | Agreement, GatesAgree | three kinds of permit, five revisions, one repetition, two restarts |
| `telemetry_service` | StatusIsTrue, RowsAccountedFor, SingleWriter, StoredBeforeDeleted | two ticks per period, limits two and four, two latchings, two heartbeats sent again, a failing insert, a restart; three samples, one malformed and one mistyped, a threshold of two, two receives, one invocation that dies or delivery too many: a full buffer beside the timer, mixed batches, a redelivery, a dead letter and an expiry |
| `console_modes` | OwnClientOnly, OneThread, NoFrameLeftBehind, ConnectingEnds, ProposalSettles, FrameFollowsStick, ConsoleLearns (fair) | two generations and two token names, reused when nothing refers to them, so sessions follow each other without bound; two failed dials make an error; two calls in flight overtake each other; throttle and brake from 0 to 3 with a threshold and ramps of two, so a last frame below it, and one frame for two pedals, happen |

Bounds (`Max*`, `WireLines`, `Request`...) are guards of actions or sizes of
sets and appear in no property except through the sets. Deadlock checking is on
except in the fleet model, where requests are one-shot, in the telemetry store,
where the samples are, and in the kernel's runs, whose clock ends at `MaxTime`:
with every task waiting and no message left, they may be done. Type invariants
of the other modules are definitions beside their properties; the proofs use
them. That silence of the pose feed latches (PoseSilenceLatches) follows from
the latch contract of `kernel_watchdogs` and is proved. Symmetry is used only
where no liveness is checked.

Reading the liveness properties: EventuallyReleased assumes that no command
competes for the receiver's places from some time on, because a receiver of
one event may drop every snapshot in favour of a command.  EventuallyConcluded
excuses commands after a failed EDR query.  EventuallySettled assumes that the
vehicle stays unlatched from some time on, because the generator skips its
turn while latched.  ProposalSettles and ConsoleLearns speak of a tab that stays
in front: a page in the back-forward cache does not run, and ConsoleLearns also
wants an unexpired ID token, because the heartbeat does not look at a 401.
ConnectingEnds excuses a visitor who reloads for ever.

## 5. Fairness

* VehicleKernel: weak fairness of the turns of the periodic tasks: the tokio
  runtime schedules ready tasks. Strong fairness of the background tasks'
  effects: a publish waits for room in the request channel, which others may
  fill in between, and the channel serves its waiters in turn. Nothing is
  assumed of the main loop, of the link that empties the channel (`Poll`), the
  bridge, the operator or the clock. OutsideLatches therefore has the premise
  that the channel is not full for good: offline it may be (main.rs:603), and
  the telemetry task then stands in its publish (section 7).
* LogSync: weak fairness of the link, the drain's own steps and the handlers;
  strong fairness of deliveries, queries and acks of the running boot: each is
  retried for ever by the drain, and succeeds at some time. Nothing is assumed
  of the messages of an earlier boot.
* SessionLock: weak fairness of time, and of the next step of some request or
  callback that waits (each has only a few, so none waits for ever). Nobody has
  to make a request, and instances may die.
* Maneuver: weak fairness of time, the generator's interval, the cloud's
  handler and its timers. Nobody has to decide, a latch need not be released.
  That the generator's publish does not wait for ever is assumed of the link.
* CommandEvidence: weak fairness of watchers and handlers. Nothing needs to be
  delivered.
* Actuation: weak fairness of the heartbeat's turn, sends, forwarding, reading,
  the control loop, the fail-safe and reconnecting (both sides loop). Nothing
  latches, clears or drives by fairness, and nothing ends the heartbeat's
  publish (`Posted`): both properties have the premise HeartbeatsGoOut.
* Console: weak fairness of the hook's steps, the simulator's and the control
  loop's intervals and the heartbeat interval (timers fire while the page
  runs); strong fairness of the service's answers and of hearing them: the
  heartbeat goes out every 2 s, and that not every one of them is lost is
  assumed of the network. No operator has to do anything.

## 6. Proofs

All theorems hold for every value of the constants under the `ASSUME`s of the
component modules, which TLC evaluates in every run: capacities and windows are
natural numbers (positive where the code's constant is), `None` is not a value,
envelopes have unique ids (fresh uuids), `LOCK_TTL < DEADMAN` (6 s < 7 s).
Few of the properties are inductive as they stand; what had to be added to each
is the argument why the code is right.

* **VehicleKernelProofs.** `TypeCorrect` is inductive by itself, one step per
  action. `StoreStaysConsistent` (StoreConsistent): the store and its queue of
  evictions change together, and an id enters only when it is in neither.
  `Idempotent` (ReplayOnlyAfterEviction) needs `IngestInv`: the last applied
  token is at most the newest (`lastApplied <= newestToken`), the command
  between two gates carries the newest token and has no stored answer
  (`InHand`), every applied id is in the store or was evicted
  (`StoredOrEvicted`). `Fencing` and `OnlyClearReleases` are action properties
  over it. `CopiesAnsweredAlike` (SameResponse) needs `ResponseInv`: an answer
  that was published, or that a task has decided on and still has to publish,
  is the stored one, or its command is unverifiable, and then nothing of it is
  ever stored. The answers still in an outbox matter: they are published after
  other tasks' steps, and copies may be answered in between. `PermitHolds`
  (DrivingNeedsPermit) is inductive because the handler applies one message at
  a time: no zone document comes between two gates. The clock does, which is
  why only the window's opening is claimed (section 7, PermitLimitsCreep).
  `KernelImplementsLatch`: initial states map to initial states and every
  action to a step of SafeStopLatch or a stutter, given that both watchdogs
  run. `WatchdogBounds` is about the contract alone: each watchdog ran within
  the last period, and what it saw then still binds unless the feed was heard
  or the latch released since. `WatchdogSafety` carries these bounds over to
  the kernel.
* **LogSyncProofs.** `SyncInv`: everything below `low` is evidenced or
  discarded, and every batch in the drain, on the network or in a handler, of
  whatever boot, starts right behind such events, as does the handler's
  position. From it `Lossless` (NothingLost) and `AcksAreHonest`.
* **SessionLockProofs.** `SessionInv`: TypeOK, DeadmanCovers (the lock's
  remaining life is less than that of some timer or of a request about to arm
  one; an owed stop has a timer, a callback or a request) and the program
  counter facts; a token is in `used` once it was in the lock. An instance that
  dies takes its timers with it, so both parts are claimed from the next timer
  on. From it `DeadmanAlwaysCovers` and `SessionsEndForGood` (NoResurrection).
* **FleetMissionProofs.** `FleetInv`: ConfirmedIsClean, what a request knows of
  the mission and checklist it made (`OwnMission`, `OwnChecklist`), what a
  writer read (`Writers`), that a departed mission was checked (`Departed`) and
  how a mission without checklist is still in some request's hands (`Orphans`).
  From it `ConfirmedStaysClean`, `NoUncheckedDeparture` and, for creations of
  which at most one call failed (`OneFault`, whatever fails in other requests),
  `CleanupSuffices`.
* **ManeuverProofs.** `ManeuverInv`: the active proposal has no outcome
  (`Fresh`), the log closes only settled proposals (`LogHonest`), no cloud
  timer, replaced ones included, ends before the vehicle's window
  (`TimersOutlast`), `Requests`. From it `OneOutcomeEver` and
  `CardNeverClosesEarly`. `KeepsContract` (ImplementsContract) also needs that
  the vehicle abandons no proposal (`OpenIsActive`: one without an outcome is
  the active one); then proposing is the contract's Open, deciding and timing
  out are its Close, and every other step leaves its view alone.
* **CommandServiceProofs**, zones. `ZoneInv`: no revision that is in use is
  given again, not even by a restarted service that starts from the clock, and
  of two documents with one revision there is one (`RevisionOrder`); a
  connected vehicle has the retained document or reads it last (`Reaches`);
  what was reported as delivered is what the broker retains (`Delivered`); the
  registry and the last document have the same window (`Registered`). So the
  vehicle's test for stale revisions never refuses the newest document:
  `DeliveredIsHeld` (Agreement). `BothGatesAgree` (GatesAgree) adds that the
  two gates evaluate one window alike.
* **CommandServiceProofs**, evidence. `EvidenceInv`: logged before sent, sent
  before answered, watched or handled, and a handler about to insert has found
  the command's row. From it `AnswersJoin` (AckJoinsChain).
* **TelemetryServiceProofs**, heartbeats. `LinkInv` says what StatusIsTrue says
  at every phase between two turns of the monitor; without the phase `due` the
  bound of one turn is not kept by a tick. For the recorder, counting rows is
  not enough: `RecorderInv` gives every flag on its way (last handled, queued,
  the vehicle's) a number of latchings it can have been taken at, never
  decreasing and larger whenever the flag rises (`Dated`); rows are at most the
  number of the last handled flag plus restarts and heartbeats sent again: when
  old flags are put in front of the queue, each costs at most one row. From it
  `EveryRowAccountedFor` (RowsAccountedFor).
* **TelemetryServiceProofs**, store. `StoreInv`: only the deployment's writer
  is at work (`OneWriter`); buffer and batches are disjoint and unwritten
  (`Unwritten`); a record is in one invocation, and until it is deleted it has
  at most as many rows as invocations died and deliveries were too many
  (`Received`). From it `NoRowTwice` (SingleWriter) and `DeletedOnlyStored`
  (StoredBeforeDeleted). `ServiceKeepsAll` states all four for the composition.
* **ConsoleProofs**, live connection. `HookInv`: only a mounted operator
  session has a generation that holds (`Providers`); its tasks are one thread,
  and no task of an overtaken generation has a client (`Threads`); the badge
  tells how far the thread is (`Badge`). Tasks of earlier generations stay in
  the invariant: they come back late and may only end. From it `ClientIsOwn`
  (OwnClientOnly) and `SessionHasOneThread` (OneThread). That a new generation
  is unused rests on the bounded set of names being large enough (the guard of
  Mount), as the code's counter never repeats.
* **ConsoleProofs**, teleop. `DemoInv` adds that a latched demo vehicle does
  not drive; then every way of disarming, also a latch, a reload or leaving,
  ends the frame: `NoFrameStays` (NoFrameLeftBehind).

Proved for every value of the constants: every invariant and every action
property of the runs, and both refinements.  Only model-checked: liveness, which
is out of the prover's reach, as is ENABLED, on which fairness rests
(OutsideLatches, EventuallyEvidenced, EventuallyStopped, EventuallyBraked,
EventuallyReleased, EventuallySettled, CardsClose, EventuallyConcluded,
ConnectingEnds, ProposalSettles, FrameFollowsStick, ConsoleLearns).  Actuation
and OperatorSession promise only liveness and so have no proof.  No module uses
RECURSIVE operators, which the prover cannot handle, and nothing proved needs
induction over data.

## 7. Where the code departs from its words

While modelling, 27 statements of comments, tests and documents turned out not
to be what the code does.  Each is a definition in the last section of its
module; the configuration named here makes TLC print a short counterexample
(where one names several properties, check them one at a time; where it is the
configuration of a run, put the definition in the place of its properties).
They are not part of the runs of section 4, whose properties the code does
keep.

| configuration | definition | the statement | what the code does |
|---|---|---|---|
| `kernel_races` | NothingAcceptedWhileLatched | main.rs:1541 "While latched, only an authorized CLEAR_SAFE_STOP is accepted." | the latch is tested once (1565); a latch engaged after the gate does not stop the command |
| `kernel_races` | NoMotionWithoutPose | main.rs:824 "no motion command is honoured without a ground-truth basis" | the pose feed is looked at once a second and by no gate, so a DRIVE right after a CLEAR is accepted |
| `kernel_permit_lapse` | PermitLimitsCreep | main.rs:1602 "A Mode 2 command that names a target speed above the active permit's limit is refused" | zone gate and speed gate each read the clock; a permit that lapses in between admits the command and lifts the limit |
| `kernel_races` | LogTellsLatch | main.rs:394 latch transitions "are recorded LOCALLY the moment they happen" | the record is written after the mutex is released; LATCH_RELEASED may be the newest record of a latched vehicle |
| `kernel_territory`, with the definition in place of OutsideLatches | OutsideLatchesOffline | main.rs:911 "latch autonomously the moment the vehicle leaves approved territory" | the telemetry task awaits its publish (960) between two looks; offline the request channel fills and the vehicle is moved outside unlatched |
| `kernel_territory` with SPECIFICATION MainFairSpec | MainReturns | main.rs:603 "any await on client.* from the task that ALSO polls the eventloop would deadlock on a full channel" | every ack is awaited in that task (1417 to 1738): a command that arrives while the channel is full of backlog leaves the main loop waiting for itself |
| `logsync_duplicates` | OneRowPerEvent | mqtt.service.ts:223 "a redelivered batch adds nothing" | findFirst and create are two calls without a unique key; two handlers of one batch both append |
| `session_revocation` | UnassignedHoldsNothing | command.controller.ts:43 "an unassigned operator can never hold even a transient token" | a revocation between canControl and SET leaves the operator with the lock, and heartbeats keep it |
| `session_revocation` | RevokeSparesSuccessor | assignment.service.ts:88 "only delete when it is theirs, never a successor's" | get and del are two calls; a handover in between is deleted |
| `session_handover` | OldTokenRejected | command.controller.ts:226 "the old token is rejected on the vehicle" | dispatch stamps the issuedAt of whatever lock exists later (353), so an old operator's command passes the fence |
| `session_fenced` | HolderNeverFenced | session.service.ts:77 the timer "acts ONLY if the lock is really gone" | a new session between the check and the SAFE_STOP's envelope is fenced off by the stop's later issuedAt |
| `fleet_refuted` | FinalIsFinal | smoke-fleet.cjs:112 "Cannot start new op on completed mission" | transition reads, tests and then updates by id (mission.service.ts:140): an ended mission moves again |
| `fleet_refuted` | OneLiveMission | mission.service.ts:23 refuses a vehicle that "already has an active mission" | findFirst and the insert are separate, without a unique constraint |
| `maneuver_retry` | RetryWithinWindow | main.rs:1662 "the operator can retry within the window" | decide deletes the proposal when its message is sent (maneuver.controller.ts:136); a retry gets 404 |
| `evidence_decision` | QuietHasOutcome | command.controller.ts:425 "every command is acknowledged ... append a NO_ACK record" | decide arms no watcher (maneuver.controller.ts:124) |
| `actuation_refuted` | BrakedUntilCleared | bridge.py:7 "full brake + hand brake until an authorized CLEAR_SAFE_STOP" | a heartbeat's stale copy of the latch, sent last, releases the brakes until the next snapshot |
| `actuation_refuted` | NotMovingUntilTold | bridge.py:93 "released, but not moving until told to" | apply_command sets the throttle while latched, and the release is a state event that reaches the bridge before CLEAR |
| `actuation_refuted` | BrakedUntilHeard | bridge.py:13 "If the SOCKET drops, the bridge brakes on its own" | the lost connection's reader thread may undo the fail-safe afterwards |
| `actuation_converges` | BrakedOffline | main.rs:804 "The bridge must brake on this even with zero cloud connectivity" | a stale snapshot sent last is repaired by the next heartbeat, and offline its task may wait in its publish (994) for ever |
| `zone_refuted` | UndeliveredIsStricter | command.controller.ts:333 the vehicle "stays on its stricter current zone (fail-safe)" | when a permit is withdrawn offline, the zone it stays on is the looser one |
| `zone_refuted` | LimitArrives | zone.service.ts:104 "the FULL permit condition set rides in the signed document" | a limit of 0 fails a truthiness test (111) and is dropped |
| `heartbeat_entries` | EveryEntryRecorded | mqtt.service.ts:181 "no latch entry goes unrecorded" | a release and a new latch between two heartbeats leave no row, nor does a failed insert |
| `heartbeat_entries` | NoPhantomEntry | mqtt.service.ts:178 the cloud "appends an EDR row on every transition" | heartbeats sent again after a reconnection repeat flags of the past, `hb.seq` is not looked at (200), and rows stand for no transition |
| `console_modes` | RetryingContinues | useCloudTelemetry.ts:48 a broker that refuses "must surface as an ERROR", "retrying continues either way" | a refused subscription (91-93) shows the error over a client that stays connected, and nothing dials again |
| `console_modes` | ReleasedStickStops | simulator.ts:366 the loop "sends {throttle: 0, brake: 0} the moment the operator releases the stick" | a last frame below the send threshold is never followed by a zero, and the simulated vehicle drives on |
| `console_modes` | OwnTokenKept | a console keeps the session it holds | an answer is applied without a look at the token it is about: a late one for an earlier session drops the present one |
| `telemetry_service` | MistypedFailsAlone | index.mjs:69 "a malformed row must fail alone, not poison the batch" | a value of a wrong type passes toRow and fails the insert of the whole batch |

The console has more of the same kind, seen in the text and not given a
definition:

* A failed policy attachment counts as done (`useCloudTelemetry.ts:70-71`), so
  the dials that follow are refused without another attempt.
* A sign-out while the code is being exchanged is followed by the exchange's
  write of the tokens (`auth.ts:93`).
* The session's copy of the ID token is never refreshed; the gate looks at the
  tokens only when it renders (`App.tsx`), and the heartbeat ignores a 401
  (`SessionContext.tsx:282`), so an expired sign-in shows at the next command.
* Disarming the panel after the session is lost sends nothing
  (`useTeleopInput.ts:13-15` promises a neutral frame): there is no token.
* `missionAction` applies an answer to whatever mission is shown by then
  (`SessionContext.tsx:386`), and `handleProposalStatus` (`:170`) closes the card
  whatever the proposal's id.

What does hold next to these: the exposure after a CLEAR is bounded by one
watchdog period (PoseSilenceLatches), the bridge converges to the latch while
heartbeats go out (EventuallyBraked), no more latch rows are invented than
restarts and repetitions account for (RowsAccountedFor), what the ingest
function lets go is stored (StoredBeforeDeleted), delivered zone changes agree
(Agreement, GatesAgree), and no unchecked mission departs although ended ones
may move (StartedWasChecked).

## 8. Not modelled

* The console's presentation, its copy of the mission, its local mode (one
  shared session without a sign-in), steering and the gears but neutral (frames
  of their own, which do not decide whether the vehicle drives), and the double
  mount of a development build.
* Authentication, roles, contract validation, WebSocket gateways: stateless.
  Models start behind them.
* Terraform, Greengrass recipes, Docker: declarative.
* In modelled parts: start-up and key handling, signatures (a Boolean or left
  out), a restart of the kernel outside LogSync and ZoneDelivery (its latch,
  newest token and dedup store live in memory and start afresh, so a model
  would restate Init), Redis and Postgres failures that a request of the
  session service answers with an error, crashes of the fleet service between
  two queries, several instances of the command service on one heartbeat,
  vehicle back ends of the bridge, a late answer that crosses the NO_ACK row
  (both rows stay).

## 9. Plan

Done, in this order: kernel and latch contract, log upload, sessions, missions,
maneuvers and their contract, evidence, actuation, zones, heartbeats, telemetry
persistence, console; theorems for every safety property of the runs.

Next:
1. The part of each statement of section 7 that does hold, as a theorem: what
   the code guarantees in place of RevokeSparesSuccessor, HolderNeverFenced and
   BrakedUntilCleared.
2. Safety of Actuation beside its convergence (what the receiver's last event
   says of the latch), with the invariant the liveness argument rests on.
3. The vehicle's MQTT client as a module of its own, shared by the kernel, log
   upload and maneuvers, with its channel and its unacknowledged publishes.
4. CommandEvidence with the NO_ACK race and decisions side by side; more
   motions in Actuation.
