--------------------------- MODULE CommandEvidence ---------------------------
(***************************************************************************)
(* From a command to the row that records its outcome: dispatch and its    *)
(* acknowledgement watcher (command.controller.ts), the decide endpoint,   *)
(* which sends commands of its own (maneuver.controller.ts), the vehicle's *)
(* answers and the ACK handler of mqtt.service.ts.                         *)
(*                                                                         *)
(* A command is named by its commandId.  Every EDR query is a step.        *)
(* mqttService.publish drops the message when the client is offline; its   *)
(* two calls for an E-STOP run in one turn of the event loop, so they      *)
(* succeed or fail together and PUBLISH_DEGRADED is never written.         *)
(***************************************************************************)
EXTENDS Naturals, FiniteSets

CONSTANTS
    Command,      \* commands
    Estop,        \* those sent to the estop endpoint
    Decision,     \* those sent by decide
    Handler,      \* turns of the message handler that may be under way
    MaxFaults     \* how many EDR queries may fail

ASSUME EvidenceAssumption ==
    /\ Estop \subseteq Command /\ Decision \subseteq Command
    /\ Estop \cap Decision = {}
    /\ MaxFaults \in Nat

VARIABLES
    pc,          \* per command: the await its request is at
    connected,      \* the cloud's MQTT client is connected
    copies,      \* per command: copies on their way to the vehicle
    answer,      \* per command: the vehicle's answer, once it has one
    acks,        \* per command: answers on their way to the cloud
    handler,     \* per handler: the answer it handles, and how far it is
    watcher,     \* per command: the acknowledgement watcher
    edr,         \* rows: commandId, status, and whether it joins the chain
    sent,        \* auxiliary: commands that were published
    faults       \* queries that failed so far

networkVars == <<copies, answer, acks>>
evidenceVars == <<pc, connected, networkVars, handler, watcher, edr, sent, faults>>

Answers == {"ACK", "REJECTED"}
Outcomes == Answers \cup {"NO_ACK"}
Row == [c : Command, status : Outcomes \cup {"PENDING", "PUBLISH_FAILED"},
        joined : BOOLEAN]
Idle == [at |-> "idle"]

\* logEdr with the envelope's correlation id.
Log(c, status) ==
    edr' = edr \cup {[c |-> c, status |-> status, joined |-> TRUE]}

Rows(c) == {row \in edr : row.c = c}

EvidenceInit ==
    /\ pc = [c \in Command |-> "new"]
    /\ connected = TRUE
    /\ copies = [c \in Command |-> 0]
    /\ answer = [c \in Command |-> "none"]
    /\ acks = [c \in Command |-> 0]
    /\ handler = [h \in Handler |-> Idle]
    /\ watcher = [c \in Command |-> "off"]
    /\ edr = {} /\ sent = {} /\ faults = 0

Fault == faults < MaxFaults /\ faults' = faults + 1

-----------------------------------------------------------------------------
(* The request                                                             *)

\* The gates are passed and the envelope is signed.
Request(c) ==
    /\ pc[c] = "new"
    /\ pc' = [pc EXCEPT ![c] = "log"]
    /\ UNCHANGED <<connected, networkVars, handler, watcher, edr, sent, faults>>

\* Mutant: a PENDING row that cannot be written does not stop the command.
LogBestEffort(c) ==
    /\ pc[c] = "log"
    /\ pc' = [pc EXCEPT ![c] = "publish"]
    /\ \/ Log(c, "PENDING") /\ UNCHANGED faults
       \/ Fault /\ UNCHANGED edr
    /\ UNCHANGED <<connected, networkVars, handler, watcher, sent>>

\* The PENDING row; without it nothing is sent.
LogPending(c) ==
    /\ pc[c] = "log"
    /\ \/ /\ Log(c, "PENDING")
          /\ pc' = [pc EXCEPT ![c] = "publish"]
          /\ UNCHANGED faults
       \/ /\ Fault
          /\ pc' = [pc EXCEPT ![c] = "done"]
          /\ UNCHANGED edr
    /\ UNCHANGED <<connected, networkVars, handler, watcher, sent>>

\* An E-STOP goes out on two topics.
Paths(c) == IF c \in Estop THEN 2 ELSE 1

\* Mutant: a watcher for the dedicated E-STOP channel only.
WatchEstops(c) == IF c \in Estop THEN "armed" ELSE "off"

\* watchForAck, which decide does not call.
WatchForAck(c) == IF c \in Decision THEN "off" ELSE "armed"

Publish(c) ==
    /\ pc[c] = "publish"
    /\ \/ /\ connected
          /\ copies' = [copies EXCEPT ![c] = Paths(c)]
          /\ watcher' = [watcher EXCEPT ![c] = WatchForAck(c)]
          /\ sent' = sent \cup {c}
          /\ pc' = [pc EXCEPT ![c] = "done"]
       \/ /\ ~connected
          /\ pc' = [pc EXCEPT ![c] = "failed"]
          /\ UNCHANGED <<copies, watcher, sent>>
    /\ UNCHANGED <<connected, answer, acks, handler, edr, faults>>

\* The PUBLISH_FAILED row, then a 503.
LogFailed(c) ==
    /\ pc[c] = "failed"
    /\ pc' = [pc EXCEPT ![c] = "done"]
    /\ \/ Log(c, "PUBLISH_FAILED") /\ UNCHANGED faults
       \/ Fault /\ UNCHANGED edr
    /\ UNCHANGED <<connected, networkVars, handler, watcher, sent>>

-----------------------------------------------------------------------------
(* The network and the vehicle                                             *)

Connection ==
    /\ connected' = ~connected
    /\ UNCHANGED <<pc, networkVars, handler, watcher, edr, sent, faults>>

\* The vehicle answers every copy; a repeated command gets the same answer.
Answer(c, a) ==
    /\ copies[c] > 0
    /\ answer[c] \in {"none", a}
    /\ copies' = [copies EXCEPT ![c] = @ - 1]
    /\ answer' = [answer EXCEPT ![c] = a]
    /\ acks' = [acks EXCEPT ![c] = @ + 1]
    /\ UNCHANGED <<pc, connected, handler, watcher, edr, sent, faults>>

LoseCopy(c) ==
    /\ copies[c] > 0
    /\ copies' = [copies EXCEPT ![c] = @ - 1]
    /\ UNCHANGED <<pc, connected, answer, acks, handler, watcher, edr, sent, faults>>

LoseAck(c) ==
    /\ acks[c] > 0
    /\ acks' = [acks EXCEPT ![c] = @ - 1]
    /\ UNCHANGED <<pc, connected, copies, answer, handler, watcher, edr, sent,
                   faults>>

-----------------------------------------------------------------------------
(* The ACK handler and the watcher                                         *)

\* A handler takes an answer off the network.
ReceiveAck(h, c) ==
    /\ handler[h] = Idle /\ acks[c] > 0
    /\ acks' = [acks EXCEPT ![c] = @ - 1]
    /\ handler' = [handler EXCEPT ![h] = [at |-> "find", c |-> c]]
    /\ UNCHANGED <<pc, connected, copies, answer, watcher, edr, sent, faults>>

\* findFirst: the command's own row, whose correlation id the answer inherits.
FindOriginal(h) ==
    /\ handler[h].at = "find"
    /\ \/ /\ handler' = [handler EXCEPT ![h] =
                           [at |-> "create", c |-> @.c,
                            joined |-> Rows(@.c) # {}]]
          /\ UNCHANGED faults
       \/ /\ Fault
          /\ handler' = [handler EXCEPT ![h] = Idle]
    /\ UNCHANGED <<pc, connected, networkVars, watcher, edr, sent>>

\* The answer's row.
CreateAck(h) ==
    LET c == handler[h].c IN
    /\ handler[h].at = "create"
    /\ handler' = [handler EXCEPT ![h] = Idle]
    /\ \/ /\ edr' = edr \cup {[c |-> c, status |-> answer[c],
                               joined |-> handler[h].joined]}
          /\ UNCHANGED faults
       \/ Fault /\ UNCHANGED edr
    /\ UNCHANGED <<pc, connected, networkVars, watcher, sent>>

\* ttl + 3 s after the publish: is there a row of the vehicle?
WatcherFires(c) ==
    /\ watcher[c] = "armed"
    /\ \/ /\ watcher' = [watcher EXCEPT ![c] =
                IF \E row \in Rows(c) : row.status \in Answers THEN "off"
                ELSE "log"]
          /\ UNCHANGED faults
       \/ Fault /\ watcher' = [watcher EXCEPT ![c] = "off"]
    /\ UNCHANGED <<pc, connected, networkVars, handler, edr, sent>>

LogNoAck(c) ==
    /\ watcher[c] = "log"
    /\ watcher' = [watcher EXCEPT ![c] = "off"]
    /\ \/ Log(c, "NO_ACK") /\ UNCHANGED faults
       \/ Fault /\ UNCHANGED edr
    /\ UNCHANGED <<pc, connected, networkVars, handler, sent>>

-----------------------------------------------------------------------------
CloudStep(c) == Request(c) \/ LogPending(c) \/ Publish(c) \/ LogFailed(c)
WatcherStep(c) == WatcherFires(c) \/ LogNoAck(c)
HandlerStep(h) == FindOriginal(h) \/ CreateAck(h)

EvidenceNext ==
    \/ \E c \in Command :
         \/ CloudStep(c) \/ WatcherStep(c)
         \/ \E a \in Answers : Answer(c, a)
         \/ LoseCopy(c) \/ LoseAck(c)
    \/ Connection
    \/ \E h \in Handler :
         \/ \E c \in Command : ReceiveAck(h, c)
         \/ HandlerStep(h)

EvidenceSpec == EvidenceInit /\ [][EvidenceNext]_evidenceVars

\* The event loop of the service keeps running its timers and handlers.  The
\* network need not deliver anything, and nobody has to send a command.
FairEvidenceSpec ==
    /\ EvidenceSpec
    /\ \A c \in Command : WF_evidenceVars(WatcherStep(c))
    /\ \A h \in Handler : WF_evidenceVars(HandlerStep(h))

-----------------------------------------------------------------------------
(* Properties                                                              *)

EvidenceTypeOK ==
    /\ pc \in [Command -> {"new", "log", "publish", "failed", "done"}]
    /\ connected \in BOOLEAN
    /\ copies \in [Command -> 0..2]
    /\ answer \in [Command -> Answers \cup {"none"}]
    /\ acks \in [Command -> 0..2]
    /\ handler \in [Handler -> {Idle} \cup [at : {"find"}, c : Command]
                      \cup [at : {"create"}, c : Command, joined : BOOLEAN]]
    /\ watcher \in [Command -> {"off", "armed", "log"}]
    /\ edr \subseteq Row
    /\ sent \subseteq Command
    /\ faults \in 0..MaxFaults

\* mqtt.service.ts:137-138, "the whole exchange reads as one chain".  However
\* early an answer arrives and whichever queries fail, its row carries the
\* correlation id of its command, and a command without a row is never sent.
AckJoinsChain ==
    /\ \A row \in edr : row.joined
    /\ \A c \in sent \cup {row.c : row \in edr} :
         \E row \in edr : row.c = c /\ row.status = "PENDING"

HasOutcome(c) == \E row \in edr : row.c = c /\ row.status \in Outcomes

\* command.controller.ts:425-427: every command that was sent gets a recorded
\* outcome, an answer of the vehicle or NO_ACK, although commands and answers
\* may be lost.  Only a failing query can keep it from that.
EventuallyConcluded ==
    \A c \in Command : c \in sent ~> HasOutcome(c) \/ faults > 0

\* command.controller.ts:425-427: "append a NO_ACK record so the exchange has a
\* recorded outcome".  A command that was sent, and of which nothing is under
\* way any more, has an outcome.
QuietHasOutcome ==
    \A c \in sent :
        \/ HasOutcome(c)
        \/ copies[c] > 0 \/ acks[c] > 0 \/ watcher[c] # "off"
        \/ \E h \in Handler : handler[h] # Idle /\ handler[h].c = c
=============================================================================
