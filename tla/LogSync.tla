------------------------------ MODULE LogSync ------------------------------
(***************************************************************************)
(* The vehicle's event log and its lossless upload (RES-02 / LEG-04): the  *)
(* buffer and the drain task in edge/sim/src/main.rs, the command          *)
(* service's handler recordEdgeLogBatch in mqtt.service.ts and the signed  *)
(* acknowledgement that lets events leave the vehicle.                     *)
(*                                                                         *)
(* An event is its identity <<boot, seq>>.  The buffer holds consecutive   *)
(* sequence numbers: it grows at the back by one, and the capacity and the *)
(* acks remove from the front, so it is the interval low+1 .. seq.  The    *)
(* network may lose, delay and reorder batches and acks; duplicates come   *)
(* from the drain's retries, and the broker's own redelivery looks like a  *)
(* retry that was delayed.  The service handles batches concurrently (an   *)
(* async callback per message, and one per instance of the service), and a *)
(* handler may die at any await.                                           *)
(***************************************************************************)
EXTENDS Integers, FiniteSets

CONSTANTS
    None,            \* the absent value of an Option
    Handler,         \* concurrent activations of recordEdgeLogBatch
    EVENT_LOG_CAP,   \* capacity of the buffer
    BATCH,           \* 100: events per batch
    MaxBoot,         \* bound on boots, for model checking only
    MaxSeq           \* boot -> bound on its events, likewise

ASSUME LogSyncAssumption ==
    /\ None \notin Nat
    /\ EVENT_LOG_CAP \in Nat \ {0} /\ BATCH \in Nat \ {0}
    /\ MaxBoot \in Nat /\ MaxSeq \in [0..MaxBoot -> Nat]

VARIABLES
    boot, seq, low,    \* boot_id, seq, and the events that left the buffer
    dropped,           \* the events the full buffer discarded
    outstanding,       \* sync_outstanding: highest seq published, or None
    drain,             \* the drain task: phase and snapshot
    connected,         \* broker_connected
    net,               \* batches that may still be delivered
    acks,              \* acks that may still be delivered
    handler,           \* per activation: phase, batch and position
    edr,               \* events with an EDR row
    twice              \* auxiliary: events with more than one row

vehicleVars == <<boot, seq, low, dropped, outstanding, drain>>
cloudVars == <<handler, edr, twice>>
vars == <<vehicleVars, connected, net, acks, cloudVars>>

Event == Nat \X Nat
Batch == [boot : Nat, from : Nat, to : Nat]
Ack == [boot : Nat, upTo : Nat]

NoBatch == [boot |-> 0, from |-> 0, to |-> 0]

-----------------------------------------------------------------------------
(* The vehicle. *)

\* log_event: a full buffer gives up its oldest event.
LogEvent ==
    /\ seq < MaxSeq[boot]
    /\ seq' = seq + 1
    /\ IF seq - low >= EVENT_LOG_CAP
       THEN low' = low + 1 /\ dropped' = dropped \cup {<<boot, low + 1>>}
       ELSE UNCHANGED <<low, dropped>>
    /\ UNCHANGED <<boot, outstanding, drain, connected, net, acks, cloudVars>>

\* The oldest events of the buffer, at most BATCH of them.
Snapshot ==
    [boot |-> boot, from |-> low + 1,
     to |-> IF low + BATCH < seq THEN low + BATCH ELSE seq]

\* Mutant: a batch in flight is never sent again.
DrainSnapshotOnce ==
    /\ drain.phase = "idle"
    /\ connected
    /\ low < seq
    /\ outstanding = None
    /\ drain' = [phase |-> "send", batch |-> Snapshot]
    /\ UNCHANGED <<boot, seq, low, dropped, outstanding, connected, net, acks,
                   cloudVars>>

\* An iteration of the drain task.  The 5 s an unacked batch is left alone
\* may or may not have passed.
DrainSnapshot ==
    /\ drain.phase = "idle"
    /\ connected
    /\ low < seq
    /\ drain' = [phase |-> "send", batch |-> Snapshot]
    /\ UNCHANGED <<boot, seq, low, dropped, outstanding, connected, net, acks,
                   cloudVars>>

DrainEmpty ==
    /\ drain.phase = "idle"
    /\ connected
    /\ low = seq
    /\ outstanding' = None
    /\ UNCHANGED <<boot, seq, low, dropped, drain, connected, net, acks,
                   cloudVars>>

DrainPublish ==
    /\ drain.phase = "send"
    /\ net' = net \cup {drain.batch}
    /\ drain' = [drain EXCEPT !.phase = "mark"]
    /\ UNCHANGED <<boot, seq, low, dropped, outstanding, connected, acks,
                   cloudVars>>

DrainMark ==
    /\ drain.phase = "mark"
    /\ outstanding' = drain.batch.to
    /\ drain' = [phase |-> "idle", batch |-> NoBatch]
    /\ UNCHANGED <<boot, seq, low, dropped, connected, net, acks, cloudVars>>

\* Mutant: an ack trims the buffer whatever boot it names.
AckOfAnyBoot(a) == TRUE

\* Signature and addressee hold for every ack of the service; the boot is
\* compared.
AckOfThisBoot(a) == a.boot = boot

\* The ack trims the buffer up to upTo and settles the batch in flight.
ReceiveAck(a) ==
    /\ AckOfThisBoot(a)
    /\ low' = IF a.upTo <= low THEN low
              ELSE IF a.upTo <= seq THEN a.upTo ELSE seq
    /\ outstanding' = IF outstanding # None /\ outstanding <= a.upTo
                      THEN None ELSE outstanding
    /\ acks' = acks \ {a}
    /\ UNCHANGED <<boot, seq, dropped, drain, connected, net, cloudVars>>

IgnoreAck(a) ==
    /\ ~AckOfThisBoot(a)
    /\ acks' = acks \ {a}
    /\ UNCHANGED <<vehicleVars, connected, net, cloudVars>>

\* A power cycle: the buffer is in memory only (DEV-24).
Reboot ==
    /\ boot < MaxBoot
    /\ boot' = boot + 1
    /\ seq' = 0 /\ low' = 0
    /\ outstanding' = None
    /\ drain' = [phase |-> "idle", batch |-> NoBatch]
    /\ connected' = FALSE
    /\ UNCHANGED <<dropped, net, acks, cloudVars>>

LinkChange ==
    /\ connected' = ~connected
    /\ UNCHANGED <<vehicleVars, net, acks, cloudVars>>

-----------------------------------------------------------------------------
(* The network and the command service. *)

Lose ==
    /\ \/ \E m \in net : net' = net \ {m} /\ UNCHANGED acks
       \/ \E a \in acks : acks' = acks \ {a} /\ UNCHANGED net
    /\ UNCHANGED <<vehicleVars, connected, cloudVars>>

Receive(h, m) ==
    /\ handler[h].phase = "idle"
    /\ handler' = [handler EXCEPT
                     ![h] = [phase |-> "find", batch |-> m, pos |-> m.from]]
    /\ net' = net \ {m}
    /\ UNCHANGED <<vehicleVars, connected, acks, edr, twice>>

\* The event of the batch the handler is at.
At(h) == <<handler[h].batch.boot, handler[h].pos>>

\* findFirst: an event that has a row is skipped.
Find(h) ==
    /\ handler[h].phase = "find"
    /\ handler[h].pos <= handler[h].batch.to
    /\ handler' = IF At(h) \in edr
                  THEN [handler EXCEPT ![h].pos = @ + 1]
                  ELSE [handler EXCEPT ![h].phase = "create"]
    /\ UNCHANGED <<vehicleVars, connected, net, acks, edr, twice>>

Create(h) ==
    /\ handler[h].phase = "create"
    /\ edr' = edr \cup {At(h)}
    /\ twice' = IF At(h) \in edr THEN twice \cup {At(h)} ELSE twice
    /\ handler' = [handler EXCEPT ![h].phase = "find", ![h].pos = @ + 1]
    /\ UNCHANGED <<vehicleVars, connected, net, acks>>

\* Mutant: the batch is acknowledged as soon as it has been parsed.
AckEarly(h) == handler[h].phase = "find"

\* Every event of the batch has been looked at.
Persisted(h) == handler[h].phase = "find" /\ handler[h].pos > handler[h].batch.to

\* The ack goes out after the writes; publish drops it when the client is
\* not connected, which is a failure after the writes (see Fail).
Finish(h) ==
    /\ Persisted(h)
    /\ acks' = acks \cup {[boot |-> handler[h].batch.boot,
                           upTo |-> handler[h].batch.to]}
    /\ handler' = [handler EXCEPT
                     ![h] = [phase |-> "idle", batch |-> NoBatch, pos |-> 0]]
    /\ UNCHANGED <<vehicleVars, connected, net, edr, twice>>

\* A database call throws, the ack's publish is dropped or the instance
\* dies: no ack.
Fail(h) ==
    /\ handler[h].phase # "idle"
    /\ handler' = [handler EXCEPT
                     ![h] = [phase |-> "idle", batch |-> NoBatch, pos |-> 0]]
    /\ UNCHANGED <<vehicleVars, connected, net, acks, edr, twice>>

-----------------------------------------------------------------------------
Init ==
    /\ boot = 0 /\ seq = 0 /\ low = 0
    /\ dropped = {} /\ outstanding = None
    /\ drain = [phase |-> "idle", batch |-> NoBatch]
    /\ connected = FALSE
    /\ net = {} /\ acks = {}
    /\ handler = [h \in Handler |->
                    [phase |-> "idle", batch |-> NoBatch, pos |-> 0]]
    /\ edr = {} /\ twice = {}

Handle(h) == Find(h) \/ Create(h) \/ Finish(h)

Next ==
    \/ LogEvent \/ Reboot \/ LinkChange \/ Lose
    \/ DrainSnapshot \/ DrainEmpty \/ DrainPublish \/ DrainMark
    \/ \E a \in acks : ReceiveAck(a) \/ IgnoreAck(a)
    \/ \E h \in Handler, m \in net : Receive(h, m)
    \/ \E h \in Handler : Handle(h) \/ Fail(h)

\* The drain task runs, the link comes back again and again, and handlers are
\* scheduled.  What is tried again and again succeeds at some time: the
\* delivery of a batch or an ack of the running boot, and each query on its
\* behalf.  Nothing is assumed of an earlier boot's messages.
Fairness ==
    /\ WF_vars(LinkChange)
    /\ SF_vars(DrainSnapshot) /\ WF_vars(DrainPublish) /\ WF_vars(DrainMark)
    /\ SF_vars(\E h \in Handler, m \in net : m.boot = boot /\ Receive(h, m))
    /\ SF_vars(\E a \in acks : ReceiveAck(a))
    /\ \A h \in Handler :
         /\ WF_vars(Handle(h) \/ Fail(h))
         /\ \A b \in 0..MaxBoot : \A s \in 1..MaxSeq[b] :
              SF_vars(boot = b /\ At(h) = <<b, s>> /\ Find(h))
         /\ SF_vars(handler[h].batch.boot = boot /\ Create(h))
         /\ SF_vars(handler[h].batch.boot = boot /\ Finish(h))

Spec == Init /\ [][Next]_vars
FairSpec == Spec /\ Fairness

-----------------------------------------------------------------------------
(* Properties. *)

Phase == {"idle", "send", "mark"}

TypeOK ==
    /\ boot \in Nat /\ seq \in Nat /\ low \in Nat /\ low <= seq
    /\ dropped \subseteq Event
    /\ outstanding \in Nat \cup {None}
    /\ drain \in [phase : Phase, batch : Batch]
    /\ connected \in BOOLEAN
    /\ net \subseteq Batch /\ acks \subseteq Ack
    /\ handler \in [Handler -> [phase : {"idle", "find", "create"},
                                batch : Batch, pos : Nat]]
    /\ edr \subseteq Event /\ twice \subseteq edr

(***************************************************************************)
(* RES-02: an event of the running boot is in the buffer, has an EDR row,  *)
(* or is one the full buffer discarded; whatever is lost, duplicated or    *)
(* reordered, and whichever handler dies where.                            *)
(***************************************************************************)
NothingLost ==
    \A s \in 1..seq : s > low \/ <<boot, s>> \in edr \cup dropped

(***************************************************************************)
(* What an ack promises, also one that is still under way from an earlier  *)
(* boot: everything up to upTo has a row or was discarded for want of      *)
(* room.                                                                   *)
(***************************************************************************)
AckMeansEvidenced ==
    \A a \in acks : \A s \in 1..a.upTo : <<a.boot, s>> \in edr \cup dropped

(***************************************************************************)
(* Whatever is lost, retried or left over from before a reboot, the upload *)
(* catches up: again and again every event of the running boot has its row *)
(* or was discarded.                                                       *)
(***************************************************************************)
EventuallyEvidenced ==
    []<>(\A s \in 1..seq : <<boot, s>> \in edr \cup dropped)

(***************************************************************************)
(* What makes NothingLost inductive: a batch under way, in the drain task, *)
(* on the network or in a handler, starts right behind events that are     *)
(* evidenced or discarded, and so does the handler's position in it.       *)
(***************************************************************************)
Safe(b, n) == \A s \in 1..n : <<b, s>> \in edr \cup dropped

BatchesSafe ==
    /\ \A m \in net : Safe(m.boot, m.from - 1) /\ m.from >= 1
    /\ drain.phase = "send" =>
         Safe(drain.batch.boot, drain.batch.from - 1) /\ drain.batch.from >= 1

HandlersSafe ==
    \A h \in Handler : handler[h].phase # "idle" =>
        Safe(handler[h].batch.boot, handler[h].pos - 1) /\ handler[h].pos >= 1

SyncInv == /\ TypeOK
           /\ Safe(boot, low)
           /\ BatchesSafe
           /\ HandlersSafe
           /\ AckMeansEvidenced

-----------------------------------------------------------------------------
(***************************************************************************)
(* mqtt.service.ts:223-225: "each event is DEDUPED on its vehicle-assigned *)
(* identity ... a redelivered batch adds nothing."  Two handlers of the    *)
(* same batch both find no row and both create one.                        *)
(***************************************************************************)
OneRowPerEvent == twice = {}

=============================================================================
