--------------------------- MODULE LogSyncProofs ---------------------------
(***************************************************************************)
(* Proofs about LogSync for any number of handlers, any capacity, any      *)
(* batch size and any number of events and boots.                          *)
(***************************************************************************)
EXTENDS LogSync, TLAPS

(***************************************************************************)
(* Evidence is never withdrawn: rows are only appended and the record of   *)
(* what the full buffer discarded only grows.                              *)
(***************************************************************************)
LEMMA EvidenceGrows ==
    ASSUME TypeOK, Next
    PROVE  edr \subseteq edr' /\ dropped \subseteq dropped'
<1>1. CASE LogEvent
  BY <1>1 DEF LogEvent, cloudVars
<1>2. CASE Reboot \/ LinkChange \/ Lose
  BY <1>2 DEF Reboot, LinkChange, Lose, vehicleVars, cloudVars
<1>3. CASE DrainSnapshot \/ DrainEmpty \/ DrainPublish \/ DrainMark
  BY <1>3 DEF DrainSnapshot, DrainEmpty, DrainPublish, DrainMark, cloudVars
<1>4. CASE \E a \in acks : ReceiveAck(a) \/ IgnoreAck(a)
  BY <1>4 DEF ReceiveAck, IgnoreAck, vehicleVars, cloudVars
<1>5. CASE \E h \in Handler, m \in net : Receive(h, m)
  BY <1>5 DEF Receive, vehicleVars
<1>6. CASE \E h \in Handler : Handle(h) \/ Fail(h)
  BY <1>6 DEF Handle, Find, Create, Finish, Fail, vehicleVars
<1> QED BY <1>1, <1>2, <1>3, <1>4, <1>5, <1>6 DEF Next

\* What is evidenced or discarded up to n stays so.
LEMMA SafeStays ==
    ASSUME TypeOK, Next, NEW b, NEW n, Safe(b, n)
    PROVE  Safe(b, n)'
BY EvidenceGrows DEF Safe

-----------------------------------------------------------------------------
LEMMA TypeInit == Init => TypeOK
<1> SUFFICES ASSUME Init PROVE TypeOK OBVIOUS
<1>1. connected \in BOOLEAN BY Zenon DEF Init
<1>2. NoBatch \in Batch BY DEF NoBatch, Batch
<1>3. drain \in [phase : Phase, batch : Batch]
  BY <1>2 DEF Init, Phase
<1>4. handler \in [Handler -> [phase : {"idle", "find", "create"},
                                batch : Batch, pos : Nat]]
  BY <1>2 DEF Init
<1> QED BY <1>1, <1>3, <1>4 DEF Init, TypeOK

LEMMA TypeStep ==
    ASSUME TypeOK, Next
    PROVE  TypeOK'
<1> USE LogSyncAssumption
<1>1. CASE LogEvent
  <2>1. seq \in Nat /\ low \in Nat /\ boot \in Nat /\ <<boot, low + 1>> \in Event
    BY DEF TypeOK, Event
  <2>2. seq' \in Nat /\ low' \in Nat /\ low' <= seq'
    BY <1>1, <2>1 DEF LogEvent, TypeOK
  <2>3. dropped' \subseteq Event
    BY <1>1, <2>1 DEF LogEvent, TypeOK
  <2> QED BY <1>1, <2>2, <2>3 DEF LogEvent, TypeOK, cloudVars
<1>2. CASE Reboot
  <2>1. connected' \in BOOLEAN BY <1>2, Zenon DEF Reboot
  <2>2. drain' \in [phase : Phase, batch : Batch]
    BY <1>2 DEF Reboot, NoBatch, Batch, Phase
  <2> QED BY <1>2, <2>1, <2>2 DEF Reboot, TypeOK, cloudVars
<1>3. CASE LinkChange
  BY <1>3 DEF LinkChange, TypeOK, vehicleVars, cloudVars
<1>4. CASE Lose
  BY <1>4 DEF Lose, TypeOK, vehicleVars, cloudVars
<1>5. CASE DrainSnapshot
  <2>1. Snapshot \in Batch
    BY DEF Snapshot, Batch, TypeOK
  <2> QED BY <1>5, <2>1 DEF DrainSnapshot, TypeOK, cloudVars, Phase
<1>6. CASE DrainEmpty
  BY <1>6 DEF DrainEmpty, TypeOK, cloudVars
<1>7. CASE DrainPublish
  BY <1>7 DEF DrainPublish, TypeOK, cloudVars, Phase
<1>8. CASE DrainMark
  BY <1>8 DEF DrainMark, TypeOK, cloudVars, Phase, Batch, NoBatch
<1>9. CASE \E a \in acks : ReceiveAck(a) \/ IgnoreAck(a)
  <2> PICK a \in acks : ReceiveAck(a) \/ IgnoreAck(a) BY <1>9
  <2>1. a.upTo \in Nat BY DEF TypeOK, Ack
  <2> QED BY <2>1 DEF ReceiveAck, IgnoreAck, TypeOK, vehicleVars, cloudVars
<1>10. CASE \E h \in Handler, m \in net : Receive(h, m)
  <2> PICK h \in Handler, m \in net : Receive(h, m) BY <1>10
  <2>1. m \in Batch /\ m.from \in Nat BY DEF TypeOK, Batch
  <2> QED BY <2>1 DEF Receive, TypeOK, vehicleVars
<1>11. CASE \E h \in Handler : Handle(h) \/ Fail(h)
  <2> PICK h \in Handler : Handle(h) \/ Fail(h) BY <1>11
  <2>1. /\ handler[h].pos \in Nat /\ handler[h].batch \in Batch
        /\ At(h) \in Event
        /\ [boot |-> handler[h].batch.boot, upTo |-> handler[h].batch.to] \in Ack
    BY DEF TypeOK, Batch, Event, At, Ack
  <2>2. NoBatch \in Batch BY DEF NoBatch, Batch
  <2>3. CASE Find(h)
    BY <2>1, <2>3 DEF Find, TypeOK, vehicleVars
  <2>4. CASE Create(h)
    BY <2>1, <2>4 DEF Create, TypeOK, vehicleVars
  <2>5. CASE Finish(h)
    BY <2>1, <2>2, <2>5 DEF Finish, TypeOK, vehicleVars
  <2>6. CASE Fail(h)
    BY <2>2, <2>6 DEF Fail, TypeOK, vehicleVars
  <2> QED BY <2>3, <2>4, <2>5, <2>6 DEF Handle
<1> QED BY <1>1, <1>2, <1>3, <1>4, <1>5, <1>6, <1>7, <1>8, <1>9, <1>10, <1>11
        DEF Next

-----------------------------------------------------------------------------
(* The parts of SyncInv, one lemma each. *)

LEMMA BufferSafe ==
    ASSUME SyncInv, Next
    PROVE  Safe(boot, low)'
<1> USE DEF SyncInv
<1>0. boot \in Nat /\ low \in Nat /\ seq \in Nat BY DEF TypeOK
<1>1. CASE LogEvent
  <2>1. boot' = boot /\ (Safe(boot, low)' \/ low' = low + 1)
    BY <1>1, SafeStays DEF LogEvent, Safe
  <2>2. ASSUME low' = low + 1 PROVE Safe(boot, low)'
    <3>1. \A s \in 1..low : <<boot, s>> \in (edr \cup dropped)'
      BY EvidenceGrows DEF Safe
    <3>2. boot' = boot /\ <<boot, low + 1>> \in dropped'
      BY <1>0, <1>1, <2>2 DEF LogEvent
    <3> QED BY <1>0, <2>2, <3>1, <3>2 DEF Safe
  <2> QED BY <1>0, <1>1, <2>2, EvidenceGrows DEF LogEvent, Safe
<1>2. CASE Reboot
  BY <1>2 DEF Reboot, Safe
<1>3. CASE \E a \in acks : ReceiveAck(a)
  <2> PICK a \in acks : ReceiveAck(a) BY <1>3
  <2>1. a.upTo \in Nat BY DEF TypeOK, Ack
  <2>2. Safe(boot, a.upTo)
    BY DEF AckMeansEvidenced, ReceiveAck, AckOfThisBoot, Safe
  <2>3. boot' = boot /\ low' \in Nat /\ (low' <= a.upTo \/ low' = low)
    BY <1>0, <2>1 DEF ReceiveAck
  <2> QED BY <1>0, <2>1, <2>2, <2>3, EvidenceGrows DEF Safe
<1>4. CASE UNCHANGED <<boot, low>>
  BY <1>4, EvidenceGrows DEF Safe
<1> QED BY <1>1, <1>2, <1>3, <1>4
        DEF Next, LinkChange, Lose, DrainSnapshot, DrainEmpty, DrainPublish,
            DrainMark, IgnoreAck, Receive, Handle, Find, Create, Finish, Fail,
            vehicleVars

LEMMA BatchesStaySafe ==
    ASSUME SyncInv, Next
    PROVE  BatchesSafe'
<1> USE DEF SyncInv
<1>1. \A m \in net : Safe(m.boot, m.from - 1)' /\ m.from >= 1
  BY SafeStays DEF BatchesSafe
<1>2. drain.phase = "send" =>
        /\ \A s \in 1..(drain.batch.from - 1) :
             <<drain.batch.boot, s>> \in (edr \cup dropped)'
        /\ drain.batch.from >= 1
  BY EvidenceGrows DEF BatchesSafe, Safe
<1>3. CASE DrainSnapshot
  <2>1. \A s \in 1..low : <<boot, s>> \in (edr \cup dropped)'
    BY EvidenceGrows DEF Safe
  <2>2. low \in Nat BY DEF TypeOK
  <2>3. net' = net /\ drain' = [phase |-> "send", batch |-> Snapshot]
    BY <1>3 DEF DrainSnapshot
  <2>4. Snapshot.boot = boot /\ Snapshot.from = low + 1
    BY DEF Snapshot
  <2> QED BY <1>1, <2>1, <2>2, <2>3, <2>4 DEF BatchesSafe, Safe
<1>4. CASE DrainPublish
  <2>1. drain.phase = "send" /\ net' = net \cup {drain.batch} /\ drain'.phase = "mark"
    BY <1>4 DEF DrainPublish, TypeOK
  <2> QED BY <1>1, <1>2, <2>1 DEF BatchesSafe, Safe
<1>5. CASE DrainMark \/ Reboot
  <2>1. net' = net /\ drain'.phase = "idle"
    BY <1>5 DEF DrainMark, Reboot
  <2> QED BY <1>1, <2>1 DEF BatchesSafe, Safe
<1>6. CASE net' \subseteq net /\ drain' = drain
  BY <1>1, <1>2, <1>6 DEF BatchesSafe, Safe
<1> QED BY <1>3, <1>4, <1>5, <1>6
        DEF Next, LogEvent, LinkChange, Lose, DrainEmpty, ReceiveAck, IgnoreAck,
            Receive, Handle, Find, Create, Finish, Fail, vehicleVars

LEMMA HandlersStaySafe ==
    ASSUME SyncInv, Next
    PROVE  HandlersSafe'
<1> USE DEF SyncInv
<1>1. \A h \in Handler : handler[h].phase # "idle" =>
        /\ \A s \in 1..(handler[h].pos - 1) :
             <<handler[h].batch.boot, s>> \in (edr \cup dropped)'
        /\ handler[h].pos >= 1 /\ handler[h].pos \in Nat
  BY EvidenceGrows DEF HandlersSafe, Safe, TypeOK
<1>2. CASE handler' = handler
  BY <1>1, <1>2 DEF HandlersSafe, Safe
<1>3. CASE \E h \in Handler, m \in net : Receive(h, m)
  <2> PICK h \in Handler, m \in net : Receive(h, m) BY <1>3
  <2>1. handler' = [handler EXCEPT
            ![h] = [phase |-> "find", batch |-> m, pos |-> m.from]]
    BY DEF Receive
  <2>2. Safe(m.boot, m.from - 1)' /\ m.from >= 1
    BY SafeStays DEF BatchesSafe
  <2> QED BY <1>1, <2>1, <2>2 DEF HandlersSafe, Safe, TypeOK
<1>4. CASE \E h \in Handler : Find(h) \/ Create(h)
  <2> PICK h \in Handler : Find(h) \/ Create(h) BY <1>4
  <2>1. handler[h].phase # "idle" /\ handler[h].pos \in Nat
    BY DEF Find, Create, TypeOK
  <2>2. handler'[h] \in [phase : {"create"}, batch : {handler[h].batch},
                         pos : {handler[h].pos}]
        \/ /\ handler'[h].batch = handler[h].batch
           /\ handler'[h].pos = handler[h].pos + 1
           /\ <<handler[h].batch.boot, handler[h].pos>> \in edr'
    BY DEF Find, Create, At, TypeOK
  <2>3. /\ \A s \in 1..(handler'[h].pos - 1) :
             <<handler'[h].batch.boot, s>> \in (edr \cup dropped)'
        /\ handler'[h].pos >= 1
    BY <1>1, <2>1, <2>2
  <2>4. \A g \in Handler \ {h} : handler'[g] = handler[g]
    BY DEF Find, Create, TypeOK
  <2> QED BY <1>1, <2>3, <2>4 DEF HandlersSafe, Safe
<1>5. CASE \E h \in Handler : Finish(h) \/ Fail(h)
  <2> PICK h \in Handler : Finish(h) \/ Fail(h) BY <1>5
  <2>1. handler'[h].phase = "idle"
    BY DEF Finish, Fail, TypeOK
  <2>2. \A g \in Handler \ {h} : handler'[g] = handler[g]
    BY DEF Finish, Fail, TypeOK
  <2> QED BY <1>1, <2>1, <2>2 DEF HandlersSafe, Safe
<1> QED BY <1>2, <1>3, <1>4, <1>5
        DEF Next, LogEvent, Reboot, LinkChange, Lose, DrainSnapshot, DrainEmpty,
            DrainPublish, DrainMark, ReceiveAck, IgnoreAck, Handle, vehicleVars,
            cloudVars

LEMMA AcksStaySafe ==
    ASSUME SyncInv, Next
    PROVE  AckMeansEvidenced'
<1> USE DEF SyncInv
<1>1. \A a \in acks : \A s \in 1..a.upTo : <<a.boot, s>> \in (edr \cup dropped)'
  BY EvidenceGrows DEF AckMeansEvidenced
<1>2. CASE acks' \subseteq acks
  BY <1>1, <1>2 DEF AckMeansEvidenced
<1>3. CASE \E h \in Handler : Finish(h)
  <2> PICK h \in Handler : Finish(h) BY <1>3
  <2> DEFINE b == handler[h].batch
  <2>1. /\ handler[h].phase # "idle" /\ handler[h].pos > b.to
        /\ handler[h].pos \in Nat /\ b.to \in Nat
    BY DEF Finish, Persisted, TypeOK, Batch
  <2>2. \A s \in 1..b.to : <<b.boot, s>> \in edr \cup dropped
    BY <2>1 DEF HandlersSafe, Safe
  <2>3. acks' = acks \cup {[boot |-> b.boot, upTo |-> b.to]}
    BY DEF Finish
  <2>4. \A s \in 1..b.to : <<b.boot, s>> \in (edr \cup dropped)'
    BY <2>2, EvidenceGrows
  <2>5. SUFFICES ASSUME NEW a \in acks', NEW s \in 1..a.upTo
                 PROVE  <<a.boot, s>> \in (edr \cup dropped)'
    BY DEF AckMeansEvidenced
  <2>6. CASE a \in acks BY <1>1, <2>6
  <2>7. CASE a = [boot |-> b.boot, upTo |-> b.to]
    <3>1. a.upTo = b.to /\ a.boot = b.boot BY <2>7
    <3> HIDE DEF b
    <3> QED BY <2>4, <3>1
  <2> QED BY <2>3, <2>6, <2>7
<1> QED BY <1>2, <1>3
        DEF Next, LogEvent, Reboot, LinkChange, Lose, DrainSnapshot, DrainEmpty,
            DrainPublish, DrainMark, ReceiveAck, IgnoreAck, Receive, Handle,
            Find, Create, Fail

-----------------------------------------------------------------------------
(***************************************************************************)
(* SyncInv is an invariant: every batch under way starts right behind      *)
(* events that are evidenced or discarded, and every ack covers only such. *)
(***************************************************************************)
THEOREM SyncInvariant == Spec => []SyncInv
<1>1. Init => SyncInv
  <2> SUFFICES ASSUME Init PROVE SyncInv OBVIOUS
  <2>1. TypeOK BY TypeInit
  <2>2. Safe(boot, low) BY DEF Init, Safe
  <2>3. BatchesSafe BY DEF Init, BatchesSafe
  <2>4. HandlersSafe BY DEF Init, HandlersSafe
  <2>5. AckMeansEvidenced BY DEF Init, AckMeansEvidenced
  <2> QED BY <2>1, <2>2, <2>3, <2>4, <2>5 DEF SyncInv
<1>2. SyncInv /\ [Next]_vars => SyncInv'
  <2> SUFFICES ASSUME SyncInv, [Next]_vars PROVE SyncInv' OBVIOUS
  <2>1. CASE Next
    <3>1. TypeOK' BY <2>1, TypeStep DEF SyncInv
    <3> QED BY <2>1, <3>1, BufferSafe, BatchesStaySafe, HandlersStaySafe,
              AcksStaySafe DEF SyncInv
  <2>2. CASE UNCHANGED vars
    BY <2>2 DEF vars, vehicleVars, cloudVars, SyncInv, TypeOK, Safe,
                BatchesSafe, HandlersSafe, AckMeansEvidenced
  <2> QED BY <2>1, <2>2
<1> QED BY <1>1, <1>2, PTL DEF Spec

(***************************************************************************)
(* RES-02 for every capacity, batch size and number of handlers: an event  *)
(* leaves the vehicle's buffer only into the EDR or through the capacity   *)
(* limit.                                                                  *)
(***************************************************************************)
THEOREM Lossless == Spec => []NothingLost
<1>1. SyncInv => NothingLost
  BY DEF SyncInv, NothingLost, Safe, TypeOK
<1> QED BY <1>1, SyncInvariant, PTL

(***************************************************************************)
(* Every ack the service publishes, also a late one of an earlier boot,    *)
(* covers only events that have a row or were discarded for want of room.  *)
(***************************************************************************)
THEOREM AcksAreHonest == Spec => []AckMeansEvidenced
<1>1. SyncInv => AckMeansEvidenced
  BY DEF SyncInv
<1> QED BY <1>1, SyncInvariant, PTL

=============================================================================
