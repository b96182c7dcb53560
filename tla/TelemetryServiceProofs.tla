----------------------- MODULE TelemetryServiceProofs ------------------------
(***************************************************************************)
(* Proofs about the heartbeats (HeartbeatWatch), for every period, all     *)
(* thresholds and every queue, and about the store of samples              *)
(* (TelemetryStore), for every set of samples, flush threshold and retry   *)
(* limit.                                                                  *)
(***************************************************************************)
EXTENDS TelemetryService, SequenceTheorems, TLAPS

-----------------------------------------------------------------------------
(* The link monitor *)

Statuses == {"HEALTHY", "DEGRADED", "LOST"}

\* Between two turns of the monitor, PERIOD - due ticks have gone by since the
\* last one, and the status was true then.
LinkInv ==
    /\ due \in 0..PERIOD
    /\ age \in Nat \cup {None} /\ status \in Statuses \cup {None}
    /\ age # None =>
         /\ status # None
         /\ status = "LOST" => age >= LOST * PERIOD
         /\ status = "DEGRADED" => /\ age >= DEGRADED * PERIOD
                                   /\ age < LOST * PERIOD + (PERIOD - due)
         /\ status = "HEALTHY" => age < DEGRADED * PERIOD + (PERIOD - due)

\* The thresholds in ticks.
LEMMA Limits ==
    /\ LOST * PERIOD \in Nat /\ DEGRADED * PERIOD \in Nat
    /\ DEGRADED * PERIOD > 0
    /\ (LOST + 1) * PERIOD = LOST * PERIOD + PERIOD
    /\ (DEGRADED + 1) * PERIOD = DEGRADED * PERIOD + PERIOD
  BY HeartbeatAssumption

\* Whole periods without a heartbeat.
LEMMA Misses ==
    ASSUME NEW a \in Nat, NEW n \in Nat
    PROVE  a \div PERIOD \in Nat /\ (a \div PERIOD >= n <=> a >= n * PERIOD)
  BY HeartbeatAssumption

\* No heartbeat was heard.
LEMMA LinkInitially == Init => LinkInv
  BY HeartbeatAssumption DEF Init, LinkInv

\* Every step keeps LinkInv.
LEMMA LinkStep == LinkInv /\ [Next]_vars => LinkInv'
<1> SUFFICES ASSUME LinkInv, [Next]_vars PROVE LinkInv'
  OBVIOUS
<1> USE HeartbeatAssumption DEF vehicleVars, clientVars, recorderVars, monitorVars
<1>1. CASE UNCHANGED monitorVars BY <1>1 DEF LinkInv
<1>2. CASE HandleHeartbeat
  <2>1. age' = 0 /\ status' = "HEALTHY" /\ due' = due
    BY <1>2 DEF HandleHeartbeat
  <2> QED BY <2>1, Limits DEF LinkInv, Statuses
<1>3. CASE EvaluateLinks
  <2>1. due = 0 /\ due' = PERIOD /\ age' = age BY <1>3 DEF EvaluateLinks
  <2>2. CASE age = None
    BY <1>3, <2>1, <2>2 DEF EvaluateLinks, LinkInv
  <2>3. CASE age # None
    <3>1. age \in Nat BY <2>3 DEF LinkInv
    <3>2. /\ age \div PERIOD >= LOST <=> age >= LOST * PERIOD
          /\ age \div PERIOD >= DEGRADED <=> age >= DEGRADED * PERIOD
      BY <3>1, Misses
    <3>3. status' = IF age >= LOST * PERIOD THEN "LOST"
                    ELSE IF age >= DEGRADED * PERIOD THEN "DEGRADED" ELSE status
      BY <1>3, <2>3, <3>2 DEF EvaluateLinks, Judge
    <3> QED BY <2>1, <2>3, <3>1, <3>3, Limits DEF LinkInv, Statuses
  <2> QED BY <2>2, <2>3
<1>4. CASE Tick
  <2>1. /\ due > 0 /\ due' = due - 1 /\ status' = status
        /\ age' = IF age = None \/ age = (LOST + 1) * PERIOD THEN age ELSE age + 1
    BY <1>4 DEF Tick
  <2>2. due' \in 0..PERIOD BY <2>1 DEF LinkInv
  <2>3. CASE age = None BY <2>1, <2>2, <2>3 DEF LinkInv
  <2>4. CASE age # None
    <3>1. age \in Nat /\ age' \in Nat /\ age' >= age /\ age' <= age + 1
      BY <2>1, <2>4 DEF LinkInv
    <3> QED BY <2>1, <2>2, <2>4, <3>1, Limits DEF LinkInv
  <2> QED BY <2>3, <2>4
<1> QED
  BY <1>1, <1>2, <1>3, <1>4
     DEF Next, vars, Latch, Release, Beat, PubAck, Disconnect, Reconnect,
         RecordLatchTransition, Insert, CommandRestart

(***************************************************************************)
(* The link monitor of the telemetry service, for every period and all     *)
(* thresholds: a status is never more than one turn of the monitor behind  *)
(* the silence it stands for.                                              *)
(***************************************************************************)
THEOREM LinkStatusIsTrue == Spec => []StatusIsTrue
<1>1. LinkInv => StatusIsTrue
  BY HeartbeatAssumption, Limits DEF LinkInv, StatusIsTrue, Statuses
<1> QED BY <1>1, LinkInitially, LinkStep, PTL DEF Spec

-----------------------------------------------------------------------------
(* The recorder *)

\* The latch flag at a place on its way: as last handled, in the queue, and in
\* the vehicle.
Flag(i) ==
    IF i = 0 THEN lastLatch
    ELSE IF i <= Len(toCommand) THEN toCommand[i] ELSE latched

\* Numbers of latchings that the flags can have been taken at, where every
\* heartbeat that is sent again counts as one.
Dated(f) ==
    LET n == Len(toCommand) + 1 IN
    /\ f \in [0..n -> Int] /\ f[n] = entries + repeats
    /\ \A i, j \in 0..n : i <= j => f[i] <= f[j]
    /\ \A i \in 1..n : Flag(i) = TRUE /\ Flag(i - 1) # TRUE => f[i - 1] < f[i]

\* ENGAGED rows being inserted.
Pending == inserts[TRUE]

\* The rows are of latchings that the recorder has been told of.
RecorderInv ==
    /\ latched \in BOOLEAN /\ toCommand \in Seq(BOOLEAN)
    /\ unacked \in Seq(BOOLEAN) /\ repeats \in Nat
    /\ entries \in Nat /\ restarts \in Nat /\ engaged \in Nat
    /\ inserts \in [BOOLEAN -> Nat]
    /\ \E f : Dated(f) /\ engaged + Pending <= f[0] + restarts

\* No flag is on its way.
LEMMA RecorderInitially == Init => RecorderInv
<1> SUFFICES ASSUME Init PROVE RecorderInv
  OBVIOUS
<1>1. latched \in BOOLEAN /\ latched # TRUE BY Zenon DEF Init
<1>2. toCommand = <<>> /\ Len(toCommand) = 0 /\ toCommand \in Seq(BOOLEAN) BY DEF Init
<1>3. /\ entries = 0 /\ restarts = 0 /\ engaged = 0 /\ repeats = 0
      /\ inserts = [b \in BOOLEAN |-> 0] /\ unacked = <<>>
  BY DEF Init
<1> DEFINE f == [i \in 0..1 |-> 0]
<1>4. Dated(f) BY <1>1, <1>2, <1>3 DEF Dated, Flag
<1>5. Pending = 0 BY <1>3, Zenon DEF Pending
<1> QED BY <1>1, <1>2, <1>3, <1>4, <1>5 DEF RecorderInv

\* The numbers of RecorderInv.
LEMMA RecorderCounts ==
    ASSUME RecorderInv
    PROVE  /\ entries \in Nat /\ restarts \in Nat /\ engaged \in Nat
           /\ repeats \in Nat /\ Pending \in Nat /\ Len(toCommand) \in Nat
<1>1. Pending \in Nat BY Zenon DEF RecorderInv, Pending
<1> QED BY <1>1 DEF RecorderInv

\* Steps that write no row and handle no heartbeat.
LEMMA RecorderKeeps ==
    ASSUME RecorderInv,
           latched' \in BOOLEAN, toCommand' \in Seq(BOOLEAN), entries' \in Nat,
           unacked' \in Seq(BOOLEAN), repeats' \in Nat, UNCHANGED recorderVars,
           \A f : Dated(f) => \E g : Dated(g)' /\ g[0] = f[0]
    PROVE  RecorderInv'
<1>1. PICK f : Dated(f) /\ engaged + Pending <= f[0] + restarts
  BY DEF RecorderInv
<1>2. PICK g : Dated(g)' /\ g[0] = f[0] BY <1>1
<1> QED BY <1>1, <1>2 DEF RecorderInv, recorderVars, Pending

\* The vehicle latches: the newest date is that of this latching.
LEMMA LatchKeeps == RecorderInv /\ Latch => RecorderInv'
<1> SUFFICES ASSUME RecorderInv, Latch PROVE RecorderInv'
  OBVIOUS
<1>1. /\ latched' = TRUE /\ entries' = entries + 1
      /\ toCommand' = toCommand /\ UNCHANGED recorderVars
      /\ unacked' = unacked /\ repeats' = repeats
  BY DEF Latch, clientVars
<1>2. latched' \in BOOLEAN BY <1>1, Zenon
<1>3. ASSUME NEW f, Dated(f) PROVE \E g : Dated(g)' /\ g[0] = f[0]
  <2>1. PICK n : n = Len(toCommand) + 1 OBVIOUS
  <2>2. PICK g : g = [f EXCEPT ![n] = @ + 1] OBVIOUS
  <2>3. /\ n \in Nat \ {0} /\ entries \in Nat /\ Len(toCommand) = n - 1
        /\ Len(toCommand) \in Nat /\ repeats \in Nat
    BY <2>1 DEF RecorderInv
  <2>4. /\ f \in [0..n -> Int] /\ f[n] = entries + repeats
        /\ \A i, j \in 0..n : i <= j => f[i] <= f[j]
        /\ \A i \in 1..n : Flag(i) = TRUE /\ Flag(i - 1) # TRUE => f[i - 1] < f[i]
    BY <1>3, <2>1 DEF Dated
  <2>5. ASSUME NEW i \in 0..Len(toCommand) PROVE Flag(i)' = Flag(i)
    BY <1>1, <2>3 DEF Flag, recorderVars
  <2>6. /\ g \in [0..n -> Int] /\ g[n] = entries' + repeats' /\ g[0] = f[0]
        /\ \A i \in 0..n : g[i] = IF i = n THEN f[n] + 1 ELSE f[i]
    BY <1>1, <2>2, <2>3, <2>4
  <2>7. \A i, j \in 0..n : i <= j => g[i] <= g[j]
    BY <2>3, <2>4, <2>6
  <2>8. ASSUME NEW i \in 1..n, Flag(i)' = TRUE, Flag(i - 1)' # TRUE
        PROVE  g[i - 1] < g[i]
    <3>1. i - 1 \in 0..n /\ i - 1 # n /\ i \in 0..n BY <2>3
    <3>2. CASE i = n
      <4>1. f[i - 1] <= f[n] /\ f[i - 1] \in Int BY <2>3, <2>4, <3>1
      <4> QED BY <2>3, <2>4, <2>6, <3>1, <3>2, <4>1
    <3>3. CASE i # n
      <4>0. i \in 0..Len(toCommand) /\ i - 1 \in 0..Len(toCommand) BY <2>3,
                                                                      <3>3
      <4>1. Flag(i) = TRUE /\ Flag(i - 1) # TRUE BY <2>5, <2>8, <4>0
      <4>2. f[i - 1] < f[i] BY <2>4, <4>1
      <4> QED BY <2>6, <3>1, <3>3, <4>2
    <3> QED BY <3>2, <3>3
  <2>9. Dated(g)'
    <3>1. n = Len(toCommand)' + 1 BY <1>1, <2>1
    <3> QED BY <2>6, <2>7, <2>8, <3>1 DEF Dated
  <2> QED BY <2>6, <2>9
<1>4. /\ toCommand' \in Seq(BOOLEAN) /\ entries' \in Nat
      /\ unacked' \in Seq(BOOLEAN) /\ repeats' \in Nat
  BY <1>1 DEF RecorderInv
<1>5. UNCHANGED recorderVars BY <1>1
<1> QED BY <1>2, <1>3, <1>4, <1>5, RecorderKeeps

\* The vehicle is released.
LEMMA ReleaseKeeps == RecorderInv /\ Release => RecorderInv'
<1> SUFFICES ASSUME RecorderInv, Release PROVE RecorderInv'
  OBVIOUS
<1>1. /\ latched' = FALSE /\ entries' = entries
      /\ toCommand' = toCommand /\ UNCHANGED recorderVars
      /\ unacked' = unacked /\ repeats' = repeats
  BY DEF Release, clientVars
<1>2. latched' \in BOOLEAN /\ latched' # TRUE BY <1>1, Zenon
<1>3. ASSUME NEW f, Dated(f) PROVE Dated(f)'
  <2>1. ASSUME NEW i, Flag(i)' = TRUE PROVE Flag(i) = TRUE
    BY <1>1, <1>2, <2>1 DEF Flag, recorderVars
  <2>2. ASSUME NEW i \in 0..Len(toCommand) PROVE Flag(i)' = Flag(i)
    BY <1>1 DEF Flag, recorderVars, RecorderInv
  <2>3. ASSUME NEW i \in 1..(Len(toCommand) + 1), Flag(i)' = TRUE, Flag(i - 1)' # TRUE
        PROVE  f[i - 1] < f[i]
    <3>1. i - 1 \in 0..Len(toCommand) BY DEF RecorderInv
    <3> QED BY <1>3, <2>1, <2>2, <2>3, <3>1 DEF Dated
  <2> QED BY <1>1, <1>3, <2>3 DEF Dated
<1> QED BY <1>1, <1>2, <1>3, RecorderKeeps DEF RecorderInv

\* A heartbeat takes the flag and its date into the queue.
LEMMA BeatKeeps == RecorderInv /\ Beat => RecorderInv'
<1> SUFFICES ASSUME RecorderInv, Beat PROVE RecorderInv'
  OBVIOUS
<1>1. /\ latched' = latched /\ entries' = entries /\ UNCHANGED recorderVars
      /\ toCommand' = toCommand \/ toCommand' = Append(toCommand, latched)
      /\ unacked' = unacked /\ repeats' = repeats
  BY DEF Beat, clientVars
<1>2. CASE toCommand' = toCommand
  <2>1. ASSUME NEW f, Dated(f) PROVE Dated(f)'
    BY <1>1, <1>2, <2>1 DEF Dated, Flag, recorderVars
  <2> QED BY <1>1, <1>2, <2>1, RecorderKeeps DEF RecorderInv
<1>3. CASE toCommand' = Append(toCommand, latched)
  <2>1. /\ toCommand' \in Seq(BOOLEAN) /\ Len(toCommand') = Len(toCommand) + 1
        /\ \A i \in 1..Len(toCommand) : toCommand'[i] = toCommand[i]
        /\ toCommand'[Len(toCommand) + 1] = latched
        /\ Len(toCommand) \in Nat
    BY <1>3 DEF RecorderInv
  <2>2. ASSUME NEW f, Dated(f) PROVE \E g : Dated(g)' /\ g[0] = f[0]
    <3>0. PICK n : n = Len(toCommand) + 1 OBVIOUS
    <3>1. n \in Nat \ {0} /\ entries + repeats \in Nat /\ Len(toCommand) = n - 1
      BY <2>1, <3>0 DEF RecorderInv
    <3>2. PICK g : g = [i \in 0..(n + 1) |-> IF i <= n THEN f[i] ELSE f[n]]
      OBVIOUS
    <3>3. /\ f \in [0..n -> Int] /\ f[n] = entries + repeats
          /\ \A i, j \in 0..n : i <= j => f[i] <= f[j]
          /\ \A i \in 1..n : Flag(i) = TRUE /\ Flag(i - 1) # TRUE => f[i - 1] < f[i]
      BY <2>2, <3>0 DEF Dated
    <3>4. ASSUME NEW i \in 0..n PROVE Flag(i)' = Flag(i)
      BY <1>1, <2>1, <3>1 DEF Flag, recorderVars
    <3>5. Flag(n + 1)' = latched /\ Flag(n)' = latched
      BY <1>1, <2>1, <3>1 DEF Flag
    <3>6. /\ g \in [0..(n + 1) -> Int] /\ g[n + 1] = entries' + repeats'
          /\ g[0] = f[0] /\ \A i \in 0..n : g[i] = f[i]
      BY <1>1, <3>1, <3>2, <3>3
    <3>7. \A i, j \in 0..(n + 1) : i <= j => g[i] <= g[j]
      BY <3>1, <3>2, <3>3
    <3>8. ASSUME NEW i \in 1..(n + 1), Flag(i)' = TRUE, Flag(i - 1)' # TRUE
          PROVE  g[i - 1] < g[i]
      <4>1. i # n + 1
        <5>1. SUFFICES ASSUME i = n + 1 PROVE FALSE OBVIOUS
        <5>2. i - 1 = n BY <3>1, <5>1
        <5> QED BY <3>5, <3>8, <5>1, <5>2
      <4>2. i \in 1..n /\ i - 1 \in 0..n /\ i \in 0..n BY <3>1, <4>1
      <4>3. Flag(i) = TRUE /\ Flag(i - 1) # TRUE BY <3>4, <3>8, <4>2
      <4>4. f[i - 1] < f[i] BY <3>3, <4>2, <4>3
      <4> QED BY <3>6, <4>2, <4>4
    <3>9. Dated(g)'
      <4>1. n + 1 = Len(toCommand)' + 1 BY <2>1, <3>0
      <4> QED BY <3>6, <3>7, <3>8, <4>1 DEF Dated
    <3> QED BY <3>6, <3>9
  <2> QED BY <1>1, <2>1, <2>2, RecorderKeeps DEF RecorderInv
<1> QED BY <1>1, <1>2, <1>3

\* The recorder compares the next flag with the one before it.
LEMMA RecordKeeps == RecorderInv /\ RecordLatchTransition => RecorderInv'
<1> SUFFICES ASSUME RecorderInv, RecordLatchTransition PROVE RecorderInv'
  OBVIOUS
<1>1. PICK b : b = Head(toCommand) OBVIOUS
<1>2. /\ toCommand # <<>> /\ toCommand' = Tail(toCommand) /\ lastLatch' = b
      /\ inserts' = IF Transition(b) THEN [inserts EXCEPT ![b] = @ + 1] ELSE inserts
      /\ UNCHANGED <<latched, entries, repeats, engaged, restarts>>
      /\ unacked' = unacked \/ unacked' = Append(unacked, b)
  BY <1>1 DEF RecordLatchTransition, vehicleVars
<1>3. PICK n : n = Len(toCommand) OBVIOUS
<1>4. /\ n \in Nat \ {0} /\ b = toCommand[1] /\ b \in BOOLEAN
      /\ toCommand' \in Seq(BOOLEAN) /\ Len(toCommand') = n - 1
      /\ \A i \in 1..(n - 1) : toCommand'[i] = toCommand[i + 1]
  BY <1>1, <1>2, <1>3 DEF RecorderInv
<1>5. PICK f : Dated(f) /\ engaged + Pending <= f[0] + restarts
  BY DEF RecorderInv
<1>6. /\ f \in [0..(n + 1) -> Int] /\ f[n + 1] = entries + repeats
      /\ \A i, j \in 0..(n + 1) : i <= j => f[i] <= f[j]
      /\ \A i \in 1..(n + 1) : Flag(i) = TRUE /\ Flag(i - 1) # TRUE => f[i - 1] < f[i]
  BY <1>3, <1>5 DEF Dated
<1>7. PICK g : g = [i \in 0..n |-> f[i + 1]] OBVIOUS
<1>8. /\ g \in [0..n -> Int] /\ g[n] = entries' + repeats' /\ g[0] = f[1]
      /\ \A i, j \in 0..n : i <= j => g[i] <= g[j]
  BY <1>2, <1>4, <1>6, <1>7
<1>9. ASSUME NEW i \in 0..n PROVE Flag(i)' = Flag(i + 1)
  BY <1>2, <1>3, <1>4 DEF Flag
<1>10. ASSUME NEW i \in 1..n, Flag(i)' = TRUE, Flag(i - 1)' # TRUE
       PROVE  g[i - 1] < g[i]
  <2>1. i \in 0..n /\ i - 1 \in 0..n /\ i + 1 \in 1..(n + 1) /\ (i - 1) + 1 = i
        /\ (i + 1) - 1 = i
    BY <1>4
  <2>2. Flag(i + 1) = TRUE /\ Flag(i) # TRUE BY <1>9, <1>10, <2>1
  <2>3. f[i] < f[i + 1] BY <1>6, <2>1, <2>2
  <2> QED BY <1>7, <2>1, <2>3
<1>11. Dated(g)'
  <2>1. n = Len(toCommand)' + 1 BY <1>4
  <2> QED BY <1>8, <1>10, <2>1 DEF Dated
<1>12. inserts' \in [BOOLEAN -> Nat]
  BY <1>2, <1>4 DEF RecorderInv
<1>13. engaged' + Pending' <= g[0] + restarts'
  <2>1. f[0] \in Int /\ f[1] \in Int /\ f[0] <= f[1] BY <1>4, <1>6
  <2>2. CASE b = TRUE /\ Transition(b)
    <3>1. lastLatch # TRUE BY <2>2, Zenon DEF Transition
    <3>2. Flag(0) # TRUE BY <3>1 DEF Flag
    <3>3. Flag(1) = TRUE BY <1>3, <1>4, <2>2 DEF Flag
    <3>4. 1 \in 1..(n + 1) /\ 1 - 1 = 0 BY <1>4
    <3>5. f[0] < f[1] BY <1>6, <3>2, <3>3, <3>4
    <3>6. Pending' = Pending + 1 BY <1>2, <2>2 DEF RecorderInv, Pending
    <3> QED BY <1>2, <1>5, <1>8, <2>1, <3>5, <3>6, RecorderCounts
  <2>3. CASE ~(b = TRUE /\ Transition(b))
    <3>1. Pending' = Pending BY <1>2, <1>4, <2>3 DEF RecorderInv, Pending
    <3> QED BY <1>2, <1>5, <1>8, <2>1, <3>1, RecorderCounts
  <2> QED BY <2>2, <2>3
<1>14. unacked' \in Seq(BOOLEAN)
  <2>1. unacked \in Seq(BOOLEAN) BY DEF RecorderInv
  <2>2. Append(unacked, b) \in Seq(BOOLEAN) BY <1>4, <2>1, AppendProperties
  <2> QED BY <1>2, <2>1, <2>2
<1> QED BY <1>2, <1>4, <1>11, <1>12, <1>13, <1>14 DEF RecorderInv

\* The insert of a row ends.
LEMMA InsertKeeps ==
    ASSUME RecorderInv, NEW b \in BOOLEAN, Insert(b)
    PROVE  RecorderInv'
<1>1. /\ inserts[b] > 0 /\ inserts' = [inserts EXCEPT ![b] = @ - 1]
      /\ engaged' = engaged + (IF b THEN 1 ELSE 0) \/ engaged' = engaged
      /\ UNCHANGED <<latched, entries, toCommand, lastLatch, restarts, unacked, repeats>>
  BY DEF Insert, vehicleVars, clientVars
<1>2. PICK f : Dated(f) /\ engaged + Pending <= f[0] + restarts
  BY DEF RecorderInv
<1>3. Dated(f)' BY <1>1, <1>2 DEF Dated, Flag
<1>4. inserts \in [BOOLEAN -> Nat] BY DEF RecorderInv
<1>5. inserts' \in [BOOLEAN -> Nat] /\ engaged' \in Nat BY <1>1, <1>4,
                                                           RecorderCounts
<1>6. f[0] \in Int BY <1>2, RecorderCounts DEF Dated
<1>7. engaged' + Pending' <= f[0] + restarts'
  <2>1. CASE b = TRUE
    <3>0. inserts[b] = Pending BY <2>1 DEF Pending
    <3>1. Pending' = Pending - 1 BY <1>1, <1>4, <2>1 DEF Pending
    <3>2. engaged' = engaged + 1 \/ engaged' = engaged BY <1>1, <2>1
    <3> QED BY <1>1, <1>2, <1>6, <3>1, <3>2, RecorderCounts
  <2>2. CASE b = FALSE
    <3>1. Pending' = Pending BY <1>1, <1>4, <2>2 DEF Pending
    <3>2. engaged' = engaged + 0 \/ engaged' = engaged BY <1>1, <2>2
    <3> QED BY <1>1, <1>2, <1>6, <3>1, <3>2, RecorderCounts
  <2> QED BY <2>1, <2>2
<1> QED BY <1>1, <1>3, <1>5, <1>7 DEF RecorderInv

\* A restarted command service has forgotten the last flag.
LEMMA CommandRestartKeeps == RecorderInv /\ CommandRestart => RecorderInv'
<1> SUFFICES ASSUME RecorderInv, CommandRestart PROVE RecorderInv'
  OBVIOUS
<1>1. /\ restarts' = restarts + 1 /\ lastLatch' = None
      /\ inserts' = [b \in BOOLEAN |-> 0]
      /\ UNCHANGED <<latched, entries, toCommand, engaged, unacked, repeats>>
  BY DEF CommandRestart, vehicleVars, clientVars
<1>2. PICK f : Dated(f) /\ engaged + Pending <= f[0] + restarts
  BY DEF RecorderInv
<1>3. PICK n : n = Len(toCommand) + 1 OBVIOUS
<1>4. n \in Nat \ {0} BY <1>3 DEF RecorderInv
<1>5. /\ f \in [0..n -> Int] /\ f[n] = entries + repeats
      /\ \A i, j \in 0..n : i <= j => f[i] <= f[j]
      /\ \A i \in 1..n : Flag(i) = TRUE /\ Flag(i - 1) # TRUE => f[i - 1] < f[i]
  BY <1>2, <1>3 DEF Dated
<1>6. PICK g : g = [f EXCEPT ![0] = @ - 1] OBVIOUS
<1>7. /\ g \in [0..n -> Int] /\ g[n] = entries' + repeats' /\ g[0] = f[0] - 1
      /\ \A i \in 1..n : g[i] = f[i]
      /\ \A i, j \in 0..n : i <= j => g[i] <= g[j]
  BY <1>1, <1>4, <1>5, <1>6
<1>8. ASSUME NEW i \in 1..n PROVE Flag(i)' = Flag(i)
  BY <1>1, <1>4 DEF Flag
<1>9. ASSUME NEW i \in 1..n, Flag(i)' = TRUE, Flag(i - 1)' # TRUE
      PROVE  g[i - 1] < g[i]
  <2>1. CASE i = 1
    <3>1. f[0] <= f[1] /\ f[0] \in Int /\ f[1] \in Int BY <1>4, <1>5
    <3> QED BY <1>7, <2>1, <3>1
  <2>2. CASE i # 1
    <3>1. i - 1 \in 1..n BY <1>4, <2>2
    <3>2. f[i - 1] < f[i] BY <1>5, <1>8, <1>9, <3>1
    <3> QED BY <1>7, <3>1, <3>2
  <2> QED BY <2>1, <2>2
<1>10. Dated(g)' BY <1>1, <1>3, <1>7, <1>9 DEF Dated
<1>11. inserts' \in [BOOLEAN -> Nat] /\ Pending' = 0 BY <1>1, Zenon DEF Pending
<1>12. engaged' + Pending' <= g[0] + restarts'
  <2>1. f[0] \in Int BY <1>4, <1>5
  <2> QED BY <1>1, <1>2, <1>7, <1>11, <2>1, RecorderCounts
<1> QED BY <1>1, <1>10, <1>11, <1>12 DEF RecorderInv

\* The client sends k heartbeats again: their flags come before those of the
\* queue, and whatever was counted after them moves up by k.
LEMMA ReconnectKeeps == RecorderInv /\ Reconnect => RecorderInv'
<1> SUFFICES ASSUME RecorderInv, Reconnect PROVE RecorderInv'
  OBVIOUS
<1>1. /\ repeats' = repeats + Len(unacked) /\ toCommand' = unacked \o toCommand
      /\ unacked' = <<>> /\ UNCHANGED <<latched, entries, recorderVars>>
  BY DEF Reconnect, vehicleVars
<1>2. PICK k, m : k = Len(unacked) /\ m = Len(toCommand) OBVIOUS
<1>3. /\ k \in Nat /\ m \in Nat /\ entries + repeats \in Nat
      /\ unacked \in Seq(BOOLEAN) /\ toCommand \in Seq(BOOLEAN)
  BY <1>2 DEF RecorderInv
<1>4. /\ toCommand' \in Seq(BOOLEAN) /\ Len(toCommand') = k + m
      /\ \A i \in 1..m : toCommand'[k + i] = toCommand[i]
  BY <1>1, <1>2, <1>3
<1>5. ASSUME NEW f, Dated(f) PROVE \E g : Dated(g)' /\ g[0] = f[0]
  <2>1. /\ f \in [0..(m + 1) -> Int] /\ f[m + 1] = entries + repeats
        /\ \A i, j \in 0..(m + 1) : i <= j => f[i] <= f[j]
        /\ \A i \in 1..(m + 1) : Flag(i) = TRUE /\ Flag(i - 1) # TRUE => f[i - 1] < f[i]
    BY <1>2, <1>5 DEF Dated
  <2>2. PICK d \in {0, 1} : d = IF Flag(0) = TRUE THEN 1 ELSE 0 OBVIOUS
  <2>3. PICK g : g = [i \in 0..(k + m + 1) |->
                        IF i = 0 THEN f[0]
                        ELSE IF i <= k THEN f[0] + i - d ELSE f[i - k] + k]
    OBVIOUS
  <2>4. f[0] \in Int /\ f[1] \in Int /\ f[0] <= f[1] BY <1>3, <2>1
  <2>5. ASSUME NEW i \in (k + 1)..(k + m + 1)
        PROVE  /\ i - k \in 1..(m + 1) /\ f[i - k] \in Int /\ f[1] <= f[i - k]
               /\ g[i] = f[i - k] + k
    BY <1>3, <2>1, <2>3
  <2>6. ASSUME NEW i \in 1..k PROVE g[i] = f[0] + i - d
    BY <1>3, <2>3
  <2>7. g[0] = f[0] BY <1>3, <2>3
  <2>8. ASSUME NEW i \in 0..(k + m + 1)
        PROVE  i = 0 \/ i \in 1..k \/ i \in (k + 1)..(k + m + 1)
    BY <1>3
  <2>9. g \in [0..(k + m + 1) -> Int]
    <3>1. ASSUME NEW i \in 0..(k + m + 1) PROVE g[i] \in Int
      BY <1>3, <2>2, <2>4, <2>5, <2>6, <2>7, <2>8
    <3> QED BY <2>3, <3>1
  <2>10. g[k + m + 1] = entries' + repeats'
    <3>1. k + m + 1 \in (k + 1)..(k + m + 1) /\ (k + m + 1) - k = m + 1 BY <1>3
    <3>2. g[k + m + 1] = f[m + 1] + k BY <2>5, <3>1
    <3>3. entries' = entries /\ repeats' = repeats + k BY <1>1, <1>2
    <3>4. entries \in Nat /\ repeats \in Nat BY DEF RecorderInv
    <3> QED BY <1>3, <2>1, <3>2, <3>3, <3>4
  <2>11. ASSUME NEW i \in 0..(k + m + 1), NEW j \in 0..(k + m + 1), i <= j
         PROVE  g[i] <= g[j]
    <3>1. CASE i = 0 /\ j \in 1..k
      BY <2>2, <2>4, <2>6, <2>7, <3>1
    <3>2. CASE i = 0 /\ j \in (k + 1)..(k + m + 1)
      BY <1>3, <2>4, <2>5, <2>7, <3>2
    <3>3. CASE i \in 1..k /\ j \in 1..k
      BY <2>2, <2>4, <2>6, <2>11, <3>3
    <3>4. CASE i \in 1..k /\ j \in (k + 1)..(k + m + 1)
      <4>1. g[i] = f[0] + i - d /\ i \in Int /\ i <= k BY <1>3, <2>6, <3>4
      <4>2. g[j] = f[j - k] + k /\ f[1] <= f[j - k] /\ f[j - k] \in Int
        BY <2>5, <3>4
      <4> HIDE DEF Flag
      <4> QED BY <1>3, <2>2, <2>4, <4>1, <4>2
    <3>5. CASE i \in (k + 1)..(k + m + 1) /\ j \in (k + 1)..(k + m + 1)
      <4>1. i - k \in 0..(m + 1) /\ j - k \in 0..(m + 1) /\ i - k <= j - k
        BY <1>3, <2>5, <2>11, <3>5
      <4>2. f[i - k] <= f[j - k] BY <2>1, <4>1
      <4> QED BY <1>3, <2>5, <3>5, <4>2
    <3>6. CASE i = 0 /\ j = 0 BY <2>4, <2>7, <3>6
    <3> QED BY <1>3, <2>8, <2>11, <3>1, <3>2, <3>3, <3>4, <3>5, <3>6
  <2>12. /\ Flag(0)' = Flag(0)
         /\ \A i \in (k + 1)..(k + m + 1) : Flag(i)' = Flag(i - k)
    <3>1. ASSUME NEW i \in (k + 1)..(k + m + 1) PROVE Flag(i)' = Flag(i - k)
      <4>1. CASE i <= k + m
        <5>1. i - k \in 1..m /\ k + (i - k) = i /\ i \in Nat /\ i # 0 BY <1>3, <4>1
        <5>2. toCommand'[i] = toCommand[i - k] BY <1>4, <5>1
        <5> QED BY <1>2, <1>3, <1>4, <4>1, <5>1, <5>2 DEF Flag
      <4>2. CASE i = k + m + 1
        <5>1. i - k = m + 1 /\ i # 0 /\ ~(i <= k + m) /\ ~(m + 1 <= m) /\ m + 1 # 0
          BY <1>3, <4>2
        <5> QED BY <1>1, <1>2, <1>4, <5>1 DEF Flag
      <4> QED BY <1>3, <4>1, <4>2
    <3> QED BY <1>1, <3>1 DEF Flag, recorderVars
  <2>13. ASSUME NEW i \in 1..(k + m + 1), Flag(i)' = TRUE, Flag(i - 1)' # TRUE
         PROVE  g[i - 1] < g[i]
    <3>1. CASE i = 1 /\ k > 0
      <4>1. Flag(0) # TRUE
        <5>1. i - 1 = 0 BY <3>1
        <5> QED BY <2>12, <2>13, <5>1
      <4>2. d = 0 BY <2>2, <4>1
      <4>3. 1 \in 1..k BY <1>3, <3>1
      <4>4. g[1] = f[0] + 1 - 0 BY <2>6, <4>2, <4>3
      <4> QED BY <2>4, <2>7, <3>1, <4>4
    <3>2. CASE i \in 2..k
      <4>1. i \in 1..k /\ i - 1 \in 1..k BY <1>3, <3>2
      <4> QED BY <2>2, <2>4, <2>6, <4>1
    <3>3. CASE i = k + 1
      <4>0. i \in (k + 1)..(k + m + 1) /\ i - k = 1 /\ i - 1 = k BY <1>3, <3>3
      <4>1. Flag(1) = TRUE /\ g[i] = f[1] + k BY <2>5, <2>12, <2>13, <4>0
      <4>2. CASE Flag(0) = TRUE
        <5>1. d = 1 BY <2>2, <4>2
        <5>2. k # 0
          <6>1. SUFFICES ASSUME k = 0 PROVE FALSE OBVIOUS
          <6>2. i - 1 = 0 BY <4>0, <6>1
          <6> QED BY <2>12, <2>13, <4>2, <6>2
        <5>3. k \in 1..k BY <1>3, <5>2
        <5>4. g[k] = f[0] + k - 1 BY <2>6, <5>1, <5>3
        <5> QED BY <1>3, <2>4, <4>0, <4>1, <5>4
      <4>3. CASE Flag(0) # TRUE
        <5>1. 1 \in 1..(m + 1) /\ 1 - 1 = 0 BY <1>3
        <5>2. f[0] < f[1] BY <2>1, <4>1, <4>3, <5>1
        <5>3. g[k] <= f[0] + k
          <6>1. CASE k = 0 BY <2>4, <2>7, <6>1
          <6>2. CASE k > 0
            <7>1. k \in 1..k BY <1>3, <6>2
            <7> QED BY <1>3, <2>2, <2>4, <2>6, <7>1
          <6> QED BY <1>3, <6>1, <6>2
        <5>4. g[k] \in Int BY <1>3, <2>9
        <5> QED BY <1>3, <2>4, <4>0, <4>1, <5>2, <5>3, <5>4
      <4> QED BY <4>2, <4>3
    <3>4. CASE i \in (k + 2)..(k + m + 1)
      <4>1. /\ i \in (k + 1)..(k + m + 1) /\ i - 1 \in (k + 1)..(k + m + 1)
            /\ i - k \in 1..(m + 1) /\ (i - 1) - k = (i - k) - 1
        BY <1>3, <3>4
      <4>2. Flag(i - k) = TRUE /\ Flag((i - k) - 1) # TRUE
        BY <2>12, <2>13, <4>1
      <4>3. f[(i - k) - 1] < f[i - k] BY <2>1, <4>1, <4>2
      <4>4. g[i - 1] = f[(i - k) - 1] + k /\ g[i] = f[i - k] + k
            /\ f[(i - k) - 1] \in Int /\ f[i - k] \in Int
        BY <2>5, <4>1
      <4> QED BY <1>3, <4>3, <4>4
    <3> QED BY <1>3, <3>1, <3>2, <3>3, <3>4
  <2>14. Dated(g)'
    <3>1. k + m + 1 = Len(toCommand)' + 1 BY <1>4
    <3> QED BY <2>9, <2>10, <2>11, <2>13, <3>1 DEF Dated
  <2> QED BY <2>7, <2>14
<1>6. /\ latched' \in BOOLEAN /\ entries' \in Nat /\ unacked' \in Seq(BOOLEAN)
      /\ repeats' \in Nat /\ UNCHANGED recorderVars
  BY <1>1, <1>2, <1>3 DEF RecorderInv
<1> QED BY <1>4, <1>5, <1>6, RecorderKeeps

\* Every step keeps RecorderInv.
LEMMA RecorderStep == RecorderInv /\ [Next]_vars => RecorderInv'
<1> SUFFICES ASSUME RecorderInv, [Next]_vars PROVE RecorderInv'
  OBVIOUS
<1>1. ASSUME UNCHANGED <<latched, entries, toCommand, repeats, recorderVars>>,
             unacked' \in Seq(BOOLEAN)
      PROVE  RecorderInv'
  BY <1>1 DEF RecorderInv, Dated, Flag, recorderVars, Pending
<1>2. CASE UNCHANGED vars \/ Disconnect \/ HandleHeartbeat \/ EvaluateLinks \/ Tick
  BY <1>1, <1>2 DEF vars, vehicleVars, clientVars, Disconnect, HandleHeartbeat,
                    EvaluateLinks, Tick, RecorderInv
<1>3. CASE PubAck
  <2>1. unacked # <<>> /\ unacked' = Tail(unacked)
        /\ UNCHANGED <<latched, entries, toCommand, repeats, recorderVars>>
    BY <1>3 DEF PubAck, vehicleVars
  <2> QED BY <1>1, <2>1 DEF RecorderInv
<1> QED
  BY <1>2, <1>3, LatchKeeps, ReleaseKeeps, BeatKeeps, ReconnectKeeps, RecordKeeps,
     InsertKeeps, CommandRestartKeeps DEF Next

(***************************************************************************)
(* recordLatchTransition of mqtt.service.ts, for any length of the queue,  *)
(* any failures, any restarts and any heartbeats sent again: every ENGAGED *)
(* row stands for a latching of its own, but for one per restart of the    *)
(* service and one per heartbeat that was sent again.                      *)
(***************************************************************************)
THEOREM EveryRowAccountedFor == Spec => []RowsAccountedFor
<1>1. RecorderInv => RowsAccountedFor
  <2> SUFFICES ASSUME RecorderInv
               PROVE  engaged + Pending <= entries + restarts + repeats
    BY DEF RowsAccountedFor, Pending
  <2>1. PICK f : Dated(f) /\ engaged + Pending <= f[0] + restarts
    BY DEF RecorderInv
  <2>2. f[0] <= entries + repeats /\ f[0] \in Int BY <2>1, RecorderCounts DEF Dated
  <2> QED BY <2>1, <2>2, RecorderCounts
<1> QED BY <1>1, RecorderInitially, RecorderStep, PTL DEF Spec

-----------------------------------------------------------------------------
(* The store *)

StoreTypes ==
    /\ persist \in BOOLEAN /\ outage \in BOOLEAN /\ again \in Nat
    /\ sent \subseteq Sample /\ buffer \subseteq sent /\ batches \subseteq SUBSET sent
    /\ place \in [Sample -> {"none", "queue", "taken", "done", "dlq", "expired"}]
    /\ receives \in [Sample -> Nat] /\ invoked \subseteq SUBSET Sample
    /\ rows \in [Sample -> Nat] /\ refused \subseteq Sample

\* Only one of the two writers is at work, and none on what was not published.
OneWriter ==
    /\ persist => invoked = {} /\ \A s \in Sample : place[s] = "none"
    /\ ~persist => buffer = {} /\ batches = {}
    /\ \A s \in Sample \ sent : rows[s] = 0 /\ place[s] = "none"

\* A sample of the write-behind buffer is in one place, and not stored.
Unwritten ==
    /\ \A s \in buffer : rows[s] = 0
    /\ \A b \in batches : \A s \in b : rows[s] = 0 /\ s \notin buffer
    /\ \A b, c \in batches : b # c => b \cap c = {}

\* A record is in one invocation, and until it is deleted it has no more rows
\* than invocations that died and deliveries too many.
Received ==
    /\ \A B \in invoked : \A s \in B : place[s] = "taken"
    /\ \A B, C \in invoked : B # C => B \cap C = {}
    /\ ~persist => \A s \in Sample : place[s] # "done" => rows[s] <= again

StoreInv ==
    StoreTypes /\ OneWriter /\ Unwritten /\ Received /\ SingleWriter /\ StoredBeforeDeleted

\* Nothing was published.
LEMMA StoreInitially == StoreInit => StoreInv
<1> SUFFICES ASSUME StoreInit PROVE StoreInv
  OBVIOUS
<1>1. \A s \in Sample : place[s] = "none" /\ rows[s] = 0
  BY DEF StoreInit
<1>2. StoreTypes /\ OneWriter /\ Unwritten
  BY <1>1 DEF StoreInit, StoreTypes, OneWriter, Unwritten
<1>3. Received /\ SingleWriter /\ StoredBeforeDeleted
  BY <1>1, SMT DEF StoreInit, Received, SingleWriter, StoredBeforeDeleted
<1> QED  BY <1>2, <1>3 DEF StoreInv

\* A step that leaves the rows alone adds those of no batch.
LEMMA NoRows ==
  ASSUME rows \in [Sample -> Nat], rows' = rows
  PROVE  AddRows(UNION {})
<1>1. \A s \in Sample : rows[s] + (IF s \in UNION {} THEN 1 ELSE 0) = rows[s]
  OBVIOUS
<1> QED  BY <1>1 DEF AddRows

\* Inserts of the write-behind buffer that end, and a service that goes down:
\* the batches D were stored.
LEMMA WriterKeeps ==
  ASSUME StoreInv,
         sent' = sent, persist' = persist, outage' \in BOOLEAN, outage => outage',
         UNCHANGED <<queueVars, refused, again>>,
         NEW D \in SUBSET batches, AddRows(UNION D),
         batches' \subseteq batches \ D, buffer' = buffer \/ buffer' = {}
  PROVE  StoreInv'
<1>1. \A s \in Sample : rows'[s] = rows[s] + (IF s \in UNION D THEN 1 ELSE 0)
  BY DEF AddRows
<1>2. \A s \in UNION D : rows[s] = 0 /\ s \in Sample /\ s \in sent
  BY DEF StoreInv, Unwritten, StoreTypes
<1>3. \A s \in Sample :
        rows'[s] \in Nat /\ (rows'[s] = rows[s] \/ (s \in UNION D /\ rows'[s] = 1))
  BY <1>1, <1>2, SMT DEF StoreInv, StoreTypes
<1>4. StoreTypes'
  <2>1. rows' \in [Sample -> Nat]
    BY <1>3 DEF AddRows
  <2> QED  BY <2>1 DEF StoreInv, StoreTypes, queueVars
<1>5. D = {} \/ persist
  BY DEF StoreInv, OneWriter
<1>6. OneWriter'
  BY <1>2, <1>3 DEF StoreInv, OneWriter, StoreTypes, queueVars
<1>7. Unwritten'
  <2>1. \A b \in batches' : \A s \in b : s \notin UNION D
    BY DEF StoreInv, Unwritten
  <2>2. \A s \in buffer' : s \notin UNION D
    BY DEF StoreInv, Unwritten
  <2> QED  BY <1>3, <2>1, <2>2 DEF StoreInv, Unwritten, StoreTypes
<1>8. Received'
  BY <1>3, <1>5 DEF StoreInv, Received, queueVars, StoreTypes
<1>9. SingleWriter'
  BY <1>3, SMT DEF StoreInv, SingleWriter, StoreTypes
<1>10. StoredBeforeDeleted'
  BY <1>3, SMT DEF StoreInv, StoredBeforeDeleted, StoreTypes, queueVars
<1> QED  BY <1>4, <1>6, <1>7, <1>8, <1>9, <1>10 DEF StoreInv

\* A sample that is published is buffered, flushed, dropped or queued.
LEMMA PublishKeeps ==
  ASSUME StoreInv, NEW s \in Sample, Publish(s)
  PROVE  StoreInv'
<1>1. rows[s] = 0 /\ s \notin buffer /\ (\A b \in batches : s \notin b)
  BY DEF Publish, StoreInv, OneWriter, StoreTypes
<1>2. \/ UNCHANGED <<buffer, batches>>
      \/ persist /\ batches' = batches \cup {buffer \cup {s}} /\ buffer' = {}
      \/ persist /\ buffer' = buffer \cup {s} /\ UNCHANGED batches
  BY DEF Publish, Enqueue, Flush
<1>3. StoreTypes'
  BY <1>2 DEF Publish, StoreInv, StoreTypes
<1>4. OneWriter'
  BY <1>2 DEF Publish, StoreInv, OneWriter, StoreTypes
<1>5. Unwritten'
  <2>1. CASE UNCHANGED <<buffer, batches>>
    BY <2>1 DEF Publish, StoreInv, Unwritten
  <2>2. CASE batches' = batches \cup {buffer \cup {s}} /\ buffer' = {}
    BY <2>2, <1>1 DEF Publish, StoreInv, Unwritten
  <2>3. CASE buffer' = buffer \cup {s} /\ UNCHANGED batches
    BY <2>3, <1>1 DEF Publish, StoreInv, Unwritten
  <2> QED  BY <1>2, <2>1, <2>2, <2>3
<1>6. Received'
  <2>1. ~persist => \A B \in invoked : \A r \in B : r \in Sample /\ place[r] = "taken"
    BY DEF StoreInv, Received, StoreTypes
  <2>2. place[s] = "none"
    BY DEF Publish, StoreInv, OneWriter
  <2> QED  BY <1>1, <2>1, <2>2, SMT DEF Publish, StoreInv, Received,
              OneWriter, StoreTypes
<1>7. SingleWriter' /\ StoredBeforeDeleted'
  BY SMT DEF Publish, StoreInv, SingleWriter, StoredBeforeDeleted, StoreTypes
<1> QED  BY <1>3, <1>4, <1>5, <1>6, <1>7 DEF StoreInv

\* An invocation ends: the records F of its batch B come back, the others
\* were stored and are deleted.
LEMMA ReturnKeeps ==
  ASSUME StoreInv, NEW B \in invoked, NEW F \in SUBSET B, Return(B, F),
         UNCHANGED <<persist, sent, writerVars>>,
         outage' \in BOOLEAN, outage => outage', again' \in Nat, again <= again',
         rows' \in [Sample -> Nat],
         \A s \in Sample \ B : rows'[s] = rows[s],
         \A s \in F : rows'[s] <= again',
         \A s \in B \ F : rows'[s] > 0 /\ rows'[s] <= 1 + again',
         refused' \in SUBSET Sample, refused \subseteq refused',
         ~outage' /\ again' = 0 => F \subseteq Malformed \cup refused'
  PROVE  StoreInv'
<1>1. ~persist /\ buffer = {} /\ batches = {} /\ B \subseteq sent /\ B \subseteq Sample
  <2>1. ~persist /\ B \subseteq Sample
    BY DEF StoreInv, OneWriter, StoreTypes
  <2>2. \A s \in B : place[s] = "taken"
    BY DEF StoreInv, Received
  <2> QED  BY <2>1, <2>2 DEF StoreInv, OneWriter
<1>2. \A s \in Sample \ B : place'[s] = place[s]
  BY DEF Return
<1>3. \A s \in B \ F : place'[s] = "done"
  BY <1>1 DEF Return
<1>4. \A s \in F : place'[s] \in {"dlq", "queue"}
  BY <1>1 DEF Return
<1>5. StoreTypes'
  BY SMT DEF StoreInv, StoreTypes, Return, writerVars
<1>6. OneWriter'
  BY <1>1, <1>2 DEF StoreInv, OneWriter, writerVars
<1>7. Unwritten'
  BY <1>1 DEF Unwritten, writerVars
<1>8. Received'
  <2>1. \A C \in invoked' : C \in invoked /\ C \cap B = {} /\ C \subseteq Sample
    BY DEF StoreInv, Received, StoreTypes, Return
  <2>2. \A C \in invoked' : \A s \in C : place'[s] = "taken"
    BY <2>1, <1>2 DEF StoreInv, Received
  <2>3. \A C, D \in invoked' : C # D => C \cap D = {}
    BY <2>1 DEF StoreInv, Received
  <2>4. \A s \in Sample : place'[s] # "done" => rows'[s] <= again'
    <3> SUFFICES ASSUME NEW s \in Sample, place'[s] # "done" PROVE rows'[s] <= again'
      OBVIOUS
    <3>1. CASE s \in B
      BY <3>1, <1>3
    <3>2. CASE s \notin B
      BY <3>2, <1>1, <1>2, SMT DEF StoreInv, Received, StoreTypes
    <3> QED  BY <3>1, <3>2
  <2> QED  BY <2>2, <2>3, <2>4 DEF Received
<1>9. SingleWriter'
  <2> SUFFICES ASSUME NEW s \in Sample PROVE rows'[s] <= 1 + again'
    BY DEF SingleWriter
  <2>1. CASE s \in F
    BY <2>1, SMT
  <2>2. CASE s \in B \ F
    BY <2>2
  <2>3. CASE s \notin B
    BY <2>3, SMT DEF StoreInv, SingleWriter, StoreTypes
  <2> QED  BY <2>1, <2>2, <2>3
<1>10. StoredBeforeDeleted'
  <2> SUFFICES ASSUME NEW s \in Sample
               PROVE  /\ place'[s] = "done" => rows'[s] > 0
                      /\ place'[s] = "dlq" /\ ~outage' /\ again' = 0
                           => s \in Malformed \cup refused'
    BY DEF StoredBeforeDeleted
  <2>1. CASE s \in B
    BY <2>1, <1>3, <1>4
  <2>2. CASE s \notin B
    <3>1. again' = 0 => again = 0
      BY SMT DEF StoreInv, StoreTypes
    <3> QED  BY <2>2, <3>1, <1>2 DEF StoreInv, StoredBeforeDeleted
  <2> QED  BY <2>1, <2>2
<1> QED  BY <1>5, <1>6, <1>7, <1>8, <1>9, <1>10 DEF StoreInv

\* A batch of the queue is handed to the function.
LEMMA InvokeKeeps ==
  ASSUME StoreInv, NEW B \in SUBSET Sample, Invoke(B)
  PROVE  StoreInv'
<1>1. ~persist /\ B \subseteq sent
  <2>1. \A s \in B : place[s] = "queue"
    BY DEF Invoke
  <2> QED  BY <2>1 DEF Invoke, StoreInv, OneWriter
<1>2. \A s \in Sample : place'[s] = IF s \in B THEN "taken" ELSE place[s]
  BY DEF Invoke
<1>3. StoreTypes'
  BY SMT DEF StoreInv, StoreTypes, Invoke, writerVars
<1>4. OneWriter'
  BY <1>1, <1>2 DEF StoreInv, OneWriter, Invoke, writerVars
<1>5. Unwritten'
  BY DEF StoreInv, Unwritten, Invoke, writerVars
<1>6. Received'
  <2>1. \A C \in invoked : C \cap B = {} /\ C \subseteq Sample
    BY DEF StoreInv, Received, StoreTypes, Invoke
  <2>2. \A C \in invoked' : C \in invoked \/ C = B
    BY DEF Invoke
  <2>3. \A C \in invoked' : \A s \in C : place'[s] = "taken"
    BY <2>1, <2>2, <1>2 DEF StoreInv, Received
  <2>4. \A C, D \in invoked' : C # D => C \cap D = {}
    BY <2>1, <2>2 DEF StoreInv, Received
  <2>5. \A s \in Sample : rows'[s] <= again'
           \/ place[s] = "done"
    BY <1>1 DEF StoreInv, Received, Invoke
  <2>6. \A s \in Sample : place[s] = "done" => place'[s] = "done"
    BY <1>2 DEF Invoke
  <2> QED  BY <2>3, <2>4, <2>5, <2>6 DEF Received
<1>7. SingleWriter'
  BY DEF StoreInv, SingleWriter, Invoke
<1>8. StoredBeforeDeleted'
  <2>1. \A s \in Sample : place'[s] \in {"done", "dlq"} => place[s] = place'[s]
    BY <1>2
  <2> QED  BY <2>1 DEF StoreInv, StoredBeforeDeleted, Invoke
<1> QED  BY <1>3, <1>4, <1>5, <1>6, <1>7, <1>8 DEF StoreInv

\* The function handles its batch: the records that make no row come back.
LEMMA HandleKeeps ==
  ASSUME StoreInv, NEW B \in invoked, Handle(B)
  PROVE  StoreInv'
<1>1. PICK inserted \in BOOLEAN :
        /\ inserted => Rows(B) \cap Mistyped = {}
        /\ IF inserted THEN AddRows(Rows(B)) ELSE UNCHANGED rows
        /\ outage' = (outage \/ (~inserted /\ Rows(B) # {} /\ Rows(B) \cap Mistyped = {}))
        /\ refused' = IF ~inserted /\ Rows(B) \cap Mistyped # {}
                      THEN refused \cup Rows(B) ELSE refused
        /\ Return(B, Failures(B, inserted))
        /\ UNCHANGED <<persist, sent, writerVars, again>>
  BY DEF Handle
<1>2. /\ B \subseteq Sample /\ ~persist /\ rows \in [Sample -> Nat] /\ again \in Nat
      /\ \A s \in B : rows[s] <= again
  <2>1. B \subseteq Sample /\ ~persist /\ rows \in [Sample -> Nat] /\ again \in Nat
    BY DEF StoreInv, StoreTypes, OneWriter
  <2>2. \A s \in B : place[s] = "taken"
    BY DEF StoreInv, Received
  <2> QED  BY <2>1, <2>2 DEF StoreInv, Received
<1>3. outage' \in BOOLEAN /\ (outage => outage')
  BY <1>1, Zenon DEF StoreInv, StoreTypes
<1>4. refused' \in SUBSET Sample /\ refused \subseteq refused'
  BY <1>1, <1>2 DEF StoreInv, StoreTypes, Rows
<1>5. CASE inserted
  <2>1. PICK F \in SUBSET B : F = Failures(B, inserted)
    BY DEF Failures
  <2>2. F = B \cap Malformed
    BY <1>5, <2>1 DEF Failures, Rows
  <2>3. rows' = [s \in Sample |-> rows[s] + (IF s \in Rows(B) THEN 1 ELSE 0)]
    BY <1>1, <1>5 DEF AddRows
  <2>4. rows' \in [Sample -> Nat]
    BY <2>3, <1>2
  <2>5. \A s \in Sample : rows'[s] = rows[s] + (IF s \in B \ Malformed THEN 1 ELSE 0)
    BY <2>3 DEF Rows
  <2>6. \A s \in B \ F : rows'[s] > 0 /\ rows'[s] <= 1 + again
    BY <2>5, <2>2, <1>2, SMT
  <2>7. \A s \in F : rows'[s] <= again
    BY <2>5, <2>2, <1>2, SMT
  <2>8. \A s \in Sample \ B : rows'[s] = rows[s]
    BY <2>5, <1>2, SMT
  <2>9. Return(B, F) /\ UNCHANGED <<persist, sent, writerVars>> /\ again' = again
    BY <1>1, <2>1
  <2>10. F \subseteq Malformed \cup refused' /\ again <= again' /\ again' \in Nat
    BY <2>2, <2>9, <1>2
  <2> QED  BY <1>3, <1>4, <2>4, <2>6, <2>7, <2>8, <2>9, <2>10, ReturnKeeps
<1>6. CASE ~inserted
  <2>1. Failures(B, inserted) = B /\ rows' = rows /\ again' = again /\ Return(B, B)
        /\ UNCHANGED <<persist, sent, writerVars>>
    BY <1>1, <1>6 DEF Failures
  <2>2. ~outage' /\ again' = 0 => B \subseteq Malformed \cup refused'
    BY <1>1, <1>6 DEF Rows
  <2>3. B \in SUBSET B /\ B \ B = {} /\ again <= again' /\ again' \in Nat
    BY <2>1, <1>2
  <2> QED  BY <1>2, <1>3, <1>4, <2>1, <2>2, <2>3, ReturnKeeps
<1> QED  BY <1>5, <1>6

\* The invocation dies, before or after its insert: every record comes back.
LEMMA DieKeeps ==
  ASSUME StoreInv, NEW B \in invoked, Die(B)
  PROVE  StoreInv'
<1>1. /\ B \subseteq Sample /\ ~persist /\ rows \in [Sample -> Nat] /\ again \in Nat
      /\ \A s \in B : rows[s] <= again
  <2>1. B \subseteq Sample /\ ~persist /\ rows \in [Sample -> Nat] /\ again \in Nat
    BY DEF StoreInv, StoreTypes, OneWriter
  <2>2. \A s \in B : place[s] = "taken"
    BY DEF StoreInv, Received
  <2> QED  BY <2>1, <2>2 DEF StoreInv, Received
<1>2. again' = again + 1 /\ UNCHANGED <<persist, sent, writerVars>> /\ Return(B, B)
      /\ outage' = outage /\ refused' = refused
  BY DEF Die
<1>3. /\ rows' \in [Sample -> Nat]
      /\ \A s \in B : rows'[s] <= again'
      /\ \A s \in Sample \ B : rows'[s] = rows[s]
  <2>1. CASE rows' = rows
    BY <1>1, <1>2, <2>1, SMT
  <2>2. CASE AddRows(Rows(B))
    <3>1. rows' \in [Sample -> Nat]
      BY <2>2, <1>1 DEF AddRows
    <3>2. \A s \in Sample : rows'[s] = rows[s] + (IF s \in B \ Malformed THEN 1 ELSE 0)
      BY <2>2 DEF AddRows, Rows
    <3> QED  BY <1>1, <1>2, <3>1, <3>2, SMT
  <2> QED  BY <2>1, <2>2 DEF Die
<1>4. B \in SUBSET B /\ B \ B = {} /\ again <= again' /\ again' \in Nat /\ again' # 0
  BY <1>1, <1>2
<1>5. outage' \in BOOLEAN /\ refused' \in SUBSET Sample
  BY <1>2 DEF StoreInv, StoreTypes
<1> QED  BY <1>2, <1>3, <1>4, <1>5, ReturnKeeps

\* The queue hands out a record again, which may have a row already.
LEMMA RedeliverKeeps ==
  ASSUME StoreInv, NEW s \in Sample, Redeliver(s)
  PROVE  StoreInv'
<1>1. place[s] = "done" /\ again' = again + 1 /\ rows' = rows /\ ~persist /\ s \in sent
  BY DEF Redeliver, StoreInv, OneWriter
<1>2. \A r \in Sample : place'[r] = IF r = s THEN "queue" ELSE place[r]
  BY DEF Redeliver, StoreInv, StoreTypes
<1>3. StoreTypes'
  BY <1>1, SMT DEF Redeliver, StoreInv, StoreTypes, writerVars
<1>4. OneWriter' /\ Unwritten'
  BY <1>1, <1>2 DEF Redeliver, StoreInv, OneWriter, Unwritten, writerVars
<1>5. Received'
  <2>1. \A B \in invoked : B \subseteq Sample /\ s \notin B
    BY <1>1 DEF StoreInv, Received, StoreTypes
  <2>2. \A B \in invoked' : \A r \in B : place'[r] = "taken"
    BY <1>2, <2>1 DEF Redeliver, StoreInv, Received
  <2>3. \A r \in Sample : place'[r] # "done" => rows'[r] <= again'
    BY <1>1, <1>2, SMT DEF StoreInv, Received, SingleWriter, StoreTypes
  <2> QED  BY <2>2, <2>3 DEF Redeliver, StoreInv, Received
<1>6. SingleWriter'
  BY <1>1, SMT DEF StoreInv, SingleWriter, StoreTypes
<1>7. StoredBeforeDeleted'
  <2>1. again' # 0 /\ rows' = rows
    BY <1>1, SMT DEF StoreInv, StoreTypes
  <2> QED  BY <1>2, <2>1 DEF StoreInv, StoredBeforeDeleted
<1> QED  BY <1>3, <1>4, <1>5, <1>6, <1>7 DEF StoreInv

\* The queue drops a record that no invocation has taken.
LEMMA ExpireKeeps ==
  ASSUME StoreInv, NEW s \in Sample, Expire(s)
  PROVE  StoreInv'
<1>1. place[s] = "queue" /\ UNCHANGED <<again, rows, outage, refused>> /\ ~persist
      /\ s \in sent
  BY DEF Expire, StoreInv, OneWriter
<1>2. \A r \in Sample : place'[r] = IF r = s THEN "expired" ELSE place[r]
  BY DEF Expire, StoreInv, StoreTypes
<1>3. StoreTypes'
  BY SMT DEF Expire, StoreInv, StoreTypes, writerVars
<1>4. OneWriter' /\ Unwritten'
  BY <1>1, <1>2 DEF Expire, StoreInv, OneWriter, Unwritten, writerVars
<1>5. Received'
  <2>1. \A B \in invoked : B \subseteq Sample /\ s \notin B
    BY <1>1 DEF StoreInv, Received, StoreTypes
  <2>2. \A B \in invoked' : \A r \in B : place'[r] = "taken"
    BY <1>2, <2>1 DEF Expire, StoreInv, Received
  <2>3. \A r \in Sample : place'[r] # "done" => rows'[r] <= again'
    BY <1>1, <1>2 DEF StoreInv, Received
  <2> QED  BY <2>2, <2>3 DEF Expire, StoreInv, Received
<1>6. SingleWriter' /\ StoredBeforeDeleted'
  BY <1>1, <1>2 DEF StoreInv, SingleWriter, StoredBeforeDeleted
<1> QED  BY <1>3, <1>4, <1>5, <1>6 DEF StoreInv

\* Every step keeps StoreInv.
LEMMA StoreStep ==
  ASSUME StoreInv, [StoreNext]_storeVars
  PROVE  StoreInv'
<1>1. CASE \E s \in Sample : Publish(s) \/ Redeliver(s) \/ Expire(s)
  BY <1>1, PublishKeeps, RedeliverKeeps, ExpireKeeps
<1>2. ASSUME UNCHANGED <<rows, outage, persist, sent, queueVars, refused, again>>,
             batches' = batches, buffer' = buffer
      PROVE  StoreInv'
  <2>1. {} \in SUBSET batches /\ batches' \subseteq batches \ {}
    BY <1>2
  <2>2. AddRows(UNION {})
    BY <1>2, NoRows DEF StoreInv, StoreTypes
  <2>3. outage' \in BOOLEAN /\ (outage => outage')
    BY <1>2 DEF StoreInv, StoreTypes
  <2> QED  BY <1>2, <2>1, <2>2, <2>3, WriterKeeps
<1>3. CASE TryEnsureSchema
  BY <1>3, <1>2 DEF TryEnsureSchema
<1>4. CASE FlushTimer
  <2>1. UNCHANGED <<persist, sent, queueVars, rows, outage, refused, again>> /\ buffer' = {}
        /\ batches' = batches \cup {buffer} /\ buffer # {}
    BY <1>4 DEF FlushTimer, Flush
  <2>2. StoreTypes' /\ OneWriter' /\ Unwritten'
    BY <2>1 DEF StoreInv, StoreTypes, OneWriter, Unwritten, queueVars
  <2>3. Received' /\ SingleWriter' /\ StoredBeforeDeleted'
    BY <2>1 DEF StoreInv, Received, SingleWriter, StoredBeforeDeleted, queueVars
  <2> QED  BY <2>2, <2>3 DEF StoreInv
<1>5. CASE WriterRestart
  <2>1. PICK D \in SUBSET batches : AddRows(UNION D)
    BY <1>5 DEF WriterRestart
  <2>2. batches' \subseteq batches \ D /\ buffer' = {} /\ outage' = outage
        /\ UNCHANGED <<persist, sent, queueVars, refused, again>>
    BY <1>5 DEF WriterRestart
  <2>3. outage' \in BOOLEAN
    BY <2>2 DEF StoreInv, StoreTypes
  <2> QED  BY <2>1, <2>2, <2>3, WriterKeeps
<1>6. ASSUME NEW b \in batches, FlushInsert(b)
      PROVE  StoreInv'
  <2>1. UNCHANGED <<persist, sent, buffer, queueVars, refused, again>>
        /\ batches' = batches \ {b}
    BY <1>6 DEF FlushInsert
  <2>2. CASE AddRows(b) /\ outage' = outage
    <3>1. UNION {b} = b /\ {b} \in SUBSET batches /\ outage' \in BOOLEAN
      BY <2>2 DEF StoreInv, StoreTypes
    <3> QED  BY <2>1, <2>2, <3>1, WriterKeeps
  <2>3. CASE outage' = TRUE /\ rows' = rows
    <3>1. {} \in SUBSET batches /\ batches' \subseteq batches \ {}
      BY <2>1
    <3>2. AddRows(UNION {})
      BY <2>3, NoRows DEF StoreInv, StoreTypes
    <3> QED  BY <2>1, <2>3, <3>1, <3>2, WriterKeeps
  <2> QED  BY <1>6, <2>2, <2>3 DEF FlushInsert
<1>7. CASE \E B \in SUBSET Sample : Invoke(B)
  BY <1>7, InvokeKeeps
<1>8. CASE \E B \in invoked : Handle(B) \/ Die(B)
  BY <1>8, HandleKeeps, DieKeeps
<1>9. CASE UNCHANGED storeVars
  BY <1>9, <1>2 DEF storeVars, writerVars
<1> QED  BY <1>1, <1>3, <1>4, <1>5, <1>6, <1>7, <1>8, <1>9 DEF StoreNext

\* The store's invariant, in every reachable state.
LEMMA StoreInvariant == StoreSpec => []StoreInv
  BY StoreInitially, StoreStep, PTL DEF StoreSpec

(***************************************************************************)
(* telemetry-writer.service.ts and telemetry-ingest/index.mjs, for any     *)
(* samples, any flush threshold and any retry limit, in either deployment: *)
(* a sample has at most one row more than invocations died and deliveries  *)
(* were one too many.                                                      *)
(***************************************************************************)
THEOREM NoRowTwice == StoreSpec => []SingleWriter
<1>1. StoreInv => SingleWriter
  BY DEF StoreInv
<1> QED  BY <1>1, StoreInvariant, PTL

(***************************************************************************)
(* index.mjs, for the same and for any malformed and mistyped samples: a   *)
(* record the function let the queue delete has a row, and without a       *)
(* failure only malformed records, and those received with a mistyped one, *)
(* are given up.  A record that expires is neither.                        *)
(***************************************************************************)
THEOREM DeletedOnlyStored == StoreSpec => []StoredBeforeDeleted
<1>1. StoreInv => StoredBeforeDeleted
  BY DEF StoreInv
<1> QED  BY <1>1, StoreInvariant, PTL

-----------------------------------------------------------------------------
(* The composition *)

(***************************************************************************)
(* The telemetry service as it is model-checked, both components in one    *)
(* specification, keeps the four properties.                               *)
(***************************************************************************)
THEOREM ServiceKeepsAll ==
    ServiceSpec => [](StatusIsTrue /\ RowsAccountedFor /\ SingleWriter /\ StoredBeforeDeleted)
<1>1. ServiceInit => Init /\ StoreInit
  BY DEF ServiceInit
<1>2. [ServiceNext]_<<vars, storeVars>> => [Next]_vars /\ [StoreNext]_storeVars
  BY DEF ServiceNext
<1>3. ServiceSpec => Spec /\ StoreSpec
  BY <1>1, <1>2, PTL DEF ServiceSpec, Spec, StoreSpec
<1> QED  BY <1>3, LinkStatusIsTrue, EveryRowAccountedFor, NoRowTwice,
            DeletedOnlyStored, PTL

=============================================================================
