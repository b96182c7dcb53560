------------------------- MODULE SessionLockProofs -------------------------
(***************************************************************************)
(* Proofs about SessionLock for any number of operators, instances and     *)
(* requests and any durations with LOCK_TTL < DEADMAN.                     *)
(***************************************************************************)
EXTENDS SessionLock, TLAPS

\* Placed and Unused are the two clauses of SessionInv about requests.
Placed(r) ==
    /\ req[r].pc # "new" \/ req[r].inst \in Instance => req[r].op \in Operator
    /\ req[r].pc \in {"mint", "set", "expire", "arm"} => req[r].inst \in Instance

Unused(r) == req[r].pc \in {"new", "mint", "set"} => r \notin used

LEMMA SessionInvParts ==
    SessionInv <=> TypeOK /\ DeadmanCovers
                     /\ \A r \in Request : Placed(r) /\ Unused(r)
BY DEF SessionInv, Placed, Unused

-----------------------------------------------------------------------------
(* Types. *)

\* The fields of a request that has begun.
LEMMA BeginType ==
    ASSUME TypeOK, NEW r \in Request, NEW kind \in AllKinds, NEW o \in Operator,
           NEW i \in Instance \cup {None}, NEW t \in Request,
           NEW pc \in {"mint", "expire", "issue", "get", "done"},
           Begin(r, kind, o, i, t, pc)
    PROVE  req' \in [Request -> Req]
BY DEF TypeOK, Begin, Req

LEMMA GotoType ==
    ASSUME TypeOK, NEW r \in Request, NEW pc \in {"arm", "del"}, Goto(r, pc)
    PROVE  req' \in [Request -> Req]
<1>1. req[r] \in Req BY DEF TypeOK
<1>2. [req[r] EXCEPT !.pc = pc] \in Req BY <1>1 DEF Req
<1>3. req' = [req EXCEPT ![r] = [req[r] EXCEPT !.pc = pc]] BY DEF Goto
<1> QED BY <1>2, <1>3 DEF TypeOK

LEMMA GotoPc ==
    ASSUME req \in [Request -> Req], NEW r \in Request, NEW pc, Goto(r, pc)
    PROVE  req'[r].pc = pc
<1>1. req[r] \in Req OBVIOUS
<1>2. req'[r] = [req[r] EXCEPT !.pc = pc] BY DEF Goto
<1> QED BY <1>1, <1>2 DEF Req

LEMMA AnswerType ==
    ASSUME TypeOK, NEW r \in Request, Answer(r)
    PROVE  req' \in [Request -> Req]
<1>1. req[r] \in Req BY DEF TypeOK
<1>2. [req[r] EXCEPT !.pc = "done", !.inst = None] \in Req BY <1>1 DEF Req
<1>3. req' = [req EXCEPT ![r] = [req[r] EXCEPT !.pc = "done", !.inst = None]]
  BY DEF Answer, TypeOK
<1> QED BY <1>2, <1>3 DEF TypeOK

LEMMA GrantType ==
    ASSUME TypeOK, NEW r \in Request, req[r].pc = "set", req[r].op \in Operator,
           Grant(r)
    PROVE  /\ lock' \in Lock \cup {None} /\ used' \subseteq Request
           /\ owed' \in BOOLEAN /\ req' \in [Request -> Req]
<1>1. req' \in [Request -> Req] BY GotoType DEF Grant
<1>2. req[r].at \in Nat BY DEF TypeOK, Req
<1>3. lock' \in Lock BY <1>2, SessionAssumption DEF Grant, Lock
<1>4. owed' \in BOOLEAN BY Zenon DEF Grant
<1> QED BY <1>1, <1>3, <1>4 DEF Grant, TypeOK

LEMMA CallbackType ==
    ASSUME NEW f \in [Instance -> [pc : {"idle", "get", "mint", "publish"}, at : Nat]],
           NEW i \in Instance, NEW pc \in {"idle", "get", "mint", "publish"}
    PROVE  [f EXCEPT ![i].pc = pc]
             \in [Instance -> [pc : {"idle", "get", "mint", "publish"}, at : Nat]]
<1>1. f[i] \in [pc : {"idle", "get", "mint", "publish"}, at : Nat] OBVIOUS
<1>2. [f[i] EXCEPT !.pc = pc] \in [pc : {"idle", "get", "mint", "publish"}, at : Nat]
  BY <1>1
<1>3. [f EXCEPT ![i].pc = pc] = [f EXCEPT ![i] = [f[i] EXCEPT !.pc = pc]]
  OBVIOUS
<1> QED BY <1>2, <1>3

LEMMA GrantedTokens ==
    ASSUME NEW o, NEW t \in Granted(o)
    PROVE  t \in Request
BY DEF Granted

LEMMA TypeStep ==
    ASSUME SessionInv, Next
    PROVE  TypeOK'
<1> USE SessionAssumption
<1>0. TypeOK /\ \A r \in Request : Placed(r) BY SessionInvParts
<1>1. ASSUME NEW r \in Request, NEW o \in Operator, NEW i \in Instance,
             TakeControl(r, o, i) \/ Handover(r, o, i)
      PROVE  TypeOK'
  <2>1. req' \in [Request -> Req]
    BY <1>0, <1>1, BeginType DEF TakeControl, Handover, AllKinds
  <2> QED BY <1>0, <1>1, <2>1
          DEF TakeControl, Handover, TypeOK, lockVars, timerVars, vehicleVars
<1>2. ASSUME NEW r \in Request, NEW o \in Operator, NEW t \in Granted(o),
             SendCommand(r, o, t)
      PROVE  TypeOK'
  <2>1. req' \in [Request -> Req]
    BY <1>0, <1>2, GrantedTokens, BeginType DEF SendCommand, AllKinds
  <2> QED BY <1>0, <1>2, <2>1
          DEF SendCommand, TypeOK, lockVars, timerVars, vehicleVars
<1>3. ASSUME NEW r \in Request, NEW o \in Operator, NEW t \in Granted(o),
             NEW i \in Instance, Heartbeat(r, o, t, i)
      PROVE  TypeOK'
  <2>1. req' \in [Request -> Req]
    BY <1>0, <1>3, GrantedTokens, BeginType DEF Heartbeat, AllKinds
  <2> QED BY <1>0, <1>3, <2>1
          DEF Heartbeat, TypeOK, lockVars, timerVars, vehicleVars
<1>4. ASSUME NEW r \in Request, NEW o \in Operator, Revoke(r, o)
      PROVE  TypeOK'
  <2>1. req' \in [Request -> Req]
    BY <1>0, <1>4, BeginType DEF Revoke, AllKinds
  <2>2. assigned' \subseteq Operator
    BY <1>0, <1>4 DEF Revoke, TypeOK
  <2> QED BY <1>0, <1>4, <2>1, <2>2
          DEF Revoke, TypeOK, lockVars, timerVars, vehicleVars
<1>5. ASSUME NEW r \in Request, Step(r) PROVE TypeOK'
  <2>0. req[r] \in Req /\ req[r].at \in Nat BY <1>0 DEF TypeOK, Req
  <2>1. CASE Mint(r)
    <3>1. [req[r] EXCEPT !.pc = "set", !.at = now] \in Req
      BY <1>0, <2>0 DEF Req, TypeOK
    <3>2. req' = [req EXCEPT ![r] = [req[r] EXCEPT !.pc = "set", !.at = now]]
      BY <1>0, <2>1 DEF Mint, TypeOK
    <3>3. req' \in [Request -> Req] BY <1>0, <3>1, <3>2 DEF TypeOK
    <3> QED BY <1>0, <2>1, <3>3
            DEF Mint, TypeOK, lockVars, timerVars, vehicleVars
  <2>2. CASE SetNX(r)
    <3>1. /\ lock' \in Lock \cup {None} /\ used' \subseteq Request
          /\ owed' \in BOOLEAN /\ req' \in [Request -> Req]
      <4>1. CASE lock = None
        BY <1>0, <2>2, <4>1, GrantType DEF SetNX, Placed
      <4>2. CASE lock # None
        BY <1>0, <2>2, <4>2, AnswerType DEF SetNX, TypeOK
      <4> QED BY <4>1, <4>2
    <3> QED BY <1>0, <2>2, <3>1 DEF SetNX, TypeOK, vehicleVars
  <2>3. CASE SetOver(r)
    <3>1. /\ lock' \in Lock \cup {None} /\ used' \subseteq Request
          /\ owed' \in BOOLEAN /\ req' \in [Request -> Req]
      BY <1>0, <2>3, GrantType DEF SetOver, Placed
    <3>2. over' \in [Request -> Request \cup {None}]
      <4>1. over \in [Request -> Request \cup {None}] BY <1>0 DEF TypeOK
      <4>2. \/ over' = over
            \/ \E t : over' = [over EXCEPT ![t] = r]
        BY <2>3 DEF SetOver
      <4> QED BY <4>1, <4>2
    <3> QED BY <1>0, <2>3, <3>1, <3>2 DEF SetOver, TypeOK, vehicleVars
  <2>4. CASE Arm(r)
    <3>1. req' \in [Request -> Req] BY <1>0, <2>4, AnswerType DEF Arm
    <3>2. timer' \in [Instance -> (0..DEADMAN) \cup {None}]
      <4>1. timer \in [Instance -> (0..DEADMAN) \cup {None}] BY <1>0 DEF TypeOK
      <4>2. DEADMAN \in 0..DEADMAN OBVIOUS
      <4>3. timer' = [timer EXCEPT ![req[r].inst] = DEADMAN]
        BY <2>4 DEF Arm, ResetDeadmanTimer
      <4> QED BY <4>1, <4>2, <4>3
    <3>3. died' \in BOOLEAN BY <2>4, Zenon DEF Arm
    <3> QED BY <1>0, <2>4, <3>1, <3>2, <3>3 DEF Arm, TypeOK, lockVars, vehicleVars
  <2>5. CASE Expire(r)
    <3>1. req' \in [Request -> Req] BY <1>0, <2>5, GotoType DEF Expire
    <3>2. lock' \in Lock \cup {None}
      <4>1. LOCK_TTL \in 1..LOCK_TTL OBVIOUS
      <4>2. ASSUME lock \in Lock PROVE [lock EXCEPT !.ttl = LOCK_TTL] \in Lock
        BY <4>1, <4>2 DEF Lock
      <4>3. \/ lock' = None
            \/ lock # None /\ lock' = [lock EXCEPT !.ttl = LOCK_TTL]
        BY <2>5 DEF Expire, Renew
      <4> QED BY <1>0, <4>2, <4>3 DEF TypeOK
    <3> QED BY <1>0, <2>5, <3>1, <3>2
            DEF Expire, Renew, TypeOK, timerVars, vehicleVars
  <2>6. CASE GetTokenIssuedAt(r)
    <3> DEFINE at == IF lock = None THEN now ELSE lock.at
    <3>1. at \in Nat BY <1>0 DEF TypeOK, Lock
    <3>2. [req[r] EXCEPT !.pc = "publish", !.at = at] \in Req
      BY <2>0, <3>1 DEF Req
    <3>3. req' = [req EXCEPT ![r] = [req[r] EXCEPT !.pc = "publish", !.at = at]]
      BY <1>0, <2>6 DEF GetTokenIssuedAt, TypeOK
    <3> HIDE DEF at
    <3>4. req' \in [Request -> Req] BY <1>0, <3>2, <3>3 DEF TypeOK
    <3> QED BY <1>0, <2>6, <3>4
            DEF GetTokenIssuedAt, TypeOK, lockVars, timerVars, vehicleVars
  <2>7. CASE Publish(r)
    <3>1. req' \in [Request -> Req] BY <1>0, <2>7, AnswerType DEF Publish
    <3>2. net' \subseteq [cmd : Request \cup {None}, at : Nat]
      BY <1>0, <2>0, <2>7 DEF Publish, TypeOK
    <3> QED BY <1>0, <2>7, <3>1, <3>2
            DEF Publish, TypeOK, lockVars, timerVars
  <2>8. CASE RevokeGet(r)
    <3>1. req' \in [Request -> Req]
      BY <1>0, <2>8, GotoType, AnswerType DEF RevokeGet
    <3> QED BY <1>0, <2>8, <3>1
            DEF RevokeGet, TypeOK, lockVars, timerVars, vehicleVars
  <2>9. CASE RevokeDel(r)
    <3>1. req' \in [Request -> Req] BY <1>0, <2>9, AnswerType DEF RevokeDel
    <3>2. cut' \subseteq Operator \X Operator
      BY <1>0, <2>9 DEF RevokeDel, TypeOK, Lock, Placed
    <3> QED BY <1>0, <2>9, <3>1, <3>2
            DEF RevokeDel, TypeOK, timerVars, vehicleVars
  <2> QED BY <1>5, <2>1, <2>2, <2>3, <2>4, <2>5, <2>6, <2>7, <2>8, <2>9 DEF Step
<1>6. ASSUME NEW o \in Operator, Assign(o) PROVE TypeOK'
  BY <1>0, <1>6 DEF Assign, TypeOK, lockVars, timerVars, vehicleVars
<1>7. ASSUME NEW i \in Instance, Callback(i) PROVE TypeOK'
  <2>1. CASE TimerFires(i)
    <3>1. timer' \in [Instance -> (0..DEADMAN) \cup {None}]
      BY <1>0, <2>1 DEF TimerFires, TypeOK
    <3>2. deadman' \in [Instance -> [pc : {"idle", "get", "mint", "publish"}, at : Nat]]
      BY <1>0, <2>1, CallbackType DEF TimerFires, TypeOK
    <3> QED BY <1>0, <2>1, <3>1, <3>2 DEF TimerFires, TypeOK, lockVars, vehicleVars
  <2>2. CASE DeadmanGet(i)
    <3>1. deadman' \in [Instance -> [pc : {"idle", "get", "mint", "publish"}, at : Nat]]
      BY <1>0, <2>2, CallbackType DEF DeadmanGet, TypeOK
    <3> QED BY <1>0, <2>2, <3>1 DEF DeadmanGet, TypeOK, lockVars, vehicleVars
  <2>3. CASE DeadmanMint(i)
    BY <1>0, <2>3 DEF DeadmanMint, TypeOK, lockVars, vehicleVars
  <2>4. CASE DeadmanPublish(i)
    <3>1. owed' \in BOOLEAN BY <2>4, Zenon DEF DeadmanPublish
    <3>2. deadman' \in [Instance -> [pc : {"idle", "get", "mint", "publish"}, at : Nat]]
      BY <1>0, <2>4 DEF DeadmanPublish, TypeOK
    <3>3. net' \subseteq [cmd : Request \cup {None}, at : Nat]
      BY <1>0, <2>4 DEF DeadmanPublish, TypeOK
    <3> QED BY <1>0, <2>4, <3>1, <3>2, <3>3 DEF DeadmanPublish, TypeOK, lockVars
  <2> QED BY <1>7, <2>1, <2>2, <2>3, <2>4 DEF Callback
<1>8. ASSUME NEW m \in net, Deliver(m) PROVE TypeOK'
  <2>1. m.at \in Nat /\ m.cmd \in Request \cup {None} BY <1>0 DEF TypeOK
  <2>2. newest' \in Nat /\ net' \subseteq net /\ fenced' \subseteq Request
    BY <1>0, <1>8, <2>1 DEF Deliver, TypeOK
  <2>3. accepted' \in Seq(Request)
    <3>1. accepted \in Seq(Request) BY <1>0 DEF TypeOK
    <3>2. \/ accepted' = accepted
          \/ m.cmd \in Request /\ accepted' = Append(accepted, m.cmd)
      BY <1>8, <2>1 DEF Deliver
    <3> QED BY <3>1, <3>2
  <2> QED BY <1>0, <1>8, <2>2, <2>3 DEF Deliver, TypeOK, lockVars, timerVars
<1>9. ASSUME Tick PROVE TypeOK'
  <2>1. now' \in Nat BY <1>0, <1>9 DEF Tick, TypeOK
  <2>2. lock' \in Lock \cup {None}
    <3>1. CASE lock' = None BY <3>1
    <3>2. CASE lock \in Lock /\ lock.ttl # 1 /\ lock' = [lock EXCEPT !.ttl = @ - 1]
      <4>1. lock.ttl - 1 \in 1..LOCK_TTL BY <3>2 DEF Lock
      <4> QED BY <3>2, <4>1 DEF Lock
    <3> QED BY <1>0, <1>9, <3>1, <3>2 DEF Tick, TypeOK
  <2>3. timer' \in [Instance -> (0..DEADMAN) \cup {None}]
    BY <1>0, <1>9 DEF Tick, TypeOK
  <2> QED BY <1>0, <1>9, <2>1, <2>2, <2>3 DEF Tick, TypeOK, vehicleVars
<1>10. ASSUME NEW i \in Instance, Crash(i) PROVE TypeOK'
  <2>1. ASSUME NEW r \in Request
        PROVE  [req[r] EXCEPT !.pc = "done", !.kind = None, !.inst = None] \in Req
    <3>1. req[r] \in Req BY <1>0 DEF TypeOK
    <3> QED BY <3>1 DEF Req
  <2>2. req' \in [Request -> Req] BY <1>0, <1>10, <2>1 DEF Crash, TypeOK
  <2>3. timer' \in [Instance -> (0..DEADMAN) \cup {None}]
    BY <1>0, <1>10 DEF Crash, TypeOK
  <2>4. deadman' \in [Instance -> [pc : {"idle", "get", "mint", "publish"}, at : Nat]]
    BY <1>0, <1>10 DEF Crash, TypeOK
  <2>5. died' \in BOOLEAN BY <1>10, Zenon DEF Crash
  <2> QED BY <1>0, <1>10, <2>2, <2>3, <2>4, <2>5
          DEF Crash, TypeOK, lockVars, vehicleVars
<1> QED BY <1>1, <1>2, <1>3, <1>4, <1>5, <1>6, <1>7, <1>8, <1>9, <1>10 DEF Next

-----------------------------------------------------------------------------
(* The two clauses about requests. *)

LEMMA RequestsStep ==
    ASSUME SessionInv, Next
    PROVE  \A r \in Request : Placed(r)' /\ Unused(r)'
<1>0. /\ req \in [Request -> Req] /\ used \subseteq Request
      /\ \A r \in Request : Placed(r) /\ Unused(r)
  BY SessionInvParts DEF TypeOK
<1>1. CASE UNCHANGED <<req, used>>
  BY <1>0, <1>1 DEF Placed, Unused
<1>2. ASSUME NEW r \in Request, NEW kind, NEW o \in Operator, NEW t,
             NEW i \in Instance \cup {None},
             NEW pc \in {"mint", "expire", "issue", "get", "done"},
             pc \in {"mint", "expire"} => i \in Instance,
             Begin(r, kind, o, i, t, pc), UNCHANGED used
      PROVE  \A q \in Request : Placed(q)' /\ Unused(q)'
  <2>1. req[r].pc = "new" BY <1>2 DEF Begin
  <2>2. /\ req'[r].pc = pc /\ req'[r].op = o
        /\ pc # "done" => req'[r].inst = i
    BY <1>0, <1>2 DEF Begin
  <2>3. \A q \in Request \ {r} : req'[q] = req[q]
    BY <1>0, <1>2 DEF Begin
  <2> QED BY <1>0, <1>2, <2>1, <2>2, <2>3 DEF Placed, Unused
<1>3. ASSUME NEW r \in Request, NEW o \in Operator, NEW i \in Instance,
             TakeControl(r, o, i) \/ Handover(r, o, i)
      PROVE  \A q \in Request : Placed(q)' /\ Unused(q)'
  BY <1>2, <1>3 DEF TakeControl, Handover, lockVars
<1>4. ASSUME NEW r \in Request, NEW o \in Operator, NEW t,
             SendCommand(r, o, t)
      PROVE  \A q \in Request : Placed(q)' /\ Unused(q)'
  BY <1>2, <1>4 DEF SendCommand, lockVars
<1>5. ASSUME NEW r \in Request, NEW o \in Operator, NEW t, NEW i \in Instance,
             Heartbeat(r, o, t, i)
      PROVE  \A q \in Request : Placed(q)' /\ Unused(q)'
  BY <1>2, <1>5 DEF Heartbeat, lockVars
<1>6. ASSUME NEW r \in Request, NEW o \in Operator, Revoke(r, o)
      PROVE  \A q \in Request : Placed(q)' /\ Unused(q)'
  BY <1>2, <1>6 DEF Revoke, lockVars
<1>7. ASSUME NEW r \in Request, Step(r)
      PROVE  \A q \in Request : Placed(q)' /\ Unused(q)'
  <2>1. \A q \in Request \ {r} : req'[q] = req[q]
    BY <1>0, <1>7 DEF Step, Mint, SetNX, SetOver, Grant, Arm, Expire,
         GetTokenIssuedAt, Publish, RevokeGet, RevokeDel, Goto, Answer
  <2>2. req[r].pc # "new" /\ req'[r].op = req[r].op
    BY <1>0, <1>7 DEF Step, Mint, SetNX, SetOver, Grant, Arm, Expire,
         GetTokenIssuedAt, Publish, RevokeGet, RevokeDel, Goto, Answer, Req
  <2>3. \/ req'[r].pc = "set" /\ req[r].pc = "mint" /\ req'[r].inst = req[r].inst
        \/ req'[r].pc = "arm" /\ req[r].pc \in {"set", "expire"}
             /\ req'[r].inst = req[r].inst
        \/ req'[r].pc \in {"publish", "del", "done"}
    BY <1>0, <1>7 DEF Step, Mint, SetNX, SetOver, Grant, Arm, Expire,
         GetTokenIssuedAt, Publish, RevokeGet, RevokeDel, Goto, Answer, Req
  <2>4. \/ used' = used
        \/ used' = used \cup {r} /\ req'[r].pc = "arm"
    BY <1>0, <1>7, GotoPc DEF Step, Mint, SetNX, SetOver, Grant, Arm, Expire,
         Renew, GetTokenIssuedAt, Publish, RevokeGet, RevokeDel, lockVars
  <2> QED BY <1>0, <2>1, <2>2, <2>3, <2>4 DEF Placed, Unused
<1>8. ASSUME NEW i \in Instance, Crash(i)
      PROVE  \A q \in Request : Placed(q)' /\ Unused(q)'
  <2>1. used' = used BY <1>8 DEF Crash, lockVars
  <2>2. ASSUME NEW q \in Request, req[q].inst = i
        PROVE  req'[q].pc = "done" /\ req'[q].op = req[q].op
    BY <1>0, <1>8, <2>2 DEF Crash, Req
  <2>3. ASSUME NEW q \in Request, req[q].inst # i PROVE req'[q] = req[q]
    BY <1>8, <2>3 DEF Crash
  <2> QED BY <1>0, <2>1, <2>2, <2>3 DEF Placed, Unused
<1> QED BY <1>1, <1>3, <1>4, <1>5, <1>6, <1>7, <1>8
        DEF Next, Assign, Callback, TimerFires, DeadmanGet, DeadmanMint,
            DeadmanPublish, Deliver, Tick, lockVars

-----------------------------------------------------------------------------
(* The deadman. *)

LEMMA DeadmanStep ==
    ASSUME SessionInv, Next
    PROVE  DeadmanCovers'
<1> USE SessionAssumption
<1>0. TypeOK /\ DeadmanCovers /\ \A r \in Request : Placed(r)
  BY SessionInvParts
<1>1. /\ timer \in [Instance -> (0..DEADMAN) \cup {None}]
      /\ req \in [Request -> Req]
      /\ lock # None => lock.ttl \in 1..LOCK_TTL
  BY <1>0 DEF TypeOK, Lock
\* The steps that touch neither the lock nor a timer nor a callback and end
\* no arming.
<1>2. ASSUME UNCHANGED <<lock, timer, deadman, owed, died>>, Arming => Arming'
      PROVE  DeadmanCovers'
  BY <1>0, <1>2 DEF DeadmanCovers
<1>3. ASSUME NEW r \in Request, req[r].pc # "arm",
             \A q \in Request \ {r} : req'[q] = req[q]
      PROVE  Arming => Arming'
  BY <1>3 DEF Arming
<1>4. ASSUME NEW r \in Request, NEW o \in Operator,
             \/ \E i \in Instance : TakeControl(r, o, i) \/ Handover(r, o, i)
             \/ \E t \in Granted(o) :
                  SendCommand(r, o, t) \/ \E i \in Instance : Heartbeat(r, o, t, i)
             \/ Revoke(r, o)
      PROVE  DeadmanCovers'
  <2>1. req[r].pc # "arm" /\ \A q \in Request \ {r} : req'[q] = req[q]
    BY <1>1, <1>4 DEF TakeControl, Handover, SendCommand, Heartbeat, Revoke, Begin
  <2>2. UNCHANGED <<lock, timer, deadman, owed, died>>
    BY <1>4 DEF TakeControl, Handover, SendCommand, Heartbeat, Revoke,
                lockVars, timerVars
  <2> QED BY <1>2, <1>3, <2>1, <2>2
<1>5. ASSUME NEW r \in Request, req'[r].pc = "arm"
      PROVE  DeadmanCovers'
  BY <1>5 DEF DeadmanCovers, Arming
<1>6. ASSUME NEW r \in Request, Mint(r) \/ GetTokenIssuedAt(r) \/ Publish(r)
                                \/ RevokeGet(r)
      PROVE  DeadmanCovers'
  <2>1. req[r].pc # "arm" /\ \A q \in Request \ {r} : req'[q] = req[q]
    BY <1>1, <1>6 DEF Mint, GetTokenIssuedAt, Publish, RevokeGet, Goto, Answer
  <2>2. UNCHANGED <<lock, timer, deadman, owed, died>>
    BY <1>6 DEF Mint, GetTokenIssuedAt, Publish, RevokeGet, lockVars, timerVars
  <2> QED BY <1>2, <1>3, <2>1, <2>2
<1>7. ASSUME NEW r \in Request, SetNX(r) PROVE DeadmanCovers'
  <2>1. CASE lock = None
    <3>1. req'[r].pc = "arm"
      BY <1>1, <1>7, <2>1, GotoPc DEF SetNX, Grant
    <3> QED BY <1>5, <3>1
  <2>2. CASE lock # None
    <3>1. req[r].pc # "arm" /\ \A q \in Request \ {r} : req'[q] = req[q]
      BY <1>1, <1>7, <2>2 DEF SetNX, Answer
    <3>2. UNCHANGED <<lock, timer, deadman, owed, died>>
      BY <1>7, <2>2 DEF SetNX
    <3> QED BY <1>2, <1>3, <3>1, <3>2
  <2> QED BY <2>1, <2>2
<1>8. ASSUME NEW r \in Request, SetOver(r) \/ Expire(r) PROVE DeadmanCovers'
  <2>1. req'[r].pc = "arm"
    BY <1>1, <1>8, GotoPc DEF SetOver, Grant, Expire
  <2> QED BY <1>5, <2>1
<1>9. ASSUME NEW r \in Request, Arm(r) PROVE DeadmanCovers'
  <2>1. req[r].inst \in Instance BY <1>0, <1>9 DEF Arm, Placed
  <2>2. timer'[req[r].inst] = DEADMAN
    BY <1>1, <1>9, <2>1 DEF Arm, ResetDeadmanTimer
  <2>3. lock' = lock BY <1>9 DEF Arm, lockVars
  <2>4. DEADMAN # None /\ (lock # None => DEADMAN > lock.ttl) BY <1>1
  <2> QED BY <2>1, <2>2, <2>3, <2>4 DEF DeadmanCovers
<1>10. ASSUME NEW r \in Request, RevokeDel(r) PROVE DeadmanCovers'
  <2>1. req[r].pc # "arm" /\ \A q \in Request \ {r} : req'[q] = req[q]
    BY <1>1, <1>10 DEF RevokeDel, Answer
  <2>2. lock' = None /\ UNCHANGED <<timer, deadman, owed, died>>
    BY <1>10 DEF RevokeDel, timerVars
  <2> QED BY <1>0, <1>3, <2>1, <2>2 DEF DeadmanCovers
<1>11. ASSUME NEW i \in Instance, TimerFires(i) PROVE DeadmanCovers'
  <2>1. /\ timer[i] = 0 /\ timer' = [timer EXCEPT ![i] = None]
        /\ UNCHANGED <<lock, req, died>>
    BY <1>11 DEF TimerFires, lockVars
  <2>2. deadman'[i].pc = "get"
    BY <1>0, <1>11 DEF TimerFires, TypeOK
  <2>3. ASSUME lock # None, ~died
        PROVE  Arming \/ \E j \in Instance : timer'[j] # None /\ timer'[j] > lock.ttl
    <3>1. CASE Arming BY <3>1
    <3>2. CASE \E j \in Instance : timer[j] # None /\ timer[j] > lock.ttl
      <4> PICK j \in Instance : timer[j] # None /\ timer[j] > lock.ttl BY <3>2
      <4>1. j # i BY <1>1, <2>1, <2>3
      <4> QED BY <1>1, <2>1, <4>1
    <3> QED BY <1>0, <2>3, <3>1, <3>2 DEF DeadmanCovers
  <2> QED BY <2>1, <2>2, <2>3 DEF DeadmanCovers, Arming
<1>12. ASSUME NEW i \in Instance, DeadmanGet(i) PROVE DeadmanCovers'
  <2>1. UNCHANGED <<lock, req, timer, owed, died>>
    BY <1>12 DEF DeadmanGet, lockVars
  <2>2. lock = None => deadman'[i].pc = "mint"
    BY <1>0, <1>12 DEF DeadmanGet, TypeOK
  <2> QED BY <1>0, <2>1, <2>2 DEF DeadmanCovers, Arming
<1>13. ASSUME NEW i \in Instance, DeadmanMint(i) PROVE DeadmanCovers'
  <2>1. UNCHANGED <<lock, req, timer, owed, died>>
    BY <1>13 DEF DeadmanMint, lockVars
  <2>2. deadman'[i].pc = "publish"
    BY <1>0, <1>13 DEF DeadmanMint, TypeOK
  <2> QED BY <1>0, <2>1, <2>2 DEF DeadmanCovers, Arming
<1>14. ASSUME NEW i \in Instance, DeadmanPublish(i) PROVE DeadmanCovers'
  <2>1. UNCHANGED <<lock, req, timer, died>> /\ owed' = (lock # None)
    BY <1>14 DEF DeadmanPublish, lockVars
  <2> QED BY <1>0, <2>1 DEF DeadmanCovers, Arming
<1>15. ASSUME Tick PROVE DeadmanCovers'
  <2>1. UNCHANGED <<req, deadman, owed, died>> BY <1>15 DEF Tick
  <2>2. \A i \in Instance :
          timer'[i] = IF timer[i] \in {None, 0} THEN timer[i] ELSE timer[i] - 1
    BY <1>15 DEF Tick
  <2>3. \A i \in Instance : timer[i] # None => timer'[i] # None
    BY <1>1, <2>2
  <2>4. ASSUME lock' # None
        PROVE  lock # None /\ lock.ttl # 1 /\ lock'.ttl = lock.ttl - 1
    BY <1>0, <1>15, <2>4 DEF Tick, TypeOK, Lock
  <2>5. ASSUME lock' # None, NEW i \in Instance, timer[i] # None,
               timer[i] > lock.ttl
        PROVE  timer'[i] # None /\ timer'[i] > lock'.ttl
    BY <1>1, <2>2, <2>3, <2>4, <2>5
  <2> QED BY <1>0, <2>1, <2>3, <2>4, <2>5 DEF DeadmanCovers, Arming
<1>16. ASSUME UNCHANGED <<lock, req, timer, deadman, owed, died>> PROVE DeadmanCovers'
  BY <1>0, <1>16 DEF DeadmanCovers, Arming
<1>17. ASSUME NEW o \in Operator, Assign(o) PROVE DeadmanCovers'
  BY <1>16, <1>17 DEF Assign, lockVars, timerVars
<1>18. ASSUME NEW m \in net, Deliver(m) PROVE DeadmanCovers'
  BY <1>16, <1>18 DEF Deliver, lockVars, timerVars
<1>19. ASSUME NEW i \in Instance, Crash(i) PROVE DeadmanCovers'
  BY <1>19 DEF Crash, DeadmanCovers
<1> QED BY <1>4, <1>6, <1>7, <1>8, <1>9, <1>10, <1>11, <1>12, <1>13, <1>14,
           <1>15, <1>17, <1>18, <1>19 DEF Next, Step, Callback

-----------------------------------------------------------------------------
LEMMA SessionInit == Init => SessionInv
<1> SUFFICES ASSUME Init PROVE SessionInv OBVIOUS
<1> USE SessionAssumption
<1>1. NewReq \in Req BY DEF NewReq, Req
<1>2. req \in [Request -> Req] BY <1>1 DEF Init
<1>3. owed \in BOOLEAN /\ died \in BOOLEAN BY Zenon DEF Init
<1>4. deadman \in [Instance -> [pc : {"idle", "get", "mint", "publish"}, at : Nat]]
  BY DEF Init
<1>5. TypeOK BY <1>2, <1>3, <1>4 DEF Init, TypeOK
<1>6. DeadmanCovers BY DEF Init, DeadmanCovers
<1>7. \A r \in Request : Placed(r) /\ Unused(r)
  BY DEF Init, Placed, Unused, NewReq
<1> QED BY <1>5, <1>6, <1>7, SessionInvParts

LEMMA SessionStep ==
    SessionInv /\ [Next]_vars => SessionInv'
<1> SUFFICES ASSUME SessionInv, [Next]_vars PROVE SessionInv' OBVIOUS
<1>1. CASE Next
  <2>1. TypeOK' BY <1>1, TypeStep
  <2>2. DeadmanCovers' BY <1>1, DeadmanStep
  <2>3. \A r \in Request : Placed(r)' /\ Unused(r)' BY <1>1, RequestsStep
  <2> QED BY <2>1, <2>2, <2>3 DEF SessionInv, Placed, Unused
<1>2. CASE UNCHANGED vars
  BY <1>2 DEF vars, lockVars, timerVars, vehicleVars, SessionInv, TypeOK,
              DeadmanCovers, Arming
<1> QED BY <1>1, <1>2

(***************************************************************************)
(* Types, the deadman's cover and the two clauses about requests hold in   *)
(* every state.                                                            *)
(***************************************************************************)
THEOREM SessionInvariant == Spec => []SessionInv
BY SessionInit, SessionStep, PTL DEF Spec

(***************************************************************************)
(* For any number of instances and requests in any interleaving, and any   *)
(* lock TTL shorter than the timer, a live lock has a timer that outlasts  *)
(* it and a stop that may be owed has someone to send it, as long as no    *)
(* instance has died since a timer was last armed.                         *)
(***************************************************************************)
THEOREM DeadmanAlwaysCovers == Spec => []DeadmanCovers
<1>1. SessionInv => DeadmanCovers BY DEF SessionInv
<1> QED BY <1>1, SessionInvariant, PTL

(***************************************************************************)
(* No heartbeat, command or revocation gives the lock back to a session    *)
(* that has lost it.                                                       *)
(***************************************************************************)
THEOREM SessionsEndForGood == Spec => NoResurrection
<1> DEFINE Moves == lock' # None /\ (lock = None \/ lock'.tok # lock.tok)
                      => lock'.tok \notin used
<1>1. ASSUME SessionInv, Next PROVE Moves
  <2>0. /\ lock \in Lock \cup {None} /\ req \in [Request -> Req]
        /\ \A r \in Request : Unused(r)
    BY <1>1, SessionInvParts DEF TypeOK
  <2>1. ASSUME NEW r \in Request, req[r].pc = "set", Grant(r) PROVE Moves
    BY <2>0, <2>1 DEF Grant, Unused
  <2>2. CASE lock' = lock BY <2>2
  <2>3. CASE lock' = None BY <2>3
  <2>4. ASSUME NEW r \in Request, SetNX(r) \/ SetOver(r) PROVE Moves
    BY <2>1, <2>2, <2>4 DEF SetNX, SetOver
  <2>5. ASSUME NEW r \in Request, Expire(r) PROVE Moves
    <3>1. \/ lock' = None
          \/ lock # None /\ lock' = [lock EXCEPT !.ttl = LOCK_TTL]
      BY <2>5 DEF Expire, Renew
    <3>2. ASSUME lock \in Lock, lock' = [lock EXCEPT !.ttl = LOCK_TTL]
          PROVE  lock'.tok = lock.tok
      BY <3>2 DEF Lock
    <3> QED BY <2>0, <3>1, <3>2
  <2>6. ASSUME Tick PROVE Moves
    <3>1. \/ lock' = None
          \/ lock # None /\ lock' = [lock EXCEPT !.ttl = @ - 1]
      BY <2>6 DEF Tick
    <3>2. ASSUME lock \in Lock, lock' = [lock EXCEPT !.ttl = @ - 1]
          PROVE  lock'.tok = lock.tok
      BY <3>2 DEF Lock
    <3> QED BY <2>0, <3>1, <3>2
  <2> QED BY <1>1, <2>2, <2>3, <2>4, <2>5, <2>6
          DEF Next, TakeControl, Handover, SendCommand, Heartbeat, Revoke, Step,
              Mint, Arm, GetTokenIssuedAt, Publish, RevokeGet, RevokeDel, Assign,
              Callback, TimerFires, DeadmanGet, DeadmanMint, DeadmanPublish,
              Crash, Deliver, lockVars
<1>2. SessionInv /\ [Next]_vars => [Moves]_vars
  BY <1>1
<1> QED BY <1>2, SessionInvariant, PTL DEF Spec, NoResurrection

=============================================================================
