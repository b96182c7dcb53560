---------------------------- MODULE SessionLock ----------------------------
(***************************************************************************)
(* Who controls a vehicle: the fencing lock in Redis, the operators'       *)
(* assignments, the cloud's deadman timers and the vehicle's token fence   *)
(* (services/command: session.service.ts, assignment.service.ts and the    *)
(* endpoints of command.controller.ts that use them), for one vehicle.     *)
(*                                                                         *)
(* A request runs on one instance of the service and is cut at its awaits: *)
(* every read or write of Redis or Postgres is a step, and what the        *)
(* handler computes when it resumes belongs to the step that follows.  A   *)
(* token is named by the request that minted it.  Durations are            *)
(* countdowns, so only issuedAt needs the clock, which stops at MaxTime.   *)
(***************************************************************************)
EXTENDS Integers, Sequences

CONSTANTS
    None,
    Operator, Instance,
    Request,             \* numbered in the order in which they arrive
    InitAssigned,        \* assignments at the start
    Kinds,               \* the kinds of request that are made
    LOCK_TTL,            \* EX 6: life of an unrenewed lock
    DEADMAN,             \* 7000 ms: the deadman timer
    ENFORCEMENT,         \* ASSIGNMENT_ENFORCEMENT = 'true'
    MaxTime

ASSUME SessionAssumption ==
    /\ LOCK_TTL \in Nat \ {0} /\ DEADMAN \in Nat /\ LOCK_TTL < DEADMAN
    /\ ENFORCEMENT \in BOOLEAN
    /\ InitAssigned \subseteq Operator
    /\ MaxTime \in Nat
    /\ Request \subseteq Nat /\ None \notin Nat /\ None \notin Instance
    /\ None \notin [op : Operator, tok : Request, at : Nat, ttl : Nat]

VARIABLES
    now,         \* Date.now() of the service
    assigned,    \* operators with an active assignment
    lock,        \* lock:vehicle:{id}: None, or op, tok, at (issuedAt) and ttl
    req,         \* per request: progress and locals
    timer,       \* deadmanTimers, per instance: countdown or None
    deadman,     \* per instance: the callback of a fired timer
    net,         \* envelopes on their way to the vehicle
    newest,      \* newest_token of the vehicle
    accepted,    \* auxiliary: the commands the vehicle accepted, in order
    used,        \* auxiliary: tokens that have been in the lock
    over,        \* auxiliary: per token, the handover that replaced it
    owed,        \* auxiliary: a session has begun since the last deadman stop
    died,        \* auxiliary: an instance has died since a timer was last armed
    cut,         \* auxiliary: <<revoked, severed>> of every lock deleted
    fenced       \* auxiliary: commands refused while their session held the lock

lockVars == <<lock, used, over>>
timerVars == <<timer, deadman, owed, died>>
vehicleVars == <<net, newest, accepted, fenced>>
vars == <<now, assigned, lockVars, req, timerVars, vehicleVars, cut>>

AllKinds == {"take", "handover", "heartbeat", "command", "assign",
             "revoke"}

Lock == [op : Operator, tok : Request, at : Nat, ttl : 1..LOCK_TTL]

Req == [pc : {"new", "mint", "set", "expire", "arm", "issue", "publish",
              "get", "del", "done"},
        kind : AllKinds \cup {None}, op : Operator \cup {None},
        inst : Instance \cup {None}, tok : Request \cup {None}, at : Nat]

NewReq == [pc |-> "new", kind |-> None, op |-> None, inst |-> None,
           tok |-> None, at |-> 0]

\* Redis answers a get for the session of token t.
Holds(t) == lock # None /\ lock.tok = t

Goto(r, pc) == req' = [req EXCEPT ![r].pc = pc]
Answer(r) == req' = [req EXCEPT ![r].pc = "done", ![r].inst = None]

\* The handler of request r starts with its first await.
Begin(r, kind, o, i, t, pc) ==
    /\ kind \in Kinds
    /\ req[r].pc = "new" /\ \A q \in Request : q < r => req[q].pc # "new"
    /\ req' = [req EXCEPT ![r] = [pc |-> pc, kind |-> kind, op |-> o,
                                  inst |-> IF pc = "done" THEN None ELSE i,
                                  tok |-> t, at |-> 0]]

\* The sessions whose token reached operator o.
Granted(o) == {t \in Request : /\ req[t].pc = "done" /\ req[t].op = o
                               /\ req[t].kind \in {"take", "handover"}
                               /\ t \in used}

-----------------------------------------------------------------------------
(* take-control and handover: canControl, mint, SET, arm the timer. *)

CanControl(o) == ~ENFORCEMENT \/ o \in assigned

TakeControl(r, o, i) ==
    /\ Begin(r, "take", o, i, r, IF CanControl(o) THEN "mint" ELSE "done")
    /\ UNCHANGED <<now, assigned, lockVars, timerVars, vehicleVars, cut>>

Handover(r, o, i) ==
    /\ Begin(r, "handover", o, i, r, IF CanControl(o) THEN "mint" ELSE "done")
    /\ UNCHANGED <<now, assigned, lockVars, timerVars, vehicleVars, cut>>

Mint(r) ==
    /\ req[r].pc = "mint"
    /\ req' = [req EXCEPT ![r].pc = "set", ![r].at = now]
    /\ UNCHANGED <<now, assigned, lockVars, timerVars, vehicleVars, cut>>

Grant(r) ==
    /\ lock' = [op |-> req[r].op, tok |-> r, at |-> req[r].at, ttl |-> LOCK_TTL]
    /\ used' = used \cup {r}
    /\ owed' = TRUE
    /\ Goto(r, "arm")

\* SET ... EX NX
SetNX(r) ==
    /\ req[r].pc = "set" /\ req[r].kind = "take"
    /\ IF lock = None
       THEN Grant(r)
       ELSE Answer(r) /\ UNCHANGED <<lock, used, owed>>
    /\ UNCHANGED <<now, assigned, over, timer, deadman, died, vehicleVars, cut>>

\* SET ... EX, whoever holds the lock
SetOver(r) ==
    /\ req[r].pc = "set" /\ req[r].kind = "handover"
    /\ Grant(r)
    /\ over' = IF lock = None THEN over ELSE [over EXCEPT ![lock.tok] = r]
    /\ UNCHANGED <<now, assigned, timer, deadman, died, vehicleVars, cut>>

\* Mutant: a renewal leaves the timer that is running.
ArmIfIdle(r) ==
    [timer EXCEPT ![req[r].inst] = IF @ = None THEN DEADMAN ELSE @]

\* resetDeadmanTimer replaces the instance's timer.
ResetDeadmanTimer(r) == [timer EXCEPT ![req[r].inst] = DEADMAN]

\* The handler resumes, resets the timer and answers; a heartbeat also
\* relays the ping.
Arm(r) ==
    /\ req[r].pc = "arm"
    /\ timer' = ResetDeadmanTimer(r)
    /\ died' = FALSE
    /\ Answer(r)
    /\ UNCHANGED <<now, assigned, lockVars, deadman, owed, vehicleVars, cut>>

-----------------------------------------------------------------------------
(* Heartbeat: get and compare, EXPIRE, reset the timer. *)

Heartbeat(r, o, t, i) ==
    /\ Begin(r, "heartbeat", o, i, t, IF Holds(t) THEN "expire" ELSE "done")
    /\ UNCHANGED <<now, assigned, lockVars, timerVars, vehicleVars, cut>>

\* Mutant: the renewal writes the session's own lock back.
WriteBack(r) ==
    /\ lock' = [op |-> req[r].op, tok |-> req[r].tok,
                at |-> req[req[r].tok].at, ttl |-> LOCK_TTL]
    /\ used' = used \cup {req[r].tok}

\* EXPIRE renews the key whoever's it is by now, if there is one.
Renew(r) ==
    /\ lock' = IF lock = None THEN None ELSE [lock EXCEPT !.ttl = LOCK_TTL]
    /\ UNCHANGED used

Expire(r) ==
    /\ req[r].pc = "expire"
    /\ Renew(r)
    /\ Goto(r, "arm")
    /\ UNCHANGED <<now, assigned, over, timerVars, vehicleVars, cut>>

-----------------------------------------------------------------------------
(* A command: validateToken, getTokenIssuedAt, publish. *)

SendCommand(r, o, t) ==
    /\ Begin(r, "command", o, None, t, IF Holds(t) THEN "issue" ELSE "done")
    /\ UNCHANGED <<now, assigned, lockVars, timerVars, vehicleVars, cut>>

GetTokenIssuedAt(r) ==
    /\ req[r].pc = "issue"
    /\ req' = [req EXCEPT ![r].pc = "publish",
                          ![r].at = IF lock = None THEN now ELSE lock.at]
    /\ UNCHANGED <<now, assigned, lockVars, timerVars, vehicleVars, cut>>

\* After the PENDING row.  A publish that is dropped is an envelope that is
\* never delivered.
Publish(r) ==
    /\ req[r].pc = "publish"
    /\ net' = net \cup {[cmd |-> r, at |-> req[r].at]}
    /\ Answer(r)
    /\ UNCHANGED <<now, assigned, lockVars, timerVars, newest, accepted, fenced,
                   cut>>

-----------------------------------------------------------------------------
(* Assignments. *)

Assign(o) ==
    /\ "assign" \in Kinds
    /\ o \notin assigned
    /\ assigned' = assigned \cup {o}
    /\ UNCHANGED <<now, lockVars, req, timerVars, vehicleVars, cut>>

Revoke(r, o) ==
    /\ Begin(r, "revoke", o, None, r, "get")
    /\ assigned' = assigned \ {o}
    /\ UNCHANGED <<now, lockVars, timerVars, vehicleVars, cut>>

RevokeGet(r) ==
    /\ req[r].pc = "get"
    /\ IF lock # None /\ lock.op = req[r].op THEN Goto(r, "del") ELSE Answer(r)
    /\ UNCHANGED <<now, assigned, lockVars, timerVars, vehicleVars, cut>>

RevokeDel(r) ==
    /\ req[r].pc = "del"
    /\ lock' = None
    /\ cut' = IF lock = None THEN cut ELSE cut \cup {<<req[r].op, lock.op>>}
    /\ Answer(r)
    /\ UNCHANGED <<now, assigned, used, over, timerVars, vehicleVars>>

-----------------------------------------------------------------------------
(* The deadman timers. *)

TimerFires(i) ==
    /\ timer[i] = 0
    /\ deadman[i].pc = "idle"
    /\ timer' = [timer EXCEPT ![i] = None]
    /\ deadman' = [deadman EXCEPT ![i].pc = "get"]
    /\ UNCHANGED <<now, assigned, lockVars, req, owed, died, vehicleVars, cut>>

\* The lock is read again: another instance may have renewed it.
DeadmanGet(i) ==
    /\ deadman[i].pc = "get"
    /\ deadman' = [deadman EXCEPT ![i].pc = IF lock = None THEN "mint" ELSE "idle"]
    /\ UNCHANGED <<now, assigned, lockVars, req, timer, owed, died, vehicleVars,
                   cut>>

\* triggerSafeStop builds its envelope with a token of this moment and
\* writes the PENDING row.
DeadmanMint(i) ==
    /\ deadman[i].pc = "mint"
    /\ deadman' = [deadman EXCEPT ![i] = [pc |-> "publish", at |-> now]]
    /\ UNCHANGED <<now, assigned, lockVars, req, timer, owed, died, vehicleVars,
                   cut>>

DeadmanPublish(i) ==
    /\ deadman[i].pc = "publish"
    /\ net' = net \cup {[cmd |-> None, at |-> deadman[i].at]}
    /\ deadman' = [deadman EXCEPT ![i] = [pc |-> "idle", at |-> 0]]
    /\ owed' = (lock # None)
    /\ UNCHANGED <<now, assigned, lockVars, req, timer, died, newest, accepted,
                   fenced, cut>>

\* Nothing catches a Redis get or an insert that fails in the callback, and
\* Node ends the process then; it may also be stopped at any time.  The
\* instance comes back without its timer, its callback and its requests.
Crash(i) ==
    /\ \/ timer[i] # None \/ deadman[i].pc # "idle"
       \/ \E r \in Request : req[r].inst = i
    /\ timer' = [timer EXCEPT ![i] = None]
    /\ deadman' = [deadman EXCEPT ![i] = [pc |-> "idle", at |-> 0]]
    /\ req' = [r \in Request |->
                  IF req[r].inst = i
                  THEN [req[r] EXCEPT !.pc = "done", !.kind = None, !.inst = None]
                  ELSE req[r]]
    /\ died' = TRUE
    /\ UNCHANGED <<now, assigned, lockVars, owed, vehicleVars, cut>>

-----------------------------------------------------------------------------
(* The vehicle's fence, and time. *)

Deliver(m) ==
    /\ net' = net \ {m}
    /\ IF m.at < newest
       THEN /\ fenced' = IF m.cmd # None /\ Holds(req[m.cmd].tok)
                         THEN fenced \cup {m.cmd} ELSE fenced
            /\ UNCHANGED <<newest, accepted>>
       ELSE /\ newest' = m.at
            /\ accepted' = IF m.cmd = None THEN accepted
                           ELSE Append(accepted, m.cmd)
            /\ UNCHANGED fenced
    /\ UNCHANGED <<now, assigned, lockVars, req, timerVars, cut>>

\* Redis drops the key when its TTL has run out.
Tick ==
    /\ now' = IF now < MaxTime THEN now + 1 ELSE now
    /\ lock' = IF lock = None \/ lock.ttl = 1 THEN None
               ELSE [lock EXCEPT !.ttl = @ - 1]
    /\ timer' = [i \in Instance |->
                   IF timer[i] \in {None, 0} THEN timer[i] ELSE timer[i] - 1]
    /\ UNCHANGED <<assigned, used, over, req, deadman, owed, died, vehicleVars, cut>>

-----------------------------------------------------------------------------
Init ==
    /\ now = 0
    /\ assigned = InitAssigned
    /\ lock = None
    /\ req = [r \in Request |-> NewReq]
    /\ timer = [i \in Instance |-> None]
    /\ deadman = [i \in Instance |-> [pc |-> "idle", at |-> 0]]
    /\ net = {} /\ newest = 0 /\ accepted = <<>>
    /\ used = {} /\ over = [t \in Request |-> None]
    /\ owed = FALSE /\ died = FALSE /\ cut = {} /\ fenced = {}

Step(r) == \/ Mint(r) \/ SetNX(r) \/ SetOver(r) \/ Arm(r) \/ Expire(r)
           \/ GetTokenIssuedAt(r) \/ Publish(r) \/ RevokeGet(r) \/ RevokeDel(r)

Callback(i) == TimerFires(i) \/ DeadmanGet(i) \/ DeadmanMint(i) \/ DeadmanPublish(i)

Next ==
    \/ \E r \in Request, o \in Operator :
         \/ \E i \in Instance : TakeControl(r, o, i) \/ Handover(r, o, i)
         \/ \E t \in Granted(o) :
              SendCommand(r, o, t) \/ \E i \in Instance : Heartbeat(r, o, t, i)
         \/ Revoke(r, o)
    \/ \E r \in Request : Step(r)
    \/ \E o \in Operator : Assign(o)
    \/ \E i \in Instance : Callback(i) \/ Crash(i)
    \/ \E m \in net : Deliver(m)
    \/ Tick

\* Time passes, and Redis, Postgres and the event loops answer some request
\* or callback as long as one waits (each has only a few steps, so nobody
\* waits for ever); requests need not be made.
Fairness ==
    /\ WF_vars(Tick)
    /\ WF_vars((\E r \in Request : Step(r)) \/ (\E i \in Instance : Callback(i)))

Spec == Init /\ [][Next]_vars
FairSpec == Spec /\ Fairness

-----------------------------------------------------------------------------
(* Properties. *)

TypeOK ==
    /\ now \in Nat
    /\ assigned \subseteq Operator
    /\ lock \in Lock \cup {None}
    /\ req \in [Request -> Req]
    /\ timer \in [Instance -> (0..DEADMAN) \cup {None}]
    /\ deadman \in [Instance -> [pc : {"idle", "get", "mint", "publish"}, at : Nat]]
    /\ net \subseteq [cmd : Request \cup {None}, at : Nat]
    /\ newest \in Nat /\ accepted \in Seq(Request)
    /\ used \subseteq Request
    /\ over \in [Request -> Request \cup {None}]
    /\ owed \in BOOLEAN /\ died \in BOOLEAN
    /\ cut \subseteq Operator \X Operator
    /\ fenced \subseteq Request

(***************************************************************************)
(* A session that has lost the lock never gets it back, whatever heartbeat *)
(* or command of it is still between two awaits: the lock changes hands    *)
(* only to a token that has never been in it.                              *)
(***************************************************************************)
NoResurrection ==
    [][lock' # None /\ (lock = None \/ lock'.tok # lock.tok)
         => lock'.tok \notin used]_vars

(***************************************************************************)
(* The deadman covers every session, although each instance has a timer of *)
(* its own, heartbeats land anywhere and an instance's timer gives up when *)
(* it finds the lock alive: a live lock always has a timer that runs out   *)
(* after it, or a request about to start one; and as long as a stop may be *)
(* owed, a timer, a callback or such a request is there to send it.  Only  *)
(* an instance that dies takes that away, until a timer is armed again.    *)
(***************************************************************************)
Arming == \E r \in Request : req[r].pc = "arm"

DeadmanCovers ==
    /\ lock # None /\ ~died =>
         Arming \/ \E i \in Instance : timer[i] # None /\ timer[i] > lock.ttl
    /\ owed /\ ~died =>
         Arming \/ \E i \in Instance : timer[i] # None \/ deadman[i].pc # "idle"

\* What makes them inductive: a request that will arm a timer runs on an
\* instance, and a token is not in the lock before its own SET.
SessionInv ==
    /\ TypeOK
    /\ DeadmanCovers
    /\ \A r \in Request :
         /\ req[r].pc # "new" \/ req[r].inst \in Instance => req[r].op \in Operator
         /\ req[r].pc \in {"mint", "set", "expire", "arm"} => req[r].inst \in Instance
         /\ req[r].pc \in {"new", "mint", "set"} => r \notin used

(***************************************************************************)
(* An operator who vanishes, or whose session is severed, is followed by a *)
(* SAFE_STOP attempt, unless the vehicle is taken again or an instance     *)
(* dies before it: the timers are in memory and a failing callback is not  *)
(* retried (session.service.ts:70-79 calls the layer best-effort).         *)
(***************************************************************************)
EventuallyStopped ==
    (owed /\ lock = None /\ ~died) ~> (lock # None \/ ~owed \/ died)

-----------------------------------------------------------------------------
(* What comments in the code say of it, and the code does not keep. *)

(***************************************************************************)
(* command.controller.ts:43-44: "Checked BEFORE the lock so an unassigned  *)
(* operator can never hold even a transient token."  With no revocation    *)
(* under way, whoever holds the lock is assigned.                          *)
(***************************************************************************)
UnassignedHoldsNothing ==
    (\A r \in Request : req[r].pc \notin {"get", "del"})
      => (lock # None => CanControl(lock.op))

(***************************************************************************)
(* assignment.service.ts:88-89: "only delete when it is theirs, never a    *)
(* successor's."  Every lock a revocation deletes is the revoked           *)
(* operator's.                                                             *)
(***************************************************************************)
RevokeSparesSuccessor == \A p \in cut : p[1] = p[2]

(***************************************************************************)
(* command.controller.ts:226-227: handover "elevates the token, the old    *)
(* token is rejected on the vehicle."  Once the vehicle has accepted a     *)
(* command of the session that took over with a later token, it accepts    *)
(* none of the one it replaced.                                            *)
(***************************************************************************)
OldTokenRejected ==
    \A j \in 1..Len(accepted) : \A i \in 1..(j - 1) :
        LET old == req[accepted[j]].tok
            new == req[accepted[i]].tok
        IN  ~(over[old] = new /\ req[old].at < req[new].at)

(***************************************************************************)
(* session.service.ts:77-78: the timer "re-checks Redis and acts ONLY if   *)
(* the lock is really gone", so a deadman stop should not disturb a live   *)
(* session.  Without handovers, no command of the session that holds the   *)
(* lock is refused as stale by the vehicle.                                *)
(***************************************************************************)
HolderNeverFenced == fenced = {}

=============================================================================
