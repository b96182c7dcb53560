---------------------------- MODULE FleetMission ----------------------------
(***************************************************************************)
(* The missions of one vehicle and their pre-departure checklists          *)
(* (services/fleet: fleet.controller.ts, mission.service.ts and            *)
(* pre-departure.service.ts).                                              *)
(*                                                                         *)
(* A mission request is cut at its awaits: every query or transaction is a *)
(* step.  Item updates and confirmations are one step each, because their  *)
(* transactions take the checklist's advisory lock before they read.  A    *)
(* request that the identity or control gate turns away reaches no query   *)
(* of these services and is not modelled; a refused one ends, and its      *)
(* REJECTED audit row, which nothing reads, is left out.  Each Request is  *)
(* used once.                                                              *)
(***************************************************************************)
EXTENDS Naturals, Sequences

CONSTANTS
    None,
    Request, Mission, Checklist,
    Item,            \* the items of DEFAULT_CHECKLIST
    OperatorItem,    \* those with source OPERATOR
    CriticalItem,    \* those with safetyCritical
    MaxFaults        \* bound: database calls that fail, per request

ASSUME FleetAssumption ==
    /\ OperatorItem \subseteq Item /\ CriticalItem \subseteq Item
    /\ None \notin Mission /\ None \notin Checklist
    /\ MaxFaults \in Nat

VARIABLES
    status,     \* Mission.status, per mission
    list,       \* Mission.checklistId
    trail,      \* the transitions in a mission's audit rows, in order
    check,      \* PreDepartureCheck.status, per checklist
    item,       \* PreDepartureCheck.items: the status of each item
    recent,     \* checklists confirmed at most CHECKLIST_MAX_AGE_MS ago
    pc,         \* per request: the await it is at
    op,         \* per request: what it does
    target,     \* per request: missionId
    made,       \* per request: the checklist it has created, or start has read of
    from,       \* per request: the status it read
    faults      \* per request: its database calls that failed

missionVars == <<status, list, trail>>
checkVars == <<check, item, recent>>
locals == <<op, target, made, from>>
vars == <<missionVars, checkVars, pc, locals, faults>>

Live == {"PENDING", "PRE_CHECK", "ACTIVE", "PAUSED"}
Final == {"COMPLETED", "ABORTED"}
Underway == {"ACTIVE", "PAUSED", "COMPLETED"}
Row == [from : Live \cup {None}, to : Live \cup Final]
Ops == {"start", "pause", "resume", "abort", "complete"}

\* The status of an item, which updateItem takes from the body as it comes.
Verdict == {"PENDING", "PASS", "FAIL", "OTHER"}

\* The status that each operation writes and the ones it may find.
Target(o) ==
    CASE o \in {"start", "resume"} -> "ACTIVE"
      [] o = "pause" -> "PAUSED"
      [] o = "abort" -> "ABORTED"
      [] o = "complete" -> "COMPLETED"

FromAllowed(o) ==
    CASE o = "start" -> {"PRE_CHECK"}
      [] o \in {"pause", "complete"} -> {"ACTIVE"}
      [] o = "resume" -> {"PAUSED"}
      [] o = "abort" -> Live

Init ==
    /\ status = [m \in Mission |-> "none"]
    /\ list = [m \in Mission |-> None]
    /\ trail = [m \in Mission |-> <<>>]
    /\ check = [c \in Checklist |-> "none"]
    /\ item = [c \in Checklist |-> [i \in Item |-> "PENDING"]]
    /\ recent = {}
    /\ pc = [r \in Request |-> "new"]
    /\ op = [r \in Request |-> None]
    /\ target = [r \in Request |-> None]
    /\ made = [r \in Request |-> None]
    /\ from = [r \in Request |-> None]
    /\ faults = [r \in Request |-> 0]

Goto(r, label) == pc' = [pc EXCEPT ![r] = label]
Finish(r) == Goto(r, "done")

-----------------------------------------------------------------------------
(* createMission                                                           *)

CreateMission(r) ==
    /\ pc[r] = "new"
    /\ op' = [op EXCEPT ![r] = "create"]
    /\ Goto(r, "find")
    /\ UNCHANGED <<missionVars, checkVars, target, made, from, faults>>

\* create: findFirst over the missions that are not final.
FindActive(r) ==
    /\ pc[r] = "find"
    /\ IF \E m \in Mission : status[m] \in Live THEN Finish(r)
                                                ELSE Goto(r, "insert")
    /\ UNCHANGED <<missionVars, checkVars, locals, faults>>

\* create: the mission row and its audit row, in one transaction.
InsertMission(r, m) ==
    /\ pc[r] = "insert"
    /\ status[m] = "none"
    /\ status' = [status EXCEPT ![m] = "PENDING"]
    /\ trail' = [trail EXCEPT ![m] = Append(@, [from |-> None,
                                                to |-> "PENDING"])]
    /\ target' = [target EXCEPT ![r] = m]
    /\ Goto(r, "checklist")
    /\ UNCHANGED <<list, checkVars, op, made, from, faults>>

\* createChecklist: self-diagnosis items pass, operator items are pending.
FreshItems == [i \in Item |-> IF i \in OperatorItem THEN "PENDING" ELSE "PASS"]

InsertChecklist(c) ==
    /\ check[c] = "none"
    /\ check' = [check EXCEPT ![c] = "IN_PROGRESS"]
    /\ item' = [item EXCEPT ![c] = FreshItems]
    /\ UNCHANGED recent

MissionChecklist(r, c) ==
    /\ pc[r] = "checklist"
    /\ InsertChecklist(c)
    /\ made' = [made EXCEPT ![r] = c]
    /\ Goto(r, "link")
    /\ UNCHANGED <<missionVars, op, target, from, faults>>

\* linkChecklist: an update by id, whatever the status is by now.
LinkChecklist(r) ==
    /\ pc[r] = "link"
    /\ status' = [status EXCEPT ![target[r]] = "PRE_CHECK"]
    /\ list' = [list EXCEPT ![target[r]] = made[r]]
    /\ Finish(r)
    /\ UNCHANGED <<trail, checkVars, locals, faults>>

\* Mutant: createMission without the abort in its catch.
NoCleanup(r) == Finish(r) /\ UNCHANGED op

\* createMission's catch: abort the mission that got no checklist.
Cleanup(r) ==
    /\ op' = [op EXCEPT ![r] = "abort"]
    /\ Goto(r, "read")

\* A database call fails: without a checklist the mission is aborted, any
\* other request ends with an error and nothing written.
DatabaseFails(r) ==
    /\ faults[r] < MaxFaults
    /\ faults' = [faults EXCEPT ![r] = @ + 1]
    /\ \/ pc[r] \in {"checklist", "link"} /\ Cleanup(r)
       \/ pc[r] \in {"find", "insert", "read", "include", "write"} /\ Finish(r)
          /\ UNCHANGED op
    /\ UNCHANGED <<missionVars, checkVars, target, made, from>>

-----------------------------------------------------------------------------
(* start, pause, resume, abort, complete                                   *)

MissionOp(r, o, m) ==
    /\ pc[r] = "new"
    /\ status[m] # "none"
    /\ op' = [op EXCEPT ![r] = o]
    /\ target' = [target EXCEPT ![r] = m]
    /\ Goto(r, "read")
    /\ UNCHANGED <<missionVars, checkVars, made, from, faults>>

\* Mutant: a start that takes a checklist that passed for a confirmed one.
StartPassed(c) == check[c] \in {"PASSED", "CONFIRMED"}

\* start: the checklist's confirmation is recent.
MayStart(c) == check[c] = "CONFIRMED" /\ c \in recent

\* findUnique of the mission and the test of its status, which for start is
\* made after the checklist was read: by the id found here, by a second query.
ReadMission(r) ==
    LET m == target[r] IN
    /\ pc[r] = "read"
    /\ IF status[m] \in FromAllowed(op[r]) /\ (op[r] = "start" => list[m] # None)
       THEN /\ from' = [from EXCEPT ![r] = status[m]]
            /\ IF op[r] = "start"
               THEN made' = [made EXCEPT ![r] = list[m]] /\ Goto(r, "include")
               ELSE UNCHANGED made /\ Goto(r, "write")
       ELSE Finish(r) /\ UNCHANGED <<made, from>>
    /\ UNCHANGED <<missionVars, checkVars, op, target, faults>>

\* The checklist of start's findUnique, and the tests on it.
ReadChecklist(r) ==
    /\ pc[r] = "include"
    /\ IF MayStart(made[r]) THEN Goto(r, "write") ELSE Finish(r)
    /\ UNCHANGED <<missionVars, checkVars, locals, faults>>

\* update by id and the audit row, in one transaction.
WriteMission(r) ==
    LET m == target[r] IN
    /\ pc[r] = "write"
    /\ status' = [status EXCEPT ![m] = Target(op[r])]
    /\ trail' = [trail EXCEPT ![m] = Append(@, [from |-> from[r],
                                                to |-> Target(op[r])])]
    /\ Finish(r)
    /\ UNCHANGED <<list, checkVars, locals, faults>>

-----------------------------------------------------------------------------
(* Checklists                                                              *)

\* POST :vehicleId/pre-departure: a checklist that no mission is linked to.
CreateChecklist(c) ==
    /\ InsertChecklist(c)
    /\ UNCHANGED <<missionVars, pc, locals, faults>>

Settled(items) == \A i \in Item : items[i] # "PENDING"
Unfailed(items) == \A i \in CriticalItem : items[i] # "FAIL"

\* The overall status that updateItem computes from the items.
CheckStatus(items) ==
    IF ~Settled(items) THEN "IN_PROGRESS"
    ELSE IF Unfailed(items) THEN "PASSED" ELSE "FAILED"

\* Mutant: updateItem without its test for CONFIRMED.
UpdateConfirmed(c, i, verdict) ==
    /\ check[c] # "none"
    /\ i \in OperatorItem
    /\ item' = [item EXCEPT ![c] = [@ EXCEPT ![i] = verdict]]
    /\ UNCHANGED <<missionVars, check, recent, pc, locals, faults>>

UpdateItem(c, i, verdict) ==
    LET items == [item[c] EXCEPT ![i] = verdict] IN
    /\ check[c] \notin {"none", "CONFIRMED"}
    /\ i \in OperatorItem
    /\ item' = [item EXCEPT ![c] = items]
    /\ check' = [check EXCEPT ![c] = CheckStatus(items)]
    /\ UNCHANGED <<missionVars, recent, pc, locals, faults>>

Confirm(c) ==
    /\ check[c] \notin {"none", "CONFIRMED"}
    /\ Settled(item[c])
    /\ Unfailed(item[c])
    /\ check' = [check EXCEPT ![c] = "CONFIRMED"]
    /\ recent' = recent \cup {c}
    /\ UNCHANGED <<missionVars, item, pc, locals, faults>>

\* CHECKLIST_MAX_AGE_MS passes after the confirmation.
CheckAges(c) ==
    /\ c \in recent
    /\ recent' = recent \ {c}
    /\ UNCHANGED <<missionVars, check, item, pc, locals, faults>>

-----------------------------------------------------------------------------
RequestStep(r) ==
    \/ CreateMission(r)
    \/ FindActive(r)
    \/ \E m \in Mission : InsertMission(r, m)
    \/ \E c \in Checklist : MissionChecklist(r, c)
    \/ LinkChecklist(r)
    \/ DatabaseFails(r)
    \/ \E o \in Ops, m \in Mission : MissionOp(r, o, m)
    \/ ReadMission(r)
    \/ ReadChecklist(r)
    \/ WriteMission(r)

ChecklistStep(c) ==
    \/ CreateChecklist(c)
    \/ \E i \in Item, verdict \in Verdict : UpdateItem(c, i, verdict)
    \/ Confirm(c)
    \/ CheckAges(c)

Next ==
    \/ \E r \in Request : RequestStep(r)
    \/ \E c \in Checklist : ChecklistStep(c)

Spec == Init /\ [][Next]_vars

-----------------------------------------------------------------------------
(* Properties                                                              *)

\* Every row and every local of a request has its type.
TypeOK ==
    /\ status \in [Mission -> Live \cup Final \cup {"none"}]
    /\ list \in [Mission -> Checklist \cup {None}]
    /\ trail \in [Mission -> Seq(Row)]
    /\ check \in [Checklist -> {"none", "IN_PROGRESS", "PASSED", "FAILED",
                                "CONFIRMED"}]
    /\ item \in [Checklist -> [Item -> Verdict]]
    /\ recent \subseteq Checklist
    /\ pc \in [Request -> {"new", "find", "insert", "checklist", "link",
                           "read", "include", "write", "done"}]
    /\ op \in [Request -> Ops \cup {"create", None}]
    /\ target \in [Request -> Mission \cup {None}]
    /\ made \in [Request -> Checklist \cup {None}]
    /\ from \in [Request -> Live \cup {None}]
    /\ faults \in [Request -> 0..MaxFaults]

\* The LEG-03 invariant of confirm: no checklist is ever CONFIRMED while an
\* item is pending or a safety-critical one has failed, whatever updates race
\* with the confirmation or follow it.
ConfirmedIsClean ==
    \A c \in Checklist :
        check[c] = "CONFIRMED" => Settled(item[c]) /\ Unfailed(item[c])

HasStarted(m) ==
    \/ status[m] \in Underway
    \/ \E k \in DOMAIN trail[m] : trail[m][k].to \in Underway

\* A mission that was ever started has a checklist of its own, confirmed and
\* clean: start's reads, the link, the confirmation and the lost updates of
\* racing transitions cannot combine into an unchecked departure.
StartedWasChecked ==
    \A m \in Mission : HasStarted(m) =>
        /\ list[m] # None
        /\ check[list[m]] = "CONFIRMED"
        /\ Settled(item[list[m]]) /\ Unfailed(item[list[m]])
        /\ \A n \in Mission \ {m} : list[n] # list[m]

\* No call on mission m has failed twice.
OneFault(m) == \A r \in Request : target[r] = m => faults[r] <= 1

\* fleet.controller.ts:110-120: a createMission that has answered, well or with
\* an error, leaves no live mission without a checklist, when at most one of
\* its database calls failed, whatever fails in other requests.
NoOrphanMission ==
    \A m \in Mission : status[m] \in Live /\ list[m] = None /\ OneFault(m)
        => \E r \in Request : target[r] = m /\ pc[r] # "done"

-----------------------------------------------------------------------------
(***************************************************************************)
(* What makes the three inductive.  A request that still has to link owns  *)
(* its mission and its checklist; a request about to write a transition    *)
(* other than an abort has seen a mission whose checklist is confirmed;    *)
(* and an unlinked live mission is in the hands of the request that        *)
(* created it or, after a failure, of an abort that will find it live.     *)
(***************************************************************************)
Checked(m) == list[m] # None /\ check[list[m]] = "CONFIRMED"

Creating(r) == pc[r] \in {"checklist", "link"}

OwnMission ==
    \A r \in Request :
        /\ pc[r] \in {"new", "find", "insert"} => target[r] = None
        /\ pc[r] \in {"new", "find", "insert"} \/ Creating(r) => faults[r] = 0
        /\ pc[r] \in {"checklist", "link", "read", "include", "write"} =>
             target[r] # None /\ status[target[r]] # "none"
        /\ Creating(r) =>
             /\ list[target[r]] = None
             /\ \A q \in Request \ {r} : Creating(q) => target[q] # target[r]

OwnChecklist ==
    /\ \A m \in Mission : list[m] # None =>
         /\ check[list[m]] # "none"
         /\ status[m] # "none"
         /\ \A n \in Mission \ {m} : list[n] # list[m]
    /\ \A r \in Request : pc[r] = "link" =>
         /\ made[r] # None /\ check[made[r]] # "none"
         /\ \A m \in Mission : list[m] # made[r]
         /\ \A q \in Request \ {r} : pc[q] = "link" => made[q] # made[r]

Writers ==
    \A r \in Request :
        /\ pc[r] \in {"read", "include", "write"} => op[r] \in Ops
        /\ pc[r] = "include" =>
             op[r] = "start" /\ made[r] # None /\ made[r] = list[target[r]]
        /\ pc[r] = "write" /\ op[r] # "abort" => Checked(target[r])

Departed == \A m \in Mission : HasStarted(m) => Checked(m)

Caretaker(r, m) ==
    /\ target[r] = m
    /\ \/ Creating(r)
       \/ faults[r] = 1 /\ op[r] = "abort" /\ pc[r] \in {"read", "write"}

Orphans ==
    \A m \in Mission : status[m] \in Live /\ list[m] = None /\ OneFault(m)
        => \E r \in Request : Caretaker(r, m)

FleetInv == /\ TypeOK
            /\ ConfirmedIsClean
            /\ OwnMission
            /\ OwnChecklist
            /\ Writers
            /\ Departed
            /\ Orphans

-----------------------------------------------------------------------------
\* smoke-fleet.cjs:112: "Cannot start new op on completed mission".  A
\* completed or aborted mission takes no further transition: nothing follows
\* in its audit trail, and its status is still final.
FinalIsFinal ==
    \A m \in Mission : \A k \in DOMAIN trail[m] :
        trail[m][k].to \in Final => k = Len(trail[m]) /\ status[m] \in Final

\* mission.service.ts:23: "already has an active mission".  The vehicle has at
\* most one mission that is not final.
OneLiveMission ==
    \A m, n \in Mission : status[m] \in Live /\ status[n] \in Live => m = n
=============================================================================
