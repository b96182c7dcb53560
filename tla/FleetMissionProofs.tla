------------------------- MODULE FleetMissionProofs -------------------------
(***************************************************************************)
(* Proofs about FleetMission, for any number of requests, missions,        *)
(* checklists, items and database failures.  FleetInv is inductive; the    *)
(* three invariants follow from it.                                        *)
(***************************************************************************)
EXTENDS FleetMission, TLAPS

USE FleetAssumption

-----------------------------------------------------------------------------
(* Every action preserves the types.                                       *)

LEMMA TypeRequest ==
    ASSUME TypeOK, OwnMission, OwnChecklist, Writers,
           NEW r \in Request, RequestStep(r)
    PROVE  TypeOK'
<1> USE DEF TypeOK, missionVars, checkVars, locals, Goto, Finish
<1>1. CASE CreateMission(r)
  BY <1>1 DEF CreateMission
<1>2. CASE FindActive(r)
  BY <1>2 DEF FindActive
<1>3. ASSUME NEW m \in Mission, InsertMission(r, m) PROVE TypeOK'
  <2>1. [from |-> None, to |-> "PENDING"] \in Row BY DEF Row, Live
  <2>2. trail' \in [Mission -> Seq(Row)] BY <1>3, <2>1 DEF InsertMission
  <2> QED BY <1>3, <2>2 DEF InsertMission, Live
<1>4. ASSUME NEW c \in Checklist, MissionChecklist(r, c) PROVE TypeOK'
  BY <1>4 DEF MissionChecklist, InsertChecklist, FreshItems, Verdict
<1>5. CASE LinkChecklist(r)
  BY <1>5 DEF LinkChecklist, Live
<1>6. CASE DatabaseFails(r)
  <2>1. faults' \in [Request -> 0..MaxFaults] BY <1>6 DEF DatabaseFails
  <2>2. /\ pc' \in [Request -> {"new", "find", "insert", "checklist", "link",
                                "read", "include", "write", "done"}]
        /\ op' \in [Request -> Ops \cup {"create", None}]
    BY <1>6 DEF DatabaseFails, Cleanup, Ops
  <2> QED BY <1>6, <2>1, <2>2 DEF DatabaseFails
<1>7. ASSUME NEW o \in Ops, NEW m \in Mission, MissionOp(r, o, m)
      PROVE  TypeOK'
  BY <1>7 DEF MissionOp
<1>8. CASE ReadMission(r)
  <2>1. status[target[r]] \in FromAllowed(op[r]) => status[target[r]] \in Live
    BY <1>8 DEF ReadMission, Writers, Ops, FromAllowed, Live
  <2>2. list[target[r]] \in Checklist \cup {None}
    BY <1>8 DEF ReadMission, OwnMission
  <2>3. from' \in [Request -> Live \cup {None}] /\ made' \in [Request -> Checklist \cup {None}]
    BY <1>8, <2>1, <2>2 DEF ReadMission
  <2> QED BY <1>8, <2>3 DEF ReadMission
<1>10. CASE ReadChecklist(r)
  BY <1>10 DEF ReadChecklist
<1>9. CASE WriteMission(r)
  <2>1. Target(op[r]) \in Live \cup Final
    BY <1>9 DEF WriteMission, Writers, Ops, Target, Live, Final
  <2>2. [from |-> from[r], to |-> Target(op[r])] \in Row
    BY <2>1 DEF Row
  <2>3. target[r] \in Mission BY <1>9 DEF WriteMission, OwnMission
  <2>4. Append(trail[target[r]], [from |-> from[r], to |-> Target(op[r])])
          \in Seq(Row)
    BY <2>2, <2>3
  <2>5. trail' \in [Mission -> Seq(Row)] BY <1>9, <2>4 DEF WriteMission
  <2> QED BY <1>9, <2>1, <2>5 DEF WriteMission
<1> QED
  BY <1>1, <1>2, <1>3, <1>4, <1>5, <1>6, <1>7, <1>8, <1>9, <1>10 DEF RequestStep

LEMMA TypeChecklist ==
    ASSUME TypeOK, NEW c \in Checklist, ChecklistStep(c)
    PROVE  TypeOK'
<1> USE DEF TypeOK, missionVars, locals
<1>1. CASE CreateChecklist(c)
  BY <1>1 DEF CreateChecklist, InsertChecklist, FreshItems, Verdict
<1>2. ASSUME NEW i \in Item, NEW verdict \in Verdict,
             UpdateItem(c, i, verdict)
      PROVE  TypeOK'
  BY <1>2 DEF UpdateItem, CheckStatus
<1>3. CASE Confirm(c)
  BY <1>3 DEF Confirm
<1>4. CASE CheckAges(c)
  BY <1>4 DEF CheckAges
<1> QED
  BY <1>1, <1>2, <1>3, <1>4 DEF ChecklistStep

-----------------------------------------------------------------------------
(* A request owns what it has created until it has linked it.              *)

LEMMA RequestOwns ==
    ASSUME FleetInv, NEW r \in Request, RequestStep(r)
    PROVE  OwnMission' /\ OwnChecklist'
<1> USE DEF FleetInv, TypeOK, missionVars, checkVars, locals, Goto, Finish,
            Creating
<1>1. CASE CreateMission(r)
  BY <1>1 DEF CreateMission, OwnMission, OwnChecklist
<1>2. CASE FindActive(r)
  BY <1>2 DEF FindActive, OwnMission, OwnChecklist
<1>3. ASSUME NEW m \in Mission, InsertMission(r, m)
      PROVE  OwnMission' /\ OwnChecklist'
  <2>1. OwnMission' BY <1>3 DEF InsertMission, OwnMission, OwnChecklist
  <2>2. OwnChecklist' BY <1>3 DEF InsertMission, OwnChecklist
  <2> QED BY <2>1, <2>2
<1>4. ASSUME NEW c \in Checklist, MissionChecklist(r, c)
      PROVE  OwnMission' /\ OwnChecklist'
  <2>1. OwnMission'
    BY <1>4 DEF MissionChecklist, InsertChecklist, OwnMission
  <2>2. OwnChecklist'
    BY <1>4 DEF MissionChecklist, InsertChecklist, OwnChecklist
  <2> QED BY <2>1, <2>2
<1>5. CASE LinkChecklist(r)
  <2>1. OwnMission' BY <1>5 DEF LinkChecklist, OwnMission
  <2>2. OwnChecklist' BY <1>5 DEF LinkChecklist, OwnMission, OwnChecklist
  <2> QED BY <2>1, <2>2
<1>6. CASE DatabaseFails(r)
  BY <1>6 DEF DatabaseFails, Cleanup, OwnMission, OwnChecklist
<1>7. ASSUME NEW o \in Ops, NEW m \in Mission, MissionOp(r, o, m)
      PROVE  OwnMission' /\ OwnChecklist'
  BY <1>7 DEF MissionOp, OwnMission, OwnChecklist
<1>8. CASE ReadMission(r)
  <2>1. UNCHANGED <<status, list, check, target, faults>>
    BY <1>8 DEF ReadMission
  <2>2. \A q \in Request :
          \/ pc'[q] = pc[q] /\ made'[q] = made[q]
          \/ q = r /\ pc[q] = "read" /\ pc'[q] \in {"include", "write", "done"}
    <3>1. \A q \in Request \ {r} : pc'[q] = pc[q] /\ made'[q] = made[q]
      BY <1>8 DEF ReadMission
    <3>2. pc[r] = "read" /\ pc'[r] \in {"include", "write", "done"}
      BY <1>8 DEF ReadMission
    <3> QED BY <3>1, <3>2
  <2>3. \A q \in Request :
          /\ pc'[q] \in {"new", "find", "insert", "checklist", "link"} =>
               pc'[q] = pc[q] /\ made'[q] = made[q]
          /\ pc'[q] \in {"read", "include", "write"} =>
               pc[q] \in {"read", "include", "write"}
    BY <2>2
  <2>4. OwnMission' BY <2>1, <2>3 DEF OwnMission
  <2>5. OwnChecklist' BY <2>1, <2>3 DEF OwnChecklist
  <2> QED BY <2>4, <2>5
<1>10. CASE ReadChecklist(r)
  BY <1>10 DEF ReadChecklist, OwnMission, OwnChecklist
<1>9. CASE WriteMission(r)
  <2>1. Target(op[r]) # "none"
    BY <1>9 DEF WriteMission, Writers, Ops, Target
  <2> QED BY <1>9, <2>1 DEF WriteMission, OwnMission, OwnChecklist
<1> QED
  BY <1>1, <1>2, <1>3, <1>4, <1>5, <1>6, <1>7, <1>8, <1>9, <1>10 DEF RequestStep

LEMMA ChecklistOwns ==
    ASSUME FleetInv, NEW c \in Checklist, ChecklistStep(c)
    PROVE  OwnMission' /\ OwnChecklist' /\ ConfirmedIsClean'
<1> USE DEF FleetInv, TypeOK, missionVars, locals, Creating
<1>1. CASE CreateChecklist(c)
  BY <1>1 DEF CreateChecklist, InsertChecklist, OwnMission, OwnChecklist,
              ConfirmedIsClean
<1>2. ASSUME NEW i \in Item, NEW verdict \in Verdict,
             UpdateItem(c, i, verdict)
      PROVE  OwnMission' /\ OwnChecklist' /\ ConfirmedIsClean'
  BY <1>2 DEF UpdateItem, CheckStatus, OwnMission, OwnChecklist,
              ConfirmedIsClean
<1>3. CASE Confirm(c)
  BY <1>3 DEF Confirm, OwnMission, OwnChecklist, ConfirmedIsClean
<1>4. CASE CheckAges(c)
  BY <1>4 DEF CheckAges, OwnMission, OwnChecklist, ConfirmedIsClean
<1> QED
  BY <1>1, <1>2, <1>3, <1>4 DEF ChecklistStep

-----------------------------------------------------------------------------
(* No unchecked departure.                                                 *)

\* What a step may do to the checklists, and to the link of a mission.
LEMMA CheckedIsStable ==
    ASSUME FleetInv, Next, NEW m \in Mission, Checked(m)
    PROVE  Checked(m)'
<1> USE DEF FleetInv, TypeOK, missionVars, checkVars, locals
<1>1. list[m] \in Checklist BY DEF Checked
<1>2. ASSUME NEW r \in Request, RequestStep(r) PROVE Checked(m)'
  <2>1. CASE LinkChecklist(r)
    BY <1>1, <2>1 DEF LinkChecklist, OwnMission, Creating, Checked
  <2>2. ASSUME NEW c \in Checklist, MissionChecklist(r, c) PROVE Checked(m)'
    BY <1>1, <2>2 DEF MissionChecklist, InsertChecklist, Checked
  <2>3. ASSUME UNCHANGED <<list, check>> PROVE Checked(m)'
    BY <2>3 DEF Checked
  <2> QED
    BY <1>2, <2>1, <2>2, <2>3
       DEF RequestStep, CreateMission, FindActive, InsertMission,
           DatabaseFails, MissionOp, ReadMission, ReadChecklist, WriteMission
<1>3. ASSUME NEW c \in Checklist, ChecklistStep(c) PROVE Checked(m)'
  <2>1. UNCHANGED list
    BY <1>3 DEF ChecklistStep, CreateChecklist, UpdateItem, Confirm, CheckAges
  <2>2. check[list[m]]' = "CONFIRMED"
    <3>1. CASE CreateChecklist(c)
      BY <1>1, <2>1, <3>1 DEF CreateChecklist, InsertChecklist, Checked
    <3>2. ASSUME NEW i \in Item, NEW verdict \in Verdict,
                 UpdateItem(c, i, verdict)
          PROVE  check[list[m]]' = "CONFIRMED"
      BY <1>1, <2>1, <3>2 DEF UpdateItem, Checked
    <3>3. CASE Confirm(c)
      BY <1>1, <2>1, <3>3 DEF Confirm, Checked
    <3>4. CASE CheckAges(c)
      BY <2>1, <3>4 DEF CheckAges, Checked
    <3> QED BY <1>3, <3>1, <3>2, <3>3, <3>4 DEF ChecklistStep
  <2> QED BY <2>1, <2>2 DEF Checked
<1> QED BY <1>2, <1>3 DEF Next

\* A linked checklist stays linked.
LEMMA LinkedOnce ==
    ASSUME FleetInv, Next, NEW m \in Mission, list[m] # None
    PROVE  list'[m] = list[m]
<1> USE DEF FleetInv, TypeOK, missionVars, locals
<1>1. ASSUME NEW r \in Request, LinkChecklist(r) PROVE list'[m] = list[m]
  BY <1>1 DEF LinkChecklist, OwnMission, Creating
<1>2. ASSUME NEW r \in Request, RequestStep(r), ~LinkChecklist(r)
      PROVE  list'[m] = list[m]
  BY <1>2 DEF RequestStep, CreateMission, FindActive, InsertMission,
              MissionChecklist, DatabaseFails, MissionOp, ReadMission,
              ReadChecklist, WriteMission
<1>3. ASSUME NEW c \in Checklist, ChecklistStep(c) PROVE list'[m] = list[m]
  BY <1>3 DEF ChecklistStep, CreateChecklist, UpdateItem, Confirm, CheckAges
<1> QED BY <1>1, <1>2, <1>3 DEF Next

\* updateItem, confirm and createChecklist touch no mission.
LEMMA ChecklistKeepsMissions ==
    ASSUME NEW c \in Checklist, ChecklistStep(c)
    PROVE  UNCHANGED <<status, list, trail, pc, op, target, made, from, faults>>
BY DEF ChecklistStep, CreateChecklist, UpdateItem, Confirm, CheckAges,
       missionVars, locals

LEMMA RequestWriters ==
    ASSUME FleetInv, NEW r \in Request, RequestStep(r)
    PROVE  Writers' /\ ConfirmedIsClean'
<1>0. \A m \in Mission : Checked(m) => Checked(m)'
  BY CheckedIsStable DEF Next
<1> USE DEF FleetInv, TypeOK, missionVars, checkVars, locals, Goto, Finish
<1>a. \A q \in Request : pc[q] \in {"include", "write"} => target[q] \in Mission
  BY DEF OwnMission
\* The checklist that a start reads of stays linked.
<1>b. \A q \in Request : pc[q] = "include" =>
        list[target[q]] # None /\ list'[target[q]] = list[target[q]]
  <2>1. \A q \in Request : pc[q] = "include" => list[target[q]] # None
    BY DEF Writers
  <2>2. \A m \in Mission : list[m] # None => list'[m] = list[m]
    BY LinkedOnce DEF Next
  <2> QED BY <1>a, <2>1, <2>2
<1>1. CASE CreateMission(r)
  BY <1>0, <1>a, <1>b, <1>1 DEF CreateMission, Writers, ConfirmedIsClean
<1>2. CASE FindActive(r)
  BY <1>0, <1>a, <1>b, <1>2 DEF FindActive, Writers, ConfirmedIsClean
<1>3. ASSUME NEW m \in Mission, InsertMission(r, m)
      PROVE  Writers' /\ ConfirmedIsClean'
  BY <1>0, <1>a, <1>b, <1>3 DEF InsertMission, Writers, ConfirmedIsClean
<1>4. ASSUME NEW c \in Checklist, MissionChecklist(r, c)
      PROVE  Writers' /\ ConfirmedIsClean'
  <2>1. Writers' BY <1>0, <1>a, <1>b, <1>4 DEF MissionChecklist, Writers
  <2>2. ConfirmedIsClean'
    BY <1>4 DEF MissionChecklist, InsertChecklist, ConfirmedIsClean
  <2> QED BY <2>1, <2>2
<1>5. CASE LinkChecklist(r)
  BY <1>0, <1>a, <1>b, <1>5 DEF LinkChecklist, Writers, ConfirmedIsClean
<1>6. CASE DatabaseFails(r)
  <2>1. Writers'
    BY <1>0, <1>a, <1>b, <1>6 DEF DatabaseFails, Cleanup, Writers, Ops
  <2>2. ConfirmedIsClean' BY <1>6 DEF DatabaseFails, ConfirmedIsClean
  <2> QED BY <2>1, <2>2
<1>7. ASSUME NEW o \in Ops, NEW m \in Mission, MissionOp(r, o, m)
      PROVE  Writers' /\ ConfirmedIsClean'
  BY <1>0, <1>a, <1>b, <1>7 DEF MissionOp, Writers, ConfirmedIsClean
<1>8. CASE ReadMission(r)
  <2>1. ConfirmedIsClean' BY <1>8 DEF ReadMission, ConfirmedIsClean
  <2>2. target[r] \in Mission /\ op[r] \in Ops
    BY <1>8 DEF ReadMission, OwnMission, Writers
  <2>3. ASSUME pc'[r] = "write", op[r] # "abort" PROVE Checked(target[r])
    <3>1. op[r] \in {"pause", "resume", "complete"}
      BY <1>8, <2>2, <2>3 DEF ReadMission, Ops
    <3>2. status[target[r]] \in Underway
      BY <1>8, <2>3, <3>1 DEF ReadMission, FromAllowed, Underway
    <3> QED BY <2>2, <3>2 DEF Departed, HasStarted
  <2>4. Writers'
    BY <1>0, <1>a, <1>b, <1>8, <2>2, <2>3 DEF ReadMission, Writers
  <2> QED BY <2>1, <2>4
<1>10. CASE ReadChecklist(r)
  <2>1. ConfirmedIsClean' BY <1>10 DEF ReadChecklist, ConfirmedIsClean
  <2>2. pc'[r] = "write" => Checked(target[r])
    BY <1>10 DEF ReadChecklist, MayStart, Writers, Checked
  <2>3. Writers'
    BY <1>0, <1>a, <1>b, <1>10, <2>2 DEF ReadChecklist, Writers
  <2> QED BY <2>1, <2>3
<1>9. CASE WriteMission(r)
  BY <1>0, <1>a, <1>b, <1>9 DEF WriteMission, Writers, ConfirmedIsClean
<1> QED
  BY <1>1, <1>2, <1>3, <1>4, <1>5, <1>6, <1>7, <1>8, <1>9, <1>10 DEF RequestStep

\* A mission that departs in a step, or has departed before it, is checked.
LEMMA RequestDeparts ==
    ASSUME FleetInv, NEW r \in Request, RequestStep(r)
    PROVE  Departed'
<1>0. \A m \in Mission : Checked(m) => Checked(m)'
  BY CheckedIsStable DEF Next
<1> USE DEF FleetInv, TypeOK, missionVars, checkVars, locals
<1>1. ASSUME UNCHANGED <<status, trail>> PROVE Departed'
  BY <1>0, <1>1 DEF Departed, HasStarted
<1>2. ASSUME NEW m \in Mission, InsertMission(r, m) PROVE Departed'
  <2>1. \A n \in Mission : HasStarted(n)' => HasStarted(n)
    BY <1>2 DEF InsertMission, HasStarted, Underway
  <2> QED BY <1>0, <2>1 DEF Departed
<1>3. CASE LinkChecklist(r)
  <2>1. \A n \in Mission : HasStarted(n)' => HasStarted(n)
    BY <1>3 DEF LinkChecklist, HasStarted, Underway
  <2> QED BY <1>0, <2>1 DEF Departed
<1>4. CASE WriteMission(r)
  <2>1. target[r] \in Mission BY <1>4 DEF WriteMission, OwnMission
  <2>2. \A n \in Mission : n # target[r] /\ HasStarted(n)' => HasStarted(n)
    BY <1>4 DEF WriteMission, HasStarted
  <2>3. CASE op[r] = "abort"
    <3>1. Target(op[r]) \notin Underway BY <2>3 DEF Target, Underway
    <3>2. \A n \in Mission : n = target[r] /\ HasStarted(n)' => HasStarted(n)
      BY <1>4, <2>1, <3>1 DEF WriteMission, HasStarted
    <3> QED BY <1>0, <2>2, <3>2 DEF Departed
  <2>4. CASE op[r] # "abort"
    <3>1. Checked(target[r]) BY <1>4, <2>4 DEF WriteMission, Writers
    <3> QED BY <1>0, <2>1, <2>2, <3>1 DEF Departed
  <2> QED BY <2>3, <2>4
<1> QED
  BY <1>1, <1>2, <1>3, <1>4
     DEF RequestStep, CreateMission, FindActive, MissionChecklist,
         DatabaseFails, MissionOp, ReadMission, ReadChecklist

-----------------------------------------------------------------------------
(* No orphan missions.                                                     *)

LEMMA RequestOrphans ==
    ASSUME FleetInv, NEW r \in Request, RequestStep(r)
    PROVE  Orphans'
<1> USE DEF missionVars, checkVars, locals, Goto, Finish
<1> SUFFICES ASSUME NEW m \in Mission, OneFault(m)',
                    status'[m] \in Live, list'[m] = None
             PROVE  \E q \in Request : Caretaker(q, m)'
  BY DEF Orphans
<1>t. TypeOK BY DEF FleetInv
\* Only an insertion makes a live mission that is not linked.
<1>a. ASSUME NEW n \in Mission, InsertMission(r, n), n = m
      PROVE  \E q \in Request : Caretaker(q, m)'
  BY <1>a, <1>t DEF InsertMission, Caretaker, Creating, TypeOK
<1>b. ASSUME ~ \E n \in Mission : InsertMission(r, n) /\ n = m
      PROVE  status[m] = status'[m] /\ list[m] = None
  <2>1. CASE WriteMission(r)
    <3>1. list[m] = None BY <2>1 DEF WriteMission
    <3>2. ASSUME target[r] = m PROVE FALSE
      <4>1. op[r] # "abort"
        BY <1>t, <2>1, <3>2 DEF WriteMission, Target, Live, TypeOK
      <4>2. Checked(m)
        BY <2>1, <3>2, <4>1 DEF WriteMission, FleetInv, Writers
      <4> QED BY <3>1, <4>2 DEF Checked
    <3> QED BY <1>t, <2>1, <3>1, <3>2 DEF WriteMission, TypeOK
  <2>2. CASE LinkChecklist(r)
    BY <1>t, <2>2 DEF LinkChecklist, FleetInv, OwnChecklist, TypeOK
  <2>3. ASSUME NEW n \in Mission, InsertMission(r, n)
        PROVE  status[m] = status'[m] /\ list[m] = None
    BY <1>t, <1>b, <2>3 DEF InsertMission, TypeOK
  <2> QED
    BY <2>1, <2>2, <2>3
       DEF RequestStep, CreateMission, FindActive, MissionChecklist,
           DatabaseFails, MissionOp, ReadMission, ReadChecklist
<1>c. ASSUME ~ \E n \in Mission : InsertMission(r, n) /\ n = m
      PROVE  \E q \in Request : Caretaker(q, m)'
  <2>1. \A p \in Request : target[p] = m => target'[p] = m
    BY <1>t DEF RequestStep, CreateMission, FindActive, InsertMission,
                MissionChecklist, LinkChecklist, DatabaseFails, MissionOp,
                ReadMission, ReadChecklist, WriteMission, FleetInv, OwnMission,
                TypeOK
  <2>2. \A p \in Request : faults[p] <= faults'[p] /\ faults[p] \in Nat
                           /\ faults'[p] \in Nat
    <3>1. CASE DatabaseFails(r)
      BY <1>t, <3>1 DEF DatabaseFails, TypeOK
    <3>2. ASSUME faults' = faults PROVE \A p \in Request :
            faults[p] <= faults'[p] /\ faults[p] \in Nat /\ faults'[p] \in Nat
      BY <1>t, <3>2 DEF TypeOK
    <3> QED
      BY <3>1, <3>2
         DEF RequestStep, CreateMission, FindActive, InsertMission,
             MissionChecklist, LinkChecklist, MissionOp, ReadMission,
             ReadChecklist, WriteMission
  <2>0. OneFault(m)
    BY <2>1, <2>2 DEF OneFault
  <2>3. PICK q \in Request : Caretaker(q, m)
    BY <1>b, <1>c, <2>0 DEF FleetInv, Orphans
  <2>4. pc[q] \in {"checklist", "link", "read", "write"} /\ target[q] = m
    BY <2>3 DEF Caretaker, Creating
  <2>5. CASE DatabaseFails(r)
    <3>1. CASE q # r
      BY <1>t, <2>3, <2>5, <3>1 DEF DatabaseFails, Cleanup, Caretaker, Creating, TypeOK
    <3>2. CASE q = r
      <4>1. faults'[q] = faults[q] + 1 /\ faults'[q] <= 1 /\ faults[q] \in Nat
        BY <1>t, <2>1, <2>4, <2>5, <3>2 DEF DatabaseFails, OneFault, TypeOK
      <4>2. Creating(q) /\ faults'[q] = 1
        BY <2>2, <2>3, <4>1 DEF Caretaker, FleetInv, OwnMission
      <4> QED
        BY <1>t, <2>4, <2>5, <3>2, <4>2
           DEF DatabaseFails, Cleanup, Caretaker, Creating, TypeOK
    <3> QED BY <3>1, <3>2
  <2>6. CASE WriteMission(r)
    <3>1. q # r
      <4>1. q = r => op[r] = "abort"
        BY <2>3, <2>6 DEF WriteMission, Caretaker, Creating
      <4>2. q = r => status'[m] = "ABORTED"
        BY <1>t, <2>4, <2>6, <4>1 DEF WriteMission, Target, TypeOK
      <4> QED BY <4>2 DEF Live
    <3> QED BY <1>t, <2>3, <2>6, <3>1 DEF WriteMission, Caretaker, Creating, TypeOK
  <2>7. CASE ReadMission(r)
    <3>1. q = r => op[r] = "abort"
      BY <2>3, <2>7 DEF ReadMission, Caretaker, Creating
    <3>2. q = r => status[m] \in FromAllowed(op[r])
      BY <1>b, <1>c, <3>1 DEF FromAllowed
    <3>3. q = r => pc'[r] = "write"
      BY <1>t, <2>4, <2>7, <3>1, <3>2 DEF ReadMission, TypeOK
    <3> QED BY <1>t, <2>3, <2>7, <3>1, <3>3
            DEF ReadMission, Caretaker, Creating, TypeOK
  <2>8. CASE LinkChecklist(r)
    <3>1. q # r
      BY <1>t, <2>4, <2>8 DEF LinkChecklist, FleetInv, OwnChecklist, TypeOK
    <3> QED BY <1>t, <2>3, <2>8, <3>1
            DEF LinkChecklist, Caretaker, Creating, TypeOK
  <2>9. ASSUME NEW n \in Mission, InsertMission(r, n)
        PROVE  Caretaker(q, m)'
    BY <1>t, <2>3, <2>4, <2>9 DEF InsertMission, Caretaker, Creating, TypeOK
  <2>10. ASSUME NEW c \in Checklist, MissionChecklist(r, c)
         PROVE  Caretaker(q, m)'
    BY <1>t, <2>3, <2>10 DEF MissionChecklist, Caretaker, Creating, TypeOK
  <2>11. ASSUME NEW o \in Ops, NEW n \in Mission, MissionOp(r, o, n)
         PROVE  Caretaker(q, m)'
    BY <1>t, <2>3, <2>4, <2>11 DEF MissionOp, Caretaker, Creating, TypeOK
  <2>12. CASE CreateMission(r)
    BY <1>t, <2>3, <2>4, <2>12 DEF CreateMission, Caretaker, Creating, TypeOK
  <2>13. CASE FindActive(r)
    BY <1>t, <2>3, <2>4, <2>13 DEF FindActive, Caretaker, Creating, TypeOK
  <2>14. CASE ReadChecklist(r)
    BY <1>t, <2>3, <2>4, <2>14 DEF ReadChecklist, Caretaker, Creating, TypeOK
  <2> QED
    BY <2>5, <2>6, <2>7, <2>8, <2>9, <2>10, <2>11, <2>12, <2>13, <2>14
       DEF RequestStep
<1> QED BY <1>a, <1>c

-----------------------------------------------------------------------------
(* The inductive invariant and what follows from it.                       *)

LEMMA FleetInit == Init => FleetInv
BY DEF Init, FleetInv, TypeOK, Row, ConfirmedIsClean, OwnMission, OwnChecklist,
       Writers, Departed, HasStarted, Underway, Orphans, OneFault, Live, Creating,
       Verdict

LEMMA FleetStep == FleetInv /\ [Next]_vars => FleetInv'
<1> SUFFICES ASSUME FleetInv, [Next]_vars PROVE FleetInv'
  OBVIOUS
<1>1. ASSUME NEW r \in Request, RequestStep(r) PROVE FleetInv'
  <2>1. TypeOK' BY <1>1, TypeRequest DEF FleetInv
  <2> QED BY <1>1, <2>1, RequestOwns, RequestWriters, RequestDeparts,
             RequestOrphans DEF FleetInv
<1>2. ASSUME NEW c \in Checklist, ChecklistStep(c) PROVE FleetInv'
  <2>1. TypeOK' BY <1>2, TypeChecklist DEF FleetInv
  <2>2. UNCHANGED <<status, list, trail, pc, op, target, made, from, faults>>
    BY <1>2, ChecklistKeepsMissions
  <2>3. \A m \in Mission : Checked(m) => Checked(m)'
    BY <1>2, CheckedIsStable DEF Next
  <2>4. \A q \in Request : pc[q] \in {"include", "write"} => target[q] \in Mission
    BY DEF FleetInv, TypeOK, OwnMission
  <2>5. Writers' BY <2>2, <2>3, <2>4 DEF FleetInv, Writers
  <2>6. Departed' BY <2>2, <2>3 DEF FleetInv, Departed, HasStarted
  <2>7. Orphans' BY <2>2 DEF FleetInv, Orphans, OneFault, Caretaker, Creating
  <2> QED BY <1>2, <2>1, <2>5, <2>6, <2>7, ChecklistOwns DEF FleetInv
<1>3. CASE UNCHANGED vars
  BY <1>3 DEF vars, missionVars, checkVars, locals, FleetInv, TypeOK,
              ConfirmedIsClean, OwnMission, OwnChecklist, Writers, Departed,
              HasStarted, Orphans, OneFault, Caretaker, Creating, Checked
<1> QED BY <1>1, <1>2, <1>3 DEF Next

\* FleetInv holds in every reachable state of the fleet service.
THEOREM FleetInvariant == Spec => []FleetInv
BY FleetInit, FleetStep, PTL DEF Spec

\* The LEG-03 invariant of confirm, for any items and any interleaving of
\* updates and confirmations.
THEOREM ConfirmedStaysClean == Spec => []ConfirmedIsClean
<1>1. FleetInv => ConfirmedIsClean BY DEF FleetInv
<1> QED BY <1>1, FleetInvariant, PTL

\* No interleaving of create, link, start and the other transitions of
\* mission.service.ts starts a mission without its own confirmed checklist.
THEOREM NoUncheckedDeparture == Spec => []StartedWasChecked
<1>1. FleetInv => StartedWasChecked
  BY DEF FleetInv, TypeOK, Departed, Checked, OwnChecklist, ConfirmedIsClean,
         StartedWasChecked
<1> QED BY <1>1, FleetInvariant, PTL

\* createMission's cleanup leaves no live mission without a checklist when at
\* most one of that request's database calls fails, however many fail in others.
THEOREM CleanupSuffices == Spec => []NoOrphanMission
<1>1. FleetInv => NoOrphanMission
  BY DEF FleetInv, TypeOK, Orphans, Caretaker, Creating, NoOrphanMission
<1> QED BY <1>1, FleetInvariant, PTL
=============================================================================
