------------------------ MODULE CommandServiceProofs -------------------------
(***************************************************************************)
(* Proofs about the command service: zone delivery (ZoneDelivery), for     *)
(* every set of permits and every bound, and the evidence of commands      *)
(* (CommandEvidence), for every set of commands and handlers.              *)
(*                                                                         *)
(* The components share no variable: the state of the service's MQTT       *)
(* client is online in the one and connected in the other.                 *)
(***************************************************************************)
EXTENDS ZoneDelivery, CommandEvidence, SequenceTheorems, TLAPS

-----------------------------------------------------------------------------
(* Zone delivery *)

ZoneTypes ==
    /\ now \in Nat \ {0} /\ revision \in Nat
    /\ online \in BOOLEAN /\ linked \in BOOLEAN
    /\ retained \in Documents \cup {None}
    /\ feed \in Seq(Documents) /\ held \in Documents

\* Every document has a revision that the service will not give again.
Spent(d) == d.revision < NextRevision

\* The broker has the newest document.  Older ones have smaller revisions.
Precedes(d) ==
    /\ d.revision <= retained.revision
    /\ d.revision = retained.revision => d = retained

RevisionOrder ==
    /\ retained = None => feed = <<>> /\ held.revision = 0
    /\ retained # None =>
         /\ Spent(retained) /\ retained.revision > 0
         /\ Precedes(held)
         /\ \A i \in 1..Len(feed) : Precedes(feed[i])

\* A connected vehicle has the retained document, or it comes last.
Reaches ==
    /\ ~linked => feed = <<>>
    /\ linked /\ retained # None =>
         IF feed = <<>> THEN held = retained ELSE feed[Len(feed)] = retained

\* What setZone reported as delivered is what the broker retains.
Delivered ==
    last # None /\ last.delivered =>
        retained = last.doc /\ last.doc \in Documents

\* The registry is the last request's record, checked, and the document has
\* the same window.
Registered ==
    registry # None =>
        /\ registry \in ZoneRecords
        /\ registry.zone = "permit" => registry.until # None
        /\ last # None /\ last.rec = registry
        /\ last.doc.rec = Document(registry, 0).rec

ZoneInv == ZoneTypes /\ RevisionOrder /\ Reaches /\ Delivered /\ Registered

-----------------------------------------------------------------------------

\* Arithmetic.
LEMMA LaterIsNat ==
    ASSUME NEW a \in Nat, NEW b \in Nat
    PROVE  (IF a > b + 1 THEN a ELSE b + 1) \in Nat
  OBVIOUS

\* Arithmetic.
LEMMA AboveOne == \A n \in Nat : n # 0 /\ n # 1 => n > 1
  OBVIOUS

\* A checked record makes a document.
LEMMA DocumentTyped ==
    ASSUME NEW r \in ZoneRecords, NEW n \in Nat
    PROVE  Document(r, n) \in Documents
<1>1. Truthy(r.from) \in Nat \cup {None} /\ Truthy(r.limit) \in Nat \cup {None}
  BY DEF ZoneRecords, Truthy
<1> QED BY <1>1 DEF Document, Record, Documents, ZoneRecords

\* The next revision is above the last one and not behind the clock.
LEMMA NextRevisionBound ==
    ASSUME ZoneTypes
    PROVE  NextRevision \in Nat /\ NextRevision > revision /\ NextRevision >= now
  BY DEF ZoneTypes, NextRevision

\* What a vehicle holds initially is older than any document.
LEMMA PublicTyped ==
    Public \in ZoneRecords /\ [rec |-> Public, revision |-> 0] \in Documents
  BY DEF Public, Record, ZoneRecords, Documents

\* Nothing is configured, sent or held.
LEMMA ZoneInitially == Init => ZoneInv
<1> SUFFICES ASSUME Init PROVE ZoneInv
  OBVIOUS
<1>1. ZoneTypes
  <2>1. now \in Nat \ {0} /\ revision \in Nat BY DEF Init
  <2>2. online \in BOOLEAN /\ linked \in BOOLEAN /\ retained \in Documents \cup {None}
    BY Zenon DEF Init
  <2>3. feed \in Seq(Documents) /\ held \in Documents BY PublicTyped DEF Init
  <2> QED BY <2>1, <2>2, <2>3 DEF ZoneTypes
<1>2. RevisionOrder BY DEF Init, RevisionOrder
<1>3. Reaches /\ Delivered /\ Registered BY DEF Init, Reaches, Delivered,
                                            Registered
<1> QED BY <1>1, <1>2, <1>3 DEF ZoneInv

\* A step that leaves the broker's document and the vehicle alone.
LEMMA CloudSide ==
    ASSUME ZoneInv, UNCHANGED <<retained, vehicleVars>>, ZoneTypes',
           NextRevision' >= NextRevision
    PROVE  RevisionOrder' /\ Reaches'
<1> USE DEF vehicleVars
<1>1. Reaches' BY DEF ZoneInv, Reaches
<1>2. retained # None => Spent(retained)'
  <2> SUFFICES ASSUME retained # None PROVE Spent(retained)'
    OBVIOUS
  <2>1. retained.revision \in Nat BY DEF ZoneInv, ZoneTypes, Documents
  <2>2. retained.revision < NextRevision BY DEF ZoneInv, RevisionOrder, Spent
  <2>3. NextRevision \in Nat BY NextRevisionBound DEF ZoneInv
  <2>4. NextRevision' \in Nat
    <3>1. now' \in Nat /\ revision' \in Nat BY DEF ZoneTypes
    <3>2. NextRevision' = IF now' > revision' + 1 THEN now' ELSE revision' + 1
      BY Zenon DEF NextRevision
    <3> QED BY <3>1, <3>2, LaterIsNat
  <2>5. retained.revision < NextRevision' BY <2>1, <2>2, <2>3, <2>4
  <2> QED BY <2>5 DEF Spent
<1>3. RevisionOrder' BY <1>2 DEF ZoneInv, RevisionOrder, Precedes
<1> QED BY <1>1, <1>3


\* setZone with a record the controller has checked.
LEMMA SetZoneKeeps ==
    ASSUME ZoneInv, NEW r \in ZoneRecords, SetZone(r)
    PROVE  ZoneInv'
<1> DEFINE doc == Document(r, NextRevision)
<1>1. NextRevision \in Nat /\ NextRevision > revision
  BY NextRevisionBound DEF ZoneInv
<1>2. doc \in Documents /\ doc.revision = NextRevision /\ doc # None
  BY <1>1, DocumentTyped, ZoneAssumption DEF Document
<1>3. /\ registry' = r /\ revision' = NextRevision /\ linked' = linked
      /\ held' = held /\ now' = now /\ online' = online
      /\ last' = [rec |-> r, doc |-> doc, delivered |-> online]
  BY DEF SetZone
<1>4. ZoneTypes /\ RevisionOrder /\ Reaches BY DEF ZoneInv
<1>5. NextRevision' = NextRevision + 1
  BY <1>1, <1>3, <1>4, NextRevisionBound DEF ZoneTypes, NextRevision
<1>6. last' \in Requests /\ last' # None
  BY <1>2, <1>3, <1>4, ZoneAssumption DEF Requests, ZoneTypes
<1>7. Registered'
  <2>1. r.zone = "permit" => r.until # None BY DEF SetZone, Permitted
  <2>2. last'.rec = r /\ last'.doc = doc BY <1>3
  <2>3. doc.rec = Document(r, 0).rec BY DEF Document
  <2> QED BY <1>3, <1>6, <2>1, <2>2, <2>3 DEF Registered
<1> HIDE DEF doc
<1>8. CASE online
  <2>1. retained' = doc /\ feed' = IF linked THEN Append(feed, doc) ELSE feed
    BY <1>8 DEF SetZone, PublishRetained, doc
  <2>2. feed' \in Seq(Documents) BY <1>2, <1>4, <2>1 DEF ZoneTypes
  <2>3. ZoneTypes' BY <1>1, <1>2, <1>3, <1>4, <2>1, <2>2 DEF ZoneTypes
  <2>4. ASSUME NEW d \in Documents, d.revision <= revision \/ d.revision < NextRevision
        PROVE  d.revision <= doc.revision /\ d.revision # doc.revision
    BY <1>1, <1>2, <1>4, <2>4 DEF Documents, ZoneTypes
  <2>5. \A i \in 1..Len(feed) : feed[i] \in Documents /\ feed[i].revision < NextRevision
    <3> SUFFICES ASSUME NEW i \in 1..Len(feed)
                 PROVE  feed[i] \in Documents /\ feed[i].revision < NextRevision
      OBVIOUS
    <3>1. feed # <<>> /\ feed[i] \in Documents BY <1>4 DEF ZoneTypes
    <3>2. retained # None BY <1>4, <3>1 DEF RevisionOrder
    <3>3. retained.revision \in Nat /\ retained.revision < NextRevision
      BY <1>4, <3>2 DEF RevisionOrder, Spent, ZoneTypes, Documents
    <3>4. feed[i].revision <= retained.revision /\ feed[i].revision \in Nat
      BY <1>4, <3>1, <3>2 DEF RevisionOrder, Precedes, Documents
    <3> QED BY <1>1, <3>1, <3>3, <3>4
  <2>6. held \in Documents /\ held.revision < NextRevision
    <3>1. held \in Documents /\ held.revision \in Nat BY <1>4 DEF ZoneTypes,
                                                         Documents
    <3>2. CASE retained = None
      BY <1>1, <1>4, <3>1, <3>2 DEF RevisionOrder, ZoneTypes
    <3>3. CASE retained # None
      <4>1. retained.revision \in Nat /\ retained.revision < NextRevision
        BY <1>4, <3>3 DEF RevisionOrder, Spent, ZoneTypes, Documents
      <4>2. held.revision <= retained.revision
        BY <1>4, <3>3 DEF RevisionOrder, Precedes
      <4> QED BY <1>1, <3>1, <4>1, <4>2
    <3> QED BY <3>2, <3>3
  <2>7. \A i \in 1..Len(feed') : Precedes(feed[i])'
    <3> SUFFICES ASSUME NEW i \in 1..Len(feed') PROVE Precedes(feed[i])'
      OBVIOUS
    <3>1. feed'[i] = doc \/ (i \in 1..Len(feed) /\ feed'[i] = feed[i])
      BY <1>2, <1>4, <2>1 DEF ZoneTypes
    <3> QED BY <1>1, <1>2, <2>1, <2>4, <2>5, <3>1 DEF Precedes
  <2>8. Precedes(held)' BY <1>3, <2>1, <2>4, <2>6 DEF Precedes
  <2>9. Spent(retained)' /\ retained'.revision > 0
    BY <1>1, <1>2, <1>4, <1>5, <2>1 DEF Spent, ZoneTypes
  <2>10. RevisionOrder' BY <1>2, <2>1, <2>7, <2>8, <2>9 DEF RevisionOrder
  <2>11. Reaches'
    <3>1. CASE linked
      <4>1. feed' # <<>> /\ feed'[Len(feed')] = doc
        BY <1>2, <1>4, <2>1, <3>1 DEF ZoneTypes
      <4> QED BY <1>3, <2>1, <3>1, <4>1 DEF Reaches
    <3>2. CASE ~linked BY <1>3, <1>4, <2>1, <3>2 DEF Reaches
    <3> QED BY <3>1, <3>2, LaterIsNat
  <2>12. Delivered' BY <1>2, <1>3, <2>1 DEF Delivered
  <2> QED BY <1>7, <2>3, <2>10, <2>11, <2>12 DEF ZoneInv
<1>9. CASE ~online
  <2>1. UNCHANGED <<retained, feed>> BY <1>9 DEF SetZone
  <2>2. ZoneTypes' BY <1>1, <1>3, <1>4, <2>1 DEF ZoneTypes
  <2>3. RevisionOrder' /\ Reaches'
    BY <1>1, <1>3, <1>5, <2>1, <2>2, CloudSide DEF vehicleVars
  <2>4. Delivered' BY <1>3, <1>9 DEF Delivered
  <2> QED BY <1>7, <2>2, <2>3, <2>4 DEF ZoneInv
<1> QED BY <1>8, <1>9


\* A step of the vehicle or the broker that leaves the cloud alone.
LEMMA VehicleSide ==
    ASSUME ZoneInv, UNCHANGED <<now, cloudVars, online, retained>>,
           linked' \in BOOLEAN, feed' \in Seq(Documents), held' \in Documents,
           retained = None => feed' = <<>> /\ held'.revision = 0,
           retained # None =>
               /\ Precedes(held')
               /\ \A i \in 1..Len(feed') : Precedes(feed'[i]),
           Reaches'
    PROVE  ZoneInv'
<1> USE DEF cloudVars
<1>1. ZoneTypes' BY DEF ZoneInv, ZoneTypes
<1>2. NextRevision' = NextRevision BY DEF NextRevision
<1>3. RevisionOrder' BY <1>2 DEF ZoneInv, RevisionOrder, Precedes, Spent
<1>4. Delivered' /\ Registered' BY DEF ZoneInv, Delivered, Registered
<1> QED BY <1>1, <1>3, <1>4 DEF ZoneInv

\* Nothing holds a document before the broker does.
LEMMA Holding ==
    ASSUME ZoneInv
    PROVE  /\ linked \in BOOLEAN /\ feed \in Seq(Documents) /\ held \in Documents
           /\ retained = None => feed = <<>> /\ held.revision = 0
           /\ retained # None =>
                /\ retained \in Documents /\ Precedes(retained) /\ Precedes(held)
                /\ \A i \in 1..Len(feed) : Precedes(feed[i])
  BY DEF ZoneInv, ZoneTypes, RevisionOrder, Precedes, Documents

\* The broker delivers the retained document once more.
LEMMA RepeatKeeps == ZoneInv /\ Repeat => ZoneInv'
<1> SUFFICES ASSUME ZoneInv, Repeat PROVE ZoneInv'
  OBVIOUS
<1>1. /\ linked /\ retained # None /\ feed' = Append(feed, retained)
      /\ UNCHANGED <<now, cloudVars, online, retained, linked, held>>
  BY DEF Repeat
<1>2. feed' \in Seq(Documents) /\ feed' # <<>> /\ feed'[Len(feed')] = retained
  BY <1>1, Holding
<1>3. \A i \in 1..Len(feed') : Precedes(feed'[i])
  <2> SUFFICES ASSUME NEW i \in 1..Len(feed') PROVE Precedes(feed'[i])
    OBVIOUS
  <2>1. feed'[i] = retained \/ (i \in 1..Len(feed) /\ feed'[i] = feed[i])
    BY <1>1, Holding
  <2> QED BY <1>1, <2>1, Holding
<1>4. Reaches' BY <1>1, <1>2 DEF Reaches
<1> QED BY <1>1, <1>2, <1>3, <1>4, Holding, VehicleSide

\* A vehicle that connects is sent the retained document.
LEMMA SubscribeKeeps == ZoneInv /\ Subscribe => ZoneInv'
<1> SUFFICES ASSUME ZoneInv, Subscribe PROVE ZoneInv'
  OBVIOUS
<1>1. /\ linked' = TRUE /\ feed' = IF retained = None THEN <<>> ELSE <<retained>>
      /\ UNCHANGED <<now, cloudVars, online, retained, held>>
  BY DEF Subscribe
<1>2. linked' \in BOOLEAN BY <1>1, Zenon
<1>3. CASE retained = None
  BY <1>1, <1>2, <1>3, Holding, VehicleSide DEF Reaches
<1>4. CASE retained # None
  <2>1. feed' = <<retained>> BY <1>1, <1>4
  <2>2. /\ feed' \in Seq(Documents) /\ feed' # <<>> /\ Len(feed') = 1
        /\ feed'[1] = retained
    BY <1>4, <2>1, Holding
  <2>3. \A i \in 1..Len(feed') : Precedes(feed'[i])
    BY <1>4, <2>2, Holding
  <2>4. Reaches' BY <1>1, <2>2 DEF Reaches
  <2> QED BY <1>1, <1>2, <1>4, <2>2, <2>3, <2>4, Holding, VehicleSide
<1> QED BY <1>3, <1>4

\* What was queued for the vehicle dies with its connection.
LEMMA DisconnectKeeps == ZoneInv /\ Disconnect => ZoneInv'
<1> SUFFICES ASSUME ZoneInv, Disconnect PROVE ZoneInv'
  OBVIOUS
<1>1. /\ linked' = FALSE /\ feed' = <<>>
      /\ UNCHANGED <<now, cloudVars, online, retained, held>>
  BY DEF Disconnect
<1>2. linked' \in BOOLEAN /\ Reaches' BY <1>1, Zenon DEF Reaches
<1> QED BY <1>1, <1>2, Holding, VehicleSide

\* A restarted vehicle holds the default zone and is not connected.
LEMMA VehicleRestartKeeps == ZoneInv /\ VehicleRestart => ZoneInv'
<1> SUFFICES ASSUME ZoneInv, VehicleRestart PROVE ZoneInv'
  OBVIOUS
<1>1. /\ linked' = FALSE /\ feed' = <<>> /\ held' = [rec |-> Public, revision |-> 0]
      /\ UNCHANGED <<now, cloudVars, online, retained>>
  BY DEF VehicleRestart
<1>2. linked' \in BOOLEAN /\ Reaches' BY <1>1, Zenon DEF Reaches
<1>3. held' \in Documents /\ held'.revision = 0 BY <1>1, PublicTyped
<1>4. retained # None => Precedes(held')
  BY <1>3 DEF ZoneInv, ZoneTypes, RevisionOrder, Precedes, Documents
<1> QED BY <1>1, <1>2, <1>3, <1>4, Holding, VehicleSide

\* The vehicle applies a document with a newer revision and drops the others.
LEMMA ReceiveKeeps == ZoneInv /\ Receive => ZoneInv'
<1> SUFFICES ASSUME ZoneInv, Receive PROVE ZoneInv'
  OBVIOUS
<1>1. /\ feed # <<>> /\ feed' = Tail(feed)
      /\ held' = IF Head(feed).revision > held.revision THEN Head(feed) ELSE held
      /\ UNCHANGED <<now, cloudVars, online, retained, linked>>
  BY DEF Receive
<1>2. retained # None /\ linked BY <1>1, Holding DEF ZoneInv, Reaches
<1>3. /\ Head(feed) = feed[1] /\ 1 \in 1..Len(feed) /\ feed[1] \in Documents
      /\ feed' \in Seq(Documents) /\ Len(feed') = Len(feed) - 1
      /\ \A i \in 1..Len(feed') : i + 1 \in 1..Len(feed) /\ feed'[i] = feed[i + 1]
  BY <1>1, Holding
<1>4. held' \in Documents /\ Precedes(held') BY <1>1, <1>2, <1>3, Holding
<1>5. \A i \in 1..Len(feed') : Precedes(feed'[i]) BY <1>2, <1>3, Holding
<1>6. Reaches'
  <2>1. feed[Len(feed)] = retained BY <1>1, <1>2 DEF ZoneInv, Reaches
  <2>2. CASE Len(feed) = 1
    <3>1. feed' = <<>> BY <1>3, <2>2
    <3>2. held' = retained
      <4>1. Head(feed) = retained BY <1>3, <2>1, <2>2
      <4>2. CASE retained.revision > held.revision BY <1>1, <4>1, <4>2
      <4>3. CASE ~(retained.revision > held.revision)
        <5>1. retained.revision \in Nat /\ held.revision \in Nat
          BY <1>2, Holding DEF Documents
        <5>2. held.revision = retained.revision
          BY <1>2, <4>3, <5>1, Holding DEF Precedes
        <5> QED BY <1>1, <1>2, <4>1, <4>3, <5>2, Holding DEF Precedes
      <4> QED BY <4>2, <4>3
    <3> QED BY <1>1, <1>2, <3>1, <3>2 DEF Reaches
  <2>3. CASE Len(feed) # 1
    <3>0. Len(feed) \in Nat /\ Len(feed) > 1
      <4>1. Len(feed) \in Nat /\ Len(feed) # 0 BY <1>1, Holding
      <4> QED BY <2>3, <4>1, AboveOne
    <3>1. Len(feed') \in 1..Len(feed') /\ feed' # <<>> BY <1>3, <3>0
    <3>2. feed'[Len(feed')] = retained BY <1>3, <2>1, <3>1, Holding
    <3> QED BY <1>1, <1>2, <3>1, <3>2 DEF Reaches
  <2> QED BY <2>2, <2>3
<1> QED BY <1>1, <1>2, <1>3, <1>4, <1>5, <1>6, Holding, VehicleSide

\* Every step keeps ZoneInv.
LEMMA ZoneStep == ZoneInv /\ [Next]_vars => ZoneInv'
<1> SUFFICES ASSUME ZoneInv, [Next]_vars PROVE ZoneInv'
  OBVIOUS
<1>1. ASSUME NEW p \in Permit, SetZone(Record("permit", p.from, p.until, p.limit))
      PROVE  ZoneInv'
  <2>1. Record("permit", p.from, p.until, p.limit) \in ZoneRecords
    BY ZoneAssumption DEF Record, ZoneRecords
  <2> QED BY <1>1, <2>1, SetZoneKeeps
<1>2. CASE SetZone(Public) BY <1>2, PublicTyped, SetZoneKeeps
<1>3. CASE CloudLink
  <2>1. online' \in BOOLEAN BY <1>3, Zenon DEF CloudLink
  <2>2. ZoneTypes' BY <1>3, <2>1 DEF CloudLink, cloudVars, vehicleVars,
                      ZoneInv, ZoneTypes
  <2>3. NextRevision' = NextRevision BY <1>3 DEF CloudLink, cloudVars,
                                        NextRevision
  <2>4. NextRevision' >= NextRevision BY <2>3, NextRevisionBound DEF ZoneInv
  <2>5. RevisionOrder' /\ Reaches' BY <1>3, <2>2, <2>4, CloudSide DEF CloudLink
  <2> QED BY <1>3, <2>2, <2>5 DEF CloudLink, cloudVars, ZoneInv, Delivered,
             Registered
<1>4. CASE Restart
  <2>1. ZoneTypes' BY <1>4 DEF Restart, vehicleVars, ZoneInv, ZoneTypes
  <2>2. NextRevision' >= NextRevision
    BY <1>4 DEF Restart, NextRevision, ZoneInv, ZoneTypes
  <2>3. RevisionOrder' /\ Reaches' BY <1>4, <2>1, <2>2, CloudSide DEF Restart
  <2> QED BY <1>4, <2>1, <2>3 DEF Restart, ZoneInv, Delivered, Registered
<1>5. CASE Tick
  <2>1. ZoneTypes' BY <1>5 DEF Tick, cloudVars, vehicleVars, ZoneInv, ZoneTypes
  <2>2. NextRevision' >= NextRevision
    BY <1>5 DEF Tick, cloudVars, NextRevision, ZoneInv, ZoneTypes
  <2>3. RevisionOrder' /\ Reaches' BY <1>5, <2>1, <2>2, CloudSide DEF Tick
  <2> QED BY <1>5, <2>1, <2>3 DEF Tick, cloudVars, ZoneInv, Delivered,
             Registered
<1>6. CASE UNCHANGED vars
  BY <1>6 DEF vars, ZoneInv, ZoneTypes, RevisionOrder, Reaches, Delivered,
     Registered,
              Spent, Precedes, NextRevision
<1> QED
  BY <1>1, <1>2, <1>3, <1>4, <1>5, <1>6, RepeatKeeps, SubscribeKeeps,
     DisconnectKeeps, VehicleRestartKeeps, ReceiveKeeps
     DEF Next

(***************************************************************************)
(* The documents of zone.service.ts stay in the order of their revisions,  *)
(* in every reachable state.                                               *)
(***************************************************************************)
THEOREM ZoneInvariant == Spec => []ZoneInv
  BY ZoneInitially, ZoneStep, PTL DEF Spec

(***************************************************************************)
(* zone.service.ts and the zone-config handler of main.rs, for any         *)
(* permits, clocks, restarts, repeated and lost deliveries: once a         *)
(* connected vehicle has read what it was sent, it holds the document of   *)
(* the last request that was reported as delivered.                        *)
(***************************************************************************)
THEOREM DeliveredIsHeld == Spec => []Agreement
<1>1. ZoneInv => Agreement
  <2> SUFFICES ASSUME ZoneInv, linked, feed = <<>>, last # None, last.delivered
               PROVE  held = last.doc
    BY DEF Agreement
  <2>1. retained = last.doc /\ retained # None
    BY ZoneAssumption DEF ZoneInv, Delivered
  <2> QED BY <2>1 DEF ZoneInv, Reaches
<1> QED BY <1>1, ZoneInvariant, PTL

(***************************************************************************)
(* ... and then Gate 1 and Gate 2 evaluate the same zone at every time,    *)
(* and a vehicle that is open for Mode 2 is inside the window of its       *)
(* permit, although an absent start of the window and a start of zero are  *)
(* the same to the document.                                               *)
(***************************************************************************)
THEOREM BothGatesAgree == Spec => []GatesAgree
<1>1. ZoneInv => GatesAgree
  <2> SUFFICES ASSUME ZoneInv, linked, feed = <<>>, registry # None, last.delivered
               PROVE  /\ GetZone(held.rec, now) = GetZone(registry, now)
                      /\ GetZone(held.rec, now) = "permit" =>
                           /\ now <= held.rec.until
                           /\ registry.from # None => now >= registry.from
    BY DEF GatesAgree
  <2>1. /\ last # None /\ registry \in ZoneRecords
        /\ last.doc.rec = Document(registry, 0).rec
        /\ (registry.zone = "permit" => registry.until # None)
    BY DEF ZoneInv, Registered
  <2>2. held = last.doc
    <3>1. retained = last.doc /\ retained # None
      BY <2>1, ZoneAssumption DEF ZoneInv, Delivered
    <3> QED BY <3>1 DEF ZoneInv, Reaches
  <2>3. held.rec = Record(registry.zone, Truthy(registry.from), registry.until,
                          Truthy(registry.limit))
    BY <2>1, <2>2 DEF Document
  <2>4. /\ held.rec.zone = registry.zone /\ held.rec.from = Truthy(registry.from)
        /\ held.rec.until = registry.until
    BY <2>3 DEF Record
  <2>5. /\ registry.from \in Nat \cup {None} /\ registry.until \in Nat \cup {None}
        /\ registry.zone \in {"public", "permit"} /\ now \in Nat \ {0}
    BY <2>1 DEF ZoneRecords, ZoneInv, ZoneTypes
  <2>6. GetZone(held.rec, now) = GetZone(registry, now)
    BY <2>4, <2>5, ZoneAssumption DEF GetZone, Truthy
  <2>7. GetZone(registry, now) = "permit" =>
          now <= registry.until /\ (registry.from # None => now >= registry.from)
    BY <2>1, <2>5, ZoneAssumption DEF GetZone
  <2> QED BY <2>4, <2>6, <2>7
<1> QED BY <1>1, ZoneInvariant, PTL

-----------------------------------------------------------------------------
(* The evidence of commands *)

\* The command has its PENDING row.
Logged(c) == \E row \in edr : row.c = c /\ row.status = "PENDING"

\* A command is logged before it is sent, sent before it is answered or
\* watched, and an answer in hand is that of a command with a row.
EvidenceInv ==
    /\ pc \in [Command -> {"new", "log", "publish", "failed", "done"}]
    /\ copies \in [Command -> Nat] /\ acks \in [Command -> Nat]
    /\ watcher \in [Command -> {"off", "armed", "log"}]
    /\ sent \subseteq Command /\ DOMAIN handler = Handler
    /\ \A row \in edr : row.joined /\ Logged(row.c)
    /\ \A c \in Command :
         /\ pc[c] \in {"publish", "failed"} => Logged(c)
         /\ c \in sent => Logged(c)
         /\ copies[c] > 0 \/ acks[c] > 0 \/ watcher[c] # "off" => c \in sent
    /\ \A h \in Handler :
         /\ handler[h].at # "idle" => handler[h].c \in sent
         /\ handler[h].at = "create" => handler[h].joined

\* No command has been requested.
LEMMA EvidenceInitially == EvidenceInit => EvidenceInv
  BY DEF EvidenceInit, EvidenceInv, Idle

\* A step that adds rows of logged commands keeps what was logged.
LEMMA LoggedStays ==
    ASSUME edr \subseteq edr'
    PROVE  \A c : Logged(c) => Logged(c)'
  BY DEF Logged

\* Every step keeps EvidenceInv.
LEMMA EvidenceStep == EvidenceInv /\ [EvidenceNext]_evidenceVars => EvidenceInv'
<1> SUFFICES ASSUME EvidenceInv, [EvidenceNext]_evidenceVars PROVE EvidenceInv'
  OBVIOUS
<1> USE DEF EvidenceInv, networkVars, evidenceVars
<1>1. ASSUME NEW c \in Command, Request(c) PROVE EvidenceInv'
  BY <1>1 DEF Request, Logged
<1>2. ASSUME NEW c \in Command, LogPending(c) PROVE EvidenceInv'
  <2>1. CASE Log(c, "PENDING") /\ pc' = [pc EXCEPT ![c] = "publish"]
    <3>1. edr' = edr \cup {[c |-> c, status |-> "PENDING", joined |-> TRUE]}
      BY <2>1 DEF Log
    <3>2. Logged(c)'
      <4> DEFINE new == [c |-> c, status |-> "PENDING", joined |-> TRUE]
      <4>1. new \in edr' /\ new.c = c /\ new.status = "PENDING" BY <3>1
      <4> QED BY <4>1 DEF Logged
    <3>3. \A b : Logged(b) => Logged(b)' BY <3>1, LoggedStays
    <3>4. \A row \in edr' : row.joined /\ Logged(row.c)'
      BY <3>1, <3>2, <3>3
    <3> QED BY <1>2, <2>1, <3>2, <3>3, <3>4 DEF LogPending
  <2>2. CASE UNCHANGED edr /\ pc' = [pc EXCEPT ![c] = "done"]
    BY <1>2, <2>2 DEF LogPending, Logged
  <2> QED BY <1>2, <2>1, <2>2 DEF LogPending
<1>3. ASSUME NEW c \in Command, Publish(c) PROVE EvidenceInv'
  <2>1. CASE connected
    <3>1. Paths(c) \in Nat BY DEF Paths
    <3>2. WatchForAck(c) \in {"off", "armed", "log"}
      BY DEF WatchForAck
    <3>3. Logged(c) BY <1>3 DEF Publish
    <3> QED BY <1>3, <2>1, <3>1, <3>2, <3>3 DEF Publish, Logged
  <2>2. CASE ~connected BY <1>3, <2>2 DEF Publish, Logged
  <2> QED BY <2>1, <2>2
<1>4. ASSUME NEW c \in Command, LogFailed(c) PROVE EvidenceInv'
  <2>1. CASE Log(c, "PUBLISH_FAILED")
    <3>1. edr' = edr \cup {[c |-> c, status |-> "PUBLISH_FAILED", joined |-> TRUE]}
      BY <2>1 DEF Log
    <3>2. \A b : Logged(b) => Logged(b)' BY <3>1, LoggedStays
    <3>3. Logged(c)' BY <1>4, <3>2 DEF LogFailed
    <3>4. \A row \in edr' : row.joined /\ Logged(row.c)'
      BY <3>1, <3>2, <3>3
    <3> QED BY <1>4, <3>2, <3>4 DEF LogFailed
  <2>2. CASE UNCHANGED edr BY <1>4, <2>2 DEF LogFailed, Logged
  <2> QED BY <1>4, <2>1, <2>2 DEF LogFailed
<1>5. CASE Connection BY <1>5 DEF Connection, Logged
<1>6. ASSUME NEW c \in Command, NEW a \in Answers, Answer(c, a)
      PROVE  EvidenceInv'
  BY <1>6 DEF Answer, Logged
<1>7. ASSUME NEW c \in Command, LoseCopy(c) \/ LoseAck(c)
      PROVE  EvidenceInv'
  BY <1>7 DEF LoseCopy, LoseAck, Logged
<1>8. ASSUME NEW h \in Handler, NEW c \in Command, ReceiveAck(h, c)
      PROVE  EvidenceInv'
  BY <1>8 DEF ReceiveAck, Logged
<1>9. ASSUME NEW h \in Handler, FindOriginal(h) PROVE EvidenceInv'
  <2>1. handler[h].c \in sent /\ Logged(handler[h].c)
    BY <1>9 DEF FindOriginal
  <2>2. Rows(handler[h].c) # {} BY <2>1 DEF Logged, Rows
  <2>3. CASE handler' = [handler EXCEPT ![h] = Idle]
    BY <1>9, <2>3 DEF FindOriginal, Idle, Logged
  <2>4. CASE handler' = [handler EXCEPT ![h] =
                           [at |-> "create", c |-> handler[h].c, joined |-> TRUE]]
    BY <1>9, <2>1, <2>4 DEF FindOriginal, Logged
  <2> QED BY <1>9, <2>2, <2>3, <2>4 DEF FindOriginal
<1>10. ASSUME NEW h \in Handler, CreateAck(h) PROVE EvidenceInv'
  <2>1. handler[h].c \in sent /\ Logged(handler[h].c) /\ handler[h].joined
    BY <1>10 DEF CreateAck
  <2>2. edr \subseteq edr' BY <1>10 DEF CreateAck
  <2>3. \A b : Logged(b) => Logged(b)' BY <2>2, LoggedStays
  <2>4. \A row \in edr' : row.joined /\ Logged(row.c)'
    BY <1>10, <2>1, <2>3 DEF CreateAck
  <2> QED BY <1>10, <2>1, <2>3, <2>4 DEF CreateAck, Idle
<1>11. ASSUME NEW c \in Command, WatcherFires(c) PROVE EvidenceInv'
  BY <1>11 DEF WatcherFires, Logged
<1>12. ASSUME NEW c \in Command, LogNoAck(c) PROVE EvidenceInv'
  <2>1. Logged(c) BY <1>12 DEF LogNoAck
  <2>2. edr \subseteq edr' BY <1>12 DEF LogNoAck, Log
  <2>3. \A b : Logged(b) => Logged(b)' BY <2>2, LoggedStays
  <2>4. \A row \in edr' : row.joined /\ Logged(row.c)'
    BY <1>12, <2>1, <2>3 DEF LogNoAck, Log
  <2> QED BY <1>12, <2>3, <2>4 DEF LogNoAck
<1>13. CASE UNCHANGED evidenceVars BY <1>13 DEF Logged
<1> QED
  BY <1>1, <1>2, <1>3, <1>4, <1>5, <1>6, <1>7, <1>8, <1>9, <1>10, <1>11,
     <1>12, <1>13
     DEF EvidenceNext, CloudStep, WatcherStep, HandlerStep

(***************************************************************************)
(* mqtt.service.ts, the ACK handler, and dispatch of                       *)
(* command.controller.ts, for any number of commands and handlers and any  *)
(* failures of queries: every row joins the chain of a PENDING row of its  *)
(* command, and no command was sent without one.                           *)
(***************************************************************************)
THEOREM AnswersJoin == EvidenceSpec => []AckJoinsChain
<1>1. EvidenceInv => AckJoinsChain
  BY DEF EvidenceInv, AckJoinsChain, Logged
<1> QED BY <1>1, EvidenceInitially, EvidenceStep, PTL DEF EvidenceSpec
=============================================================================
