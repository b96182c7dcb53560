---------------------------- MODULE ZoneDelivery ----------------------------
(***************************************************************************)
(* A zone configuration on its way from the admin's request to the         *)
(* vehicle: setZone of command.controller.ts, the registry, revisions and  *)
(* delivery of zone.service.ts, the broker's retained document (or device  *)
(* shadow), and the zone-config handler of the vehicle (main.rs).          *)
(*                                                                         *)
(* Zones are "public", the safe default, and "permit", any zone type that  *)
(* opens Mode 2.  Requests the controller refuses change nothing and are   *)
(* left out, as are the audit rows.  The vehicle's session with the broker *)
(* is a clean one: what was queued for it dies with the connection, and    *)
(* subscribing again brings the retained document.                         *)
(***************************************************************************)
EXTENDS Integers, Sequences

CONSTANTS
    None,
    Permit,      \* permits an admin may enter: window and speed limit
    MaxTime,     \* bound: the clock
    MaxRevision, \* bound: revisions
    MaxRepeats,  \* bound: repeated deliveries
    MaxCrashes   \* bound: restarts of the service and of the vehicle

\* What the registry, a document and a request hold.
ZoneRecords == [zone : {"public", "permit"}, from : Nat \cup {None},
                until : Nat \cup {None}, limit : Nat \cup {None}]
Documents == [rec : ZoneRecords, revision : Nat]
Requests == [rec : ZoneRecords, doc : Documents, delivered : BOOLEAN]

ASSUME ZoneAssumption ==
    /\ None \notin Nat \cup Documents \cup Requests
    /\ Permit \subseteq [from : Nat \cup {None}, until : Nat \cup {None},
                         limit : Nat \cup {None}]
    /\ MaxTime \in Nat /\ MaxRevision \in Nat /\ MaxRepeats \in Nat /\ MaxCrashes \in Nat

VARIABLES
    now,        \* Date.now(), and the vehicle's clock
    registry,   \* vehicleZones: None, or the configured record
    revision,   \* revisions: the last one, 0 when there is none
    online,     \* the service's MQTT client is connected
    retained,   \* the broker's retained document
    linked,     \* the vehicle is connected to the broker
    feed,       \* documents on their way to the vehicle, in order
    held,       \* the vehicle's zone state
    last,       \* history: the last request, its document and delivered flag
    repeats, crashes

cloudVars == <<registry, revision, last>>
vehicleVars == <<linked, feed, held>>
vars == <<now, registry, revision, online, retained, linked, feed, held, last,
          repeats, crashes>>

-----------------------------------------------------------------------------
(* Zone records and documents *)

Record(zone, from, until, limit) ==
    [zone |-> zone, from |-> from, until |-> until, limit |-> limit]
Public == Record("public", None, None, None)

\* Mutant: the start of the window is not looked at.
UntilOnly(r, t) ==
    IF r.until # None /\ t > r.until THEN "public" ELSE r.zone

\* getZone, and current_zone_type on the vehicle.
GetZone(r, t) ==
    IF \/ r.until # None /\ t > r.until
       \/ r.from # None /\ t < r.from
    THEN "public" ELSE r.zone

\* `x ? {..} : {}`: a zero is as good as nothing.
Truthy(x) == IF x = 0 THEN None ELSE x

\* deliverConfig's document.
Document(r, rev) ==
    [rec |-> Record(r.zone, Truthy(r.from), r.until, Truthy(r.limit)),
     revision |-> rev]

Init ==
    /\ now = 1
    /\ registry = None /\ revision = 0 /\ online = TRUE
    /\ retained = None
    /\ linked = FALSE /\ feed = <<>>
    /\ held = [rec |-> Public, revision |-> 0]
    /\ last = None
    /\ repeats = 0 /\ crashes = 0

-----------------------------------------------------------------------------
(* The command service *)

\* The controller's checks of a permissive zone.
Permitted(r) ==
    r.zone = "permit" => /\ r.until # None /\ r.until > now
                         /\ r.from # None => r.from < r.until

\* Mutant: a counter of its own, which a restart sets back.
CountedRevision == revision + 1

NextRevision == IF now > revision + 1 THEN now ELSE revision + 1

\* The retained publish, and what the broker passes on at once.
PublishRetained(doc) ==
    /\ retained' = doc
    /\ feed' = IF linked THEN Append(feed, doc) ELSE feed

SetZone(r) ==
    LET doc == Document(r, NextRevision) IN
    /\ Permitted(r) /\ NextRevision <= MaxRevision
    /\ registry' = r
    /\ revision' = NextRevision
    /\ last' = [rec |-> r, doc |-> doc, delivered |-> online]
    /\ \/ online /\ PublishRetained(doc)
       \/ ~online /\ UNCHANGED <<retained, feed>>
    /\ UNCHANGED <<now, online, linked, held, repeats, crashes>>

CloudLink ==
    /\ online' = ~online
    /\ UNCHANGED <<now, cloudVars, retained, vehicleVars, repeats, crashes>>

\* The registry and the revisions are in memory.  A restart takes longer than
\* revisions ever run ahead of the millisecond clock.
Restart ==
    /\ crashes < MaxCrashes /\ now > revision
    /\ crashes' = crashes + 1
    /\ registry' = None /\ revision' = 0
    /\ UNCHANGED <<now, online, retained, vehicleVars, last, repeats>>

-----------------------------------------------------------------------------
(* The broker and the vehicle *)

\* QoS 1: the last document is sent again.
Repeat ==
    /\ linked /\ retained # None /\ repeats < MaxRepeats
    /\ repeats' = repeats + 1
    /\ feed' = Append(feed, retained)
    /\ UNCHANGED <<now, cloudVars, online, retained, linked, held, crashes>>

Subscribe ==
    /\ ~linked
    /\ linked' = TRUE
    /\ feed' = IF retained = None THEN <<>> ELSE <<retained>>
    /\ UNCHANGED <<now, cloudVars, online, retained, held, repeats, crashes>>

Disconnect ==
    /\ linked
    /\ linked' = FALSE /\ feed' = <<>>
    /\ UNCHANGED <<now, cloudVars, online, retained, held, repeats, crashes>>

\* The zone state is in memory too.
VehicleRestart ==
    /\ crashes < MaxCrashes
    /\ crashes' = crashes + 1
    /\ linked' = FALSE /\ feed' = <<>>
    /\ held' = [rec |-> Public, revision |-> 0]
    /\ UNCHANGED <<now, cloudVars, online, retained, repeats>>

\* The zone-config handler: nothing that is not newer.
Receive ==
    /\ feed # <<>>
    /\ feed' = Tail(feed)
    /\ held' = IF Head(feed).revision > held.revision THEN Head(feed) ELSE held
    /\ UNCHANGED <<now, cloudVars, online, retained, linked, repeats, crashes>>

Tick ==
    /\ now < MaxTime
    /\ now' = now + 1
    /\ UNCHANGED <<cloudVars, online, retained, vehicleVars, repeats, crashes>>

-----------------------------------------------------------------------------
Next ==
    \/ \E p \in Permit : SetZone(Record("permit", p.from, p.until, p.limit))
    \/ SetZone(Public)
    \/ CloudLink \/ Restart
    \/ Repeat \/ Subscribe \/ Disconnect \/ VehicleRestart \/ Receive
    \/ Tick

Spec == Init /\ [][Next]_vars

-----------------------------------------------------------------------------
(* Properties *)

\* Restarts on either side, lost connections and repetitions notwithstanding, a
\* connected vehicle with nothing more to read holds the configuration that
\* setZone last reported as delivered.
Agreement ==
    linked /\ feed = <<>> /\ last # None /\ last.delivered
        => held = last.doc

\* A vehicle open for Mode 2 is inside the window of the permit it holds, and a
\* service that has kept its registry agrees, unless its last word was not
\* delivered or has not been read yet.
GatesAgree ==
    linked /\ feed = <<>> /\ registry # None /\ last.delivered
        => /\ GetZone(held.rec, now) = GetZone(registry, now)
           /\ GetZone(held.rec, now) = "permit" =>
                /\ now <= held.rec.until
                /\ registry.from # None => now >= registry.from

\* command.controller.ts:333-334: "an undelivered change is only cloud-side
\* state and the vehicle stays on its stricter current zone (fail-safe)".
UndeliveredIsStricter ==
    last # None /\ ~last.delivered =>
        (GetZone(held.rec, now) = "permit" => GetZone(last.rec, now) = "permit")

\* zone.service.ts:104-105: "the FULL permit condition set rides in the signed
\* document": the vehicle holds the speed limit the permit names.
LimitArrives ==
    linked /\ feed = <<>> /\ last # None /\ last.delivered
        => held.rec.limit = last.rec.limit
=============================================================================
