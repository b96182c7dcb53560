---------------------------- MODULE ConsoleProofs ----------------------------
(***************************************************************************)
(* Proofs about a tab of the operator console: the live connection         *)
(* (CloudSession), for every set of generations, and the manual-driving    *)
(* loop (TeleopLoop), for every range, ramp and threshold.                 *)
(***************************************************************************)
EXTENDS Console, FiniteSetTheorems, WellFoundedInduction, TLAPS

-----------------------------------------------------------------------------
(* The live connection.  What makes OwnClientOnly and OneThread inductive: *)
(* tasks of superseded generations are there too, and may only end.        *)

\* Only a mounted operator session has a generation that holds.
Providers ==
    /\ mounted => mode = stored /\ mode \in {"demo", "operator"}
    /\ valid = IF mounted /\ mode = "operator" THEN {gen} ELSE {}

\* The session's tasks are one thread, and nobody else has a client.
Threads ==
    \A x \in tasks :
        /\ x.at \in Open => Current(x)
        /\ Current(x) => x.at # "ended" /\ \A y \in tasks : y.gen = x.gen => y = x

\* The badge tells how far the thread is.
Badge ==
    /\ cloudState \in {"connecting", "live", "error"} =>
         \E x \in tasks : Current(x) /\ (cloudState = "live" <=> x.at = "up")
    /\ \A x \in tasks : Current(x) =>
         /\ x.at = "exchange" => cloudState = "signed-out"
         /\ x.at = "denied" => cloudState = "error"

HookInv ==
    /\ gen \in Gen /\ tasks \subseteq [gen : Gen, at : Stage]
    /\ Providers /\ Threads /\ Badge


\* The smallest of some numbers is one of them.
LEMMA Smallest ==
  ASSUME NEW S \in SUBSET Nat, S # {}
  PROVE  Min(S) \in S
<1>1. PICK x \in S : \A y \in S : ~ (<<y, x>> \in OpToRel(<, Nat))
  BY WFMin, NatLessThanWellFounded, Zenon
<1>2. \A y \in S : ~(y < x)
  BY <1>1 DEF OpToRel
<1>3. \A y \in S : x =< y
  BY <1>2, SMT
<1> QED  BY <1>3, Zenon DEF Min

\* A task that moves on keeps its generation.
LEMMA TaskAt ==
  ASSUME NEW x \in [gen : Gen, at : Stage], NEW a \in Stage
  PROVE  /\ [x EXCEPT !.at = a] \in [gen : Gen, at : Stage]
         /\ [x EXCEPT !.at = a].gen = x.gen /\ [x EXCEPT !.at = a].at = a
  OBVIOUS

\* All the tasks of the session are one task.
LEMMA OneTask ==
  ASSUME HookInv, NEW x \in tasks, Current(x)
  PROVE  /\ mounted /\ mode = "operator" /\ x.gen = gen /\ valid = {gen}
         /\ \A y \in tasks : y.gen = gen => y = x
         /\ cloudState \in {"connecting", "live", "error"} =>
               (cloudState = "live" <=> x.at = "up")
<1>1. mounted /\ mode = "operator" /\ x.gen = gen /\ valid = {gen}
  BY DEF HookInv, Providers, Current
<1>2. \A y \in tasks : y.gen = gen => y = x
  BY <1>1 DEF HookInv, Threads
<1>3. ASSUME cloudState \in {"connecting", "live", "error"}
      PROVE  cloudState = "live" <=> x.at = "up"
  <2>1. PICK y \in tasks : Current(y) /\ (cloudState = "live" <=> y.at = "up")
    BY <1>3 DEF HookInv, Badge
  <2>2. y.gen = gen
    BY <1>1, <2>1 DEF Current
  <2> QED  BY <1>2, <2>1, <2>2
<1> QED  BY <1>1, <1>2, <1>3

\* The session's thread goes on to its next await.
LEMMA MovesOn ==
  ASSUME HookInv, NEW x \in tasks, Current(x),
         NEW a \in Stage \ {"ended", "exchange"}, tasks' = Becomes(x, a),
         UNCHANGED <<mode, stored, mounted, gen, valid>>,
         a = "denied" => cloudState' = "error",
         cloudState' \in {"connecting", "live", "error"} =>
            (cloudState' = "live" <=> a = "up")
  PROVE  HookInv'
<1>1. PICK z : z = [x EXCEPT !.at = a]
  OBVIOUS
<1>2. z \in [gen : Gen, at : Stage] /\ z.gen = x.gen /\ z.at = a
  BY <1>1, TaskAt DEF HookInv
<1>3. tasks' = (tasks \ {x}) \cup {z}
  BY <1>1 DEF Becomes, Without
<1>4. /\ mounted /\ mode = "operator" /\ x.gen = gen /\ valid = {gen}
      /\ \A y \in tasks : y.gen = gen => y = x
  BY OneTask
<1>5. gen' \in Gen /\ tasks' \subseteq [gen : Gen, at : Stage] /\ Providers'
  BY <1>2, <1>3 DEF HookInv, Providers
<1>6. \A y \in tasks' : y = z \/ (y \in tasks /\ y.gen # gen)
  BY <1>3, <1>4
<1>7. \A y \in tasks : y.gen # gen => y.at \notin Open
  BY <1>4 DEF HookInv, Threads, Current
<1>8. Threads'
  BY <1>2, <1>4, <1>6, <1>7 DEF Threads, Current
<1>9. Badge'
  BY <1>2, <1>3, <1>4, <1>6 DEF Badge, Current
<1> QED  BY <1>5, <1>8, <1>9 DEF HookInv

\* A superseded task ends, or the session's thread does, signed out.
LEMMA GoesAway ==
  ASSUME HookInv, NEW x \in tasks, tasks' = Without(x),
         UNCHANGED <<mode, stored, mounted, gen, valid>>,
         cloudState' = IF Current(x) THEN "signed-out" ELSE cloudState
  PROVE  HookInv'
<1>1. gen' \in Gen /\ tasks' \subseteq [gen : Gen, at : Stage] /\ Providers'
  BY DEF HookInv, Providers, Without
<1>2. Threads'
  BY DEF HookInv, Threads, Without, Current
<1>3. CASE Current(x)
  <2>1. \A y \in tasks' : ~Current(y)
    BY <1>3, OneTask DEF Without, Current
  <2> QED  BY <1>1, <1>2, <1>3, <2>1 DEF HookInv, Badge, Current
<1>4. CASE ~Current(x)
  BY <1>1, <1>2, <1>4 DEF HookInv, Badge, Current, Without
<1> QED  BY <1>3, <1>4

\* A step that is not about the tasks.
LEMMA HookStays ==
  ASSUME HookInv, UNCHANGED <<mode, stored, mounted, gen, valid, tasks,
  cloudState>>
  PROVE  HookInv'
  BY DEF HookInv, Providers, Threads, Badge, Current

\* The provider's cleanup leaves no client and no generation that holds.
LEMMA UnmountKeeps ==
  ASSUME HookInv, Unmount
  PROVE  HookInv'
<1>1. \A x \in tasks' : x \in [gen : Gen, at : Stage] /\ x.at \notin Open
  <2> SUFFICES ASSUME NEW x \in tasks'
               PROVE  x \in [gen : Gen, at : Stage] /\ x.at \notin Open
    OBVIOUS
  <2>1. PICK y \in tasks :
          x = IF y.gen = gen /\ y.at \in Open THEN [y EXCEPT !.at = "ended"] ELSE y
    BY DEF Unmount, Ended
  <2>2. y \in [gen : Gen, at : Stage] /\ (y.at \in Open => y.gen = gen)
    BY DEF HookInv, Threads, Providers, Current
  <2>3. "ended" \in Stage /\ "ended" \notin Open
    BY DEF Stage, Open
  <2>4. CASE y.at \in Open
    BY <2>1, <2>2, <2>3, <2>4, TaskAt
  <2>5. CASE y.at \notin Open
    BY <2>1, <2>2, <2>5
  <2> QED  BY <2>4, <2>5
<1>2. valid' = {} /\ mounted' = FALSE /\ cloudState' = "off" /\ gen' = gen
  BY DEF Unmount, HookInv, Providers
<1> QED  BY <1>1, <1>2 DEF HookInv, Providers, Threads, Badge, Current

\* A provider mounts beside the tasks T that earlier ones have left behind.
LEMMA MountKeeps ==
  ASSUME HookInv, NEW m, NEW t, NEW c, NEW v,
         NEW T \in SUBSET [gen : Gen, at : Stage], \A x \in T : x.at \notin Open,
         Mount(m, t, c, v, T, {}), mode' = m, stored' = m
  PROVE  HookInv'
<1>1. CASE m = "demo"
  <2>1. Gen \in SUBSET Nat /\ Gen # {}
    BY CloudAssumption DEF HookInv
  <2>2. gen' = Min(Gen) /\ valid' = {} /\ tasks' = T /\ cloudState' = "off" /\ mounted'
    BY <1>1 DEF Mount
  <2>3. gen' \in Gen
    BY <2>1, <2>2, Smallest
  <2> QED  BY <1>1, <2>2, <2>3 DEF HookInv, Providers, Threads, Badge, Current
<1>2. CASE m = "operator"
  <2>1. PICK free : free = Gen \ ({} \cup {x.gen : x \in T})
    OBVIOUS
  <2>2. PICK boot : boot = IF c /\ v THEN {"exchange"} ELSE IF t THEN {"attach"} ELSE {}
    OBVIOUS
  <2>3. PICK g : g = Min(free)
    OBVIOUS
  <2>4. /\ free # {} /\ gen' = g /\ valid' = {} \cup {g} /\ mounted'
        /\ tasks' = T \cup [gen : {g}, at : boot]
        /\ cloudState' = IF boot = {"attach"} THEN "connecting" ELSE "signed-out"
    BY <1>2, <2>1, <2>2, <2>3 DEF Mount
  <2>5. g \in free
    <3>1. free \in SUBSET Nat
      BY <2>1, CloudAssumption
    <3> QED  BY <2>3, <2>4, <3>1, Smallest
  <2>6. g \in Gen /\ \A x \in T : x.gen # g
    BY <2>1, <2>5
  <2>7. /\ boot \subseteq {"exchange", "attach"}
        /\ (boot = {"attach"} \/ "attach" \notin boot)
        /\ (boot = {"exchange"} \/ "exchange" \notin boot)
        /\ "denied" \notin boot
    BY <2>2
  <2>8. \A y \in [gen : {g}, at : boot] :
          y.gen = g /\ y.at \in boot /\ y \in [gen : Gen, at : Stage]
    BY <2>6, <2>7 DEF Stage
  <2>9. \A y, z \in [gen : {g}, at : boot] : y = z
    <3>1. PICK b : boot \subseteq {b}
      BY <2>7
    <3>2. \A y \in [gen : {g}, at : boot] : y = [gen |-> g, at |-> b]
      BY <3>1
    <3> QED  BY <3>2
  <2>10. gen' \in Gen /\ tasks' \subseteq [gen : Gen, at : Stage]
    BY <2>4, <2>6, <2>8
  <2>11. Providers'
    BY <1>2, <2>4 DEF Providers
  <2>12. /\ "exchange" \notin Open /\ "exchange" # "ended"
         /\ "attach" \notin Open /\ "attach" # "ended"
    BY DEF Open
  <2>13. Threads'
    BY <2>4, <2>6, <2>7, <2>8, <2>9, <2>12 DEF Threads, Current
  <2>14. Badge'
    <3>1. CASE boot = {"attach"}
      <4>1. [gen |-> g, at |-> "attach"] \in tasks'
        BY <2>4, <3>1
      <4> QED  BY <2>4, <2>6, <2>8, <3>1, <4>1 DEF Badge, Current
    <3>2. CASE boot # {"attach"}
      BY <2>4, <2>6, <2>7, <2>8, <3>2 DEF Badge, Current
    <3> QED  BY <3>1, <3>2
  <2> QED  BY <2>10, <2>11, <2>13, <2>14 DEF HookInv
<1> QED  BY <1>1, <1>2 DEF Mount

\* Entering and leaving a session, and loading the page.
LEMMA RemountKeeps ==
  ASSUME HookInv, Remount
  PROVE  HookInv'
<1>1. ~mounted => valid = {} /\ tasks \in SUBSET [gen : Gen, at : Stage]
                  /\ \A x \in tasks : x.at \notin Open
  BY DEF HookInv, Providers, Threads, Current
<1>2. CASE SelectDemo
  BY <1>1, <1>2, MountKeeps DEF SelectDemo
<1>3. CASE EnterOperator
  <2>1. CASE Alive(tokens, code)
    BY <1>1, <1>3, <2>1, MountKeeps DEF EnterOperator
  <2>2. CASE ~Alive(tokens, code)
    <3>1. ~mounted /\ UNCHANGED <<mounted, gen, valid, tasks, cloudState>>
      BY <1>3, <2>2 DEF EnterOperator, hookVars
    <3> QED  BY <3>1 DEF HookInv, Providers, Threads, Badge, Current
  <2> QED  BY <2>1, <2>2
<1>4. CASE Leave
  BY <1>4, UnmountKeeps DEF Leave
<1>5. ASSUME NEW c \in BOOLEAN, Load(c)
      PROVE  HookInv'
  <2>1. PICK m : m = ReadStoredMode(tokens, c)
    OBVIOUS
  <2>2. CASE Mounts(m, tokens, c)
    <3>1. m = stored
      BY <2>1, <2>2 DEF Mounts, ReadStoredMode
    <3>2. Mount(m, tokens, c, verifier, {}, {}) /\ mode' = m /\ stored' = m
      BY <1>5, <2>1, <2>2, <3>1 DEF Load
    <3> QED  BY <3>2, MountKeeps
  <2>3. CASE ~Mounts(m, tokens, c)
    <3>1. ~mounted' /\ valid' = {} /\ tasks' = {} /\ cloudState' = "off" /\ gen' = gen
      BY <1>5, <2>1, <2>3 DEF Load
    <3> QED  BY <3>1 DEF HookInv, Providers, Threads, Badge
  <2> QED  BY <2>2, <2>3
<1> QED  BY <1>2, <1>3, <1>4, <1>5 DEF Remount

\* A client is closed: the thread becomes a redial timer.
LEMMA CloseKeeps ==
  ASSUME HookInv, NEW x \in tasks, Close(x)
  PROVE  HookInv'
<1>1. UNCHANGED <<mode, stored, mounted, gen, valid>>
  BY DEF Close, pageVars
<1>2. CASE Current(x)
  <2>1. tasks' = Becomes(x, "redial") /\ cloudState' \in {"error", "connecting"}
    BY <1>2 DEF Close
  <2> QED  BY <1>1, <1>2, <2>1, MovesOn DEF Stage
<1>3. CASE ~Current(x)
  BY <1>1, <1>3, GoesAway DEF Close
<1> QED  BY <1>2, <1>3

\* dial goes on to its first await.
LEMMA DialKeeps ==
  ASSUME HookInv, NEW x \in tasks, Current(x), Dial(x),
         UNCHANGED <<mode, stored, mounted, gen, valid>>
  PROVE  HookInv'
<1>1. PICK a \in {"attach", "identity", "connect"} : tasks' = Becomes(x, a)
  BY DEF Dial
<1>2. cloudState' = "connecting" /\ a \in Stage \ {"ended", "exchange"} /\ a # "up"
  BY DEF Dial, Stage
<1> QED  BY <1>1, <1>2, MovesOn

\* The steps that the network and the timers bring about.
LEMMA ProgressKeeps ==
  ASSUME HookInv, NEW x \in tasks, Progress(x)
  PROVE  HookInv'
<1>1. CASE Exchange(x)
  <2>1. UNCHANGED <<mode, stored, mounted, gen, valid>> /\ x.at = "exchange"
    BY <1>1 DEF Exchange
  <2>2. CASE Current(x) /\ Dial(x)
    BY <2>1, <2>2, DialKeeps
  <2>3. CASE tasks' = Without(x) /\ Show(x, "signed-out")
    BY <2>1, <2>3, GoesAway DEF Show
  <2>4. CASE tasks' = Without(x) /\ cloudState' = cloudState
    <3>1. Current(x) => cloudState = "signed-out"
      BY <2>1 DEF HookInv, Badge
    <3> QED  BY <2>1, <2>4, <3>1, GoesAway
  <2> QED  BY <1>1, <2>2, <2>3, <2>4 DEF Exchange
<1>2. CASE AttachPolicy(x)
  <2>1. UNCHANGED <<mode, stored, mounted, gen, valid, cloudState>> /\ x.at = "attach"
    BY <1>2 DEF AttachPolicy, pageVars
  <2>2. CASE Current(x)
    <3>1. PICK a \in {"connect", "identity"} : tasks' = Becomes(x, a)
      BY <1>2, <2>2 DEF AttachPolicy
    <3>2. a \in Stage \ {"ended", "exchange"} /\ a # "up"
      BY DEF Stage
    <3>3. cloudState \in {"connecting", "live", "error"} => cloudState # "live"
      BY <2>1, <2>2, OneTask
    <3> QED  BY <2>1, <2>2, <3>1, <3>2, <3>3, MovesOn
  <2>3. CASE ~Current(x)
    BY <1>2, <2>1, <2>3, GoesAway DEF AttachPolicy
  <2> QED  BY <2>2, <2>3
<1>3. CASE GetIdentity(x)
  <2>1. UNCHANGED <<mode, stored, mounted, gen, valid>> /\ x.at = "identity"
    BY <1>3 DEF GetIdentity, pageVars
  <2>2. CASE Current(x)
    <3>1. {"connect", "redial"} \subseteq Stage \ {"ended", "exchange"}
      BY DEF Stage
    <3>2. cloudState \in {"connecting", "live", "error"} => cloudState # "live"
      BY <2>1, <2>2, OneTask
    <3>3. \/ tasks' = Becomes(x, "connect") /\ cloudState' = cloudState
          \/ tasks' = Becomes(x, "redial") /\ cloudState' = "error"
      BY <1>3, <2>2 DEF GetIdentity, Retry, Show
    <3>4. CASE tasks' = Becomes(x, "connect") /\ cloudState' = cloudState
      BY <2>1, <2>2, <3>1, <3>2, <3>4, MovesOn
    <3>5. CASE tasks' = Becomes(x, "redial") /\ cloudState' = "error"
      BY <2>1, <2>2, <3>1, <3>5, MovesOn
    <3> QED  BY <3>3, <3>4, <3>5
  <2>3. CASE ~Current(x)
    BY <1>3, <2>1, <2>3, GoesAway DEF GetIdentity, Show
  <2> QED  BY <2>2, <2>3
<1>4. CASE ConnectIot(x)
  <2>1. UNCHANGED <<mode, stored, mounted, gen, valid, cloudState>> /\ x.at = "connect"
    BY <1>4 DEF ConnectIot, pageVars
  <2>2. CASE Current(x)
    <3>1. \A y \in Without(x) : y.gen # x.gen
      BY <2>2, OneTask DEF Without
    <3>2. Ended(x.gen, Without(x)) = Without(x)
      BY <3>1 DEF Ended
    <3>3. tasks' = Becomes(x, "opening")
      BY <1>4, <2>2, <3>2 DEF ConnectIot, MayKeep, Becomes
    <3>4. "opening" \in Stage \ {"ended", "exchange"}
      BY DEF Stage, Open
    <3>5. cloudState \in {"connecting", "live", "error"} => cloudState # "live"
      BY <2>1, <2>2, OneTask
    <3> QED  BY <2>1, <2>2, <3>3, <3>4, <3>5, MovesOn
  <2>3. CASE ~Current(x)
    BY <1>4, <2>1, <2>3, GoesAway DEF ConnectIot, MayKeep
  <2> QED  BY <2>2, <2>3
<1>5. CASE Subscribed(x)
  <2>1. UNCHANGED <<mode, stored, mounted, gen, valid>> /\ x.at = "opening"
    BY <1>5 DEF Subscribed, Connected, pageVars
  <2>2. Current(x)
    BY <2>1 DEF HookInv, Threads, Open
  <2>3. PICK a \in {"up", "denied"} :
          tasks' = Becomes(x, a) /\ cloudState' = IF a = "up" THEN "live" ELSE "error"
    BY <1>5, <2>2 DEF Subscribed, Show
  <2>4. a \in Stage \ {"ended", "exchange"}
    BY DEF Stage, Open
  <2> QED  BY <2>1, <2>2, <2>3, <2>4, MovesOn
<1>6. CASE Redial(x)
  <2>1. UNCHANGED <<mode, stored, mounted, gen, valid>>
    BY <1>6 DEF Redial, pageVars
  <2>2. CASE Current(x)
    BY <1>6, <2>1, <2>2, DialKeeps DEF Redial
  <2>3. CASE ~Current(x)
    BY <1>6, <2>1, <2>3, GoesAway DEF Redial
  <2> QED  BY <2>2, <2>3
<1>7. CASE Close(x)
  BY <1>7, CloseKeeps
<1> QED  BY <1>1, <1>2, <1>3, <1>4, <1>5, <1>6, <1>7 DEF Progress

\* Every step of the gate and the hook keeps HookInv.
LEMMA HookKeeps ==
  ASSUME HookInv, [CloudNext]_cloudVars
  PROVE  HookInv'
<1>1. CASE SelectDemo \/ EnterOperator \/ Leave \/ (\E c \in BOOLEAN : Load(c))
  BY <1>1, RemountKeeps DEF Remount
<1>2. CASE SignIn \/ Depart
  BY <1>2, HookStays DEF SignIn, Depart, hookVars
<1>3. CASE Back
  <2>1. CASE mounted /\ mode' = "gate"
    BY <1>3, <2>1, UnmountKeeps DEF Back
  <2>2. CASE ~(mounted /\ mode' = "gate")
    <3>1. UNCHANGED <<stored, mounted, gen, valid, tasks, cloudState>>
          /\ (mounted => mode' = stored)
      BY <1>3, <2>2 DEF Back, hookVars, ReadStoredMode
    <3>2. mounted => mode' = mode
      BY <3>1 DEF HookInv, Providers
    <3> QED  BY <3>1, <3>2 DEF HookInv, Providers, Threads, Badge, Current
  <2> QED  BY <2>1, <2>2
<1>4. CASE HookStep
  BY <1>4, ProgressKeeps DEF HookStep
<1>5. CASE LinkLost
  BY <1>5, CloseKeeps DEF LinkLost
<1>6. CASE CredentialsExpire
  BY <1>6, HookStays DEF CredentialsExpire, pageVars
<1>7. CASE TokensExpire
  BY <1>7, HookStays DEF TokensExpire, hookVars
<1>8. CASE UNCHANGED cloudVars
  BY <1>8, HookStays DEF cloudVars, pageVars, hookVars
<1> QED  BY <1>1, <1>2, <1>3, <1>4, <1>5, <1>6, <1>7, <1>8
         DEF CloudNext, Visitor, Page

\* A step of the tab is one of the gate and the hook, or leaves both alone.
LEMMA TabStep ==
  ASSUME [ConsoleNext]_consoleVars
  PROVE  [CloudNext]_cloudVars
  BY DEF ConsoleNext, Remount, Kept, HeartbeatTimer, Service, Hearing,
     InOperator,
         consoleVars, CloudNext, Visitor, Page

\* The hook's invariant, in every reachable state.
LEMMA HookInvariant == ConsoleSpec => []HookInv
<1>1. ConsoleInit => HookInv
  BY DEF ConsoleInit, CloudInit, HookInv, Providers, Threads, Badge
<1>2. HookInv /\ [ConsoleNext]_consoleVars => HookInv'
  BY HookKeeps, TabStep
<1> QED  BY <1>1, <1>2, PTL DEF ConsoleSpec

(***************************************************************************)
(* useCloudTelemetry.ts and mode.ts, for any number of generations:        *)
(* however the visitor comes and goes, and whatever is still under way     *)
(* from earlier sessions, a tab has at most one open client, that of its   *)
(* mounted operator session.                                               *)
(***************************************************************************)
THEOREM ClientIsOwn == ConsoleSpec => []OwnClientOnly
<1>1. HookInv => OwnClientOnly
  <2> SUFFICES ASSUME HookInv PROVE OwnClientOnly
    OBVIOUS
  <2>1. PICK open : open = {x \in tasks : x.at \in Open}
    OBVIOUS
  <2>2. \A x \in open : /\ x \in tasks /\ Current(x) /\ x.gen = gen
                        /\ mounted /\ mode = "operator"
    BY <2>1, OneTask DEF HookInv, Threads
  <2>3. Cardinality(open) <= 1
    <3>1. CASE open = {}
      BY <3>1, FS_EmptySet
    <3>2. CASE open # {}
      <4>1. PICK x : open = {x}
        BY <3>2, <2>2, OneTask
      <4> QED  BY <4>1, FS_Singleton
    <3> QED  BY <3>1, <3>2
  <2> QED  BY <2>1, <2>2, <2>3 DEF OwnClientOnly
<1> QED  BY <1>1, HookInvariant, PTL

(***************************************************************************)
(* useCloudTelemetry.ts, dial and its callbacks, for the same: a session   *)
(* that has started to dial is exactly one dial, client or timer, its      *)
(* badge says LIVE exactly over a subscribed client, and it carries on     *)
(* unless its subscription was refused, which shows an error.              *)
(***************************************************************************)
THEOREM SessionHasOneThread == ConsoleSpec => []OneThread
<1>1. HookInv => OneThread
  <2> SUFFICES ASSUME HookInv, mounted, cloudState \in {"connecting", "live", "error"}
               PROVE  \E x \in tasks :
                        /\ x.gen = gen /\ \A y \in tasks : y.gen = gen => y = x
                        /\ cloudState = "live" <=> x.at = "up"
                        /\ \/ x.at \in Carrying
                           \/ x.at = "denied" /\ cloudState = "error"
    BY DEF OneThread
  <2>1. PICK x \in tasks : Current(x) /\ (cloudState = "live" <=> x.at = "up")
    BY DEF HookInv, Badge
  <2>2. x.at \notin {"ended", "exchange"} /\ (x.at = "denied" => cloudState = "error")
    BY <2>1 DEF HookInv, Threads, Badge
  <2>3. x.at \in Carrying \cup {"denied"}
    BY <2>2 DEF HookInv, Stage, Open, Carrying
  <2> QED  BY <2>1, <2>2, <2>3, OneTask
<1> QED  BY <1>1, HookInvariant, PTL

-----------------------------------------------------------------------------
(* The demo vehicle and the control loop *)

\* A latched vehicle stands, which makes NoFrameLeftBehind inductive.
DemoInv == (latched => ~driving) /\ NoFrameLeftBehind

\* A frame moves the vehicle only if it asks for throttle, without the brake.
LEMMA FrameMoves ==
  ASSUME NEW t, NEW b, DriveFrame(t, b), latched => ~driving, driving'
  PROVE  (control /\ ~latched /\ t > 0 /\ b = 0) \/ (~control /\ driving)
<1>1. CASE control /\ ~latched
  <2>1. driving' = (t > 0 /\ b = 0)
    BY <1>1 DEF DriveFrame
  <2> QED  BY <1>1, <2>1, Zenon
<1>2. CASE ~(control /\ ~latched)
  BY <1>2 DEF DriveFrame
<1> QED  BY <1>1, <1>2

\* A frame without throttle stops the vehicle, unless nobody has control.
LEMMA ZeroFrame ==
  ASSUME DriveFrame(0, 0), latched => ~driving, driving'
  PROVE  ~control /\ driving
<1>1. ~(0 > 0)
  OBVIOUS
<1> QED  BY <1>1, FrameMoves

\* Every step keeps DemoInv.
LEMMA DemoKeeps ==
  ASSUME DemoInv, [ConsoleNext]_consoleVars
  PROVE  DemoInv'
<1>1. CASE Fresh
  BY <1>1 DEF Fresh, DemoInv, NoFrameLeftBehind
<1>2. CASE UNCHANGED sessionVars
  BY <1>2 DEF sessionVars, demoVars, teleopVars, DemoInv, NoFrameLeftBehind,
     Armed
<1>3. CASE TeleopStep
  <2> USE DEF DemoInv, NoFrameLeftBehind, Armed, OtherDemoVars
  <2>1. CASE OpenPanel \/ Disable \/ SelectDevice
    <3>1. Release /\ UNCHANGED <<latched, control>>
      BY <2>1 DEF OpenPanel, Disable, SelectDevice
    <3>2. driving' => ~control /\ driving
      BY <3>1, ZeroFrame DEF Release
    <3>3. driving' => button'
      BY <3>1, <3>2, Zenon DEF Release
    <3> QED  BY <3>1, <3>2, <3>3
  <2>2. CASE LeavePanel
    BY <2>2 DEF LeavePanel, Release, DriveFrame
  <2>3. CASE Enable
    BY <2>3 DEF Enable, demoVars
  <2>4. CASE PedalButton
    <3>1. PICK t, b : DriveFrame(t, b) /\ button' = (button \/ ~latched)
            /\ UNCHANGED <<panel, last, latched, control>>
      BY <2>4, Zenon DEF PedalButton
    <3>2. driving' => ~latched \/ driving
      BY <3>1, FrameMoves
    <3>3. CASE latched
      BY <3>1, <3>2, <3>3
    <3>4. CASE ~latched
      BY <3>1, <3>4
    <3> QED  BY <3>3, <3>4
  <2>5. CASE \E p \in Pedal, level \in 0..FULL : Hold(p, level)
    BY <2>5 DEF Hold, demoVars
  <2>6. CASE \E pedals \in Eased : Poll(pedals)
    BY <2>6 DEF Poll, demoVars
  <2>7. CASE LoopSends
    <3>1. PICK pedals \in Eased : Send(pedals)
      BY <2>7 DEF LoopSends
    <3>2. Armed /\ UNCHANGED <<panel, latched, control>>
      BY <3>1 DEF Send
    <3>3. CASE Moved(pedals)
      <4>1. last' = pedals /\ DriveFrame(pedals["throttle"], pedals["brake"])
        BY <3>1, <3>3 DEF Send
      <4>2. driving' => ~latched /\ pedals["throttle"] > 0 /\ pedals["brake"] = 0
        BY <3>2, <4>1, FrameMoves
      <4> QED  BY <3>2, <4>1, <4>2
    <3>4. CASE ~Moved(pedals)
      BY <3>1, <3>2, <3>4 DEF Send
    <3> QED  BY <3>3, <3>4
  <2> QED  BY <1>3, <2>1, <2>2, <2>3, <2>4, <2>5, <2>6, <2>7 DEF TeleopStep
<1>4. CASE DemoStep /\ UNCHANGED teleopVars
  <2> USE DEF DemoInv, NoFrameLeftBehind, Armed, teleopVars
  <2>1. CASE DemoTime
    BY <1>4, <2>1 DEF DemoTime, DemoTick, TimeOut, Propose
  <2>2. CASE TakeControl \/ ClearSafeStop
    BY <1>4, <2>2 DEF TakeControl, ClearSafeStop
  <2>3. CASE StopVehicle
    BY <1>4, <2>3 DEF StopVehicle
  <2>4. CASE Neutral
    <3>1. driving' => ~control /\ driving
      BY <2>4, ZeroFrame DEF Neutral
    <3> QED  BY <1>4, <2>4, <3>1 DEF Neutral
  <2>5. CASE \E d \in Decision : DecideProposal(d)
    <3>1. (driving' => driving) /\ UNCHANGED <<latched, control>>
      BY <2>5, Zenon DEF DecideProposal
    <3> QED  BY <1>4, <3>1
  <2> QED  BY <1>4, <2>1, <2>2, <2>3, <2>4, <2>5 DEF DemoStep
<1> QED  BY <1>1, <1>2, <1>3, <1>4 DEF ConsoleNext, SessionStep,
            HeartbeatTimer,
            Service, Hearing, InOperator, consoleVars

(***************************************************************************)
(* useTeleopInput.ts, for every ramp, range and send threshold: the        *)
(* vehicle moves by a frame of the loop only while the panel is armed and  *)
(* that frame asked for throttle, without the brake.                       *)
(***************************************************************************)
THEOREM NoFrameStays == ConsoleSpec => []NoFrameLeftBehind
<1>1. ConsoleInit => DemoInv
  BY DEF ConsoleInit, DemoInit, DemoInv, NoFrameLeftBehind
<1>2. DemoInv /\ [ConsoleNext]_consoleVars => DemoInv'
  BY DemoKeeps
<1>3. DemoInv => NoFrameLeftBehind
  BY DEF DemoInv
<1> QED  BY <1>1, <1>2, <1>3, PTL DEF ConsoleSpec
=============================================================================
