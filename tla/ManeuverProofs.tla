--------------------------- MODULE ManeuverProofs ---------------------------
(***************************************************************************)
(* Proofs about Maneuver, for any number of proposals, requests,           *)
(* reconnects and latches and any Window, Gap and Grace.  ManeuverInv is   *)
(* inductive.                                                              *)
(***************************************************************************)
EXTENDS Maneuver, TLAPS

USE ManeuverAssumption

Edge == [how : {"DECIDED", "TIMED_OUT"}, left : 0..Window]
Msg == [kind : {"PROPOSAL", "PENDING", "DECIDED", "TIMED_OUT"}, p : Proposal]

LEMMA Countdown ==
    ASSUME NEW b \in Nat, NEW n \in 0..b
    PROVE  Down(n) \in 0..b
BY DEF Down

LEMMA CountdownOrder ==
    ASSUME NEW m \in Nat, NEW n \in Nat, m <= n
    PROVE  Down(m) <= Down(n)
BY DEF Down

-----------------------------------------------------------------------------
(* Types                                                                   *)

\* Settling keeps the types of what it writes.
LEMMA SettleType ==
    ASSUME TypeOK, prop # None, NEW how \in {"DECIDED", "TIMED_OUT"},
           Settle(prop.id, how)
    PROVE  /\ prop' = None
           /\ outcome' \in [Proposal -> Seq(Edge)]
           /\ log' \in Seq(Msg) /\ pos \in 0..Len(log')
<1>1. prop.id \in Proposal /\ prop.left \in 0..Window BY DEF TypeOK
<1>2. [how |-> how, left |-> prop.left] \in Edge BY <1>1 DEF Edge
<1>3. [kind |-> how, p |-> prop.id] \in Msg BY <1>1 DEF Msg
<1>4. outcome \in [Proposal -> Seq(Edge)] BY DEF TypeOK, Edge
<1>5. log \in Seq(Msg) /\ pos \in 0..Len(log) BY DEF TypeOK, Msg
<1>6. outcome' \in [Proposal -> Seq(Edge)] BY <1>1, <1>2, <1>4 DEF Settle
<1>7. log' \in Seq(Msg) /\ Len(log') = Len(log) + 1
  BY <1>3, <1>5 DEF Settle
<1> QED BY <1>5, <1>6, <1>7 DEF Settle

LEMMA TypeStep ==
    ASSUME ManeuverInv, Next
    PROVE  TypeOK'
<1>0. TypeOK BY DEF ManeuverInv
<1> USE DEF edgeVars, logVars, cloudVars, decisionVars
<1>l. latched' \in BOOLEAN
  <2>1. latched' = latched \/ latched' = TRUE \/ latched' = FALSE
    BY Zenon DEF Next, Tick, Latch, Unlatch, TimeOut, Propose, ReceiveDecision,
           LoseDecision, HandleIncoming, Reconnect, CardTimesOut, Decide,
           DecideFails, PublishDecision
  <2> QED BY <1>0, <2>1, Zenon DEF TypeOK
<1>1. CASE Tick
  <2>1. prop' \in [id : Proposal, left : 0..Window] \cup {None}
    BY <1>0, <1>1, Countdown DEF Tick, TypeOK
  <2>2. gap' \in 0..Gap BY <1>0, <1>1, Countdown DEF Tick, TypeOK
  <2>3. card' \in [Proposal -> (0..CloudTimer) \cup {None}]
    BY SMTT(30), <1>0, <1>1, Countdown DEF Tick, TypeOK, CloudTimer
  <2>4. stray' \in [Proposal -> SUBSET (0..CloudTimer)]
    BY <1>0, <1>1, Countdown DEF Tick, TypeOK, CloudTimer
  <2> QED BY <1>0, <1>1, <1>l, <2>1, <2>2, <2>3, <2>4 DEF Tick, TypeOK
<1>2. CASE Latch
  <2>1. latches' \in 0..MaxLatches BY <1>0, <1>2 DEF Latch, TypeOK
  <2> QED BY <1>0, <1>2, <1>l, <2>1 DEF Latch, TypeOK
<1>3. CASE Unlatch
  BY <1>0, <1>3, <1>l DEF Unlatch, TypeOK
<1>4. CASE TimeOut
  <2>1. /\ prop' = None /\ outcome' \in [Proposal -> Seq(Edge)]
        /\ log' \in Seq(Msg) /\ pos \in 0..Len(log')
    BY <1>0, <1>4, SettleType DEF TimeOut
  <2> QED BY <1>0, <1>4, <1>l, <2>1 DEF TimeOut, TypeOK, Edge, Msg
<1>5. CASE Propose
  <2>1. made + 1 \in Proposal /\ made' \in 0..MaxProposals
    BY <1>0, <1>5 DEF Propose, TypeOK, Proposal
  <2>2. /\ [kind |-> "PROPOSAL", p |-> made + 1] \in Msg
        /\ [kind |-> "PENDING", p |-> made + 1] \in Msg
    BY <2>1 DEF Msg
  <2>3. log \in Seq(Msg) BY <1>0 DEF TypeOK, Msg
  <2>4. log' \in Seq(Msg) /\ Len(log') = Len(log) + 2
    BY <1>5, <2>2, <2>3 DEF Propose
  <2>5. prop' \in [id : Proposal, left : 0..Window]
    BY <1>5, <2>1 DEF Propose
  <2>6. pos' \in 0..Len(log') BY <1>0, <1>5, <2>3, <2>4 DEF Propose, TypeOK
  <2>7. gap' \in 0..Gap BY <1>5 DEF Propose
  <2> QED BY <1>0, <1>5, <1>l, <2>1, <2>4, <2>5, <2>6, <2>7
          DEF Propose, TypeOK, Msg
<1>6. ASSUME NEW d \in net, ReceiveDecision(d) PROVE TypeOK'
  <2>1. d.p \in Proposal BY <1>0 DEF TypeOK
  <2>2. CASE ~latched /\ Matched(d.p) /\ Settle(d.p, "DECIDED") /\ UNCHANGED refused
    <3>1. /\ prop' = None /\ outcome' \in [Proposal -> Seq(Edge)]
          /\ log' \in Seq(Msg) /\ pos \in 0..Len(log')
      BY <1>0, <2>2, SettleType DEF Matched
    <3> QED BY <1>0, <1>6, <1>l, <2>2, <3>1
            DEF ReceiveDecision, TypeOK, Edge, Msg
  <2>3. CASE refused' = refused \cup {d.p} /\ UNCHANGED <<prop, outcome, log>>
    BY <1>0, <1>6, <1>l, <2>1, <2>3 DEF ReceiveDecision, TypeOK
  <2> QED BY <1>6, <2>2, <2>3 DEF ReceiveDecision
<1>7. ASSUME NEW d \in net, LoseDecision(d) PROVE TypeOK'
  BY <1>0, <1>7, <1>l DEF LoseDecision, TypeOK
<1>8. CASE HandleIncoming
  <2>0. log \in Seq(Msg) /\ pos + 1 \in 1..Len(log)
    BY <1>0, <1>8 DEF HandleIncoming, TypeOK, Msg
  <2>1. log[pos + 1].p \in Proposal
    <3>1. log[pos + 1] \in Msg BY <2>0
    <3> QED BY <3>1 DEF Msg
  <2>2. CloudTimer \in 0..CloudTimer BY DEF CloudTimer
  <2>3. card' \in [Proposal -> (0..CloudTimer) \cup {None}]
    BY <1>0, <1>8, <2>2 DEF HandleIncoming, TypeOK
  <2>4. stray' \in [Proposal -> SUBSET (0..CloudTimer)]
    <3>1. stray \in [Proposal -> SUBSET (0..CloudTimer)] BY <1>0 DEF TypeOK
    <3>2. card[log[pos + 1].p] \in (0..CloudTimer) \cup {None}
      BY <1>0, <2>1 DEF TypeOK
    <3>3. \/ stray' = stray
          \/ /\ card[log[pos + 1].p] # None
             /\ stray' = [stray EXCEPT ![log[pos + 1].p] =
                           stray[log[pos + 1].p] \cup {card[log[pos + 1].p]}]
      BY <1>8, <2>1, <3>1 DEF HandleIncoming
    <3> QED BY <2>1, <3>1, <3>2, <3>3
  <2>5. pos' \in 0..Len(log) BY <1>0, <1>8 DEF HandleIncoming, TypeOK
  <2> QED BY <1>0, <1>8, <1>l, <2>3, <2>4, <2>5 DEF HandleIncoming, TypeOK
<1>9. CASE Reconnect
  <2>1. log \in Seq(Msg) BY <1>0 DEF TypeOK, Msg
  <2>2. pos' \in 0..Len(log) /\ reconnects' \in 0..MaxReconnects
    BY <1>0, <1>9, <2>1 DEF Reconnect, TypeOK
  <2> QED BY <1>0, <1>9, <1>l, <2>2 DEF Reconnect, TypeOK
<1>10. ASSUME NEW p \in Proposal, CardTimesOut(p) PROVE TypeOK'
  <2>1. stray' \in [Proposal -> SUBSET (0..CloudTimer)]
    <3>1. stray \in [Proposal -> SUBSET (0..CloudTimer)] BY <1>0 DEF TypeOK
    <3>2. stray' = stray \/ stray' = [stray EXCEPT ![p] = stray[p] \ {0}]
      BY <1>10 DEF CardTimesOut
    <3> QED BY <3>1, <3>2
  <2> QED BY <1>0, <1>10, <1>l, <2>1 DEF CardTimesOut, TypeOK
<1>11. ASSUME NEW q \in Request, NEW p \in Proposal, Decide(q, p) PROVE TypeOK'
  BY <1>0, <1>11, <1>l DEF Decide, TypeOK
<1>12. ASSUME NEW q \in Request, DecideFails(q) PROVE TypeOK'
  BY <1>0, <1>12, <1>l DEF DecideFails, TypeOK
<1>13. ASSUME NEW q \in Request, PublishDecision(q) PROVE TypeOK'
  <2>1. req[q].p \in Proposal
    BY <1>13 DEF PublishDecision, ManeuverInv, Requests
  <2>2. [q |-> q, p |-> req[q].p] \in [q : Request, p : Proposal] BY <2>1
  <2>3. net' \subseteq [q : Request, p : Proposal]
    BY <1>0, <1>13, <2>2 DEF PublishDecision, TypeOK
  <2>4. req' \in [Request -> [pc : {"new", "publish", "sent", "done"},
                              p : Proposal \cup {None}]]
    BY <1>0, <1>13, <2>1 DEF PublishDecision, TypeOK
  <2> QED BY <1>0, <1>13, <1>l, <2>3, <2>4 DEF PublishDecision, TypeOK
<1> QED
  BY <1>1, <1>2, <1>3, <1>4, <1>5, <1>6, <1>7, <1>8, <1>9, <1>10, <1>11,
     <1>12, <1>13 DEF Next

-----------------------------------------------------------------------------
(* The vehicle: one outcome per proposal, and an honest log.               *)

\* A proposal is settled once, inside its window or after it.
LEMMA SettleEdge ==
    ASSUME ManeuverInv, TypeOK', prop # None,
           NEW how \in {"DECIDED", "TIMED_OUT"},
           (how = "DECIDED") <=> (prop.left > 0),
           Settle(prop.id, how), UNCHANGED <<made, pos, reconnects>>
    PROVE  Fresh' /\ LogHonest' /\ OneOutcome'
<1> DEFINE p == prop.id
<1>1. /\ p \in Proposal /\ p <= made /\ outcome[p] = <<>>
      /\ made \in Nat /\ prop.left \in 0..Window
  BY DEF ManeuverInv, TypeOK, Fresh, Proposal
<1>2. outcome' = [outcome EXCEPT ![p] = <<[how |-> how, left |-> prop.left]>>]
  BY <1>1 DEF Settle, ManeuverInv, TypeOK
<1>3. /\ outcome'[p] = <<[how |-> how, left |-> prop.left]>>
      /\ \A r \in Proposal : r # p => outcome'[r] = outcome[r]
  BY <1>1, <1>2 DEF ManeuverInv, TypeOK
<1>a. /\ Len(outcome'[p]) = 1 /\ outcome'[p] # <<>>
      /\ DOMAIN outcome'[p] = {1}
      /\ outcome'[p][1].how = how /\ outcome'[p][1].left = prop.left
  BY <1>3
<1>4. Fresh' BY <1>1, <1>3 DEF Settle, ManeuverInv, Fresh, Proposal
<1>5. OneOutcome'
  <2> SUFFICES ASSUME NEW r \in Proposal
               PROVE  /\ Len(outcome'[r]) <= 1
                      /\ \A k \in DOMAIN outcome'[r] :
                           (outcome'[r][k].how = "DECIDED")
                              <=> (outcome'[r][k].left > 0)
    BY DEF OneOutcome
  <2>1. CASE r = p
    <3>1. (outcome'[p][1].how = "DECIDED") <=> (outcome'[p][1].left > 0)
      BY <1>a
    <3>2. \A k \in DOMAIN outcome'[p] :
             (outcome'[p][k].how = "DECIDED") <=> (outcome'[p][k].left > 0)
      BY <1>a, <3>1
    <3>3. Len(outcome'[p]) <= 1 BY <1>a
    <3> QED BY <2>1, <3>2, <3>3, Zenon
  <2>2. CASE r # p BY <1>3, <2>2 DEF ManeuverInv, OneOutcome
  <2> QED BY <2>1, <2>2
<1>6. LogHonest'
  <2> SUFFICES ASSUME NEW k \in DOMAIN log'
               PROVE  /\ log'[k].p <= made
                      /\ Closes(log'[k].kind) => outcome'[log'[k].p] # <<>>
    BY DEF LogHonest, Closes
  <2>1. log \in Seq(Msg) /\ log' = Append(log, [kind |-> how, p |-> p])
    BY DEF Settle, ManeuverInv, TypeOK, Msg
  <2>2. CASE k = Len(log) + 1
    <3>1. log'[k] = [kind |-> how, p |-> p] BY <2>1, <2>2
    <3> QED BY <1>1, <1>a, <3>1
  <2>3. CASE k # Len(log) + 1
    <3>1. k \in DOMAIN log /\ log'[k] = log[k] /\ log[k] \in Msg
      BY <2>1, <2>3
    <3>2. log[k].p \in Proposal BY <3>1 DEF Msg
    <3>3. /\ log[k].p <= made
          /\ Closes(log[k].kind) => outcome[log[k].p] # <<>>
      BY <3>1 DEF ManeuverInv, LogHonest
    <3>4. Closes(log[k].kind) => outcome'[log[k].p] # <<>>
      BY <1>3, <1>a, <3>2, <3>3
    <3> QED BY <3>1, <3>3, <3>4
  <2> QED BY <2>2, <2>3
<1> QED BY <1>4, <1>5, <1>6

LEMMA EdgeStep ==
    ASSUME ManeuverInv, TypeOK', Next
    PROVE  Fresh' /\ LogHonest' /\ OneOutcome'
<1> USE DEF edgeVars, logVars, cloudVars, decisionVars
<1>1. CASE Tick
  <2>1. prop' # None => prop # None /\ prop'.id = prop.id
    BY <1>1 DEF Tick
  <2> QED BY <1>1, <2>1 DEF Tick, ManeuverInv, Fresh, LogHonest, OneOutcome
<1>2. CASE TimeOut
  <2>1. ~(prop.left > 0) BY <1>2 DEF TimeOut
  <2> QED BY <1>2, <2>1, SettleEdge DEF TimeOut
<1>3. CASE Propose
  <2>1. /\ made \in Nat /\ made + 1 \in Proposal /\ log \in Seq(Msg)
        /\ outcome' = outcome /\ made' = made + 1 /\ prop'.id = made + 1
    BY <1>3 DEF Propose, ManeuverInv, TypeOK, Proposal, Msg
  <2>2. Fresh' BY <2>1 DEF ManeuverInv, Fresh, Proposal
  <2>3. OneOutcome' BY <2>1 DEF ManeuverInv, OneOutcome
  <2>4. LogHonest'
    <3> SUFFICES ASSUME NEW k \in DOMAIN log'
                 PROVE  /\ log'[k].p <= made + 1
                        /\ Closes(log'[k].kind) => outcome[log'[k].p] # <<>>
      BY <2>1 DEF LogHonest, Closes
    <3>1. CASE k \in DOMAIN log
      <4>1. log'[k] = log[k] BY <1>3, <2>1, <3>1 DEF Propose
      <4>2. log[k] \in Msg BY <2>1, <3>1
      <4> QED BY <2>1, <3>1, <4>1, <4>2
              DEF ManeuverInv, LogHonest, Msg, Proposal
    <3>2. CASE k \notin DOMAIN log
      <4>1. \/ log'[k] = [kind |-> "PROPOSAL", p |-> made + 1]
            \/ log'[k] = [kind |-> "PENDING", p |-> made + 1]
        BY <1>3, <2>1, <3>2 DEF Propose
      <4> QED BY <2>1, <4>1 DEF Closes
    <3> QED BY <3>1, <3>2
  <2> QED BY <2>2, <2>3, <2>4
<1>4. ASSUME NEW d \in net, ReceiveDecision(d)
      PROVE  Fresh' /\ LogHonest' /\ OneOutcome'
  <2>1. CASE Matched(d.p) /\ Settle(d.p, "DECIDED")
    BY <1>4, <2>1, SettleEdge DEF ReceiveDecision, Matched
  <2>2. CASE UNCHANGED <<prop, outcome, log>>
    BY <1>4, <2>2 DEF ReceiveDecision, ManeuverInv, Fresh, LogHonest, OneOutcome
  <2> QED BY <1>4, <2>1, <2>2 DEF ReceiveDecision
<1>5. ASSUME UNCHANGED <<prop, made, outcome, log>>
      PROVE  Fresh' /\ LogHonest' /\ OneOutcome'
  BY <1>5 DEF ManeuverInv, Fresh, LogHonest, OneOutcome
<1> QED
  BY <1>1, <1>2, <1>3, <1>4, <1>5
     DEF Next, Latch, Unlatch, LoseDecision, HandleIncoming, Reconnect,
         CardTimesOut, Decide, DecideFails, PublishDecision

-----------------------------------------------------------------------------
(* The cloud: its timers outlast the window.                               *)

\* Settling a proposal leaves nothing to outlast.
LEMMA TimersStep ==
    ASSUME ManeuverInv, TypeOK', Next
    PROVE  TimersOutlast' /\ Requests'
<1> USE DEF edgeVars, logVars, cloudVars, decisionVars
<1>r. Requests'
  BY SMTT(30) DEF Next, Tick, Latch, Unlatch, TimeOut, Propose, ReceiveDecision,
         LoseDecision, HandleIncoming, Reconnect, CardTimesOut, Decide,
         DecideFails, PublishDecision, ManeuverInv, TypeOK, Requests
<1>1. CASE Tick
  <2>1. \A p \in Proposal : card[p] = None => card'[p] = None
    BY <1>1 DEF Tick
  <2>2. \A p \in Proposal : stray[p] = {} => stray'[p] = {}
    BY <1>1 DEF Tick
  <2>3. ASSUME prop' # None
        PROVE  /\ card'[prop'.id] # None => card'[prop'.id] >= prop'.left
               /\ \A n \in stray'[prop'.id] : n >= prop'.left
    <3>1. /\ prop # None /\ prop'.id = prop.id /\ prop'.left = Down(prop.left)
      BY <1>1, <2>3 DEF Tick
    <3>2. prop.id \in Proposal /\ prop.left \in Nat
      BY <3>1 DEF ManeuverInv, TypeOK
    <3>3. ASSUME card'[prop.id] # None
          PROVE  card'[prop.id] >= Down(prop.left)
      <4>1. card[prop.id] # None /\ card'[prop.id] = Down(card[prop.id])
        BY <1>1, <3>2, <3>3 DEF Tick
      <4>2. card[prop.id] \in Nat /\ prop.left <= card[prop.id]
        BY <3>1, <3>2, <4>1 DEF ManeuverInv, TypeOK, TimersOutlast, CloudTimer
      <4>3. Down(prop.left) <= Down(card[prop.id])
        BY <3>2, <4>2, CountdownOrder
      <4> QED BY <3>2, <4>1, <4>2, <4>3 DEF Down
    <3>4. ASSUME NEW n \in stray'[prop.id] PROVE n >= Down(prop.left)
      <4>1. PICK m \in stray[prop.id] : n = Down(m)
        BY <1>1, <3>2, <3>4 DEF Tick
      <4>2. m \in Nat /\ prop.left <= m
        BY SMTT(30), <3>1, <3>2, <4>1 DEF ManeuverInv, TypeOK, TimersOutlast, CloudTimer
      <4>3. Down(prop.left) <= Down(m) BY <3>2, <4>2, CountdownOrder
      <4> QED BY <3>2, <4>1, <4>2, <4>3 DEF Down
    <3> QED BY <3>1, <3>3, <3>4
  <2> QED BY <1>1, <1>r, <2>1, <2>2, <2>3 DEF Tick, ManeuverInv, TimersOutlast
<1>2. CASE Propose
  <2>1. /\ made \in Nat /\ made + 1 \in Proposal /\ made' = made + 1
        /\ prop'.id = made + 1 /\ UNCHANGED <<card, stray>>
    BY <1>2 DEF Propose, ManeuverInv, TypeOK, Proposal
  <2> QED BY <1>r, <2>1 DEF ManeuverInv, TimersOutlast, Proposal
<1>3. CASE HandleIncoming
  <2> DEFINE msg == log[pos + 1]
  <2>1. log \in Seq(Msg) /\ pos + 1 \in DOMAIN log
    BY <1>3 DEF HandleIncoming, ManeuverInv, TypeOK, Msg
  <2>2. msg \in Msg /\ msg.p <= made
    BY <2>1 DEF ManeuverInv, LogHonest
  <2>3. msg.p \in Proposal /\ made \in Nat
    BY <2>2 DEF Msg, ManeuverInv, TypeOK
  <2>4. UNCHANGED <<prop, made>> BY <1>3 DEF HandleIncoming
  <2>5. CASE /\ card' = [card EXCEPT ![msg.p] = CloudTimer]
             /\ stray' = [stray EXCEPT ![msg.p] =
                            IF card[msg.p] = None THEN @
                            ELSE @ \cup {card[msg.p]}]
    <3>1. prop # None => prop.left \in 0..Window /\ CloudTimer >= prop.left
      BY SMTT(30) DEF ManeuverInv, TypeOK, CloudTimer
    <3>2. prop # None => prop.id \in Proposal BY DEF ManeuverInv, TypeOK
    <3>3. ASSUME prop # None, NEW n \in stray'[prop.id]
          PROVE  n \in stray[prop.id] \/ (n = card[prop.id] /\ card[prop.id] # None)
      BY <2>3, <2>5, <3>2, <3>3 DEF ManeuverInv, TypeOK
    <3>4. \A p \in Proposal : p > made =>
             card'[p] = card[p] /\ stray'[p] = stray[p]
      <4>1. \A p \in Proposal : p > made => p # msg.p
        BY <2>2, <2>3 DEF Proposal
      <4>2. \A p \in Proposal : p # msg.p =>
               card'[p] = card[p] /\ stray'[p] = stray[p]
        BY <2>5 DEF ManeuverInv, TypeOK
      <4> QED BY <4>1, <4>2
    <3>5. \A p \in Proposal : p > made' => card'[p] = None /\ stray'[p] = {}
      BY <2>4, <3>4 DEF ManeuverInv, TimersOutlast
    <3>6. ASSUME prop # None, card'[prop.id] # None
          PROVE  card'[prop.id] >= prop.left
      <4>1. CASE prop.id = msg.p
        <5>1. card'[prop.id] = CloudTimer
          BY <2>3, <2>5, <4>1 DEF ManeuverInv, TypeOK
        <5> QED BY <3>1, <3>6, <5>1
      <4>2. CASE prop.id # msg.p
        <5>1. card'[prop.id] = card[prop.id]
          BY <2>5, <3>2, <3>6, <4>2 DEF ManeuverInv, TypeOK
        <5> QED BY <3>6, <5>1 DEF ManeuverInv, TimersOutlast
      <4> QED BY <4>1, <4>2
    <3>7. ASSUME prop # None, NEW n \in stray'[prop.id] PROVE n >= prop.left
      BY <3>3, <3>7 DEF ManeuverInv, TimersOutlast
    <3> QED BY <1>r, <2>4, <3>5, <3>6, <3>7 DEF TimersOutlast
  <2>6. CASE card' = [card EXCEPT ![msg.p] = None] /\ stray' = stray
    BY <1>r, <2>3, <2>4, <2>6 DEF ManeuverInv, TypeOK, TimersOutlast
  <2>7. CASE UNCHANGED cloudVars
    BY <1>r, <2>4, <2>7 DEF ManeuverInv, TimersOutlast
  <2> QED BY <1>3, <2>5, <2>6, <2>7 DEF HandleIncoming
<1>4. ASSUME NEW p \in Proposal, CardTimesOut(p) PROVE TimersOutlast'
  <2>1. UNCHANGED <<prop, made>> BY <1>4 DEF CardTimesOut
  <2>c. card \in [Proposal -> 0..CloudTimer \cup {None}]
    BY DEF ManeuverInv, TypeOK
  <2>s. stray \in [Proposal -> SUBSET (0..CloudTimer)]
    BY DEF ManeuverInv, TypeOK
  <2>2. \A r \in Proposal : card'[r] = None \/ card'[r] = card[r]
    <3>1. card' = [card EXCEPT ![p] = None] BY <1>4 DEF CardTimesOut
    <3> QED BY <2>c, <3>1
  <2>4. \A r \in Proposal : stray'[r] \subseteq stray[r]
    <3>1. stray' = stray \/ stray' = [stray EXCEPT ![p] = @ \ {0}]
      BY <1>4 DEF CardTimesOut
    <3> QED BY <2>s, <3>1
  <2>3. prop # None => prop.id \in Proposal BY DEF ManeuverInv, TypeOK
  <2> QED BY <2>1, <2>2, <2>3, <2>4 DEF ManeuverInv, TimersOutlast
<1>5. ASSUME NEW q \in Request, PublishDecision(q) PROVE TimersOutlast'
  <2>1. UNCHANGED <<prop, made, stray>> BY <1>5 DEF PublishDecision
  <2>2. \A r \in Proposal : card'[r] = None \/ card'[r] = card[r]
    BY <1>5 DEF PublishDecision, ManeuverInv, TypeOK
  <2>3. prop # None => prop.id \in Proposal BY DEF ManeuverInv, TypeOK
  <2> QED BY <2>1, <2>2, <2>3 DEF ManeuverInv, TimersOutlast
<1>6. ASSUME prop' = None \/ prop' = prop, UNCHANGED <<made, card, stray>>
      PROVE  TimersOutlast'
  BY <1>6 DEF ManeuverInv, TimersOutlast
<1> QED
  BY <1>r, <1>1, <1>2, <1>3, <1>4, <1>5, <1>6
     DEF Next, Latch, Unlatch, TimeOut, Settle, ReceiveDecision, LoseDecision,
         Reconnect, Decide, DecideFails

\* The cloud keeps an unanswered proposal open as long as its window.
LEMMA CardStep ==
    ASSUME ManeuverInv, TypeOK', Next
    PROVE  CardOutlivesWindow'
<1> USE DEF edgeVars, logVars, cloudVars, decisionVars
<1> SUFFICES ASSUME NEW p \in Proposal,
                    prop' # None, prop'.id = p, prop'.left > 0,
                    Seen(p)', ~Answered(p)'
             PROVE  card'[p] # None
  BY DEF CardOutlivesWindow
<1>t. TypeOK /\ log \in Seq(Msg) /\ pos \in 0..Len(log)
  BY DEF ManeuverInv, TypeOK, Msg
\* What held before the step.
<1>o. ASSUME prop # None, prop.id = p, prop.left > 0, Seen(p), ~Answered(p)
      PROVE  card[p] # None
  BY <1>o DEF ManeuverInv, CardOutlivesWindow
<1>s. ASSUME log' = log, pos' <= pos, pos' \in Nat PROVE Seen(p)
  BY <1>s, <1>t DEF Seen
<1>1. CASE Tick
  <2>1. /\ prop # None /\ prop.id = p /\ prop'.left = Down(prop.left)
    BY <1>1 DEF Tick
  <2>2. prop.left > 0 BY SMTT(30), <1>t, <2>1 DEF TypeOK, Down
  <2>3. Seen(p) /\ ~Answered(p) BY <1>1 DEF Tick, Seen, Answered
  <2>4. card[p] # None /\ card[p] \in Nat
    BY <1>o, <1>t, <2>1, <2>2, <2>3 DEF TypeOK, CloudTimer
  <2> QED BY <1>1, <2>4 DEF Tick, Down
<1>2. CASE Propose
  <2>1. PICK k \in 1..pos : log'[k] = [kind |-> "PROPOSAL", p |-> p]
    BY <1>2 DEF Propose, Seen
  <2>2. k \in DOMAIN log /\ log'[k] = log[k] BY <1>2, <1>t DEF Propose
  <2>3. log[k].p <= made BY <2>2 DEF ManeuverInv, LogHonest
  <2>4. p = made + 1 /\ made \in Nat BY <1>2, <1>t DEF Propose, TypeOK
  <2> QED BY <2>1, <2>2, <2>3, <2>4
<1>3. CASE HandleIncoming
  <2> DEFINE msg == log[pos + 1]
  <2>1. pos + 1 \in DOMAIN log /\ msg \in Msg BY <1>3, <1>t DEF HandleIncoming
  <2>2. msg.p \in Proposal BY <2>1 DEF Msg
  <2>3. prop' = prop /\ log' = log /\ req' = req /\ pos' = pos + 1
    BY <1>3 DEF HandleIncoming
  <2>4. CASE msg.kind = "PROPOSAL" /\ msg.p = p
    <3>1. card'[p] = CloudTimer
      BY <1>3, <1>t, <2>4 DEF HandleIncoming, TypeOK, Closes
    <3> QED BY <3>1 DEF CloudTimer
  <2>5. CASE ~(msg.kind = "PROPOSAL" /\ msg.p = p)
    <3>1. Seen(p)
      <4>1. PICK k \in 1..(pos + 1) : log[k] = [kind |-> "PROPOSAL", p |-> p]
        BY <2>3 DEF Seen
      <4>2. k # pos + 1 BY <2>5, <4>1
      <4> QED BY <1>t, <4>1, <4>2 DEF Seen
    <3>2. ~Answered(p) BY <2>3 DEF Answered
    <3>3. card[p] # None BY <1>o, <2>3, <3>1, <3>2
    <3>4. ~(Closes(msg.kind) /\ msg.p = p)
      BY <2>1, <2>3 DEF ManeuverInv, LogHonest, Fresh
    <3>5. card'[p] = card[p]
      BY <1>3, <1>t, <2>2, <2>5, <3>4 DEF HandleIncoming, TypeOK
    <3> QED BY <3>3, <3>5
  <2> QED BY <2>4, <2>5
<1>4. CASE Reconnect
  <2>1. Seen(p) BY <1>4, <1>s, <1>t DEF Reconnect
  <2>2. ~Answered(p) BY <1>4 DEF Reconnect, Answered
  <2> QED BY <1>4, <1>o, <2>1, <2>2 DEF Reconnect
<1>5. ASSUME NEW r \in Proposal, CardTimesOut(r) PROVE card'[p] # None
  <2>1. prop' = prop /\ log' = log /\ pos' = pos /\ req' = req
    BY <1>5 DEF CardTimesOut
  <2>2. card[p] # None BY <1>o, <2>1 DEF Seen, Answered
  <2>3. r # p
    <3>1. prop.left \in Nat BY <1>t, <2>1 DEF TypeOK
    <3>2. card[p] >= prop.left /\ \A n \in stray[p] : n >= prop.left
      BY <2>1, <2>2 DEF ManeuverInv, TimersOutlast
    <3>3. card[p] # 0 /\ 0 \notin stray[p] BY <2>1, <3>1, <3>2
    <3> QED BY <1>5, <3>3 DEF CardTimesOut
  <2> QED BY <1>5, <1>t, <2>2, <2>3 DEF CardTimesOut, TypeOK
<1>6. ASSUME NEW q \in Request, PublishDecision(q) PROVE card'[p] # None
  <2>1. prop' = prop /\ log' = log /\ pos' = pos
    BY <1>6 DEF PublishDecision
  <2>2. req[q].p # p
    BY <1>6, <1>t DEF PublishDecision, Answered, TypeOK
  <2>3. ~Answered(p)
    BY <1>6, <1>t DEF PublishDecision, Answered, TypeOK
  <2>4. card[p] # None BY <1>o, <2>1, <2>3 DEF Seen
  <2> QED BY <1>6, <1>t, <2>2, <2>4 DEF PublishDecision, TypeOK
<1>7. ASSUME NEW q \in Request,
             (\E r \in Proposal : Decide(q, r)) \/ DecideFails(q)
      PROVE  card'[p] # None
  <2>1. prop' = prop /\ log' = log /\ pos' = pos /\ card' = card
    BY <1>7 DEF Decide, DecideFails
  <2>2. ~Answered(p) BY <1>7, <1>t DEF Decide, DecideFails, Answered, TypeOK
  <2> QED BY <1>o, <2>1, <2>2 DEF Seen
<1>8. ASSUME prop' = None \/ UNCHANGED <<prop, log, pos, req, card>>
      PROVE  card'[p] # None
  BY <1>8, <1>o DEF Seen, Answered
<1>9. CASE TimeOut
  BY <1>8, <1>9 DEF TimeOut, Settle
<1>10. ASSUME NEW d \in net, ReceiveDecision(d) PROVE card'[p] # None
  BY <1>8, <1>10 DEF ReceiveDecision, Settle
<1>11. CASE Latch \/ Unlatch
  BY <1>8, <1>11 DEF Latch, Unlatch
<1>12. ASSUME NEW d \in net, LoseDecision(d) PROVE card'[p] # None
  BY <1>8, <1>12 DEF LoseDecision
<1> QED
  BY <1>1, <1>2, <1>3, <1>4, <1>5, <1>6, <1>7, <1>9, <1>10, <1>11, <1>12
     DEF Next

-----------------------------------------------------------------------------
(* The inductive invariant and what follows from it.                       *)

LEMMA ManeuverInit == Init => ManeuverInv
<1> SUFFICES ASSUME Init PROVE ManeuverInv
  OBVIOUS
<1>1. latched \in BOOLEAN BY Zenon DEF Init
<1>2. TypeOK BY <1>1 DEF Init, TypeOK
<1> QED
  BY <1>2 DEF Init, ManeuverInv, Fresh, LogHonest, TimersOutlast, Requests,
              OneOutcome, CardOutlivesWindow

LEMMA ManeuverStep == ManeuverInv /\ [Next]_vars => ManeuverInv'
<1> SUFFICES ASSUME ManeuverInv, [Next]_vars PROVE ManeuverInv'
  OBVIOUS
<1>1. CASE Next
  BY <1>1, TypeStep, EdgeStep, TimersStep, CardStep DEF ManeuverInv
<1>2. CASE UNCHANGED vars
  BY <1>2 DEF vars, edgeVars, logVars, cloudVars, decisionVars, ManeuverInv,
              TypeOK, Fresh, LogHonest, TimersOutlast, Requests, OneOutcome,
              CardOutlivesWindow, Seen, Answered
<1> QED BY <1>1, <1>2

\* ManeuverInv holds in every reachable state.
THEOREM ManeuverInvariant == Spec => []ManeuverInv
BY ManeuverInit, ManeuverStep, PTL DEF Spec

\* However decisions, timeouts and latches interleave (main.rs:1041-1171 and
\* 1631-1722), a proposal is settled at most once, by a decision inside its
\* window or by the safe default after it.
THEOREM OneOutcomeEver == Spec => []OneOutcome
<1>1. ManeuverInv => OneOutcome BY DEF ManeuverInv
<1> QED BY <1>1, ManeuverInvariant, PTL

\* For any window and grace, and although the vehicle repeats messages, the
\* cloud (maneuver.service.ts) never closes an unanswered proposal early.
THEOREM CardNeverClosesEarly == Spec => []CardOutlivesWindow
<1>1. ManeuverInv => CardOutlivesWindow BY DEF ManeuverInv
<1> QED BY <1>1, ManeuverInvariant, PTL

-----------------------------------------------------------------------------
(* The contract.  Beside ManeuverInv the refinement needs that the vehicle *)
(* never abandons a proposal: one without an outcome is the active one.    *)

OpenIsActive ==
    \A p \in Proposal :
        p <= made /\ outcome[p] = <<>> => prop # None /\ prop.id = p

\* The contract's view of the vehicle.
View == [p \in Proposal |-> Status(p)]

\* What settling writes.
LEMMA SettleWrites ==
    ASSUME ManeuverInv, prop # None, NEW how \in {"DECIDED", "TIMED_OUT"},
           Settle(prop.id, how)
    PROVE  /\ prop.id \in Proposal /\ prop.id <= made /\ outcome[prop.id] = <<>>
           /\ outcome'[prop.id] # <<>> /\ outcome'[prop.id][1].how = how
           /\ \A r \in Proposal : r # prop.id => outcome'[r] = outcome[r]
<1>1. prop.id \in Proposal /\ prop.id <= made /\ outcome[prop.id] = <<>>
  BY DEF ManeuverInv, TypeOK, Fresh
<1>2. outcome' = [outcome EXCEPT ![prop.id] = <<[how |-> how, left |-> prop.left]>>]
  BY <1>1 DEF Settle, ManeuverInv, TypeOK
<1>3. outcome'[prop.id] = <<[how |-> how, left |-> prop.left]>>
  BY <1>1, <1>2 DEF ManeuverInv, TypeOK
<1> QED BY <1>1, <1>2, <1>3 DEF ManeuverInv, TypeOK

\* Settling closes the active proposal in the contract.
LEMMA SettleCloses ==
    ASSUME ManeuverInv, OpenIsActive, prop # None,
           NEW how \in {"DECIDED", "TIMED_OUT"},
           Settle(prop.id, how), made' = made
    PROVE  OpenIsActive' /\ Contract!Next
<1>0. PICK p \in Proposal : p = prop.id BY SettleWrites
<1>1. /\ p \in Proposal /\ p <= made /\ outcome[p] = <<>>
      /\ outcome'[p] # <<>> /\ outcome'[p][1].how = how
      /\ \A r \in Proposal : r # p => outcome'[r] = outcome[r]
  BY <1>0, SettleWrites
<1>2. OpenIsActive'
  <2> SUFFICES ASSUME NEW r \in Proposal, r <= made, outcome'[r] = <<>>
               PROVE  FALSE
    BY DEF OpenIsActive
  <2>1. r # p BY <1>1
  <2> QED BY <1>0, <1>1, <2>1 DEF OpenIsActive
<1>3. made \in Nat /\ p \in Nat BY <1>1 DEF ManeuverInv, TypeOK, Proposal
<1>4. Status(p) = "open" /\ Status(p)' = how
  BY <1>1, <1>3 DEF Status
<1>5. \A r \in Proposal : r # p => Status(r)' = Status(r)
  BY <1>1 DEF Status
<1>6. View' = [View EXCEPT ![p] = how]
  <2>1. View' = [r \in Proposal |-> Status(r)'] BY DEF View
  <2>2. View = [r \in Proposal |-> Status(r)] BY DEF View
  <2> QED BY <1>1, <1>4, <1>5, <2>1, <2>2
<1>7. Contract!Close(p)
  BY <1>1, <1>4, <1>6 DEF Contract!Close, Contract!Settled, View
<1> QED BY <1>1, <1>2, <1>7 DEF Contract!Next, Proposal

\* A new proposal opens in the contract: the vehicle waits for none.
LEMMA ProposeOpens ==
    ASSUME ManeuverInv, OpenIsActive, Propose
    PROVE  OpenIsActive' /\ Contract!Next
<1>0. PICK p \in Proposal : p = made + 1
  BY DEF Propose, ManeuverInv, TypeOK, Proposal
<1>1. /\ made \in Nat /\ p \in Proposal /\ made' = p /\ outcome' = outcome
      /\ prop = None /\ prop' = [id |-> p, left |-> Window]
  BY <1>0 DEF Propose, ManeuverInv, TypeOK, Proposal
<1>2. prop' # None /\ prop'.id = p
  <2>1. p \in Nat BY DEF Proposal
  <2>2. prop' \in [id : Nat, left : Nat] BY <1>1, <2>1
  <2> QED BY <1>1, <2>2
<1>3. \A r \in Proposal : r <= made => outcome[r] # <<>>
  BY <1>1 DEF OpenIsActive
<1>4. OpenIsActive' BY <1>0, <1>1, <1>2, <1>3 DEF OpenIsActive, Proposal
<1>5. Status(p) = "unborn" /\ Status(p)' = "open"
  BY <1>0, <1>1 DEF Status, ManeuverInv, Fresh
<1>6. \A r \in Proposal : r # p => Status(r)' = Status(r)
  BY <1>0, <1>1 DEF Status, Proposal
<1>7. View' = [View EXCEPT ![p] = "open"]
  <2>1. View' = [r \in Proposal |-> Status(r)'] BY DEF View
  <2>2. View = [r \in Proposal |-> Status(r)] BY DEF View
  <2> QED BY <1>1, <1>5, <1>6, <2>1, <2>2
<1>8. \A q \in 1..(p - 1) : View[q] \in {"DECIDED", "TIMED_OUT"}
  <2> SUFFICES ASSUME NEW q \in 1..made
               PROVE  View[q] \in {"DECIDED", "TIMED_OUT"}
    BY <1>0, <1>1
  <2>1. q \in Proposal /\ q <= made BY <1>0, <1>1 DEF Proposal
  <2>2. outcome[q] \in Seq(Edge) /\ outcome[q] # <<>>
    BY <1>3, <2>1 DEF ManeuverInv, TypeOK, Edge
  <2>3. outcome[q][1] \in Edge BY <2>2
  <2>4. outcome[q][1].how \in {"DECIDED", "TIMED_OUT"} BY <2>3 DEF Edge
  <2> QED BY <1>1, <2>1, <2>2, <2>4 DEF View, Status, Proposal
<1>9. Contract!Open(p)
  BY <1>1, <1>5, <1>7, <1>8 DEF Contract!Open, Contract!Settled, View
<1> QED BY <1>1, <1>4, <1>9 DEF Contract!Next, Proposal

\* Every step of the vehicle and the cloud is a step of the contract or leaves
\* its view alone.
LEMMA ContractStep ==
    ManeuverInv /\ OpenIsActive /\ [Next]_vars
        => OpenIsActive' /\ [Contract!Next]_View
<1> SUFFICES ASSUME ManeuverInv, OpenIsActive, [Next]_vars
             PROVE  OpenIsActive' /\ [Contract!Next]_View
  OBVIOUS
<1> USE DEF vars, edgeVars, logVars, cloudVars, decisionVars
<1>1. ASSUME UNCHANGED <<made, outcome>>,
             prop' = prop \/ (prop # None /\ prop' # None /\ prop'.id = prop.id)
      PROVE  OpenIsActive' /\ View' = View
  BY <1>1 DEF OpenIsActive, View, Status
<1>2. CASE Tick
  <2>1. \/ prop' = prop
        \/ prop # None /\ prop' # None /\ prop'.id = prop.id
    <3>1. CASE prop = None BY <1>2, <3>1 DEF Tick
    <3>2. CASE prop # None
      <4>1. prop' = [id |-> prop.id, left |-> Down(prop.left)]
        BY <1>2, <3>2 DEF Tick
      <4>2. prop.id \in Proposal /\ prop.left \in 0..Window
        BY <3>2 DEF ManeuverInv, TypeOK
      <4>3. prop' \in [id : Nat, left : Nat]
        BY <4>1, <4>2, Countdown DEF Proposal
      <4> QED BY <3>2, <4>1, <4>3
    <3> QED BY <3>1, <3>2
  <2> QED BY <1>1, <1>2, <2>1 DEF Tick
<1>3. CASE TimeOut BY <1>3, SettleCloses DEF TimeOut
<1>4. CASE Propose BY <1>4, ProposeOpens
<1>5. ASSUME NEW d \in net, ReceiveDecision(d)
      PROVE  OpenIsActive' /\ [Contract!Next]_View
  <2>1. CASE Matched(d.p) /\ Settle(d.p, "DECIDED")
    BY <1>5, <2>1, SettleCloses DEF ReceiveDecision, Matched
  <2>2. CASE UNCHANGED <<prop, outcome, log>>
    BY <1>1, <1>5, <2>2 DEF ReceiveDecision
  <2> QED BY <1>5, <2>1, <2>2 DEF ReceiveDecision
<1>6. ASSUME UNCHANGED <<prop, made, outcome>>
      PROVE  OpenIsActive' /\ [Contract!Next]_View
  BY <1>1, <1>6
<1> QED
  BY <1>2, <1>3, <1>4, <1>5, <1>6
     DEF Next, Latch, Unlatch, LoseDecision, HandleIncoming, Reconnect,
         CardTimesOut, Decide, DecideFails, PublishDecision

\* For any number of proposals, windows, latches, requests and repetitions,
\* the generator and the decision gate (main.rs:1041-1171 and 1631-1722) keep
\* the contract of ICD 6: one proposal at a time, each settled once and for
\* all before the next is made.
THEOREM KeepsContract == Spec => ImplementsContract
<1>1. Init => OpenIsActive /\ Contract!Init
  <2> SUFFICES ASSUME Init PROVE OpenIsActive /\ Contract!Init
    OBVIOUS
  <2>1. \A p \in Proposal : p > 0 /\ p \in Nat BY DEF Proposal
  <2>2. OpenIsActive BY <2>1 DEF Init, OpenIsActive
  <2>3. \A p \in Proposal : Status(p) = "unborn"
    BY <2>1 DEF Init, Status
  <2>4. Contract!Init BY <2>3 DEF Contract!Init, Proposal
  <2> QED BY <2>2, <2>4
<1>2. ManeuverInv /\ OpenIsActive /\ [Next]_vars
        => OpenIsActive' /\ [Contract!Next]_[p \in Proposal |-> Status(p)]
  BY ContractStep DEF View
<1> QED
  BY <1>1, <1>2, ManeuverInvariant, PTL DEF Spec, ImplementsContract, Contract!Spec
=============================================================================
