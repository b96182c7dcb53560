-------------------------- MODULE OperatorSession --------------------------
(***************************************************************************)
(* The control session as an operator's console sees it: the fencing token *)
(* of SessionContext.tsx with take-control, the heartbeat interval and     *)
(* cmdPost, against the command service (SessionLock models that side).    *)
(* A call is asked, served and answered; it or its answer may be lost, and *)
(* answers come in any order.                                              *)
(***************************************************************************)
EXTENDS Naturals, FiniteSets

CONSTANTS
    TOKENS,     \* names for tokens, reused once nothing refers to them
    MaxCalls    \* bound: calls in flight

ASSUME OperatorAssumption == TOKENS \in Nat /\ MaxCalls \in Nat

VARIABLES
    token,   \* token of the session, 0 for none
    calls,   \* fetches in flight
    lock     \* token in the vehicle's lock, 0 for none

operatorVars == <<token, calls, lock>>

Kind == {"take", "heartbeat", "command"}
Answer == {"pending", "ok", "dead", "refused", "401"}
Call == [kind : Kind, tok : 0..TOKENS, ans : Answer]

OperatorInit == token = 0 /\ calls = {} /\ lock = 0

-----------------------------------------------------------------------------
(* The console *)

\* A call, up to the fetch.
Ask(kind) ==
    /\ kind = "take" <=> token = 0
    /\ Cardinality(calls) < MaxCalls
    /\ calls' = calls \cup {[kind |-> kind, tok |-> token, ans |-> "pending"]}
    /\ UNCHANGED <<token, lock>>

\* takeControl, the heartbeat interval and cmdPost.
RequestControl == Ask("take")
SendHeartbeat == Ask("heartbeat")
CmdPost == Ask("command")

\* Mutant: the heartbeat only renews.
HeartbeatOnlyRenews(c) ==
    IF c.kind = "take" /\ c.ans = "ok" THEN c.tok
    ELSE IF c.kind = "command" /\ c.ans = "401" THEN 0 ELSE token

\* The token after the answer of call c.
TokenAfter(c) ==
    IF c.kind = "take" /\ c.ans = "ok" THEN c.tok
    ELSE IF \/ c.kind = "heartbeat" /\ c.ans = "dead"
            \/ c.kind = "command" /\ c.ans = "401" THEN 0
    ELSE token

Hear(c) ==
    /\ c.ans # "pending"
    /\ calls' = calls \ {c} /\ token' = TokenAfter(c)
    /\ UNCHANGED lock

\* The fetch fails: nothing is done.
Lose(c) ==
    /\ calls' = calls \ {c}
    /\ UNCHANGED <<token, lock>>

-----------------------------------------------------------------------------
(* The service *)

NewToken == 1..TOKENS \ ({token, lock} \cup {c.tok : c \in calls})

\* The call is authorised (the ID token in its header has not expired) and
\* compared with the lock, or the authorizer refuses it.
Serve(c, authorised) ==
    LET answer(ans, t) == (calls \ {c}) \cup {[c EXCEPT !.ans = ans, !.tok = t]}
    IN  /\ c.ans = "pending"
        /\ \/ ~authorised /\ calls' = answer("401", c.tok) /\ UNCHANGED lock
           \/ /\ authorised /\ c.kind = "take" /\ lock = 0
              /\ \E t \in NewToken : lock' = t /\ calls' = answer("ok", t)
           \/ /\ authorised /\ ~(c.kind = "take" /\ lock = 0)
              /\ calls' = answer(IF c.kind = "take" THEN "refused"
                                 ELSE IF c.tok = lock THEN "ok"
                                 ELSE IF c.kind = "heartbeat" THEN "dead"
                                 ELSE "401", c.tok)
              /\ UNCHANGED lock
    /\ UNCHANGED token

\* The lock expires or is severed, or another operator gets it.
LockMoves ==
    /\ lock' \in {0} \cup NewToken
    /\ UNCHANGED <<token, calls>>

-----------------------------------------------------------------------------
(* Properties *)

OperatorTypeOK ==
    token \in 0..TOKENS /\ lock \in 0..TOKENS /\ calls \subseteq Call
=============================================================================
