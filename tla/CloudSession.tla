---------------------------- MODULE CloudSession ----------------------------
(***************************************************************************)
(* One tab of the operator console: the entry gate and its modes           *)
(* (apps/console/src/mode), the Hosted-UI sign-in (aws/auth.ts) and the    *)
(* live telemetry connection (aws/useCloudTelemetry.ts, aws/iot.ts) with   *)
(* the function that attaches its IoT policy (infra/lambda).               *)
(*                                                                         *)
(* A task is a piece of the hook that is waiting: for the token exchange,  *)
(* for one of the awaits of dial, as an MQTT client, or as a redial timer. *)
(* It carries the generation it captured.  A generation is in valid while  *)
(* its genRef still holds it; every mount has refs of its own.  An event,  *)
(* the render it causes and the effects of that render are one step.       *)
(*                                                                         *)
(* External: the browser, Cognito, the broker and API Gateway.  Local mode *)
(* and the double mount of a development build are left out.               *)
(***************************************************************************)
EXTENDS Naturals, FiniteSetsExt

CONSTANTS
    Gen,         \* generations, reused once nothing refers to them
    FAIL_LIMIT   \* failed dials in a row that are shown as an error: 5

ASSUME CloudAssumption ==
    FAIL_LIMIT \in Nat \ {0} /\ IsFiniteSet(Gen) /\ Gen \subseteq Nat

VARIABLES
    mode, stored,       \* mode of ModeContext and its copy in sessionStorage
    tokens,             \* unexpired tokens in sessionStorage
    code, verifier,     \* ?code= in the address bar; PKCE verifier stored
    leaving, away,      \* the page is about to leave; it has left
    mounted,            \* SessionProvider is mounted
    gen, valid,         \* genRef of the mounted provider; captured ones that hold
    tasks,              \* [gen, at]
    cloudState,         \* state
    identity, attached, \* identityRef is fresh; attachedRef
    fails,              \* failsRef, up to FAIL_LIMIT
    policy              \* the viewer policy is attached to the identity

pageVars == <<mode, stored, tokens, code, verifier, leaving, away, mounted>>
hookVars == <<gen, valid, tasks, cloudState, identity, attached, fails>>
cloudVars == <<pageVars, hookVars, policy>>

Open == {"opening", "up", "denied"}
Stage == {"exchange", "attach", "identity", "connect", "redial", "ended"}
           \cup Open

CloudInit ==
    /\ mode = "gate" /\ stored = "gate" /\ tokens = FALSE
    /\ code = FALSE /\ verifier = FALSE /\ leaving = FALSE /\ away = FALSE
    /\ mounted = FALSE /\ gen \in Gen /\ valid = {} /\ tasks = {}
    /\ cloudState = "off" /\ identity = FALSE /\ attached = FALSE
    /\ fails = 0 /\ policy \in BOOLEAN

-----------------------------------------------------------------------------
(* The gate and the page *)

\* operatorSessionAlive with tokens t and address-bar code c.
Alive(t, c) == c \/ t

\* readStoredMode.
ReadStoredMode(t, c) ==
    IF stored = "operator" /\ ~Alive(t, c) THEN "gate" ELSE stored

\* Gated: what is rendered in mode m.
Mounts(m, t, c) == m = "demo" \/ (m = "operator" /\ Alive(t, c))

\* A provider mounts in mode m with fresh refs and runs its boot effect up to
\* the first await: tokens t, code c and verifier v are there, tasks T and
\* generations V survive from the document's earlier mounts.
Mount(m, t, c, v, T, V) ==
    LET free == Gen \ (V \cup {x.gen : x \in T})
        boot == IF c /\ v THEN {"exchange"} ELSE IF t THEN {"attach"} ELSE {}
    IN  /\ mounted' = TRUE
        /\ identity' = FALSE /\ attached' = FALSE /\ fails' = 0
        /\ \/ /\ m = "operator" /\ free # {}
              /\ gen' = Min(free) /\ valid' = V \cup {Min(free)}
              /\ tasks' = T \cup [gen : {Min(free)}, at : boot]
              /\ verifier' = (v /\ ~c)
              /\ cloudState' = IF boot = {"attach"} THEN "connecting"
                               ELSE "signed-out"
           \/ /\ m = "demo"
              /\ gen' = Min(Gen) /\ valid' = V /\ tasks' = T
              /\ verifier' = v /\ cloudState' = "off"

\* end(true) for the client of generation g.
Ended(g, T) ==
    {IF x.gen = g /\ x.at \in Open THEN [x EXCEPT !.at = "ended"] ELSE x : x \in T}

\* The provider's cleanup: its generation moves on and its client is ended.
Unmount ==
    /\ mounted' = FALSE /\ cloudState' = "off"
    /\ valid' = valid \ {gen}
    /\ tasks' = Ended(gen, tasks)
    /\ UNCHANGED <<gen, identity, attached, fails>>

SelectDemo ==
    /\ ~away /\ ~mounted
    /\ mode' = "demo" /\ stored' = "demo"
    /\ Mount("demo", tokens, code, verifier, tasks, valid)
    /\ UNCHANGED <<tokens, code, leaving, away, policy>>

\* enterOperator: the mode is stored, then login keeps a verifier and hashes it.
EnterOperator ==
    /\ ~away /\ ~mounted
    /\ mode' = "operator" /\ stored' = "operator" /\ leaving' = TRUE
    /\ IF Alive(tokens, code) THEN Mount("operator", tokens, code, TRUE, tasks, valid)
       ELSE verifier' = TRUE /\ UNCHANGED <<mounted, hookVars>>
    /\ UNCHANGED <<tokens, code, away, policy>>

\* The sign-in button of a mounted operator session.
SignIn ==
    /\ ~away /\ mounted /\ cloudState = "signed-out"
    /\ verifier' = TRUE /\ leaving' = TRUE
    /\ UNCHANGED <<mode, stored, tokens, code, away, mounted, hookVars, policy>>

\* signOut and logout; that the generation moves on is part of Unmount.
SignOut == tokens' = FALSE /\ leaving' = TRUE

\* leaveSession: reset, then signOut for an operator.
Leave ==
    /\ ~away /\ mounted
    /\ mode' = "gate" /\ stored' = "gate"
    /\ IF mode = "operator" THEN SignOut ELSE UNCHANGED <<tokens, leaving>>
    /\ Unmount
    /\ UNCHANGED <<code, verifier, away, policy>>

\* location.assign takes effect.
Depart ==
    /\ leaving
    /\ leaving' = FALSE /\ away' = TRUE
    /\ UNCHANGED <<mode, stored, tokens, code, verifier, mounted, hookVars,
                   policy>>

\* A document is loaded: back from the Hosted UI with or without a code, or
\* by a reload, which keeps the address bar.
Load(c) ==
    LET m == ReadStoredMode(tokens, c) IN
    /\ away \/ c = code
    /\ code' = c /\ mode' = m /\ leaving' = FALSE /\ away' = FALSE
    /\ IF Mounts(m, tokens, c) THEN Mount(m, tokens, c, verifier, {}, {})
       ELSE /\ mounted' = FALSE /\ valid' = {} /\ tasks' = {}
            /\ cloudState' = "off"
            /\ UNCHANGED <<verifier, gen, identity, attached, fails>>
    /\ UNCHANGED <<stored, tokens, policy>>

\* BACK restores the frozen document; pageshow reads the stored mode again.
Back ==
    /\ away
    /\ away' = FALSE
    /\ mode' = ReadStoredMode(tokens, code)
    /\ IF mounted /\ mode' = "gate" THEN Unmount ELSE UNCHANGED <<mounted, hookVars>>
    /\ UNCHANGED <<stored, tokens, code, verifier, leaving, policy>>

\* getTokens finds the tokens expired and removes them.
TokensExpire ==
    /\ tokens /\ tokens' = FALSE
    /\ UNCHANGED <<mode, stored, code, verifier, leaving, away, mounted,
                   hookVars, policy>>

-----------------------------------------------------------------------------
(* The hook's tasks, each up to its next await *)

Current(x) == x.gen \in valid

Without(x) == tasks \ {x}
Becomes(x, at) == Without(x) \cup {[x EXCEPT !.at = at]}

\* setState in a continuation that has compared its generation.
Show(x, s) == cloudState' = IF Current(x) THEN s ELSE cloudState

\* dial up to its first await.
Dial(x) ==
    /\ tasks' = Becomes(x, IF ~attached THEN "attach"
                           ELSE IF ~identity THEN "identity" ELSE "connect")
    /\ cloudState' = "connecting"

\* The token request of completeLoginIfRedirected: tokens, a refusal (either
\* of which cleans the address bar) or no answer; then the rest of boot.
Exchange(x) ==
    /\ x.at = "exchange"
    /\ \/ /\ \/ tokens' = TRUE
             \/ UNCHANGED tokens
          /\ code' = FALSE
          /\ IF Current(x) /\ tokens' THEN Dial(x)
             ELSE tasks' = Without(x) /\ Show(x, "signed-out")
       \/ tasks' = Without(x) /\ UNCHANGED <<tokens, code, cloudState>>
    /\ UNCHANGED <<mode, stored, verifier, leaving, away, mounted, gen, valid,
                   identity, attached, fails, policy>>

\* The function behind attach-policy, which may fail at any of its calls.
PolicyHandler == policy' \in {policy, TRUE}

\* attachIotPolicy never throws: attached or not, the dial goes on.
AttachPolicy(x) ==
    /\ x.at = "attach"
    /\ PolicyHandler
    /\ attached' = (attached \/ Current(x))
    /\ tasks' = IF Current(x)
                THEN Becomes(x, IF identity THEN "connect" ELSE "identity")
                ELSE Without(x)
    /\ UNCHANGED <<pageVars, gen, valid, cloudState, identity, fails>>

\* Mutant: dial logs the failure and gives up.
NoRetry(x) == Without(x)

\* The catch of dial: an error on screen and a redial.
Retry(x) == Becomes(x, "redial")

GetIdentity(x) ==
    /\ x.at = "identity"
    /\ \/ /\ tasks' = IF Current(x) THEN Becomes(x, "connect") ELSE Without(x)
          /\ identity' = (identity \/ Current(x))
          /\ UNCHANGED cloudState
       \/ /\ tasks' = IF Current(x) THEN Retry(x) ELSE Without(x)
          /\ Show(x, "error")
          /\ UNCHANGED identity
    /\ UNCHANGED <<pageVars, gen, valid, attached, fails, policy>>

\* Mutant: the client is kept although the dial was superseded.
KeepClient(x) == TRUE

\* The client is only kept if the generation has not moved on.
MayKeep(x) == Current(x)

\* connectIot returns: a superseded client is ended at once, and otherwise the
\* one before it is.
ConnectIot(x) ==
    /\ x.at = "connect"
    /\ tasks' = IF MayKeep(x) THEN Ended(x.gen, Without(x))
                                    \cup {[x EXCEPT !.at = "opening"]}
                ELSE Without(x)
    /\ UNCHANGED <<pageVars, gen, valid, cloudState, identity, attached, fails,
                   policy>>

\* The broker lets the client in and answers its subscription.
Connected(x) == x.at = "opening" /\ policy

Subscribed(x) ==
    /\ Connected(x)
    /\ \E at \in {"up", "denied"} :
         /\ tasks' = Becomes(x, at)
         /\ fails' = IF at = "up" /\ Current(x) THEN 0 ELSE fails
         /\ Show(x, IF at = "up" THEN "live" ELSE "error")
    /\ UNCHANGED <<pageVars, gen, valid, identity, attached, policy>>

\* Mutant: every dial counts from nought.
CountPerDial == 1

\* failsRef after one more failure.
Count == IF fails < FAIL_LIMIT THEN fails + 1 ELSE fails

\* 'close': of a lost or refused client, and of one that was ended.
Close(x) ==
    /\ x.at \in Open \cup {"ended"}
    /\ IF Current(x)
       THEN /\ fails' = Count
            /\ cloudState' = IF Count >= FAIL_LIMIT THEN "error" ELSE "connecting"
            /\ tasks' = Becomes(x, "redial")
       ELSE tasks' = Without(x) /\ UNCHANGED <<fails, cloudState>>
    /\ UNCHANGED <<pageVars, gen, valid, identity, attached, policy>>

\* The timer of a close or of a failed dial.
Redial(x) ==
    /\ x.at = "redial"
    /\ IF Current(x) THEN Dial(x)
       ELSE tasks' = Without(x) /\ UNCHANGED cloudState
    /\ UNCHANGED <<pageVars, gen, valid, identity, attached, fails, policy>>

\* The AWS credentials come within five minutes of their end.
CredentialsExpire ==
    /\ identity /\ identity' = FALSE
    /\ UNCHANGED <<pageVars, gen, valid, tasks, cloudState, attached, fails, policy>>

-----------------------------------------------------------------------------
\* What the browser, the network and the timers bring about by themselves.
Progress(x) ==
    \/ Exchange(x) \/ AttachPolicy(x) \/ GetIdentity(x) \/ ConnectIot(x)
    \/ Subscribed(x) \/ Redial(x)
    \/ x.at \in {"opening", "ended"} /\ Close(x)

HookStep == ~away /\ \E x \in tasks : Progress(x)

\* An established connection is lost.
LinkLost == ~away /\ \E x \in tasks : x.at \in {"up", "denied"} /\ Close(x)

Visitor == SelectDemo \/ EnterOperator \/ SignIn \/ Leave
Page == Depart \/ (\E c \in BOOLEAN : Load(c)) \/ Back

CloudNext ==
    \/ Visitor \/ Page \/ TokensExpire
    \/ HookStep
    \/ LinkLost
    \/ CredentialsExpire

CloudSpec == CloudInit /\ [][CloudNext]_cloudVars /\ WF_cloudVars(HookStep)

-----------------------------------------------------------------------------
(* Properties *)

CloudTypeOK ==
    /\ mode \in {"gate", "demo", "operator"} /\ stored \in {"gate", "demo", "operator"}
    /\ {tokens, code, verifier, leaving, away, mounted, identity, attached,
        policy} \subseteq BOOLEAN
    /\ gen \in Gen /\ valid \subseteq Gen /\ tasks \subseteq [gen : Gen, at : Stage]
    /\ cloudState \in {"off", "signed-out", "connecting", "live", "error"}
    /\ fails \in 0..FAIL_LIMIT

\* useCloudTelemetry.ts:41-46 and mode.ts: a tab has at most one open client,
\* and only a mounted operator session has one.  A dial of an earlier session
\* that comes back after the visitor has left, or has entered the demo, opens
\* nothing.
OwnClientOnly ==
    LET open == {x \in tasks : x.at \in Open} IN
    /\ Cardinality(open) <= 1
    /\ \A x \in open : mounted /\ mode = "operator" /\ x.gen = gen

\* Dials, clients and timers whose next callback carries the session on.
Carrying == {"attach", "identity", "connect", "opening", "up", "redial"}

\* useCloudTelemetry.ts:48-50 and 105-119: a session that has started to dial
\* is one dial, client or timer that carries on, and nothing beside it.  The
\* badge says LIVE exactly over a subscribed client, and the one session that
\* has stopped retrying, that of a refused subscription, shows an error.
OneThread ==
    mounted /\ cloudState \in {"connecting", "live", "error"} =>
        \E x \in tasks :
            /\ x.gen = gen /\ \A y \in tasks : y.gen = gen => y = x
            /\ cloudState = "live" <=> x.at = "up"
            /\ x.at \in Carrying \/ (x.at = "denied" /\ cloudState = "error")

\* Not kept.  useCloudTelemetry.ts:48-50, "must surface as an ERROR [...] -
\* retrying continues either way": a refused subscription (91-93) shows the
\* error over a client that stays connected, and nothing dials again.
RetryingContinues ==
    \/ cloudState = "error" ~> cloudState # "error" \/ away
    \/ []<><<\E c \in BOOLEAN : Load(c)>>_cloudVars

\* The same lines: a broker that refuses every connection is not shown as
\* connecting for ever, unless the visitor keeps reloading the page.
ConnectingEnds ==
    \/ []<>(cloudState # "connecting" \/ away)
    \/ []<><<\E c \in BOOLEAN : Load(c)>>_cloudVars
=============================================================================
