---------------------------- MODULE TunnelSystem ----------------------------
(***************************************************************************)
(* A client session and the gateway it talks to: the two components joined *)
(* at the tunnel.  A dial of reconnectLoop is a handshake at the gateway,  *)
(* the two ends of a yamux session notice its end independently, and a     *)
(* terminal frame is acknowledged by acceptStreams whenever it arrives.    *)
(*                                                                         *)
(* max_claim_duration is not set here: an expiry frame is acknowledged as  *)
(* a release frame is.                                                     *)
(*                                                                         *)
(* What Gateway leaves open about its clients is decided by the client     *)
(* here: every step gives Gateway's variable client the value Sees.        *)
(***************************************************************************)
EXTENDS Integers, Sequences, FiniteSets

CONSTANTS Segment, Empty, ClaimID, Owner, Request, Requested, Allowed,
          MinPathSegments, MaxPathsPerClaim, MaxClaims, MaxClaimsPerOwner,
          Releaser, Caller, Expiring, None

CONSTANTS MaxTunnels, MaxEvents

VARIABLES claims, issued, sessions, conn, handler, ask, setup, expiry, closing,
          client, rel, proxy, routed

VARIABLES cancelled, stopped, run, err, claim, loop, current, updates,
          session, acceptor, terminal, acked

VARIABLES attempt, \* the handler that the dial under way has reached, or None
          claimOf  \* claimOf[n]: the claim of the client's tunnel n, or None

gatewayVars == <<claims, issued, sessions, conn, handler, ask, setup, expiry, closing,
                 rel, proxy, routed>>
clientVars == <<cancelled, stopped, run, err, claim, loop, current, updates,
                session, acceptor, terminal, acked>>
vars == <<gatewayVars, client, clientVars, attempt, claimOf>>

Tunnel == 1..MaxTunnels

\* The other end of session c: what acceptStreams acknowledged stays so.
ClientOf(c) ==
    LET mine(n) == claimOf[n] = c IN
    IF conn[c] = "none" THEN "none"
    ELSE IF c = attempt THEN "dialed"
    ELSE IF \E n \in acked : mine(n) THEN "stopped"
    ELSE IF \E n \in Tunnel : mine(n) /\ session[n] = "open" THEN "serving"
    ELSE IF \E n \in Tunnel : mine(n) THEN "lost"
    ELSE "left"

Sees == client' = [c \in ClaimID |-> ClientOf(c)']

G == INSTANCE Gateway

\* Request events have no effect on the tunnel and are left out.
C == INSTANCE Client WITH events <- 0

\* What the two components assume, and that there is a claim to begin with.
ASSUME SystemAssumption ==
    /\ None \notin ClaimID /\ ClaimID # {} /\ Owner # {} /\ Requested # {}
    /\ MaxTunnels \in Nat \ {0} /\ MaxEvents \in Nat \ {0}

\* The registry's configuration and callers.
ASSUME StoreAssumption ==
    /\ Empty \in Segment /\ Segment # {Empty}
    /\ MaxClaims \in Nat \ {0} /\ MaxPathsPerClaim \in Nat \ {0}
    /\ MaxClaimsPerOwner \in Nat /\ MinPathSegments \in Nat
    /\ Allowed \subseteq Seq(Segment)
    /\ Requested \subseteq Seq(G!Store!Split) /\ Request \subseteq G!Store!RequestPath

\* A step that the gateway, the client or the connection makes alone.
GatewayWaits == UNCHANGED gatewayVars /\ Sees
ClientWaits == UNCHANGED <<clientVars, attempt, claimOf>>
GatewayDoes == ClientWaits /\ G!Track /\ Sees
-----------------------------------------------------------------------------
(* The client alone. *)

\* The dial under way is given up or fails on its way, whatever the gateway does:
\* a lost answer, a deadline, an ended context.
DialLost ==
    /\ C!DialFails /\ loop' # "send refused"
    /\ attempt' = None
    /\ UNCHANGED claimOf /\ GatewayWaits

\* The dial never reaches the gateway.
DialMisses ==
    /\ C!StartDial
    /\ UNCHANGED <<attempt, claimOf>> /\ GatewayWaits

ClientLoop ==
    /\ \/ C!LoopCancelled \/ C!LoopSeesClose \/ C!LoopChecksTerminal
       \/ C!LoopSends \/ C!LoopGivesUpSend \/ C!WaitRetry
    /\ UNCHANGED <<attempt, claimOf>> /\ GatewayWaits

RunStep == C!Run /\ UNCHANGED <<attempt, claimOf>> /\ GatewayWaits

\* Bound: the user ends the session here or asks the gateway to release it, not both.
ClientCancel ==
    /\ \A d \in Releaser : rel[d].at = "idle"
    /\ C!Cancel /\ UNCHANGED <<attempt, claimOf>> /\ GatewayWaits

ClientSessionStep(n) ==
    /\ C!ReportTerminal(n) \/ C!EndAccept(n)
    /\ UNCHANGED <<attempt, claimOf>> /\ GatewayWaits

ClientSessionBreaks(n) ==
    C!SessionBreaks(n) /\ UNCHANGED <<attempt, claimOf>> /\ GatewayWaits
-----------------------------------------------------------------------------
(* Client and gateway together. *)

NextHandler == CHOOSE c \in ClaimID : handler[c] = "idle"

\* dialTunnel: the handshake of the next handler, naming the claim it replaces.
DialReaches ==
    /\ \E c \in ClaimID : handler[c] = "idle"
    /\ LET old == claimOf[current]
           c == NextHandler
       IN  /\ C!StartDial /\ loop' = "dialing"
           /\ attempt' = c
           /\ UNCHANGED claimOf
           /\ G!TunnelRequest(c) /\ G!Track /\ Sees
           /\ ask'[c] = [owner |-> ask[old].owner, paths |-> ask[old].paths, replaces |-> old]

\* A 4xx answer of the handler the dial has reached.
DialRefused ==
    /\ attempt # None /\ handler[attempt] = "refused" /\ attempt \notin issued
    /\ C!DialFails /\ loop' = "send refused"
    /\ attempt' = None
    /\ UNCHANGED claimOf /\ GatewayWaits

\* A client that starts to serve without waiting for "ok".
DialTrustsUpgrade ==
    /\ attempt # None /\ setup[attempt] \in {"acked", "routable", "ok"}
    /\ C!DialSucceeds
    /\ claimOf' = [claimOf EXCEPT ![current'] = attempt]
    /\ attempt' = None
    /\ GatewayWaits

\* completeClientSetup has read "ok".
DialSucceeds ==
    /\ attempt # None /\ setup[attempt] = "ok"
    /\ C!DialSucceeds
    /\ claimOf' = [claimOf EXCEPT ![current'] = attempt]
    /\ attempt' = None
    /\ GatewayWaits

\* A terminal frame for tunnel n reaches acceptStreams.
AckRelease(n, d) ==
    /\ C!AckTerminalFrame(n)
    /\ rel[d].id = claimOf[n]
    /\ UNCHANGED <<attempt, claimOf>>
    /\ G!ClientAcksRelease(d) /\ G!Track /\ Sees
-----------------------------------------------------------------------------
(* The gateway alone. *)

GatewayHandshake(c) == G!Handshake(c) /\ GatewayDoes
GatewaySetup(c) == G!SetupStep(c) /\ GatewayDoes
GatewayCleanUp(c) == G!CleanUp(c) /\ GatewayDoes
GatewayCloses(c) == G!DeferredClose(c) /\ GatewayDoes
GatewayReleases(d) == G!ReleaseStep(d) /\ GatewayDoes

\* completeClientSetup answers "ready" with "ack".
AcksReady(c) == G!ClientAnswersReady(c) /\ setup'[c] = "acked" /\ GatewayDoes

\* The gateway sees its end of the session break, of itself or by keep-alive.
GatewayConnectionBreaks(c) == G!ConnectionBreaks(c) /\ GatewayDoes

\* Bound: the release is asked for while the client believes in its first tunnel.
ReleaseAsked ==
    /\ current = 1 /\ session[1] = "open" /\ ~cancelled
    /\ \E d \in Releaser : G!DeleteArrives(d)
    /\ GatewayDoes
-----------------------------------------------------------------------------
\* Client.Start has returned: its handshake is over and its claim is served.
Init ==
    LET c == CHOOSE c \in ClaimID : TRUE
        paths == CHOOSE p \in Requested : TRUE
        owner == CHOOSE o \in Owner : TRUE
    IN  /\ claims = [d \in {c} |-> [owner |-> owner, paths |-> {paths[i] : i \in DOMAIN paths}]]
        /\ issued = {c} /\ sessions = {c} /\ closing = {}
        /\ conn = [d \in ClaimID |-> IF d = c THEN "open" ELSE "none"]
        /\ handler = [d \in ClaimID |-> IF d = c THEN "serving" ELSE "idle"]
        /\ ask = [d \in ClaimID |-> IF d = c
                    THEN [owner |-> owner, paths |-> paths, replaces |-> None] ELSE G!NoAsk]
        /\ setup = [d \in ClaimID |-> IF d = c THEN "ok" ELSE "none"]
        /\ expiry = [d \in ClaimID |-> "off"]
        /\ rel = [d \in Releaser |-> [at |-> "idle", id |-> None, owner |-> None]]
        /\ proxy = [q \in Caller |-> [at |-> "idle", path |-> None, claim |-> None]]
        /\ routed = [q \in Caller |-> {}]
        /\ C!Init
        /\ attempt = None /\ claimOf = [n \in Tunnel |-> IF n = 1 THEN c ELSE None]
        /\ client = [d \in ClaimID |-> ClientOf(d)]

ClientStep ==
    \/ ClientLoop \/ DialMisses \/ DialReaches \/ DialLost \/ DialRefused \/ DialSucceeds
    \/ \E n \in Tunnel : ClientSessionStep(n)

GatewayStep ==
    \/ \E c \in ClaimID :
         \/ GatewayHandshake(c) \/ GatewaySetup(c) \/ GatewayCleanUp(c) \/ GatewayCloses(c)
    \/ \E d \in Releaser : GatewayReleases(d)

Network ==
    \/ \E n \in Tunnel :
         \/ ClientSessionBreaks(n)
         \/ \E d \in Releaser : AckRelease(n, d)
    \/ \E c \in ClaimID : AcksReady(c) \/ GatewayConnectionBreaks(c)

\* run only empties the loop's channel and stops the loop, so when it does so makes
\* no difference to the gateway: it never waits here.
RunIsBehind == run = "select" /\ (cancelled \/ updates # << >> \/ loop = "ended")

Next ==
    IF RunIsBehind THEN RunStep
    ELSE ClientCancel \/ ReleaseAsked \/ ClientStep \/ GatewayStep \/ Network

Spec == Init /\ [][Next]_vars
-----------------------------------------------------------------------------
\* What Gateway assumes of its clients is what the client does: every step of the
\* system is a step of the gateway beside some client, or none.
ImplementsGateway ==
    [][UNCHANGED gatewayVars =>
         \/ \E c \in ClaimID : G!ClientServes(c) \/ G!ClientLeaves(c)
         \/ \E d \in Releaser : G!ClientAcksRelease(d)]_client

\* A client that has a tunnel is routable: while both ends are open, the session
\* is in the gateway's table and holds its claim, unless a goroutine has been started
\* to close it.  No client goes on serving a session whose claim was taken away.
ReadyMeansRoutable ==
    \A n \in Tunnel :
        LET c == claimOf[n] IN
        session[n] = "open" /\ conn[c] = "open" =>
            c \in closing \/ (c \in sessions /\ c \in DOMAIN claims)
-----------------------------------------------------------------------------
(* What the documentation says and the code does not do. *)

\* The gateway keeps no tombstone, "because a successful return means the client has
\* stopped reconnecting": after a 204 the released client does not dial.
ReleasedStaysReleased ==
    \A d \in Releaser : rel[d].at = "204" => loop # "dialing"

\* "On transient network loss it reconnects automatically": a client that competes
\* with nobody for its paths is not refused by the gateway when it comes back.
NeverRefusedByItself == loop # "send refused"
=============================================================================
