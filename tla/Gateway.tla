------------------------------- MODULE Gateway -------------------------------
(***************************************************************************)
(* internal/gatewayd: the life of every claim in the gateway process.      *)
(*                                                                         *)
(* A tunnel handshake is handled by a goroutine that creates a claim, sets *)
(* the session up with the help of a second goroutine and a timer, waits   *)
(* for the session to end and cleans up.  Expiry timers, release requests, *)
(* proxied requests and deferred closes run beside it.  The registry's     *)
(* mutex and the tunnel's mutex are never held together, so every critical *)
(* section is a step of its own.                                           *)
(*                                                                         *)
(* A handler is named by the claim it would create: identities are fresh   *)
(* and a handler creates at most one claim.                                *)
(***************************************************************************)
EXTENDS Integers, Sequences, FiniteSets

CONSTANTS Segment, Empty, ClaimID, Owner, Request, Requested, Allowed,
          MinPathSegments, MaxPathsPerClaim, MaxClaims, MaxClaimsPerOwner

CONSTANTS Releaser,  \* DELETE requests, each made once
          Caller,    \* third-party requests, each made once
          Expiring,  \* whether max_claim_duration is set
          None

ASSUME NoneAssumption == None \notin ClaimID

VARIABLES
    claims, issued, \* the registry
    sessions,       \* the keys of Tunnel.sessions
    conn,           \* conn[c]: the session as the gateway sees it
    handler,        \* handler[c]: where ServeHTTP is
    ask,            \* ask[c]: what the handshake asked for
    setup,          \* setup[c]: completeSetup's goroutine
    expiry,         \* expiry[c]: the expiry timer and expireClaim
    closing,        \* sessions that a goroutine was started to close
    client,         \* client[c]: what the other end of the session is doing
    rel,            \* rel[d]: a DELETE request
    proxy,          \* proxy[q]: a third-party request
    routed          \* history: claims routable for proxy[q] ever since it arrived

registry == <<claims, issued>>
tunnel == <<sessions, conn, handler, ask, setup, expiry, closing>>
vars == <<registry, tunnel, client, rel, proxy, routed>>

Store == INSTANCE Registry

\* What the registry assumes of its configuration and its callers.
ASSUME StoreAssumption ==
    /\ Empty \in Segment /\ Segment # {Empty}
    /\ MaxClaims \in Nat \ {0} /\ MaxPathsPerClaim \in Nat \ {0}
    /\ MaxClaimsPerOwner \in Nat /\ MinPathSegments \in Nat
    /\ Allowed \subseteq Seq(Segment)
    /\ Requested \subseteq Seq(Store!Split) /\ Request \subseteq Store!RequestPath

NoAsk == [owner |-> None, paths |-> << >>, replaces |-> None]

Routable == {c \in DOMAIN claims : c \in sessions /\ conn[c] = "open"}
RoutableFor(path) == Routable \cap Store!Claimants(path)

At(place, c) == handler[c] = place
Goto(c, place) == handler' = [handler EXCEPT ![c] = place]
SetupIs(c, s) == setup' = [setup EXCEPT ![c] = s]
Close(c) == conn' = [conn EXCEPT ![c] = "closed"]
CloseLater(c) == closing' = closing \cup {c}
-----------------------------------------------------------------------------
(* ServeHTTP, from the authenticated handshake to the registered claim. *)

\* A client names the claim whose session it lost, so a claim whose session the
\* gateway may still believe in, or one it acknowledged the end of.
TunnelRequest(c) ==
    /\ At("idle", c)
    /\ \E owner \in Owner, paths \in Requested,
          old \in {None} \cup {d \in issued : client[d] \in {"lost", "stopped"}} :
         /\ ask' = [ask EXCEPT ![c] = [owner |-> owner, paths |-> paths, replaces |-> old]]
         /\ Goto(c, IF old = None THEN "create" ELSE "lookup")
    /\ UNCHANGED <<registry, sessions, conn, setup, expiry, closing, client, rel, proxy>>

LookupReplaced(c) ==
    /\ At("lookup", c)
    /\ LET old == ask[c].replaces IN
         Goto(c, IF old \notin DOMAIN claims THEN "create"
                 ELSE IF claims[old].owner # ask[c].owner THEN "refused"
                 ELSE "close old")
    /\ UNCHANGED <<registry, sessions, conn, ask, setup, expiry, closing, client, rel, proxy>>

\* CloseReplaced, leaving the release to the old claim's own handler.
CloseOnlyReplaced(c) ==
    /\ At("close old", c)
    /\ closing' = closing \cup ({ask[c].replaces} \cap sessions)
    /\ Goto(c, "create")
    /\ UNCHANGED <<registry, sessions, conn, ask, setup, expiry, client, rel, proxy>>

\* CloseClaim: a session that is not routable is not closed.
CloseReplaced(c) ==
    /\ At("close old", c)
    /\ closing' = closing \cup ({ask[c].replaces} \cap sessions)
    /\ Goto(c, "release old")
    /\ UNCHANGED <<registry, sessions, conn, ask, setup, expiry, client, rel, proxy>>

ReleaseReplaced(c) ==
    /\ At("release old", c)
    /\ Store!Release(ask[c].owner, ask[c].replaces)
    /\ Goto(c, "create")
    /\ UNCHANGED <<sessions, conn, ask, setup, expiry, closing, client, rel, proxy>>

CreateClaim(c) ==
    /\ At("create", c)
    /\ Store!Create(c, ask[c].owner, ask[c].paths)
    /\ Goto(c, IF Store!Accepted(ask[c].owner, ask[c].paths) THEN "accept" ELSE "refused")
    /\ UNCHANGED <<sessions, conn, ask, setup, expiry, closing, client, rel, proxy>>

\* websocket.Accept and yamux.Server succeed, and completeSetup starts.  The client
\* may be gone by then.
AcceptUpgrade(c) ==
    /\ At("accept", c)
    /\ conn' = [conn EXCEPT ![c] = "open"]
    /\ SetupIs(c, "open")
    /\ \E s \in {"dialed", "left"} : client' = [client EXCEPT ![c] = s]
    /\ Goto(c, "setup")
    /\ UNCHANGED <<registry, sessions, ask, expiry, closing, rel, proxy>>

\* A failed upgrade that returns at once.
DropUpgrade(c) ==
    /\ At("accept", c)
    /\ Goto(c, "refused")
    /\ UNCHANGED <<registry, sessions, conn, ask, setup, expiry, closing, client, rel, proxy>>

FailUpgrade(c) ==
    /\ At("accept", c)
    /\ Store!Release(ask[c].owner, c)
    /\ Goto(c, "refused")
    /\ UNCHANGED <<sessions, conn, ask, setup, expiry, closing, client, rel, proxy>>
-----------------------------------------------------------------------------
(* completeSetup's goroutine, which the timer does not stop. *)

\* A set-up that confirms before it registers the session.
OkBeforeRoutable(c) ==
    /\ UNCHANGED <<registry, conn, handler, ask, expiry, closing, client, rel, proxy>>
    /\ \/ setup[c] = "open" /\ SetupIs(c, "ready") /\ UNCHANGED sessions
       \/ /\ setup[c] = "acked"
          /\ SetupIs(c, IF conn[c] = "open" THEN "ok" ELSE "failed")
          /\ UNCHANGED sessions
       \/ /\ setup[c] = "ok" /\ c \notin sessions
          /\ sessions' = sessions \cup {c}
          /\ UNCHANGED setup

SetupStep(c) ==
    /\ UNCHANGED <<registry, conn, handler, ask, expiry, closing, client, rel, proxy>>
    /\ \/ /\ setup[c] = "open"
          /\ SetupIs(c, IF conn[c] = "open" THEN "ready" ELSE "failed")
          /\ UNCHANGED sessions
       \/ /\ setup[c] = "ready" /\ conn[c] = "closed"
          /\ SetupIs(c, "failed")
          /\ UNCHANGED sessions
       \/ /\ setup[c] = "acked"
          /\ sessions' = sessions \cup {c}
          /\ SetupIs(c, "routable")
       \/ /\ setup[c] = "routable"
          /\ SetupIs(c, IF conn[c] = "open" THEN "ok" ELSE "failed")
          /\ UNCHANGED sessions

\* The client answers "ready" with "ack", or with something else.
ClientAnswersReady(c) ==
    /\ setup[c] = "ready" /\ conn[c] = "open" /\ client[c] = "dialed"
    /\ SetupIs(c, "acked") \/ SetupIs(c, "failed")
    /\ UNCHANGED <<registry, sessions, conn, handler, ask, expiry, closing, client, rel, proxy>>

SetupResult(c) ==
    /\ At("setup", c) /\ setup[c] \in {"ok", "failed"}
    /\ IF setup[c] = "ok"
       THEN /\ Goto(c, "serving")
            /\ expiry' = [expiry EXCEPT ![c] = IF Expiring THEN "armed" ELSE "off"]
       ELSE Goto(c, "forget") /\ UNCHANGED expiry
    /\ UNCHANGED <<registry, sessions, conn, ask, setup, closing, client, rel, proxy>>

\* The timer may win over a result that is already there.
SetupTimeout(c) ==
    /\ At("setup", c)
    /\ CloseLater(c)
    /\ Goto(c, "forget")
    /\ UNCHANGED <<registry, sessions, conn, ask, setup, expiry, client, rel, proxy>>
-----------------------------------------------------------------------------
(* The end of ServeHTTP: the session closed, then the deferred clean-up. *)

SessionEnded(c) ==
    /\ At("serving", c) /\ conn[c] = "closed"
    /\ expiry' = [expiry EXCEPT ![c] = IF @ = "armed" THEN "off" ELSE @]
    /\ Goto(c, "forget")
    /\ UNCHANGED <<registry, sessions, conn, ask, setup, closing, client, rel, proxy>>

ForgetSession(c) ==
    /\ At("forget", c)
    /\ sessions' = sessions \ {c}
    /\ Goto(c, "release")
    /\ UNCHANGED <<registry, conn, ask, setup, expiry, closing, client, rel, proxy>>

\* A clean-up that only closes the session.
KeepOwnClaim(c) ==
    /\ At("release", c)
    /\ Goto(c, "close")
    /\ UNCHANGED <<registry, sessions, conn, ask, setup, expiry, closing, client, rel, proxy>>

ReleaseOwnClaim(c) ==
    /\ At("release", c)
    /\ Store!Release(ask[c].owner, c)
    /\ Goto(c, "close")
    /\ UNCHANGED <<sessions, conn, ask, setup, expiry, closing, client, rel, proxy>>

CloseOwnSession(c) ==
    /\ At("close", c)
    /\ Close(c)
    /\ Goto(c, "done")
    /\ UNCHANGED <<registry, sessions, ask, setup, expiry, closing, client, rel, proxy>>

\* go func() { session.Close() }()
DeferredClose(c) ==
    /\ c \in closing
    /\ closing' = closing \ {c}
    /\ Close(c)
    /\ UNCHANGED <<registry, sessions, handler, ask, setup, expiry, client, rel, proxy>>
-----------------------------------------------------------------------------
(* expireClaim, on the timer's goroutine. *)

ExpiryIs(c, e) == expiry' = [expiry EXCEPT ![c] = e]

ExpiryFires(c) ==
    /\ expiry[c] = "armed"
    /\ ExpiryIs(c, IF c \in DOMAIN claims THEN "take" ELSE "off")
    /\ UNCHANGED <<registry, sessions, conn, handler, ask, setup, closing, client, rel, proxy>>

ExpiryTakesSession(c) ==
    /\ expiry[c] = "take"
    /\ sessions' = sessions \ {c}
    /\ ExpiryIs(c, IF c \in sessions THEN "release" ELSE "release only")
    /\ UNCHANGED <<registry, conn, handler, ask, setup, closing, client, rel, proxy>>

ExpiryReleases(c) ==
    /\ expiry[c] \in {"release", "release only"}
    /\ Store!Release(ask[c].owner, c)
    /\ ExpiryIs(c, IF expiry[c] = "release" /\ conn[c] = "open" THEN "notify" ELSE "off")
    /\ UNCHANGED <<sessions, conn, handler, ask, setup, closing, client, rel, proxy>>

ExpiryNotifies(c) ==
    /\ expiry[c] = "notify"
    /\ ExpiryIs(c, IF conn[c] = "open" THEN "await" ELSE "off")
    /\ UNCHANGED <<registry, sessions, conn, handler, ask, setup, closing, client, rel, proxy>>

\* acceptStreams acknowledges one terminal frame and then ends, perhaps after the
\* gateway has stopped waiting.
ClientAcksExpiry(c) ==
    /\ expiry[c] \in {"await", "close", "sent"} /\ client[c] = "serving"
    /\ client' = [client EXCEPT ![c] = "stopped"]
    /\ UNCHANGED <<registry, tunnel, rel, proxy>>

\* An expiry that waits for the acknowledgement without a deadline.
ExpiryWaitsForEver(c) ==
    /\ expiry[c] = "await" /\ (conn[c] = "closed" \/ client[c] = "stopped")
    /\ ExpiryIs(c, "close")
    /\ UNCHANGED <<registry, sessions, conn, handler, ask, setup, closing, client, rel, proxy>>

\* The acknowledgement, the stream's deadline, or the end of the session.
ExpiryStopsWaiting(c) ==
    /\ expiry[c] = "await"
    /\ ExpiryIs(c, "close")
    /\ UNCHANGED <<registry, sessions, conn, handler, ask, setup, closing, client, rel, proxy>>

ExpiryCloses(c) ==
    /\ expiry[c] = "close"
    /\ Close(c)
    /\ ExpiryIs(c, "sent")
    /\ UNCHANGED <<registry, sessions, handler, ask, setup, closing, client, rel, proxy>>
-----------------------------------------------------------------------------
(* Server.release and terminateClaim, for a DELETE request. *)

RelAt(d, place) == rel' = [rel EXCEPT ![d].at = place]

DeleteArrives(d) ==
    /\ rel[d].at = "idle"
    /\ \E c \in issued, owner \in Owner :
         rel' = [rel EXCEPT ![d] = [at |-> "lookup", id |-> c, owner |-> owner]]
    /\ UNCHANGED <<registry, tunnel, client, proxy>>

ReleaseLooksUp(d) ==
    /\ rel[d].at = "lookup"
    /\ LET c == rel[d].id IN
         RelAt(d, IF c \notin DOMAIN claims THEN "404"
                  ELSE IF claims[c].owner # rel[d].owner THEN "401"
                  ELSE "session")
    /\ UNCHANGED <<registry, tunnel, client, proxy>>

ReleaseFindsSession(d) ==
    /\ rel[d].at = "session"
    /\ RelAt(d, IF rel[d].id \in sessions /\ conn[rel[d].id] = "open"
                THEN "notify" ELSE "404")
    /\ UNCHANGED <<registry, tunnel, client, proxy>>

\* A release that frees the paths as soon as the frame is written.
ReleaseNotifiesAndFrees(d) ==
    /\ rel[d].at = "notify"
    /\ RelAt(d, IF conn[rel[d].id] = "open" THEN "await" ELSE "409 unsent")
    /\ Store!Release(rel[d].owner, rel[d].id)
    /\ UNCHANGED <<tunnel, client, proxy>>

ReleaseNotifies(d) ==
    /\ rel[d].at = "notify"
    /\ RelAt(d, IF conn[rel[d].id] = "open" THEN "await" ELSE "409 unsent")
    /\ UNCHANGED <<registry, tunnel, client, proxy>>

\* acceptStreams acknowledges the frame, perhaps when nobody waits for it any more.
ClientAcksRelease(d) ==
    /\ rel[d].at \in {"await", "409"} /\ client[rel[d].id] = "serving"
    /\ client' = [client EXCEPT ![rel[d].id] = "stopped"]
    /\ RelAt(d, IF rel[d].at = "await" /\ conn[rel[d].id] = "open" THEN "acked" ELSE rel[d].at)
    /\ UNCHANGED <<registry, tunnel, proxy>>

\* A release that takes the end of the wait for an acknowledgement.
ReleaseAssumesAck(d) ==
    /\ rel[d].at \in {"await", "acked"}
    /\ CloseLater(rel[d].id)
    /\ RelAt(d, "release")
    /\ UNCHANGED <<registry, sessions, conn, handler, ask, setup, expiry, client, proxy>>

ReleaseReadsAck(d) ==
    /\ rel[d].at = "acked"
    /\ CloseLater(rel[d].id)
    /\ RelAt(d, "release")
    /\ UNCHANGED <<registry, sessions, conn, handler, ask, setup, expiry, client, proxy>>

\* A release whose stream has no deadline.
ReleaseWaitsForEver(d) ==
    /\ rel[d].at \in {"await", "acked"} /\ conn[rel[d].id] = "closed"
    /\ RelAt(d, "409")
    /\ UNCHANGED <<registry, tunnel, client, proxy>>

\* The deadline passes or the session ends, even if the client has acknowledged.
ReleaseFails(d) ==
    /\ rel[d].at \in {"await", "acked"}
    /\ RelAt(d, "409")
    /\ UNCHANGED <<registry, tunnel, client, proxy>>

ReleaseFrees(d) ==
    /\ rel[d].at = "release"
    /\ Store!Release(rel[d].owner, rel[d].id)
    /\ RelAt(d, "204")
    /\ UNCHANGED <<tunnel, client, proxy>>
-----------------------------------------------------------------------------
(* ProxyByPath, for a request that arrives on the public host. *)

ProxyAt(q, place) == proxy' = [proxy EXCEPT ![q].at = place]

RequestArrives(q) ==
    /\ proxy[q].at = "idle"
    /\ \E path \in Request : proxy' = [proxy EXCEPT ![q].at = "match", ![q].path = path]
    /\ UNCHANGED <<registry, tunnel, client, rel>>

\* matchClaim: the claim with the longest matching base.
BestClaims(path) ==
    {c \in Store!Claimants(path) :
       \E p \in claims[c].paths : /\ Store!Match(p, path)
         /\ \A d \in Store!Claimants(path) : \A o \in claims[d].paths :
              Store!Match(o, path) => Store!Specificity(o) <= Store!Specificity(p)}

\* The result of matchClaim used without its ok.
MatchUnchecked(q) ==
    /\ proxy[q].at = "match"
    /\ \E c \in BestClaims(proxy[q].path) \cup {None} :
         proxy' = [proxy EXCEPT ![q].at = "session", ![q].claim = c]
    /\ UNCHANGED <<registry, tunnel, client, rel>>

MatchClaim(q) ==
    /\ proxy[q].at = "match"
    /\ IF BestClaims(proxy[q].path) = {}
       THEN ProxyAt(q, "origin")
       ELSE \E c \in BestClaims(proxy[q].path) :
              proxy' = [proxy EXCEPT ![q].at = "session", ![q].claim = c]
    /\ UNCHANGED <<registry, tunnel, client, rel>>

\* A tunnel that is used only once its handler has seen the setup succeed.
SelectSettled(q) ==
    /\ proxy[q].at = "session"
    /\ LET c == proxy[q].claim IN
         ProxyAt(q, IF At("serving", c) /\ conn[c] = "open" THEN "dial" ELSE "origin")
    /\ UNCHANGED <<registry, tunnel, client, rel>>

\* Whether there is a tunnel to dispatch to; false means the origin answers.
SelectSession(q) ==
    /\ proxy[q].at = "session"
    /\ LET c == proxy[q].claim IN
         ProxyAt(q, IF c \in sessions /\ conn[c] = "open" THEN "dial" ELSE "origin")
    /\ UNCHANGED <<registry, tunnel, client, rel>>

Dial(q) ==
    /\ proxy[q].at = "dial"
    /\ ProxyAt(q, IF conn[proxy[q].claim] = "open" THEN "sent" ELSE "502")
    /\ UNCHANGED <<registry, tunnel, client, rel>>

\* A dispatched stream without an idle timeout.
AnswerWithoutTimeout(q) ==
    /\ proxy[q].at = "sent"
    /\ \/ /\ conn[proxy[q].claim] = "open" /\ client[proxy[q].claim] = "serving"
          /\ ProxyAt(q, "200") \/ ProxyAt(q, "502")
       \/ conn[proxy[q].claim] = "closed" /\ ProxyAt(q, "502")
    /\ UNCHANGED <<registry, tunnel, client, rel>>

\* The client's service answers or cannot be reached, the tunnel breaks, or the
\* stream stays idle.
Answer(q) ==
    /\ proxy[q].at = "sent"
    /\ \/ /\ conn[proxy[q].claim] = "open" /\ client[proxy[q].claim] = "serving"
          /\ ProxyAt(q, "200") \/ ProxyAt(q, "502")
       \/ conn[proxy[q].claim] = "closed" /\ ProxyAt(q, "502")
       \/ ProxyAt(q, "504")
    /\ UNCHANGED <<registry, tunnel, client, rel>>
-----------------------------------------------------------------------------
(* The other end, and the connection between. *)

ClientIs(c, s) == client' = [client EXCEPT ![c] = s]

\* The client reads "ok", which may be all it still gets, and starts to accept streams.
ClientServes(c) ==
    /\ setup[c] = "ok" /\ client[c] = "dialed"
    /\ ClientIs(c, "serving")
    /\ UNCHANGED <<registry, tunnel, rel, proxy>>

\* The client sees its session end: it crashed, was closed, or lost its network.
ClientLeaves(c) ==
    /\ client[c] \in {"dialed", "serving"}
    /\ ClientIs(c, IF client[c] = "serving" THEN "lost" ELSE "left")
    /\ UNCHANGED <<registry, tunnel, rel, proxy>>

\* The gateway finds the connection broken, perhaps before the client does.
ConnectionBreaks(c) ==
    /\ conn[c] = "open"
    /\ Close(c)
    /\ UNCHANGED <<registry, sessions, handler, ask, setup, expiry, closing, client, rel, proxy>>

\* A configuration without keep-alive.
NoKeepAlive(c) == FALSE /\ UNCHANGED vars

\* yamuxConfig enables keep-alive: an open session whose other end is gone, unnoticed
\* by the gateway, does not stay open.
KeepAlive(c) == client[c] \notin {"dialed", "serving"} /\ ConnectionBreaks(c)
-----------------------------------------------------------------------------
Init ==
    /\ Store!Init
    /\ sessions = {} /\ closing = {}
    /\ conn = [c \in ClaimID |-> "none"]
    /\ handler = [c \in ClaimID |-> "idle"]
    /\ ask = [c \in ClaimID |-> NoAsk]
    /\ setup = [c \in ClaimID |-> "none"]
    /\ expiry = [c \in ClaimID |-> "off"]
    /\ client = [c \in ClaimID |-> "none"]
    /\ rel = [d \in Releaser |-> [at |-> "idle", id |-> None, owner |-> None]]
    /\ proxy = [q \in Caller |-> [at |-> "idle", path |-> None, claim |-> None]]
    /\ routed = [q \in Caller |-> {}]

Handshake(c) ==
    \/ LookupReplaced(c) \/ CloseReplaced(c) \/ ReleaseReplaced(c)
    \/ CreateClaim(c) \/ AcceptUpgrade(c) \/ FailUpgrade(c)
    \/ SetupResult(c) \/ SetupTimeout(c)

CleanUp(c) ==
    SessionEnded(c) \/ ForgetSession(c) \/ ReleaseOwnClaim(c) \/ CloseOwnSession(c)

Expire(c) ==
    \/ ExpiryTakesSession(c) \/ ExpiryReleases(c)
    \/ ExpiryNotifies(c) \/ ExpiryStopsWaiting(c) \/ ExpiryCloses(c)

ReleaseStep(d) ==
    \/ ReleaseLooksUp(d) \/ ReleaseFindsSession(d) \/ ReleaseNotifies(d)
    \/ ReleaseReadsAck(d) \/ ReleaseFails(d) \/ ReleaseFrees(d)

ProxyStep(q) == MatchClaim(q) \/ SelectSession(q) \/ Dial(q) \/ Answer(q)

Environment ==
    \/ \E c \in ClaimID :
         \/ TunnelRequest(c) \/ ClientAnswersReady(c) \/ ClientServes(c)
         \/ ClientAcksExpiry(c) \/ ClientLeaves(c) \/ ConnectionBreaks(c)
    \/ \E d \in Releaser : DeleteArrives(d) \/ ClientAcksRelease(d)
    \/ \E q \in Caller : RequestArrives(q)

Step ==
    \/ Environment
    \/ \E c \in ClaimID :
         \/ Handshake(c) \/ SetupStep(c) \/ CleanUp(c) \/ DeferredClose(c)
         \/ ExpiryFires(c) \/ Expire(c)
    \/ \E d \in Releaser : ReleaseStep(d)
    \/ \E q \in Caller : ProxyStep(q)

\* Which claims a request could have been routed to in every state since it
\* arrived; history only, no step depends on it.
Track ==
    routed' = [q \in Caller |->
        IF proxy'[q].at \notin {"match", "session", "origin"} THEN {}
        ELSE IF proxy[q].at = "idle" THEN RoutableFor(proxy'[q].path)
        ELSE routed[q] \cap Routable']

Next == Step /\ Track

\* Goroutines make progress and deadlines pass; clients and the network need not
\* act, and a claim's lifetime may be longer than any behaviour of interest.
Fairness ==
    /\ \A c \in ClaimID :
         /\ WF_vars(Handshake(c) /\ Track) /\ WF_vars(SetupStep(c) /\ Track)
         /\ WF_vars(CleanUp(c) /\ Track) /\ WF_vars(DeferredClose(c) /\ Track)
         /\ WF_vars(Expire(c) /\ Track) /\ WF_vars(KeepAlive(c) /\ Track)
    /\ \A d \in Releaser : WF_vars(ReleaseStep(d) /\ Track)
    /\ \A q \in Caller : WF_vars(ProxyStep(q) /\ Track)

Spec == Init /\ [][Next]_vars
FairSpec == Spec /\ Fairness
-----------------------------------------------------------------------------
TypeOK ==
    /\ Store!TypeOK
    /\ sessions \subseteq issued /\ closing \subseteq issued
    /\ conn \in [ClaimID -> {"none", "open", "closed"}]
    /\ handler \in [ClaimID -> {"idle", "lookup", "close old", "release old", "create",
                               "accept", "setup", "serving", "forget", "release",
                               "close", "done", "refused"}]
    /\ setup \in [ClaimID -> {"none", "open", "ready", "acked", "routable", "ok", "failed"}]
    /\ expiry \in [ClaimID -> {"off", "armed", "take", "release", "release only",
                              "notify", "await", "close", "sent"}]
    /\ client \in [ClaimID -> {"none", "dialed", "serving", "lost", "left", "stopped"}]
    /\ \A c \in ClaimID : At("idle", c) \/
         /\ ask[c].owner \in Owner /\ ask[c].paths \in Requested
         /\ ask[c].replaces \in issued \cup {None}
    /\ \A d \in Releaser :
         /\ rel[d].at \in {"idle", "lookup", "session", "notify", "await", "acked",
                          "release", "204", "401", "404", "409", "409 unsent"}
         /\ rel[d].at # "idle" => rel[d].id \in issued /\ rel[d].owner \in Owner
    /\ \A q \in Caller :
         /\ proxy[q].at \in {"idle", "match", "session", "dial", "sent",
                            "origin", "200", "502", "504"}
         /\ proxy[q].at # "idle" => proxy[q].path \in Request
         /\ proxy[q].at \in {"session", "dial", "sent", "200", "502", "504"} =>
              proxy[q].claim \in issued

\* Every claim in the registry has a handler that is still going to release it:
\* no failed upgrade, replacement, timeout or expiry strands a claim.
ClaimsHaveHandlers ==
    \A c \in DOMAIN claims :
        handler[c] \in {"accept", "setup", "serving", "forget", "release"}

\* A request answered by the origin had no tunnel: no claim that matches it was
\* routable in every state from its arrival to the decision.
OriginOnlyWhenUnclaimed ==
    \A q \in Caller : proxy[q].at = "origin" => routed[q] = {}

\* A reconnecting client's old claim is out of the registry before its new one is
\* checked, however late the old handler notices, so it cannot conflict with it.
ReplacedIsFree ==
    \A c \in ClaimID : At("create", c) => ask[c].replaces \notin DOMAIN claims

\* A release answered with 204 is final: its client has acknowledged and stopped,
\* and the paths are free.
ReleaseIsFinal ==
    \A d \in Releaser : rel[d].at = "204" =>
        client[rel[d].id] = "stopped" /\ rel[d].id \notin DOMAIN claims

\* While a client is serving over an open session its claim is taken away only by
\* expiry, or by the clean-up of a handshake whose timer won the race.
LiveClaimsKept ==
    [][\A c \in DOMAIN claims \ DOMAIN claims' :
         conn[c] = "open" /\ client[c] = "serving" =>
            \/ expiry[c] \in {"release", "release only"}
            \/ At("release", c)]_vars

\* A claim whose session closed, or whose client is gone, perhaps without the
\* gateway noticing, is released in the end.
DeadSessionsFree ==
    \A c \in ClaimID :
        conn[c] = "closed" \/ client[c] \in {"lost", "left", "stopped"} ~> c \notin DOMAIN claims

\* A client that never finishes the handshake does not hold its paths for ever: every
\* set-up ends in service, or with its claim released.
SetupEnds ==
    \A c \in ClaimID : At("setup", c) ~> At("serving", c) \/ c \notin DOMAIN claims

\* An expired claim ends, tunnel and paths, even if its client never answers.
ExpiryEnds ==
    \A c \in ClaimID : expiry[c] = "take" ~> conn[c] = "closed" /\ c \notin DOMAIN claims

\* Every release request is answered.
ReleasesAnswered ==
    \A d \in Releaser : rel[d].at = "lookup" ~> rel[d].at \in {"204", "401", "404", "409", "409 unsent"}

\* Every third-party request is answered, by the tunnel, the origin or an error.
RequestsAnswered ==
    \A q \in Caller : proxy[q].at = "match" ~> proxy[q].at \in {"origin", "200", "502", "504"}
=============================================================================
