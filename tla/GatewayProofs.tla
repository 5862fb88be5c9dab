--------------------------- MODULE GatewayProofs ---------------------------
(***************************************************************************)
(* The gateway's invariants for any number of handshakes, release requests *)
(* and proxied requests.  The inductive invariant IInv follows a claim     *)
(* through its handler's stages; it does not need to know what the         *)
(* registry holds.  From it comes the refinement of the registry, from the *)
(* refinement the registry's theorems about a gateway's claims, and from   *)
(* those what the router may rely on (Routed).                             *)
(***************************************************************************)
EXTENDS Gateway, TLAPS

Before == {"idle", "lookup", "close old", "release old", "create"}
Upgraded == {"setup", "serving", "forget", "release", "close", "done"}
Holding == {"accept", "setup", "serving", "forget", "release"}

Asks == [owner : Owner \cup {None}, paths : Requested \cup {<< >>},
         replaces : ClaimID \cup {None}]

ReleasePlace == {"idle", "lookup", "session", "notify", "await", "acked", "release",
                 "204", "401", "404", "409", "409 unsent"}

Releases == [at : ReleasePlace, id : ClaimID \cup {None}, owner : Owner \cup {None}]

Proxied == [at : {"idle", "match", "session", "dial", "sent", "origin", "200", "502", "504"},
            path : Request \cup {None}, claim : ClaimID \cup {None}]

\* What the variables range over, without what the registry says of claims.
Types ==
    /\ DOMAIN claims \subseteq issued /\ issued \subseteq ClaimID
    /\ sessions \subseteq issued /\ closing \subseteq issued
    /\ conn \in [ClaimID -> {"none", "open", "closed"}]
    /\ handler \in [ClaimID -> Before \cup Upgraded \cup {"accept", "refused"}]
    /\ setup \in [ClaimID -> {"none", "open", "ready", "acked", "routable", "ok", "failed"}]
    /\ expiry \in [ClaimID -> {"off", "armed", "take", "release", "release only",
                              "notify", "await", "close", "sent"}]
    /\ client \in [ClaimID -> {"none", "dialed", "serving", "lost", "left", "stopped"}]
    /\ ask \in [ClaimID -> Asks] /\ rel \in [Releaser -> Releases]
    /\ proxy \in [Caller -> Proxied]

\* Whoever has started knows what it was asked, and names issued claims only.
Asked ==
    /\ \A c \in ClaimID :
         /\ ask[c].replaces \in issued \cup {None}
         /\ ~At("idle", c) => ask[c].owner \in Owner /\ ask[c].paths \in Requested
    /\ \A d \in Releaser : rel[d].at # "idle" => rel[d].id \in issued /\ rel[d].owner \in Owner
    /\ \A q \in Caller :
         /\ proxy[q].at # "idle" => proxy[q].path \in Request
         /\ proxy[q].at \notin {"idle", "match", "origin"} => proxy[q].claim \in issued

\* How far a handler got decides whether its claim was issued, and whether there
\* is a session with its goroutines.
StageOf(c) ==
    /\ handler[c] \in Before => c \notin issued
    /\ handler[c] \in Upgraded \cup {"accept"} => c \in issued
    /\ IF handler[c] \in Upgraded
       THEN conn[c] # "none" /\ setup[c] # "none" /\ client[c] # "none"
       ELSE /\ conn[c] = "none" /\ setup[c] = "none" /\ client[c] = "none"
            /\ expiry[c] = "off" /\ c \notin sessions /\ c \notin closing
    /\ At("done", c) => conn[c] = "closed"

Stages == \A c \in ClaimID : StageOf(c)

\* A held claim belongs to a handler that is still going to release it, and to the
\* owner that handler will name.
Held ==
    \A c \in DOMAIN claims : handler[c] \in Holding /\ claims[c].owner = ask[c].owner

\* A replaced claim lost its client, and once the handler has looked it up it is
\* either gone or the replacing client's own.
Replacing ==
    \A c \in ClaimID : LET old == ask[c].replaces IN
        /\ old # None => client[old] \in {"lost", "stopped"}
        /\ handler[c] \in {"close old", "release old"} =>
             (old \in DOMAIN claims => claims[old].owner = ask[c].owner)
        /\ At("create", c) => old \notin DOMAIN claims

\* A release request that found its claim has its owner's token for as long as the
\* claim is there, and goes past the acknowledgement only with one.
Releasing ==
    \A d \in Releaser :
        /\ rel[d].at \in {"session", "notify", "await", "acked", "release"} =>
             (rel[d].id \in DOMAIN claims => claims[rel[d].id].owner = rel[d].owner)
        /\ rel[d].at \in {"acked", "release", "204"} => client[rel[d].id] = "stopped"
        /\ rel[d].at = "204" => rel[d].id \notin DOMAIN claims

\* The claims that were routable for a request ever since it arrived.
Routed ==
    \A q \in Caller :
        /\ proxy[q].at = "match" => routed[q] \subseteq RoutableFor(proxy[q].path)
        /\ proxy[q].at = "session" => routed[q] \subseteq {proxy[q].claim} \cap Routable
        /\ proxy[q].at = "origin" => routed[q] = {}

IInv == Types /\ Asked /\ Stages /\ Held /\ Replacing /\ Releasing
-----------------------------------------------------------------------------
\* What the steps of each actor leave alone.
LEMMA Frames ==
    /\ \A c \in ClaimID :
         /\ TunnelRequest(c) =>
              UNCHANGED <<claims, issued, sessions, conn, setup, expiry, closing, client, rel, proxy>>
         /\ Handshake(c) => UNCHANGED <<sessions, ask, rel, proxy>>
         /\ SetupStep(c) \/ ClientAnswersReady(c) =>
              UNCHANGED <<claims, issued, conn, handler, ask, expiry, closing, client, rel, proxy>>
         /\ CleanUp(c) => UNCHANGED <<issued, ask, setup, closing, client, rel, proxy>>
         /\ DeferredClose(c) \/ ConnectionBreaks(c) =>
              UNCHANGED <<claims, issued, sessions, handler, ask, setup, expiry, client, rel, proxy>>
         /\ ExpiryFires(c) \/ Expire(c) =>
              UNCHANGED <<issued, handler, ask, setup, closing, client, rel, proxy>>
         /\ ClientServes(c) \/ ClientAcksExpiry(c) \/ ClientLeaves(c) =>
              UNCHANGED <<claims, issued, tunnel, rel, proxy>>
    /\ \A d \in Releaser :
         /\ DeleteArrives(d) \/ ClientAcksRelease(d) => UNCHANGED <<claims, issued, tunnel, proxy>>
         /\ ReleaseStep(d) =>
              UNCHANGED <<issued, sessions, conn, handler, ask, setup, expiry, client, proxy>>
    /\ \A q \in Caller :
         RequestArrives(q) \/ ProxyStep(q) => UNCHANGED <<claims, issued, tunnel, client, rel>>
<1> USE DEF registry, tunnel
<1>1. ASSUME NEW c \in ClaimID
      PROVE  /\ TunnelRequest(c) =>
                  UNCHANGED <<claims, issued, sessions, conn, setup, expiry, closing, client, rel, proxy>>
             /\ Handshake(c) => UNCHANGED <<sessions, ask, rel, proxy>>
  BY DEF TunnelRequest, Handshake, LookupReplaced, CloseReplaced, ReleaseReplaced, CreateClaim,
         AcceptUpgrade, FailUpgrade, SetupResult, SetupTimeout
<1>2. ASSUME NEW c \in ClaimID
      PROVE  /\ SetupStep(c) \/ ClientAnswersReady(c) =>
                  UNCHANGED <<claims, issued, conn, handler, ask, expiry, closing, client, rel, proxy>>
             /\ CleanUp(c) => UNCHANGED <<issued, ask, setup, closing, client, rel, proxy>>
  BY DEF SetupStep, ClientAnswersReady, CleanUp, SessionEnded, ForgetSession, ReleaseOwnClaim,
         CloseOwnSession, Store!Release
<1>3. ASSUME NEW c \in ClaimID
      PROVE  /\ DeferredClose(c) \/ ConnectionBreaks(c) =>
                  UNCHANGED <<claims, issued, sessions, handler, ask, setup, expiry, client, rel, proxy>>
             /\ ExpiryFires(c) \/ Expire(c) =>
                  UNCHANGED <<issued, handler, ask, setup, closing, client, rel, proxy>>
             /\ ClientServes(c) \/ ClientAcksExpiry(c) \/ ClientLeaves(c) =>
                  UNCHANGED <<claims, issued, tunnel, rel, proxy>>
  BY DEF DeferredClose, ConnectionBreaks, ExpiryFires, Expire, ExpiryTakesSession, ExpiryReleases,
         ExpiryNotifies, ExpiryStopsWaiting, ExpiryCloses, Store!Release,
         ClientServes, ClientAcksExpiry, ClientLeaves
<1>4. ASSUME NEW d \in Releaser
      PROVE  /\ DeleteArrives(d) \/ ClientAcksRelease(d) => UNCHANGED <<claims, issued, tunnel, proxy>>
             /\ ReleaseStep(d) =>
                  UNCHANGED <<issued, sessions, conn, handler, ask, setup, expiry, client, proxy>>
  BY DEF DeleteArrives, ClientAcksRelease, ReleaseStep, ReleaseLooksUp, ReleaseFindsSession,
         ReleaseNotifies, ReleaseReadsAck, ReleaseFails, ReleaseFrees, Store!Release
<1>5. ASSUME NEW q \in Caller
      PROVE  RequestArrives(q) \/ ProxyStep(q) => UNCHANGED <<claims, issued, tunnel, client, rel>>
  BY DEF RequestArrives, ProxyStep, MatchClaim, SelectSession, Dial, Answer
<1> QED
  BY <1>1, <1>2, <1>3, <1>4, <1>5

\* What a release does to the registry: it takes at most one claim out, and does
\* take it out when it names its owner.
LEMMA StoreRelease ==
    ASSUME NEW owner, NEW id, Store!Release(owner, id)
    PROVE  /\ issued' = issued
           /\ DOMAIN claims' \subseteq DOMAIN claims
           /\ DOMAIN claims \ DOMAIN claims' \subseteq {id}
           /\ \A c \in DOMAIN claims' : claims'[c] = claims[c]
           /\ (id \in DOMAIN claims => claims[id].owner = owner) => id \notin DOMAIN claims'
BY DEF Store!Release

\* What an accepted creation does to the registry.
LEMMA StoreCreate ==
    ASSUME NEW owner, NEW id, NEW paths, Store!Create(id, owner, paths),
           Store!Accepted(owner, paths)
    PROVE  /\ id \in ClaimID /\ id \notin issued
           /\ issued' = issued \cup {id} /\ DOMAIN claims' = DOMAIN claims \cup {id}
           /\ claims'[id].owner = owner
           /\ \A c \in DOMAIN claims \ {id} : claims'[c] = claims[c]
BY DEF Store!Create

\* A creation that is not accepted changes nothing.
LEMMA StoreRefuse ==
    ASSUME NEW owner, NEW id, NEW paths, Store!Create(id, owner, paths),
           ~Store!Accepted(owner, paths)
    PROVE  id \in ClaimID /\ id \notin issued /\ claims' = claims /\ issued' = issued
BY DEF Store!Create

\* The only steps that change the registry.
LEMMA RegistrySteps ==
    ASSUME Next
    PROVE  \/ UNCHANGED <<claims, issued>>
           \/ \E c \in ClaimID : \/ CreateClaim(c) \/ ReleaseReplaced(c) \/ FailUpgrade(c)
                                 \/ ReleaseOwnClaim(c) \/ ExpiryReleases(c)
           \/ \E d \in Releaser : ReleaseFrees(d)
<1>1. ASSUME NEW c \in ClaimID, Handshake(c)
      PROVE  \/ UNCHANGED <<claims, issued>>
             \/ CreateClaim(c) \/ ReleaseReplaced(c) \/ FailUpgrade(c)
  BY <1>1 DEF Handshake, LookupReplaced, CloseReplaced, AcceptUpgrade, SetupResult, SetupTimeout,
         registry
<1>2. ASSUME NEW c \in ClaimID, CleanUp(c) \/ ExpiryFires(c) \/ Expire(c)
      PROVE  UNCHANGED <<claims, issued>> \/ ReleaseOwnClaim(c) \/ ExpiryReleases(c)
  BY <1>2 DEF CleanUp, SessionEnded, ForgetSession, CloseOwnSession, ExpiryFires, Expire,
         ExpiryTakesSession, ExpiryNotifies, ExpiryStopsWaiting, ExpiryCloses, registry
<1>3. ASSUME NEW d \in Releaser, ReleaseStep(d)
      PROVE  UNCHANGED <<claims, issued>> \/ ReleaseFrees(d)
  BY <1>3 DEF ReleaseStep, ReleaseLooksUp, ReleaseFindsSession, ReleaseNotifies, ReleaseReadsAck,
         ReleaseFails, registry
<1> QED
  BY <1>1, <1>2, <1>3, Frames DEF Next, Step, Environment

\* Claims enter the registry with a new identity, leave it for good, and do not
\* change in between.
LEMMA RegistryMoves ==
    ASSUME DOMAIN claims \subseteq issued, issued \subseteq ClaimID, Next
    PROVE  /\ DOMAIN claims' \subseteq issued' /\ issued' \subseteq ClaimID
           /\ issued \subseteq issued'
           /\ DOMAIN claims' \cap issued \subseteq DOMAIN claims
           /\ \A c \in DOMAIN claims \cap DOMAIN claims' : claims'[c] = claims[c]
<1>1. ASSUME NEW c \in ClaimID, CreateClaim(c)
      PROVE  \E owner, paths : Store!Create(c, owner, paths)
  BY <1>1 DEF CreateClaim
<1>2. ASSUME NEW c \in ClaimID,
             ReleaseReplaced(c) \/ FailUpgrade(c) \/ ReleaseOwnClaim(c) \/ ExpiryReleases(c)
      PROVE  \E owner, id : Store!Release(owner, id)
  BY <1>2 DEF ReleaseReplaced, FailUpgrade, ReleaseOwnClaim, ExpiryReleases
<1>3. ASSUME NEW d \in Releaser, ReleaseFrees(d)
      PROVE  \E owner, id : Store!Release(owner, id)
  BY <1>3 DEF ReleaseFrees
<1>4. ASSUME NEW owner, NEW id, NEW paths, Store!Create(id, owner, paths)
      PROVE  /\ DOMAIN claims' \subseteq issued' /\ issued' \subseteq ClaimID
             /\ issued \subseteq issued'
             /\ DOMAIN claims' \cap issued \subseteq DOMAIN claims
             /\ \A c \in DOMAIN claims \cap DOMAIN claims' : claims'[c] = claims[c]
  <2>1. CASE Store!Accepted(owner, paths)
    <3>1. /\ id \in ClaimID /\ id \notin issued
          /\ issued' = issued \cup {id} /\ DOMAIN claims' = DOMAIN claims \cup {id}
          /\ \A c \in DOMAIN claims \ {id} : claims'[c] = claims[c]
      BY <1>4, <2>1, StoreCreate
    <3> QED
      BY <3>1
  <2>2. CASE ~Store!Accepted(owner, paths)
    BY <1>4, <2>2, StoreRefuse
  <2> QED
    BY <2>1, <2>2
<1>5. ASSUME NEW owner, NEW id, Store!Release(owner, id)
      PROVE  /\ issued' = issued /\ DOMAIN claims' \subseteq DOMAIN claims
             /\ \A c \in DOMAIN claims \cap DOMAIN claims' : claims'[c] = claims[c]
  BY <1>5, StoreRelease
<1>6. CASE \E c \in ClaimID : CreateClaim(c)
  BY <1>1, <1>4, <1>6
<1>7. CASE ~\E c \in ClaimID : CreateClaim(c)
  <2>1. /\ issued' = issued /\ DOMAIN claims' \subseteq DOMAIN claims
        /\ \A c \in DOMAIN claims \cap DOMAIN claims' : claims'[c] = claims[c]
    BY <1>2, <1>3, <1>5, <1>7, RegistrySteps
  <2> QED
    BY <2>1
<1> QED
  BY <1>6, <1>7
-----------------------------------------------------------------------------
\* One variable at a time: the steps that change it, and the values they give it.
LEMMA NextTypes ==
    ASSUME Types, Asked, Stages, Next
    PROVE  Types'
<1>1. /\ DOMAIN claims' \subseteq issued' /\ issued' \subseteq ClaimID
      /\ issued \subseteq issued'
  BY RegistryMoves DEF Types
<1>2. sessions' \subseteq issued'
  <2>1. ASSUME NEW c \in ClaimID, SetupStep(c)
        PROVE  sessions' \subseteq sessions \cup {c} /\ c \in issued
    <3>1. setup[c] # "none"
      BY <2>1 DEF SetupStep
    <3>2. sessions' \subseteq sessions \cup {c}
      BY <2>1 DEF SetupStep
    <3> QED
      BY <3>1, <3>2 DEF Stages, StageOf
  <2>2. ASSUME NEW c \in ClaimID, CleanUp(c) \/ Expire(c) \/ ExpiryFires(c) \/ ClientAnswersReady(c)
        PROVE  sessions' \subseteq sessions
    BY <2>2 DEF CleanUp, SessionEnded, ForgetSession, ReleaseOwnClaim, CloseOwnSession,
           Expire, ExpiryFires, ExpiryTakesSession, ExpiryReleases, ExpiryNotifies, ExpiryStopsWaiting,
           ExpiryCloses, ClientAnswersReady
  <2>3. sessions \subseteq issued
    BY DEF Types
  <2> QED
    BY <1>1, <2>1, <2>2, <2>3, Frames DEF Next, Step, Environment, tunnel
<1>3. closing' \subseteq issued'
  <2>1. sessions \subseteq issued /\ closing \subseteq issued
    BY DEF Types
  <2>2. ASSUME NEW c \in ClaimID, Handshake(c)
        PROVE  closing' \subseteq issued
    BY <2>1, <2>2 DEF Stages, StageOf, Upgraded, Handshake, LookupReplaced, CloseReplaced, ReleaseReplaced,
           CreateClaim, AcceptUpgrade, FailUpgrade, SetupResult, SetupTimeout, At, CloseLater
  <2>3. ASSUME NEW d \in Releaser, ReleaseStep(d)
        PROVE  closing' = closing \/ closing' \subseteq issued
    <3>1. CASE ReleaseReadsAck(d)
      BY <2>1, <3>1 DEF Asked, ReleaseReadsAck, CloseLater
    <3>2. CASE ~ReleaseReadsAck(d)
      BY <2>3, <3>2 DEF ReleaseStep, ReleaseLooksUp, ReleaseFindsSession, ReleaseNotifies,
             ReleaseFails, ReleaseFrees, tunnel
    <3> QED
      BY <3>1, <3>2
  <2>4. ASSUME NEW c \in ClaimID, DeferredClose(c) \/ ConnectionBreaks(c)
        PROVE  closing' \subseteq closing
    BY <2>4 DEF DeferredClose, ConnectionBreaks
  <2> QED
    BY <1>1, <2>1, <2>2, <2>3, <2>4, Frames DEF Next, Step, Environment, tunnel
<1>4. handler' \in [ClaimID -> Before \cup Upgraded \cup {"accept", "refused"}]
  <2> DEFINE Handlers == Before \cup Upgraded \cup {"accept", "refused"}
  <2>1. ASSUME NEW c \in ClaimID, TunnelRequest(c) \/ Handshake(c)
        PROVE  \E place \in Handlers : Goto(c, place)
    <3>1. CASE TunnelRequest(c) \/ LookupReplaced(c) \/ CloseReplaced(c)
      BY <3>1 DEF Before, TunnelRequest, LookupReplaced, CloseReplaced
    <3>2. CASE ReleaseReplaced(c) \/ CreateClaim(c) \/ FailUpgrade(c)
      BY <3>2 DEF Before, ReleaseReplaced, CreateClaim, FailUpgrade
    <3>3. CASE AcceptUpgrade(c) \/ SetupResult(c) \/ SetupTimeout(c)
      BY <3>3 DEF Upgraded, AcceptUpgrade, SetupResult, SetupTimeout
    <3> QED
      BY <2>1, <3>1, <3>2, <3>3 DEF Handshake
  <2>2. ASSUME NEW c \in ClaimID, CleanUp(c)
        PROVE  \E place \in Handlers : Goto(c, place)
    BY <2>2 DEF Upgraded, CleanUp, SessionEnded, ForgetSession, ReleaseOwnClaim, CloseOwnSession
  <2>3. handler \in [ClaimID -> Handlers]
    BY DEF Types
  <2> HIDE DEF Handlers
  <2>4. handler' \in [ClaimID -> Handlers]
    BY <2>1, <2>2, <2>3, Frames DEF Goto, Next, Step, Environment, tunnel
  <2> QED
    BY <2>4 DEF Handlers
<1>5. conn' \in [ClaimID -> {"none", "open", "closed"}]
  <2>1. ASSUME NEW c \in ClaimID,
               \/ Handshake(c) \/ CleanUp(c) \/ DeferredClose(c) \/ ConnectionBreaks(c)
               \/ Expire(c) \/ ExpiryFires(c)
        PROVE  conn' = conn \/ \E s \in {"open", "closed"} : conn' = [conn EXCEPT ![c] = s]
    BY <2>1 DEF Close, Handshake, LookupReplaced, CloseReplaced,
           ReleaseReplaced, CreateClaim, AcceptUpgrade, FailUpgrade, SetupResult, SetupTimeout,
           CleanUp, SessionEnded, ForgetSession, ReleaseOwnClaim, CloseOwnSession,
           DeferredClose, ConnectionBreaks, Expire, ExpiryFires, ExpiryTakesSession, ExpiryReleases,
           ExpiryNotifies, ExpiryStopsWaiting, ExpiryCloses
  <2> QED
    BY <2>1, Frames DEF Types, Next, Step, Environment, tunnel
<1>6. setup' \in [ClaimID -> {"none", "open", "ready", "acked", "routable", "ok", "failed"}]
  <2>1. ASSUME NEW c \in ClaimID, SetupStep(c) \/ Handshake(c) \/ ClientAnswersReady(c)
        PROVE  setup' = setup \/ \E s \in {"open", "ready", "acked", "routable", "ok", "failed"} :
                                    SetupIs(c, s)
    BY <2>1 DEF SetupStep, ClientAnswersReady, SetupIs, Handshake, LookupReplaced, CloseReplaced,
           ReleaseReplaced, CreateClaim, AcceptUpgrade, FailUpgrade, SetupResult, SetupTimeout
  <2> QED
    BY <2>1, Frames DEF Types, SetupIs, Next, Step, Environment, tunnel
<1>7. expiry' \in [ClaimID -> {"off", "armed", "take", "release", "release only",
                              "notify", "await", "close", "sent"}]
  <2>1. ASSUME NEW c \in ClaimID, Handshake(c) \/ CleanUp(c) \/ Expire(c) \/ ExpiryFires(c)
        PROVE  expiry' = expiry \/ \E e \in {"off", "armed", "take", "release", "release only",
                                             "notify", "await", "close", "sent"} : ExpiryIs(c, e)
    BY <2>1 DEF Types, ExpiryIs, Handshake, LookupReplaced, CloseReplaced,
           ReleaseReplaced, CreateClaim, AcceptUpgrade, FailUpgrade, SetupResult, SetupTimeout,
           CleanUp, SessionEnded, ForgetSession, ReleaseOwnClaim, CloseOwnSession,
           Expire, ExpiryFires, ExpiryTakesSession, ExpiryReleases,
           ExpiryNotifies, ExpiryStopsWaiting, ExpiryCloses
  <2> QED
    BY <2>1, Frames DEF Types, ExpiryIs, Next, Step, Environment, tunnel
<1>8. client' \in [ClaimID -> {"none", "dialed", "serving", "lost", "left", "stopped"}]
  <2>1. ASSUME NEW c \in ClaimID,
               Handshake(c) \/ ClientServes(c) \/ ClientAcksExpiry(c) \/ ClientLeaves(c)
        PROVE  client' = client \/ \E s \in {"dialed", "serving", "lost", "left", "stopped"} :
                                      ClientIs(c, s)
    BY <2>1 DEF ClientIs, Handshake, LookupReplaced, CloseReplaced,
           ReleaseReplaced, CreateClaim, AcceptUpgrade, FailUpgrade, SetupResult, SetupTimeout,
           ClientServes, ClientAcksExpiry, ClientLeaves
  <2>2. ASSUME NEW d \in Releaser, DeleteArrives(d) \/ ClientAcksRelease(d)
        PROVE  client' = client \/ client' = [client EXCEPT ![rel[d].id] = "stopped"]
    BY <2>2 DEF DeleteArrives, ClientAcksRelease
  <2> QED
    BY <2>1, <2>2, Frames DEF Types, ClientIs, Next, Step, Environment, tunnel
<1>9. ask' \in [ClaimID -> Asks]
  <2>1. ASSUME NEW c \in ClaimID, TunnelRequest(c)
        PROVE  \E a \in Asks : ask' = [ask EXCEPT ![c] = a]
    <3>1. PICK owner \in Owner, paths \in Requested,
               old \in {None} \cup {d \in issued : client[d] \in {"lost", "stopped"}} :
                 ask' = [ask EXCEPT ![c] = [owner |-> owner, paths |-> paths, replaces |-> old]]
      BY <2>1 DEF TunnelRequest
    <3>2. old \in ClaimID \cup {None}
      BY DEF Types
    <3> QED
      BY <3>1, <3>2 DEF Asks
  <2> QED
    BY <2>1, Frames DEF Types, Next, Step, Environment, tunnel
<1>10. rel' \in [Releaser -> Releases]
  <2>1. rel \in [Releaser -> Releases] /\ issued \subseteq ClaimID
    BY DEF Types
  <2>2. ASSUME NEW d \in Releaser, DeleteArrives(d)
        PROVE  \E r \in Releases : rel' = [rel EXCEPT ![d] = r]
    <3>1. PICK c \in issued, owner \in Owner :
              rel' = [rel EXCEPT ![d] = [at |-> "lookup", id |-> c, owner |-> owner]]
      BY <2>2 DEF DeleteArrives
    <3>2. [at |-> "lookup", id |-> c, owner |-> owner] \in Releases
      BY <2>1 DEF Releases, ReleasePlace
    <3> QED
      BY <3>1, <3>2
  <2>3. ASSUME NEW d \in Releaser, NEW place \in ReleasePlace, RelAt(d, place)
        PROVE  \E r \in Releases : rel' = [rel EXCEPT ![d] = r]
    <3>1. [rel[d] EXCEPT !.at = place] \in Releases
      BY <2>1 DEF Releases
    <3>2. rel' = [rel EXCEPT ![d] = [rel[d] EXCEPT !.at = place]]
      BY <2>3 DEF RelAt
    <3> QED
      BY <3>1, <3>2
  <2>4. ASSUME NEW d \in Releaser, ClientAcksRelease(d) \/ ReleaseStep(d)
        PROVE  \E place \in ReleasePlace : RelAt(d, place)
    BY <2>4 DEF ReleasePlace, ClientAcksRelease, ReleaseStep, ReleaseLooksUp,
                ReleaseFindsSession, ReleaseNotifies, ReleaseReadsAck, ReleaseFails, ReleaseFrees
  <2> QED
    BY <2>1, <2>2, <2>3, <2>4, Frames DEF Next, Step, Environment
<1>11. proxy' \in [Caller -> Proxied]
  <2>1. proxy \in [Caller -> Proxied] /\ DOMAIN claims \subseteq ClaimID
    BY DEF Types
  <2>2. ASSUME NEW q \in Caller, RequestArrives(q) \/ ProxyStep(q)
        PROVE  \E p \in Proxied : proxy' = [proxy EXCEPT ![q] = p]
    BY <2>1, <2>2 DEF Proxied, RequestArrives, ProxyAt, ProxyStep, MatchClaim, SelectSession, Dial, Answer,
           BestClaims, Store!Claimants
  <2> QED
    BY <2>1, <2>2, Frames DEF Next, Step, Environment
<1> QED
  BY <1>1, <1>2, <1>3, <1>4, <1>5, <1>6, <1>7, <1>8, <1>9, <1>10, <1>11 DEF Types

\* The variables that say how far a claim got are functions on the identities.
LEMMA Functional ==
    ASSUME Types
    PROVE  /\ handler = [c \in ClaimID |-> handler[c]] /\ conn = [c \in ClaimID |-> conn[c]]
           /\ setup = [c \in ClaimID |-> setup[c]] /\ expiry = [c \in ClaimID |-> expiry[c]]
           /\ client = [c \in ClaimID |-> client[c]] /\ ask = [c \in ClaimID |-> ask[c]]
BY DEF Types

\* Handlers go forward only, and a goroutine starts and ends within its stage.
LEMMA NextStages ==
    ASSUME Types, Stages, Releasing, Next
    PROVE  Stages'
<1> SUFFICES ASSUME NEW x \in ClaimID PROVE StageOf(x)'
  BY DEF Stages
<1> USE Functional DEF At, Goto, SetupIs, Close, CloseLater, ExpiryIs, ClientIs
<1>0. StageOf(x)
  BY DEF Stages
<1>1. ASSUME NEW c \in ClaimID, TunnelRequest(c)
      PROVE  StageOf(x)'
  BY <1>0, <1>1, Frames DEF StageOf, TunnelRequest, Before, Upgraded
<1>2. ASSUME NEW c \in ClaimID, Handshake(c)
      PROVE  StageOf(x)'
  <2>1. CASE LookupReplaced(c)
    <3>1. /\ handler[c] = "lookup"
          /\ UNCHANGED <<sessions, conn, setup, expiry, closing, client, issued>>
      BY <2>1 DEF LookupReplaced, registry
    <3>2. \E place \in {"create", "refused", "close old"} : handler' = [handler EXCEPT ![c] = place]
      BY <2>1 DEF LookupReplaced
    <3> QED
      BY <1>0, <3>1, <3>2 DEF StageOf, Before, Upgraded
  <2>4. CASE ReleaseReplaced(c) \/ FailUpgrade(c)
    <3>1. /\ UNCHANGED <<sessions, conn, setup, expiry, closing, client, issued>>
          /\ \/ handler[c] = "release old" /\ handler' = [handler EXCEPT ![c] = "create"]
             \/ handler[c] = "accept" /\ handler' = [handler EXCEPT ![c] = "refused"]
      BY <2>4 DEF ReleaseReplaced, FailUpgrade, Store!Release
    <3> QED
      BY <1>0, <3>1 DEF StageOf, Before, Upgraded
  <2>5. CASE CreateClaim(c)
    BY <1>0, <2>5 DEF StageOf, CreateClaim, Store!Create, Before, Upgraded
  <2>2. CASE CloseReplaced(c)
    BY <1>0, <2>2, Frames DEF StageOf, CloseReplaced, Before, Upgraded, registry
  <2>3. CASE AcceptUpgrade(c) \/ SetupResult(c) \/ SetupTimeout(c)
    BY <1>0, <2>3, Frames DEF StageOf, AcceptUpgrade, SetupResult, SetupTimeout, Before, Upgraded, registry
  <2> QED
    BY <1>2, <2>1, <2>2, <2>3, <2>4, <2>5 DEF Handshake
<1>3. ASSUME NEW c \in ClaimID, SetupStep(c) \/ ClientAnswersReady(c)
      PROVE  StageOf(x)'
  BY <1>0, <1>3, Frames DEF Stages, StageOf, SetupStep, ClientAnswersReady, registry
<1>4. ASSUME NEW c \in ClaimID, CleanUp(c)
      PROVE  StageOf(x)'
  BY <1>0, <1>4, Frames DEF StageOf, CleanUp, SessionEnded, ForgetSession, ReleaseOwnClaim,
         CloseOwnSession, Store!Release, Before, Upgraded, registry
<1>5. ASSUME NEW c \in ClaimID, DeferredClose(c) \/ ConnectionBreaks(c)
      PROVE  StageOf(x)'
  BY <1>0, <1>5, Frames DEF Stages, StageOf, DeferredClose, ConnectionBreaks, registry
<1>6. ASSUME NEW c \in ClaimID, ExpiryFires(c) \/ Expire(c)
      PROVE  StageOf(x)'
  BY <1>0, <1>6, Frames DEF Stages, StageOf, ExpiryFires, Expire, ExpiryTakesSession, ExpiryReleases,
           ExpiryNotifies, ExpiryStopsWaiting, ExpiryCloses, Store!Release, registry
<1>7. ASSUME NEW c \in ClaimID, ClientServes(c) \/ ClientAcksExpiry(c) \/ ClientLeaves(c)
      PROVE  StageOf(x)'
  BY <1>0, <1>7, Frames DEF Stages, StageOf, ClientServes, ClientAcksExpiry, ClientLeaves, registry, tunnel
<1>8. ASSUME NEW d \in Releaser, DeleteArrives(d) \/ ClientAcksRelease(d)
      PROVE  StageOf(x)'
  BY <1>0, <1>8, Frames DEF Stages, StageOf, DeleteArrives, ClientAcksRelease, registry, tunnel
<1>9. ASSUME NEW d \in Releaser, ReleaseStep(d)
      PROVE  StageOf(x)'
  <2>1. CASE ReleaseLooksUp(d) \/ ReleaseFindsSession(d) \/ ReleaseNotifies(d) \/ ReleaseFails(d)
    BY <1>0, <2>1 DEF StageOf, ReleaseLooksUp, ReleaseFindsSession, ReleaseNotifies, ReleaseFails,
           registry, tunnel
  <2>2. CASE ReleaseReadsAck(d)
    BY <1>0, <2>2 DEF StageOf, Releasing, ReleaseReadsAck, registry
  <2>3. CASE ReleaseFrees(d)
    BY <1>0, <2>3 DEF StageOf, ReleaseFrees, Store!Release, tunnel
  <2> QED
    BY <1>9, <2>1, <2>2, <2>3 DEF ReleaseStep
<1>10. ASSUME NEW q \in Caller, RequestArrives(q) \/ ProxyStep(q)
      PROVE  StageOf(x)'
  BY <1>0, <1>10, Frames DEF StageOf, tunnel
<1> QED
  BY <1>1, <1>2, <1>3, <1>4, <1>5, <1>6, <1>7, <1>8, <1>9, <1>10 DEF Next, Step, Environment

\* Past its arrival, a release request only moves on.
LEMMA ReleaseMoves ==
    ASSUME NEW d \in Releaser, ClientAcksRelease(d) \/ ReleaseStep(d)
    PROVE  rel[d].at # "idle" /\ \E place : RelAt(d, place)
BY DEF ClientAcksRelease, ReleaseStep, ReleaseLooksUp, ReleaseFindsSession, ReleaseNotifies,
       ReleaseReadsAck, ReleaseFails, ReleaseFrees

\* Requests and handshakes are filled in once, on arrival.
LEMMA NextAsked ==
    ASSUME Types, Asked, Next
    PROVE  Asked'
<1> USE DEF At, Goto
<1>0. issued \subseteq issued' /\ DOMAIN claims \subseteq issued
  BY RegistryMoves DEF Types
<1>1. ASSUME NEW x \in ClaimID
      PROVE  /\ ask'[x].replaces \in issued' \cup {None}
             /\ ~At("idle", x)' => ask'[x].owner \in Owner /\ ask'[x].paths \in Requested
  <2>0. handler = [c \in ClaimID |-> handler[c]] /\ ask = [c \in ClaimID |-> ask[c]]
    BY Functional
  <2>1. ASSUME NEW c \in ClaimID, TunnelRequest(c), x = c
        PROVE  /\ ask'[x].owner \in Owner /\ ask'[x].paths \in Requested
               /\ ask'[x].replaces \in issued \cup {None}
    BY <2>0, <2>1 DEF TunnelRequest
  <2>2. ASSUME NEW c \in ClaimID, TunnelRequest(c), x # c
        PROVE  ask'[x] = ask[x] /\ handler'[x] = handler[x]
    BY <2>0, <2>2 DEF TunnelRequest
  <2>3. ASSUME NEW c \in ClaimID, Handshake(c) \/ CleanUp(c)
        PROVE  ask' = ask /\ (At("idle", x) => At("idle", x)')
    BY <2>0, <2>3, Frames DEF Handshake, LookupReplaced, CloseReplaced,
       ReleaseReplaced, CreateClaim, AcceptUpgrade, FailUpgrade, SetupResult, SetupTimeout,
       CleanUp, SessionEnded, ForgetSession, ReleaseOwnClaim, CloseOwnSession
  <2>4. CASE ~\E c \in ClaimID : TunnelRequest(c)
    <3>1. ask' = ask /\ (At("idle", x) => At("idle", x)')
      BY <2>3, <2>4, Frames DEF Next, Step, Environment, tunnel
    <3> QED
      BY <1>0, <3>1 DEF Asked
  <2> QED
    BY <1>0, <2>1, <2>2, <2>4 DEF Asked
<1>2. ASSUME NEW d \in Releaser
      PROVE  rel'[d].at # "idle" => rel'[d].id \in issued' /\ rel'[d].owner \in Owner
  <2>0. rel \in [Releaser -> Releases]
    BY DEF Types
  <2>1. CASE \E e \in Releaser : DeleteArrives(e)
    <3>1. PICK e \in Releaser, c \in issued, owner \in Owner :
                 rel' = [rel EXCEPT ![e] = [at |-> "lookup", id |-> c, owner |-> owner]]
      BY <2>1 DEF DeleteArrives
    <3>2. CASE e = d
      BY <1>0, <2>0, <3>1, <3>2
    <3>3. CASE e # d
      BY <1>0, <2>0, <3>1, <3>3 DEF Asked
    <3> QED
      BY <3>2, <3>3
  <2>2. CASE \E e \in Releaser : ClientAcksRelease(e) \/ ReleaseStep(e)
    <3>1. PICK e \in Releaser : rel[e].at # "idle" /\ \E place : RelAt(e, place)
      BY <2>2, ReleaseMoves
    <3>2. PICK place : rel' = [rel EXCEPT ![e].at = place]
      BY <3>1 DEF RelAt
    <3>3. /\ rel'[d].id = rel[d].id /\ rel'[d].owner = rel[d].owner
          /\ rel[d].at = "idle" => rel'[d].at = "idle"
      BY <2>0, <3>1, <3>2 DEF Releases
    <3> QED
      BY <1>0, <3>3 DEF Asked
  <2>3. CASE ~\E e \in Releaser : DeleteArrives(e) \/ ClientAcksRelease(e) \/ ReleaseStep(e)
    <3>1. rel' = rel
      BY <2>3, Frames DEF Next, Step, Environment
    <3> QED
      BY <1>0, <3>1 DEF Asked
  <2> QED
    BY <2>1, <2>2, <2>3
<1>3. ASSUME NEW q \in Caller
      PROVE  /\ proxy'[q].at # "idle" => proxy'[q].path \in Request
             /\ proxy'[q].at \notin {"idle", "match", "origin"} => proxy'[q].claim \in issued'
  <2>0. proxy \in [Caller -> Proxied]
    BY DEF Types
  <2>1. CASE \E p \in Caller : RequestArrives(p)
    <3>1. PICK p \in Caller, path \in Request :
                 proxy' = [proxy EXCEPT ![p].at = "match", ![p].path = path]
      BY <2>1 DEF RequestArrives
    <3>2. \/ proxy'[q] = proxy[q]
          \/ proxy'[q].at = "match" /\ proxy'[q].path \in Request
      BY <2>0, <3>1 DEF Proxied
    <3> QED
      BY <1>0, <3>2 DEF Asked
  <2>2. ASSUME NEW p \in Caller, MatchClaim(p)
        PROVE  \/ proxy'[q] = proxy[q]
               \/ /\ proxy[q].at = "match" /\ proxy'[q].path = proxy[q].path
                  /\ proxy'[q].at = "origin" \/ proxy'[q].claim \in issued
    BY <1>0, <2>0, <2>2 DEF Proxied, MatchClaim, ProxyAt, BestClaims, Store!Claimants
  <2>3. CASE \E p \in Caller : SelectSession(p) \/ Dial(p) \/ Answer(p)
    <3>1. PICK p \in Caller : /\ proxy[p].at \in {"session", "dial", "sent"}
                              /\ \E place : ProxyAt(p, place)
      BY <2>3 DEF SelectSession, Dial, Answer
    <3>2. PICK place : proxy' = [proxy EXCEPT ![p].at = place]
      BY <3>1 DEF ProxyAt
    <3>3. /\ proxy'[q].path = proxy[q].path /\ proxy'[q].claim = proxy[q].claim
          /\ proxy[q].at \in {"idle", "match", "origin"} => proxy'[q].at = proxy[q].at
      BY <2>0, <3>1, <3>2 DEF Proxied
    <3> QED
      BY <1>0, <3>3 DEF Asked
  <2>4. CASE ~\E p \in Caller : RequestArrives(p) \/ ProxyStep(p)
    <3>1. proxy' = proxy
      BY <2>4, Frames DEF Next, Step, Environment
    <3> QED
      BY <1>0, <3>1 DEF Asked
  <2>5. CASE \E p \in Caller : MatchClaim(p)
    BY <1>0, <2>2, <2>5 DEF Asked
  <2> QED
    BY <2>1, <2>3, <2>4, <2>5 DEF ProxyStep
<1> QED
  BY <1>1, <1>2, <1>3 DEF Asked

\* A handler that goes past its release has taken its claim out; nobody else's
\* step gives a claim to an owner.
LEMMA NextHeld ==
    ASSUME Types, Stages, Held, Next
    PROVE  Held'
<1> USE DEF At, Goto
<1>0. /\ handler = [c \in ClaimID |-> handler[c]] /\ ask = [c \in ClaimID |-> ask[c]]
      /\ DOMAIN claims \subseteq issued /\ issued \subseteq ClaimID
  BY Functional DEF Types
<1>1. ASSUME NEW c \in ClaimID, TunnelRequest(c)
      PROVE  Held'
  <2>1. c \notin DOMAIN claims
    BY <1>0, <1>1 DEF TunnelRequest, Stages, StageOf, Before
  <2> QED
    BY <1>0, <1>1, <2>1, Frames DEF TunnelRequest, Held
<1>2. ASSUME NEW c \in ClaimID, CreateClaim(c)
      PROVE  Held'
  <2>1. /\ Store!Create(c, ask[c].owner, ask[c].paths) /\ ask' = ask
        /\ handler' = [handler EXCEPT
             ![c] = IF Store!Accepted(ask[c].owner, ask[c].paths) THEN "accept" ELSE "refused"]
    BY <1>2 DEF CreateClaim
  <2>2. CASE Store!Accepted(ask[c].owner, ask[c].paths)
    <3>1. /\ DOMAIN claims' = DOMAIN claims \cup {c}
          /\ claims'[c].owner = ask[c].owner
          /\ \A x \in DOMAIN claims \ {c} : claims'[x] = claims[x]
      BY <2>1, <2>2, StoreCreate
    <3> QED
      BY <1>0, <2>1, <2>2, <3>1 DEF Held, Holding
  <2>3. CASE ~Store!Accepted(ask[c].owner, ask[c].paths)
    <3>1. claims' = claims /\ c \notin DOMAIN claims
      BY <1>0, <2>1, <2>3, StoreRefuse
    <3> QED
      BY <1>0, <2>1, <3>1 DEF Held
  <2> QED
    BY <2>2, <2>3
<1>3. ASSUME NEW c \in ClaimID, Handshake(c), ~CreateClaim(c)
      PROVE  Held'
  <2>1. CASE ReleaseReplaced(c)
    BY <1>0, <2>1, StoreRelease DEF ReleaseReplaced, Held, Holding
  <2>2. CASE FailUpgrade(c)
    <3>1. /\ DOMAIN claims' \subseteq DOMAIN claims \ {c}
          /\ \A x \in DOMAIN claims' : claims'[x] = claims[x]
          /\ handler' = [handler EXCEPT ![c] = "refused"] /\ ask' = ask
      BY <2>2, StoreRelease DEF FailUpgrade, Held
    <3> QED
      BY <1>0, <3>1 DEF Held
  <2>3. CASE ~ReleaseReplaced(c) /\ ~FailUpgrade(c)
    BY <1>0, <1>3, <2>3 DEF Held, Holding, Handshake, LookupReplaced, CloseReplaced, AcceptUpgrade,
       SetupResult, SetupTimeout, registry
  <2> QED
    BY <2>1, <2>2, <2>3
<1>4. ASSUME NEW c \in ClaimID, CleanUp(c)
      PROVE  Held'
  <2>1. CASE ReleaseOwnClaim(c)
    <3>1. /\ DOMAIN claims' \subseteq DOMAIN claims \ {c}
          /\ \A x \in DOMAIN claims' : claims'[x] = claims[x]
          /\ handler' = [handler EXCEPT ![c] = "close"] /\ ask' = ask
      BY <2>1, StoreRelease DEF ReleaseOwnClaim, Held
    <3> QED
      BY <1>0, <3>1 DEF Held
  <2>2. CASE ~ReleaseOwnClaim(c)
    BY <1>0, <1>4, <2>2 DEF Held, Holding, CleanUp, SessionEnded, ForgetSession, CloseOwnSession, registry
  <2> QED
    BY <2>1, <2>2
<1>5. ASSUME handler' = handler, ask' = ask,
             /\ DOMAIN claims' \subseteq DOMAIN claims
             /\ \A c \in DOMAIN claims' : claims'[c] = claims[c]
      PROVE  Held'
  BY <1>5 DEF Held
<1>6. CASE \E c \in ClaimID : ExpiryReleases(c)
  BY <1>5, <1>6, StoreRelease DEF ExpiryReleases
<1>7. CASE \E d \in Releaser : ReleaseFrees(d)
  BY <1>5, <1>7, StoreRelease DEF ReleaseFrees, tunnel
<1>8. CASE /\ claims' = claims
           /\ ~\E c \in ClaimID : TunnelRequest(c) \/ Handshake(c) \/ CleanUp(c)
  BY <1>5, <1>8, Frames DEF Next, Step, Environment, tunnel
<1> QED
  BY <1>1, <1>2, <1>3, <1>4, <1>6, <1>7, <1>8, RegistrySteps DEF Handshake, CleanUp

\* Where a handler can be before its claim is created, and how it got there.
LEMMA EarlySteps ==
    ASSUME Types, NEW x \in ClaimID, Next
    PROVE  \/ TunnelRequest(x) \/ LookupReplaced(x) \/ CloseReplaced(x) \/ ReleaseReplaced(x)
           \/ /\ ask'[x] = ask[x]
              /\ handler'[x] = handler[x] \/ handler'[x] \notin Before
<1> USE DEF Goto
<1>0. handler = [c \in ClaimID |-> handler[c]] /\ ask = [c \in ClaimID |-> ask[c]]
  BY Functional
<1>1. ASSUME NEW c \in ClaimID, TunnelRequest(c), c # x
      PROVE  ask'[x] = ask[x] /\ handler'[x] = handler[x]
  BY <1>0, <1>1 DEF TunnelRequest
<1>2. ASSUME NEW c \in ClaimID, Handshake(c)
      PROVE  \/ LookupReplaced(c) \/ CloseReplaced(c) \/ ReleaseReplaced(c)
             \/ handler' = handler
             \/ \E place : place \notin Before /\ Goto(c, place)
  BY <1>2 DEF Before, Handshake, CreateClaim, AcceptUpgrade, FailUpgrade, SetupResult, SetupTimeout
<1>3. ASSUME NEW c \in ClaimID, CleanUp(c)
      PROVE  \E place : place \notin Before /\ Goto(c, place)
  BY <1>3 DEF Before, CleanUp, SessionEnded, ForgetSession, ReleaseOwnClaim, CloseOwnSession
<1>4. ASSUME NEW c \in ClaimID, LookupReplaced(c) \/ CloseReplaced(c) \/ ReleaseReplaced(c), c # x
      PROVE  handler'[x] = handler[x]
  BY <1>0, <1>4 DEF LookupReplaced, CloseReplaced, ReleaseReplaced
<1>5. CASE \E c \in ClaimID : TunnelRequest(c)
  BY <1>1, <1>5
<1>6. CASE \E c \in ClaimID : Handshake(c) \/ CleanUp(c)
  <2>1. PICK c \in ClaimID : Handshake(c) \/ CleanUp(c)
    BY <1>6
  <2>2. ask' = ask
    BY <2>1, Frames
  <2>3. CASE \E place : place \notin Before /\ Goto(c, place)
    BY <1>0, <2>2, <2>3
  <2> QED
    BY <1>2, <1>3, <1>4, <2>1, <2>2, <2>3
<1>7. CASE ~\E c \in ClaimID : TunnelRequest(c) \/ Handshake(c) \/ CleanUp(c)
  BY <1>7, Frames DEF Next, Step, Environment, tunnel
<1> QED
  BY <1>5, <1>6, <1>7

\* A client that is lost or has stopped stays so.
LEMMA GoneStaysGone ==
    ASSUME Types, Stages, NEW old \in ClaimID, client[old] \in {"lost", "stopped"}, Next
    PROVE  client'[old] = client[old]
<1>0. client = [c \in ClaimID |-> client[c]]
  BY Functional
<1>1. ASSUME NEW c \in ClaimID, Handshake(c)
      PROVE  \/ client' = client
             \/ client[c] = "none" /\ \E s : ClientIs(c, s)
  <2>1. CASE AcceptUpgrade(c)
    BY <2>1 DEF Stages, StageOf, Upgraded, AcceptUpgrade, At, ClientIs
  <2>2. ASSUME ~AcceptUpgrade(c)
        PROVE  client' = client
    BY <1>1, <2>2 DEF Handshake, LookupReplaced, CloseReplaced, ReleaseReplaced, CreateClaim,
       FailUpgrade, SetupResult, SetupTimeout
  <2> QED
    BY <2>1, <2>2
<1>2. ASSUME NEW c \in ClaimID, ClientServes(c) \/ ClientAcksExpiry(c) \/ ClientLeaves(c)
      PROVE  client[c] \in {"dialed", "serving"} /\ \E s : ClientIs(c, s)
  BY <1>2 DEF ClientServes, ClientAcksExpiry, ClientLeaves, ClientIs
<1>3. ASSUME NEW d \in Releaser, DeleteArrives(d) \/ ClientAcksRelease(d)
      PROVE  \/ client' = client
             \/ client[rel[d].id] = "serving" /\ \E s : ClientIs(rel[d].id, s)
  BY <1>3 DEF DeleteArrives, ClientAcksRelease, ClientIs
<1> QED
  BY <1>0, <1>1, <1>2, <1>3, Frames DEF Next, Step, Environment, ClientIs

\* Between the lookup of a replaced claim and the creation of the new one, the old
\* claim may only disappear: its identity is not issued again.
LEMMA NextReplacing ==
    ASSUME Types, Asked, Stages, Replacing, Next
    PROVE  Replacing'
<1> SUFFICES ASSUME NEW x \in ClaimID
             PROVE  /\ ask'[x].replaces # None => client'[ask'[x].replaces] \in {"lost", "stopped"}
                    /\ handler'[x] \in {"close old", "release old"} =>
                         (ask'[x].replaces \in DOMAIN claims' =>
                            claims'[ask'[x].replaces].owner = ask'[x].owner)
                    /\ At("create", x)' => ask'[x].replaces \notin DOMAIN claims'
  BY DEF Replacing
<1> USE DEF At, Goto
<1>0. /\ handler = [c \in ClaimID |-> handler[c]] /\ ask = [c \in ClaimID |-> ask[c]]
      /\ DOMAIN claims \subseteq issued /\ issued \subseteq ClaimID
  BY Functional DEF Types
<1>1. CASE TunnelRequest(x)
  <2>1. PICK owner \in Owner, paths \in Requested,
             old \in {None} \cup {d \in issued : client[d] \in {"lost", "stopped"}} :
               /\ ask' = [ask EXCEPT ![x] = [owner |-> owner, paths |-> paths, replaces |-> old]]
               /\ handler' = [handler EXCEPT ![x] = IF old = None THEN "create" ELSE "lookup"]
    BY <1>1 DEF TunnelRequest
  <2>2. client' = client /\ claims' = claims
    BY <1>1, Frames
  <2> QED
    BY <1>0, <2>1, <2>2, NoneAssumption
<1>2. CASE ask'[x] = ask[x]
  <2> DEFINE old == ask[x].replaces
  <2>1. old \in issued \cup {None}
    BY DEF Asked
  <2>2. old # None => client'[old] \in {"lost", "stopped"}
    BY <1>0, <2>1, GoneStaysGone DEF Replacing
  <2>3. /\ old \notin DOMAIN claims => old \notin DOMAIN claims'
        /\ old \in DOMAIN claims' => claims'[old] = claims[old]
    BY <1>0, <2>1, RegistryMoves, NoneAssumption
  <2>4. CASE LookupReplaced(x)
    <3>1. handler'[x] = IF old \notin DOMAIN claims THEN "create"
                        ELSE IF claims[old].owner # ask[x].owner THEN "refused" ELSE "close old"
      BY <1>0, <2>4 DEF LookupReplaced
    <3> QED
      BY <1>2, <2>2, <2>3, <3>1
  <2>5. CASE CloseReplaced(x)
    <3>1. At("close old", x) /\ handler'[x] = "release old"
      BY <1>0, <2>5 DEF CloseReplaced
    <3> QED
      BY <1>2, <2>2, <2>3, <3>1 DEF Replacing
  <2>6. CASE ReleaseReplaced(x)
    <3>1. /\ At("release old", x) /\ handler'[x] = "create"
          /\ Store!Release(ask[x].owner, old)
      BY <1>0, <2>6 DEF ReleaseReplaced
    <3>2. old \notin DOMAIN claims'
      BY <3>1, StoreRelease DEF Replacing
    <3> QED
      BY <1>2, <2>2, <3>1, <3>2
  <2>7. CASE handler'[x] = handler[x] \/ handler'[x] \notin Before
    BY <1>2, <2>2, <2>3, <2>7 DEF Replacing, Before
  <2> QED
    BY <1>1, <2>4, <2>5, <2>6, <2>7, EarlySteps
<1>3. LookupReplaced(x) \/ CloseReplaced(x) \/ ReleaseReplaced(x) => ask'[x] = ask[x]
  BY DEF LookupReplaced, CloseReplaced, ReleaseReplaced
<1> QED
  BY <1>1, <1>2, <1>3, EarlySteps

\* Between the lookup of a claim and the end of its release, likewise.
LEMMA NextReleasing ==
    ASSUME Types, Asked, Stages, Releasing, Next
    PROVE  Releasing'
<1> SUFFICES ASSUME NEW x \in Releaser
             PROVE  /\ rel'[x].at \in {"session", "notify", "await", "acked", "release"} =>
                         (rel'[x].id \in DOMAIN claims' => claims'[rel'[x].id].owner = rel'[x].owner)
                    /\ rel'[x].at \in {"acked", "release", "204"} => client'[rel'[x].id] = "stopped"
                    /\ rel'[x].at = "204" => rel'[x].id \notin DOMAIN claims'
  BY DEF Releasing
<1>0. /\ rel \in [Releaser -> Releases]
      /\ DOMAIN claims \subseteq issued /\ issued \subseteq ClaimID
      /\ client = [c \in ClaimID |-> client[c]]
  BY Functional DEF Types
<1>1. ASSUME rel[x].at # "idle"
      PROVE  /\ client[rel[x].id] = "stopped" => client'[rel[x].id] = "stopped"
             /\ rel[x].id \notin DOMAIN claims => rel[x].id \notin DOMAIN claims'
             /\ rel[x].id \in DOMAIN claims' => claims'[rel[x].id] = claims[rel[x].id]
  BY <1>0, <1>1, GoneStaysGone, RegistryMoves DEF Asked
<1>2. CASE rel'[x] = rel[x]
  BY <1>1, <1>2 DEF Releasing
<1>3. CASE \E d \in Releaser : DeleteArrives(d)
  <2>1. rel'[x] = rel[x] \/ rel'[x].at = "lookup"
    BY <1>0, <1>3 DEF DeleteArrives
  <2> QED
    BY <1>2, <2>1
<1>4. CASE ClientAcksRelease(x) \/ ReleaseStep(x)
  <2>0. rel[x].at # "idle" /\ rel'[x].id = rel[x].id /\ rel'[x].owner = rel[x].owner
    <3>1. PICK place : rel' = [rel EXCEPT ![x].at = place]
      BY <1>4, ReleaseMoves DEF RelAt
    <3> QED
      BY <1>0, <1>4, <3>1, ReleaseMoves DEF Releases
  <2>5. \A place : RelAt(x, place) => rel'[x].at = place
    BY <1>0 DEF RelAt, Releases
  <2>1. CASE ClientAcksRelease(x)
    <3>1. /\ rel[x].at \in {"await", "409"} /\ client'[rel[x].id] = "stopped"
          /\ rel'[x].at \in {rel[x].at, "acked"} /\ (rel'[x].at = "acked" => rel[x].at = "await")
      BY <1>0, <2>0, <2>1 DEF ClientAcksRelease, RelAt, Releases, ReleasePlace, Asked
    <3> QED
      BY <1>1, <2>0, <3>1 DEF Releasing
  <2>2. CASE ReleaseLooksUp(x)
    <3>1. rel'[x].at = "session" =>
            (rel[x].id \in DOMAIN claims => claims[rel[x].id].owner = rel[x].owner)
      BY <2>2, <2>5 DEF ReleaseLooksUp
    <3>2. rel'[x].at \in {"404", "401", "session"}
      BY <2>2, <2>5 DEF ReleaseLooksUp
    <3> QED
      BY <1>1, <2>0, <3>1, <3>2
  <2>3. CASE ReleaseFindsSession(x) \/ ReleaseNotifies(x) \/ ReleaseReadsAck(x) \/ ReleaseFails(x)
    <3>1. /\ rel'[x].at \in {"404", "409", "409 unsent", "notify", "await", "release"}
          /\ rel[x].at \in {"session", "notify", "await", "acked"}
          /\ rel'[x].at = "release" => rel[x].at = "acked"
      BY <2>3, <2>5 DEF ReleaseFindsSession, ReleaseNotifies, ReleaseReadsAck, ReleaseFails
    <3> QED
      BY <1>1, <2>0, <3>1 DEF Releasing
  <2>4. CASE ReleaseFrees(x)
    <3>1. /\ rel[x].at = "release" /\ rel'[x].at = "204"
          /\ Store!Release(rel[x].owner, rel[x].id)
      BY <2>4, <2>5 DEF ReleaseFrees
    <3>2. rel[x].id \notin DOMAIN claims'
      BY <3>1, StoreRelease DEF Releasing
    <3> QED
      BY <1>1, <2>0, <3>1, <3>2 DEF Releasing
  <2> QED
    BY <1>4, <2>1, <2>2, <2>3, <2>4 DEF ReleaseStep
<1>5. CASE \E d \in Releaser \ {x} : ClientAcksRelease(d) \/ ReleaseStep(d)
  <2>1. rel'[x] = rel[x]
    BY <1>0, <1>5, ReleaseMoves DEF RelAt
  <2> QED
    BY <1>2, <2>1
<1>6. CASE ~\E d \in Releaser : DeleteArrives(d) \/ ClientAcksRelease(d) \/ ReleaseStep(d)
  <2>1. rel' = rel
    BY <1>6, Frames DEF Next, Step, Environment
  <2> QED
    BY <1>2, <2>1
<1> QED
  BY <1>3, <1>4, <1>5, <1>6
-----------------------------------------------------------------------------
(* The registry's own theorems, brought to the registry inside the gateway. *)

Proved == INSTANCE RegistryProofs

\* The two instances of the registry define the same operators.
LEMMA SameAlgebra ==
    /\ \A p, path : Proved!matches(p, path) <=> Store!matches(p, path)
    /\ \A p, q : Proved!Overlap(p, q) <=> Store!Overlap(p, q)
    /\ \A p : Proved!PathError(p) = Store!PathError(p)
<1>1. \A p, path : Proved!matches(p, path) <=> Store!matches(p, path)
  BY DEF Proved!matches, Store!matches, Proved!MatchesOneChild, Store!MatchesOneChild,
         Proved!Under, Store!Under
<1>2. \A p, q : Proved!Overlap(p, q) <=> Store!Overlap(p, q)
  BY <1>1 DEF Proved!Overlap, Store!Overlap
<1>3. \A p : Proved!Conflicts(p) <=> Store!Conflicts(p)
  BY <1>2 DEF Proved!Conflicts, Store!Conflicts
<1>4. \A p : Proved!InAllowlist(p) <=> Store!InAllowlist(p)
  BY DEF Proved!InAllowlist, Store!InAllowlist, Proved!HasPrefix, Store!HasPrefix
<1>5. \A p : Proved!Valid(p) <=> Store!Valid(p)
  BY DEF Proved!Valid, Store!Valid, Proved!Trimmed, Store!Trimmed
<1>6. \A p : Proved!PathError(p) = Store!PathError(p)
  BY <1>3, <1>4, <1>5 DEF Proved!PathError, Store!PathError, Proved!Segments, Store!Segments
<1> QED
  BY <1>1, <1>2, <1>6

\* ... the same sets ...
LEMMA SameSets ==
    /\ Proved!Split = Store!Split /\ Proved!Pattern = Store!Pattern
    /\ Proved!RequestPath = Store!RequestPath
    /\ \A path : Proved!Claimants(path) = Store!Claimants(path)
<1>1. Proved!Split = Store!Split
  BY DEF Proved!Split, Store!Split, Proved!Kind, Store!Kind
<1>2. Proved!Pattern = Store!Pattern
  BY <1>1 DEF Proved!Pattern, Store!Pattern, Proved!Valid, Store!Valid, Proved!Trimmed, Store!Trimmed
<1>3. Proved!RequestPath = Store!RequestPath
  BY DEF Proved!RequestPath, Store!RequestPath, Proved!Trimmed, Store!Trimmed
<1>4. \A path : Proved!Claimants(path) = Store!Claimants(path)
  BY SameAlgebra DEF Proved!Claimants, Store!Claimants
<1> QED
  BY <1>1, <1>2, <1>3, <1>4

\* ... and the same steps.
LEMMA SameSpec == Proved!Spec <=> Store!Spec
<1>1. \A owner : Proved!LimitError(owner) = Store!LimitError(owner)
  <2>1. \A S : Proved!Cardinality(S) = Store!Cardinality(S)
    BY DEF Proved!Cardinality, Store!Cardinality, Proved!IsFiniteSet, Store!IsFiniteSet
  <2>2. \A owner : Proved!Owned(owner) = Store!Owned(owner)
    BY DEF Proved!Owned, Store!Owned
  <2> QED
    BY <2>1, <2>2 DEF Proved!LimitError, Store!LimitError
<1>2. \A paths : Proved!Refused(paths) = Store!Refused(paths)
  BY SameAlgebra DEF Proved!Refused, Store!Refused
<1>3. \A owner, paths : Proved!Accepted(owner, paths) <=> Store!Accepted(owner, paths)
  BY <1>1, <1>2 DEF Proved!Accepted, Store!Accepted
<1>4. /\ \A id, owner, paths : Proved!Create(id, owner, paths) <=> Store!Create(id, owner, paths)
      /\ \A owner, id : Proved!Release(owner, id) <=> Store!Release(owner, id)
  BY <1>3 DEF Proved!Create, Store!Create, Proved!Release, Store!Release
<1>5. Proved!Init <=> Store!Init
  BY DEF Proved!Init, Store!Init
<1>6. Proved!Next <=> Store!Next
  BY <1>4 DEF Proved!Next, Store!Next
<1> QED
  BY <1>5, <1>6, PTL DEF Proved!Spec, Store!Spec

\* What RegistryProofs shows of the registry.
LEMMA StoreInvariants ==
    Store!Spec => [](/\ Store!TypeOK /\ Store!OneClaimant /\ Store!WithinLimits
                     /\ Store!Confined /\ Store!DeepEnough)
<1>1. Proved!OneClaimant <=> Store!OneClaimant
  BY SameSets DEF Proved!OneClaimant, Store!OneClaimant
<1>2. Proved!TypeOK <=> Store!TypeOK
  BY SameSets DEF Proved!TypeOK, Store!TypeOK, Proved!Claim, Store!Claim
<1>3. Proved!WithinLimits <=> Store!WithinLimits
  <2>1. \A S : Proved!Cardinality(S) = Store!Cardinality(S)
    BY DEF Proved!Cardinality, Store!Cardinality, Proved!IsFiniteSet, Store!IsFiniteSet
  <2>2. \A owner : Proved!Owned(owner) = Store!Owned(owner)
    BY DEF Proved!Owned, Store!Owned
  <2> QED
    BY <2>1, <2>2 DEF Proved!WithinLimits, Store!WithinLimits
<1>4. (Proved!Confined <=> Store!Confined) /\ (Proved!DeepEnough <=> Store!DeepEnough)
  BY SameAlgebra
  DEF Proved!Confined, Store!Confined, Proved!DeepEnough, Store!DeepEnough,
      Proved!HasPrefix, Store!HasPrefix
<1>5. Proved!Spec => []Proved!OneClaimant
  BY StoreAssumption, SameSets, Proved!UnambiguousRouting
<1>6. Proved!Spec => []Proved!TypeOK
  BY StoreAssumption, SameSets, Proved!TypeCorrect
<1>7. Proved!Spec => []Proved!WithinLimits
  BY StoreAssumption, SameSets, Proved!LimitsHold
<1>8. Proved!Spec => []Proved!Confined
  BY StoreAssumption, SameSets, Proved!AllowlistConfines
<1>9. Proved!Spec => []Proved!DeepEnough
  BY StoreAssumption, SameSets, Proved!DepthHolds
<1> QED
  BY <1>1, <1>2, <1>3, <1>4, <1>5, <1>6, <1>7, <1>8, <1>9, SameSpec, PTL

\* ... and that it owns paths exclusively.
LEMMA StoreOwnership == Store!Spec => Store!ImplementsOwnership
<1>1. Proved!Serves = Store!Serves /\ Proved!Serves' = Store!Serves'
  <2>1. \A path : Proved!Claimants(path) = Store!Claimants(path)
    BY SameSets
  <2>2. \A path : Proved!Claimants(path)' = Store!Claimants(path)'
    BY SameAlgebra DEF Proved!Claimants, Store!Claimants
  <2> QED
    BY <2>1, <2>2 DEF Proved!Serves, Store!Serves
<1>2. Proved!Ownership!Init <=> Store!Ownership!Init
  BY <1>1 DEF Proved!Ownership!Init, Store!Ownership!Init
<1>3. [Proved!Ownership!Next]_Proved!Serves <=> [Store!Ownership!Next]_Store!Serves
  BY <1>1
  DEF Proved!Ownership!Next, Store!Ownership!Next, Proved!Ownership!Grant, Store!Ownership!Grant,
      Proved!Ownership!Revoke, Store!Ownership!Revoke
<1>4. Proved!Spec => Proved!ImplementsOwnership
  BY StoreAssumption, SameSets, Proved!RefinesOwnership
<1> QED
  BY <1>2, <1>3, <1>4, SameSpec, PTL
  DEF Proved!ImplementsOwnership, Store!ImplementsOwnership, Proved!Ownership!Spec, Store!Ownership!Spec

\* matchClaim finds a claim whenever one matches.
LEMMA BestOfClaimants ==
    ASSUME Store!TypeOK, NEW path \in Request, Store!Claimants(path) # {}
    PROVE  BestClaims(path) # {}
<1> DEFINE S == UNION {claims[d].paths : d \in Store!Claimants(path)}
<1>0. \A p, r : Proved!Match(p, r) <=> Store!Match(p, r)
  <2>1. \A r : Proved!TrimRight(r) = Store!TrimRight(r)
    BY DEF Proved!TrimRight, Store!TrimRight, Proved!Max, Store!Max
  <2> QED
    BY <2>1, SameAlgebra DEF Proved!Match, Store!Match
<1>1. S \in SUBSET Proved!Pattern
  BY SameSets DEF Store!TypeOK, Store!Claim, Store!Claimants
<1>2. path \in Proved!RequestPath
  BY StoreAssumption, SameSets
<1>3. \E p \in S : Proved!matches(p, path)
  BY SameAlgebra DEF Store!Claimants
<1>4. PICK p \in S : /\ Store!Match(p, path)
                     /\ \A o \in S : Store!Match(o, path) =>
                          Store!Specificity(o) <= Store!Specificity(p)
  <2> HIDE DEF S
  <2>1. PICK p \in S : /\ Proved!Match(p, path)
                       /\ \A o \in S : Proved!Match(o, path) =>
                            Proved!Specificity(o) <= Proved!Specificity(p)
    BY <1>1, <1>2, <1>3, StoreAssumption, SameSets, Proved!NarrowestMatch
  <2> QED
    BY <1>0, <2>1 DEF Proved!Specificity, Store!Specificity
<1>5. PICK c \in Store!Claimants(path) : p \in claims[c].paths
  OBVIOUS
<1>6. c \in BestClaims(path)
  BY <1>4, <1>5 DEF BestClaims
<1> QED
  BY <1>6

\* The claims that were routable for a request ever since it arrived: what was
\* matched is among them, and what is left when the origin answers is nothing.
LEMMA NextRouted ==
    ASSUME Types, Asked, Routed, Store!TypeOK, Store!OneClaimant, Next
    PROVE  Routed'
<1> SUFFICES ASSUME NEW x \in Caller
             PROVE  /\ proxy'[x].at = "match" => routed'[x] \subseteq RoutableFor(proxy[x].path)'
                    /\ proxy'[x].at = "session" => routed'[x] \subseteq {proxy'[x].claim} \cap Routable'
                    /\ proxy'[x].at = "origin" => routed'[x] = {}
  BY DEF Routed
<1>0. /\ proxy \in [Caller -> Proxied]
      /\ DOMAIN claims \subseteq issued /\ issued \subseteq ClaimID
  BY DEF Types
\* A claim that stays keeps its paths.
<1>1. ASSUME NEW c \in Store!Claimants(proxy[x].path), c \in Routable', proxy'[x].path = proxy[x].path
      PROVE  c \in RoutableFor(proxy[x].path)'
  <2>1. c \in DOMAIN claims /\ \E p \in claims[c].paths : Store!matches(p, proxy[x].path)
    BY DEF Store!Claimants
  <2>2. c \in DOMAIN claims' /\ claims'[c] = claims[c]
    BY <1>0, <1>1, <2>1, RegistryMoves DEF Routable
  <2> QED
    BY <1>1, <2>1, <2>2 DEF RoutableFor, Store!Claimants
<1>2. ASSUME proxy[x].at # "idle", proxy'[x].at \in {"match", "session", "origin"}
      PROVE  routed'[x] = routed[x] \cap Routable'
  BY <1>2 DEF Next, Track
<1>3. ASSUME NEW q \in Caller, RequestArrives(q), q = x
      PROVE  proxy'[x].at = "match" /\ routed'[x] \subseteq RoutableFor(proxy[x].path)'
  <2>1. proxy[x].at = "idle" /\ proxy'[x].at = "match"
    BY <1>0, <1>3 DEF RequestArrives, Proxied
  <2>2. routed'[x] = RoutableFor(proxy'[x].path)
    BY <2>1 DEF Next, Track
  <2>3. UNCHANGED <<claims, sessions, conn>>
    BY <1>3, Frames DEF tunnel
  <2>4. Routable' = Routable
    BY <2>3 DEF Routable
  <2> QED
    BY <2>1, <2>2, <2>3, <2>4 DEF RoutableFor, Store!Claimants
<1>4. CASE proxy'[x] = proxy[x]
  <2>1. CASE proxy[x].at = "match"
    <3>1. /\ routed'[x] = routed[x] \cap Routable'
          /\ routed[x] \subseteq Store!Claimants(proxy[x].path)
      BY <1>2, <1>4, <2>1 DEF Routed, RoutableFor
    <3> QED
      BY <1>1, <1>4, <2>1, <3>1
  <2>2. CASE proxy[x].at = "session"
    BY <1>2, <1>4, <2>2 DEF Routed
  <2>3. CASE proxy[x].at = "origin"
    BY <1>2, <1>4, <2>3 DEF Routed
  <2> QED
    BY <1>4, <2>1, <2>2, <2>3
<1>5. CASE MatchClaim(x)
  <2>0. /\ proxy[x].at = "match" /\ proxy[x].path \in Request
        /\ routed[x] \subseteq Store!Claimants(proxy[x].path)
    BY <1>5 DEF MatchClaim, Asked, Routed, RoutableFor
  <2>1. CASE BestClaims(proxy[x].path) = {}
    <3>1. proxy'[x].at = "origin"
      BY <1>0, <1>5, <2>1 DEF MatchClaim, ProxyAt, Proxied
    <3>2. Store!Claimants(proxy[x].path) = {}
      BY <2>0, <2>1, BestOfClaimants
    <3> QED
      BY <1>2, <2>0, <3>1, <3>2
  <2>2. CASE BestClaims(proxy[x].path) # {}
    <3>1. /\ proxy'[x].at = "session"
          /\ proxy'[x].claim \in Store!Claimants(proxy[x].path)
      BY <1>0, <1>5, <2>2 DEF MatchClaim, Proxied, BestClaims
    <3>2. \A c \in Store!Claimants(proxy[x].path) : c = proxy'[x].claim
      BY <2>0, <3>1 DEF Store!OneClaimant
    <3> QED
      BY <1>2, <2>0, <3>1, <3>2
  <2> QED
    BY <2>1, <2>2
<1>6. CASE SelectSession(x)
  <2>1. /\ proxy[x].at = "session"
        /\ proxy'[x].at = IF proxy[x].claim \in sessions /\ conn[proxy[x].claim] = "open"
                          THEN "dial" ELSE "origin"
    BY <1>0, <1>6 DEF SelectSession, ProxyAt, Proxied
  <2>2. ASSUME proxy'[x].at = "origin"
        PROVE  routed'[x] = {}
    <3>1. proxy[x].claim \notin Routable
      BY <2>1, <2>2 DEF Routable
    <3> QED
      BY <1>2, <2>1, <2>2, <3>1 DEF Routed
  <2> QED
    BY <2>1, <2>2
<1>7. CASE Dial(x) \/ Answer(x)
  <2>1. proxy'[x].at \in {"sent", "502", "200", "504"}
    BY <1>0, <1>7 DEF Dial, Answer, ProxyAt, Proxied
  <2> QED
    BY <2>1
<1>8. CASE \E q \in Caller \ {x} : RequestArrives(q) \/ ProxyStep(q)
  <2>1. proxy'[x] = proxy[x]
    BY <1>0, <1>8 DEF RequestArrives, ProxyStep, MatchClaim, SelectSession, Dial, Answer, ProxyAt
  <2> QED
    BY <1>4, <2>1
<1>9. CASE ~\E q \in Caller : RequestArrives(q) \/ ProxyStep(q)
  <2>1. proxy' = proxy
    BY <1>9, Frames DEF Next, Step, Environment
  <2> QED
    BY <1>4, <2>1
<1> QED
  BY <1>3, <1>5, <1>6, <1>7, <1>8, <1>9 DEF ProxyStep
-----------------------------------------------------------------------------
\* Every step of the gateway is an operation of the registry, called as the
\* registry expects it, or leaves the registry alone.
LEMMA NextStore ==
    ASSUME Types, Asked, Stages, Next
    PROVE  [Store!Next]_<<claims, issued>>
<1>0. DOMAIN claims \subseteq ClaimID /\ issued \subseteq ClaimID
  BY DEF Types
<1>1. ASSUME NEW owner \in Owner, NEW id \in ClaimID \cup {None}, Store!Release(owner, id)
      PROVE  Store!Next \/ UNCHANGED <<claims, issued>>
  <2>1. CASE id \in ClaimID
    BY <1>1, <2>1 DEF Store!Next
  <2>2. CASE id = None
    BY <1>0, <1>1, <2>2, NoneAssumption DEF Store!Release
  <2> QED
    BY <2>1, <2>2
<1>2. ASSUME NEW c \in ClaimID, ~At("idle", c)
      PROVE  /\ ask[c].owner \in Owner /\ ask[c].paths \in Requested
             /\ ask[c].replaces \in ClaimID \cup {None}
  BY <1>0, <1>2 DEF Asked
<1>3. ASSUME NEW c \in ClaimID, CreateClaim(c)
      PROVE  Store!Next
  <2>1. Store!Create(c, ask[c].owner, ask[c].paths) /\ ~At("idle", c)
    BY <1>3 DEF CreateClaim, At
  <2> QED
    BY <1>2, <2>1 DEF Store!Next
<1>4. ASSUME NEW c \in ClaimID, ReleaseReplaced(c)
      PROVE  \E owner \in Owner, id \in ClaimID \cup {None} : Store!Release(owner, id)
  BY <1>2, <1>4 DEF ReleaseReplaced, At
<1>5. ASSUME NEW c \in ClaimID, FailUpgrade(c) \/ ReleaseOwnClaim(c) \/ ExpiryReleases(c)
      PROVE  \E owner \in Owner, id \in ClaimID \cup {None} : Store!Release(owner, id)
  <2>1. Store!Release(ask[c].owner, c)
    BY <1>5 DEF FailUpgrade, ReleaseOwnClaim, ExpiryReleases
  <2>2. ~At("idle", c)
    BY <1>5 DEF FailUpgrade, ReleaseOwnClaim, ExpiryReleases, At, Stages, StageOf, Upgraded
  <2> QED
    BY <1>2, <2>1, <2>2
<1>6. ASSUME NEW d \in Releaser, ReleaseFrees(d)
      PROVE  \E owner \in Owner, id \in ClaimID \cup {None} : Store!Release(owner, id)
  BY <1>0, <1>6 DEF ReleaseFrees, Asked
<1> QED
  BY <1>1, <1>3, <1>4, <1>5, <1>6, RegistrySteps

\* Nothing has started.
LEMMA InitIInv == Init => IInv /\ Routed
<1> SUFFICES ASSUME Init PROVE IInv /\ Routed
  OBVIOUS
<1>1. DOMAIN claims = {} /\ issued = {}
  BY DEF Init, Store!Init
<1>2. Types
  BY <1>1 DEF Init, Types, NoAsk, Asks, Releases, ReleasePlace, Proxied, Before
<1>3. Asked
  <2>1. \A c \in ClaimID : At("idle", c) /\ ask[c].replaces = None
    BY DEF Init, NoAsk, At
  <2>2. \A d \in Releaser : rel[d].at = "idle"
    BY DEF Init
  <2>3. \A q \in Caller : proxy[q].at = "idle"
    BY DEF Init
  <2> QED
    BY <2>1, <2>2, <2>3 DEF Asked
<1>4. Stages
  BY <1>1 DEF Init, Stages, StageOf, Before, Upgraded, At
<1>5. Held
  BY <1>1 DEF Held
<1>6. Replacing
  BY <1>1 DEF Init, Replacing, NoAsk, At
<1>7. Releasing /\ Routed
  BY <1>1 DEF Init, Releasing, Routed
<1> QED
  BY <1>2, <1>3, <1>4, <1>5, <1>6, <1>7 DEF IInv

\* The invariant is inductive.
LEMMA NextIInv == IInv /\ [Next]_vars => IInv'
<1>1. ASSUME IInv, Next
      PROVE  IInv'
  BY <1>1, NextTypes, NextAsked, NextStages, NextHeld, NextReplacing, NextReleasing DEF IInv
<1>2. ASSUME IInv, UNCHANGED vars
      PROVE  IInv'
  <2> USE DEF vars, registry, tunnel
  <2>1. Types' /\ Asked' /\ Held'
    BY <1>2 DEF IInv, Types, Asked, Held, At
  <2>2. Stages'
    BY <1>2 DEF IInv, Stages, StageOf, At
  <2>3. Replacing' /\ Releasing'
    BY <1>2 DEF IInv, Replacing, Releasing, At
  <2> QED
    BY <2>1, <2>2, <2>3 DEF IInv
<1> QED
  BY <1>1, <1>2

\* The inductive invariant holds of every reachable gateway.
THEOREM Invariance == Spec => []IInv
BY InitIInv, NextIInv, PTL DEF Spec

\* The claims change by whole operations of the registry only.
LEMMA RefinesRegistry == Spec => Store!Spec
<1>1. Init => Store!Init
  BY DEF Init
<1>2. IInv /\ [Next]_vars => [Store!Next]_<<claims, issued>>
  BY NextStore DEF IInv, vars, registry
<1> QED
  BY <1>1, <1>2, Invariance, PTL DEF Spec, Store!Spec

\* What the registry guarantees, the gateway may rely on.
LEMMA StoreHolds ==
    Spec => [](/\ Store!TypeOK /\ Store!OneClaimant /\ Store!WithinLimits
               /\ Store!Confined /\ Store!DeepEnough)
BY RefinesRegistry, StoreInvariants, PTL

\* In the gateway with all its goroutines, no two claims ever match one request,
\* neither limit is exceeded, and nothing outside the configured policy is captured.
THEOREM ClaimsKeepPolicy ==
    Spec => [](Store!OneClaimant /\ Store!WithinLimits /\ Store!Confined /\ Store!DeepEnough)
BY StoreHolds, PTL

\* The gateway implements exclusive path ownership: handshakes, replacements, expiries,
\* releases and clean-ups only hand out free paths or take all of one claim's back.
THEOREM PathsExclusive == Spec => Store!ImplementsOwnership
BY RefinesRegistry, StoreOwnership, PTL

\* The gateway's state always has its type.
THEOREM TypeCorrect == Spec => []TypeOK
<1>1. IInv /\ Store!TypeOK => TypeOK
  BY DEF IInv, Types, Asked, TypeOK, Before, Upgraded, Releases, ReleasePlace, Proxied
<1> QED
  BY <1>1, Invariance, StoreHolds, PTL

\* No failed upgrade, replacement, timeout or expiry strands a claim: every held
\* claim has a handler on its way to release it.
THEOREM NoStrandedClaims == Spec => []ClaimsHaveHandlers
<1>1. IInv => ClaimsHaveHandlers
  BY DEF IInv, Held, Holding, ClaimsHaveHandlers
<1> QED
  BY <1>1, Invariance, PTL

\* A reconnecting client never conflicts with the claim it replaces.
THEOREM ReplacementsConflictFree == Spec => []ReplacedIsFree
<1>1. IInv => ReplacedIsFree
  BY DEF IInv, Replacing, ReplacedIsFree
<1> QED
  BY <1>1, Invariance, PTL

\* A 204 is the truth: the client has stopped and the paths are free for good.
THEOREM ReleasesFinal == Spec => []ReleaseIsFinal
<1>1. IInv => ReleaseIsFinal
  BY DEF IInv, Releasing, ReleaseIsFinal
<1> QED
  BY <1>1, Invariance, PTL

\* Which steps take a claim out, and what is then known of its client.
LEMMA NextKeepsLive ==
    ASSUME IInv, [Next]_vars, NEW x \in DOMAIN claims \ DOMAIN claims',
           client[x] = "serving"
    PROVE  expiry[x] \in {"release", "release only"} \/ At("release", x)
<1>0. DOMAIN claims \subseteq issued /\ issued \subseteq ClaimID
  BY DEF IInv, Types
<1>1. Next
  BY DEF vars, registry
<1>2. ASSUME NEW c \in ClaimID, CreateClaim(c) PROVE FALSE
  BY <1>2, StoreCreate, StoreRefuse DEF CreateClaim
<1>3. ASSUME NEW c \in ClaimID, ReleaseReplaced(c) PROVE FALSE
  <2>1. x = ask[c].replaces
    BY <1>3, StoreRelease DEF ReleaseReplaced
  <2> QED
    BY <1>0, <2>1, NoneAssumption DEF IInv, Replacing
<1>4. ASSUME NEW c \in ClaimID, FailUpgrade(c) PROVE FALSE
  <2>1. x = c /\ At("accept", c)
    BY <1>4, StoreRelease DEF FailUpgrade
  <2> QED
    BY <2>1 DEF IInv, Stages, StageOf, Upgraded, At
<1>5. ASSUME NEW c \in ClaimID, ReleaseOwnClaim(c) PROVE At("release", x)
  BY <1>5, StoreRelease DEF ReleaseOwnClaim
<1>6. ASSUME NEW c \in ClaimID, ExpiryReleases(c) PROVE expiry[x] \in {"release", "release only"}
  <2>1. Store!Release(ask[c].owner, c) /\ expiry[c] \in {"release", "release only"}
    BY <1>6 DEF ExpiryReleases
  <2>2. x = c
    BY <2>1, StoreRelease
  <2> QED
    BY <2>1, <2>2
<1>7. ASSUME NEW d \in Releaser, ReleaseFrees(d) PROVE FALSE
  <2>1. x = rel[d].id /\ rel[d].at = "release"
    BY <1>7, StoreRelease DEF ReleaseFrees
  <2> QED
    BY <2>1 DEF IInv, Releasing
<1> QED
  BY <1>1, <1>2, <1>3, <1>4, <1>5, <1>6, <1>7, RegistrySteps

\* A serving client's claim is taken away only by expiry, or by the clean-up of a
\* handshake whose timer won the race: never by a release or by another client.
THEOREM LiveClaimsStay == Spec => LiveClaimsKept
<1>1. IInv /\ [Next]_vars =>
        [\A c \in DOMAIN claims \ DOMAIN claims' :
           conn[c] = "open" /\ client[c] = "serving" =>
             \/ expiry[c] \in {"release", "release only"}
             \/ At("release", c)]_vars
  BY NextKeepsLive
<1> QED
  BY <1>1, Invariance, PTL DEF Spec, LiveClaimsKept

\* An identity stands for one claim for ever: what a goroutine has looked up under it
\* and uses after other steps is of the same owner with the same paths, or is gone for
\* good, so that a late release, expiry or request never meets another claim.
THEOREM ClaimsAreFinal ==
    Spec => [][\A c \in issued \cap DOMAIN claims' :
                 c \in DOMAIN claims /\ claims'[c] = claims[c]]_vars
<1>1. IInv /\ [Next]_vars =>
        [\A c \in issued \cap DOMAIN claims' :
           c \in DOMAIN claims /\ claims'[c] = claims[c]]_vars
  <2> SUFFICES ASSUME IInv, Next, NEW c \in issued, c \in DOMAIN claims'
               PROVE  c \in DOMAIN claims /\ claims'[c] = claims[c]
    OBVIOUS
  <2>1. DOMAIN claims \subseteq issued /\ issued \subseteq ClaimID
    BY DEF IInv, Types
  <2>2. DOMAIN claims' \cap issued \subseteq DOMAIN claims
    BY <2>1, RegistryMoves
  <2>3. \A d \in DOMAIN claims \cap DOMAIN claims' : claims'[d] = claims[d]
    BY <2>1, RegistryMoves
  <2> QED
    BY <2>2, <2>3
<1> QED
  BY <1>1, Invariance, PTL DEF Spec

\* The origin answers a public request only if no claim that matches it had a
\* tunnel throughout.
THEOREM OriginOnlyWithoutTunnel == Spec => []OriginOnlyWhenUnclaimed
<1>1. IInv /\ Store!TypeOK /\ Store!OneClaimant /\ Routed /\ [Next]_vars => Routed'
  <2>1. CASE Next
    BY <2>1, NextRouted DEF IInv
  <2>2. CASE UNCHANGED vars
    BY <2>2 DEF vars, registry, tunnel, Routed, RoutableFor, Routable, Store!Claimants
  <2> QED
    BY <2>1, <2>2
<1>2. Routed => OriginOnlyWhenUnclaimed
  BY DEF Routed, OriginOnlyWhenUnclaimed
<1> QED
  BY <1>1, <1>2, InitIInv, Invariance, StoreHolds, PTL DEF Spec
=============================================================================
