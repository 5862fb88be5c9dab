------------------------- MODULE TunnelSystemProofs -------------------------
(***************************************************************************)
(* The client and the gateway joined, for any number of reconnections and  *)
(* release requests.  Every step of the system is a step of the gateway    *)
(* and a step of the client, or leaves them alone, so what GatewayProofs   *)
(* and ClientProofs show of each by itself holds of both together.  What   *)
(* is added here is how a tunnel of the client and a claim of the gateway  *)
(* belong together.                                                        *)
(***************************************************************************)
EXTENDS TunnelSystem, TLAPS

GS == INSTANCE GatewayProofs
CS == INSTANCE ClientProofs WITH events <- 0

\* The client's side of the tunnels: its tunnels are those up to the current one, each
\* has its own claim, and a dial under way has another.
Paired ==
    /\ attempt \in ClaimID \cup {None} /\ claimOf \in [Tunnel -> ClaimID \cup {None}]
    /\ \A n \in Tunnel :
         /\ claimOf[n] # None <=> n <= current
         /\ claimOf[n] # None => setup[claimOf[n]] = "ok" /\ claimOf[n] # attempt
         /\ n \in acked => claimOf[n] # None
    /\ \A m, n \in Tunnel : claimOf[m] = claimOf[n] /\ claimOf[m] # None => m = n
    /\ attempt # None => loop = "dialing" /\ handler[attempt] # "idle"

\* What Gateway calls the client is this client.
Viewed == client = [c \in ClaimID |-> ClientOf(c)]

\* Nobody proxies here.
Quiet == (\A q \in Caller : proxy[q].at = "idle") /\ routed = [q \in Caller |-> {}]

Stale(c) == \E n \in Tunnel : claimOf[n] = c /\ session[n] # "open"
GoingDown(c) == c \in closing \/ conn[c] = "closed"

\* A handshake replaces only a claim whose tunnel the client has lost.
ReplacesStale == \A c \in ClaimID : ask[c].replaces # None => Stale(ask[c].replaces)

\* A release frees the paths only after it has started to close the session.
FreedGoesDown == \A d \in Releaser : rel[d].at \in {"release", "204"} => GoingDown(rel[d].id)

\* From the upgrade to the clean-up a claim is kept unless its session goes down or
\* its client has lost it, and its session is in the table once it is routable.
Kept ==
    \A c \in ClaimID : handler[c] \in {"accept", "setup", "serving"} =>
        /\ c \in DOMAIN claims \/ GoingDown(c) \/ Stale(c)
        /\ setup[c] \in {"routable", "ok"} => c \in sessions

\* A handler that has left a set-up session closes it, or knows that it is closed.
Left == {"forget", "release", "close", "done"}
LeftGoesDown == \A c \in ClaimID : handler[c] \in Left => setup[c] = "failed" \/ GoingDown(c)

IInv ==
    /\ GS!IInv /\ CS!IInv /\ Paired /\ Viewed /\ Quiet
    /\ ReplacesStale /\ FreedGoesDown /\ Kept /\ LeftGoesDown
-----------------------------------------------------------------------------
\* The client that ClientProofs is about is the client of this system.
LEMMA SameClient ==
    /\ C!Cancel => CS!Cancel
    /\ C!Run => CS!Run
    /\ \/ C!LoopCancelled \/ C!LoopSeesClose \/ C!LoopChecksTerminal \/ C!LoopSends
          \/ C!LoopGivesUpSend \/ C!WaitRetry \/ C!StartDial \/ C!DialSucceeds \/ C!DialFails
       => CS!LoopStep
    /\ \A n \in Tunnel :
         C!AckTerminalFrame(n) \/ C!ReportTerminal(n) \/ C!EndAccept(n) \/ C!SessionBreaks(n) =>
         CS!AckTerminalFrame(n) \/ CS!ReportTerminal(n) \/ CS!EndAccept(n) \/ CS!SessionBreaks(n)
    /\ C!Init => CS!Init
<1>1. C!Cancel => CS!Cancel
  BY DEF C!Cancel, CS!Cancel, C!loopVars, CS!loopVars, C!tunnelVars, CS!tunnelVars
<1>2. C!Run => CS!Run
  BY DEF C!Run, CS!Run, C!RunCancelled, CS!RunCancelled, C!RunReceives, CS!RunReceives,
      C!RunSeesLoopEnd, CS!RunSeesLoopEnd, C!RunReturns, CS!RunReturns, C!loopVars, CS!loopVars,
      C!tunnelVars, CS!tunnelVars
<1>3. C!LoopCancelled => CS!LoopCancelled
  BY DEF C!LoopCancelled, CS!LoopCancelled, C!Close, CS!Close, C!Ended, CS!Ended
<1>4. C!LoopSeesClose => CS!LoopSeesClose
  BY DEF C!LoopSeesClose, CS!LoopSeesClose, C!loopVars, CS!loopVars, C!tunnelVars, CS!tunnelVars
<1>5. C!LoopChecksTerminal => CS!LoopChecksTerminal
  BY DEF C!LoopChecksTerminal, CS!LoopChecksTerminal
<1>6. C!LoopSends => CS!LoopSends
  BY DEF C!LoopSends, CS!LoopSends, C!Sending, CS!Sending, C!Update, CS!Update, C!AfterSend,
      CS!AfterSend, C!NextTry, CS!NextTry, C!Ended, CS!Ended, C!loopVars, CS!loopVars,
      C!tunnelVars, CS!tunnelVars
<1>7. C!LoopGivesUpSend => CS!LoopGivesUpSend
  BY DEF C!LoopGivesUpSend, CS!LoopGivesUpSend, C!Sending, CS!Sending, C!Close, CS!Close, C!Ended,
      CS!Ended
<1>8. C!WaitRetry => CS!WaitRetry
  BY DEF C!WaitRetry, CS!WaitRetry, C!Ended, CS!Ended, C!loopVars, CS!loopVars, C!tunnelVars,
      CS!tunnelVars
<1>9. C!StartDial => CS!StartDial
  BY DEF C!StartDial, CS!StartDial, C!Ended, CS!Ended, C!loopVars, CS!loopVars, C!tunnelVars,
      CS!tunnelVars
<1>10. C!DialSucceeds => CS!DialSucceeds
  BY DEF C!DialSucceeds, CS!DialSucceeds
<1>11. C!DialFails => CS!DialFails
  BY DEF C!DialFails, CS!DialFails, C!NextTry, CS!NextTry, C!Ended, CS!Ended, C!loopVars,
      CS!loopVars, C!tunnelVars, CS!tunnelVars
<1>12. ASSUME NEW n \in Tunnel
      PROVE  /\ C!AckTerminalFrame(n) => CS!AckTerminalFrame(n)
             /\ C!ReportTerminal(n) => CS!ReportTerminal(n)
             /\ C!EndAccept(n) => CS!EndAccept(n)
             /\ C!SessionBreaks(n) => CS!SessionBreaks(n)
  BY DEF C!AckTerminalFrame, CS!AckTerminalFrame, C!ReportTerminal, CS!ReportTerminal, C!EndAccept,
      CS!EndAccept, C!SessionBreaks, CS!SessionBreaks, C!Close, CS!Close, C!loopVars, CS!loopVars
<1>13. C!Init => CS!Init
  BY DEF C!Init, CS!Init, C!Tunnel, CS!Tunnel
<1>14. QED
  BY <1>1, <1>2, <1>3, <1>4, <1>5, <1>6, <1>7, <1>8, <1>9, <1>10, <1>11, <1>12, <1>13 DEF CS!LoopStep

\* The gateway that GatewayProofs is about does the same to its registry ...
LEMMA SameStore ==
    /\ \A id, owner, paths : G!Store!Create(id, owner, paths) <=> GS!Store!Create(id, owner, paths)
    /\ \A owner, paths : G!Store!Accepted(owner, paths) <=> GS!Store!Accepted(owner, paths)
    /\ \A owner, id : G!Store!Release(owner, id) <=> GS!Store!Release(owner, id)
    /\ \A path : G!Store!Claimants(path) = GS!Store!Claimants(path)
<1>1. \A p, path : G!Store!matches(p, path) <=> GS!Store!matches(p, path)
  BY DEF G!Store!matches, GS!Store!matches, G!Store!MatchesOneChild, GS!Store!MatchesOneChild,
      G!Store!Under, GS!Store!Under
<1>2. \A p, q : G!Store!Overlap(p, q) <=> GS!Store!Overlap(p, q)
  BY <1>1
  DEF G!Store!Overlap, GS!Store!Overlap
<1>3. \A p : G!Store!Conflicts(p) <=> GS!Store!Conflicts(p)
  BY <1>2
  DEF G!Store!Conflicts, GS!Store!Conflicts
<1>4. \A p : G!Store!PathError(p) = GS!Store!PathError(p)
  BY <1>3
  DEF G!Store!PathError, GS!Store!PathError, G!Store!Segments, GS!Store!Segments,
      G!Store!InAllowlist, GS!Store!InAllowlist, G!Store!HasPrefix, GS!Store!HasPrefix,
      G!Store!Valid, GS!Store!Valid, G!Store!Trimmed, GS!Store!Trimmed
<1>5. \A paths : G!Store!Refused(paths) = GS!Store!Refused(paths)
  BY <1>4
  DEF G!Store!Refused, GS!Store!Refused
<1>6. \A X : G!Store!Cardinality(X) = GS!Store!Cardinality(X)
  BY DEF G!Store!Cardinality, GS!Store!Cardinality, G!Store!IsFiniteSet, GS!Store!IsFiniteSet
<1>7. \A owner : G!Store!LimitError(owner) = GS!Store!LimitError(owner)
  BY <1>6
  DEF G!Store!LimitError, GS!Store!LimitError, G!Store!Owned, GS!Store!Owned
<1>8. \A owner, paths : G!Store!Accepted(owner, paths) <=> GS!Store!Accepted(owner, paths)
  BY <1>5, <1>7
  DEF G!Store!Accepted, GS!Store!Accepted
<1>9. \A id, owner, paths : G!Store!Create(id, owner, paths) <=> GS!Store!Create(id, owner, paths)
  BY <1>8
  DEF G!Store!Create, GS!Store!Create
<1>10. \A owner, id : G!Store!Release(owner, id) <=> GS!Store!Release(owner, id)
  BY DEF G!Store!Release, GS!Store!Release
<1>11. \A path : G!Store!Claimants(path) = GS!Store!Claimants(path)
  BY <1>1
  DEF G!Store!Claimants, GS!Store!Claimants
<1>12. QED
  BY <1>8, <1>9, <1>10, <1>11

\* ... and takes the same steps.
LEMMA SameGateway ==
    /\ \A c \in ClaimID :
         /\ G!TunnelRequest(c) => GS!TunnelRequest(c)
         /\ G!Handshake(c) => GS!Handshake(c)
         /\ G!SetupStep(c) => GS!SetupStep(c)
         /\ G!CleanUp(c) => GS!CleanUp(c)
         /\ G!DeferredClose(c) => GS!DeferredClose(c)
         /\ G!ClientAnswersReady(c) => GS!ClientAnswersReady(c)
         /\ G!ConnectionBreaks(c) => GS!ConnectionBreaks(c)
         /\ G!ClientServes(c) => GS!ClientServes(c)
         /\ G!ClientLeaves(c) => GS!ClientLeaves(c)
    /\ \A d \in Releaser :
         /\ G!ReleaseStep(d) => GS!ReleaseStep(d)
         /\ G!DeleteArrives(d) => GS!DeleteArrives(d)
         /\ G!ClientAcksRelease(d) => GS!ClientAcksRelease(d)
    /\ G!Track => GS!Track
<1>1. ASSUME NEW c \in ClaimID PROVE G!TunnelRequest(c) => GS!TunnelRequest(c)
  BY DEF G!TunnelRequest, GS!TunnelRequest, G!registry, GS!registry, G!At, GS!At, G!Goto, GS!Goto
<1>2. ASSUME NEW c \in ClaimID PROVE G!LookupReplaced(c) => GS!LookupReplaced(c)
  BY DEF G!LookupReplaced, GS!LookupReplaced, G!registry, GS!registry, G!At, GS!At, G!Goto, GS!Goto
<1>3. ASSUME NEW c \in ClaimID PROVE G!CloseReplaced(c) => GS!CloseReplaced(c)
  BY DEF G!CloseReplaced, GS!CloseReplaced, G!registry, GS!registry, G!At, GS!At, G!Goto, GS!Goto
<1>4. ASSUME NEW c \in ClaimID PROVE G!ReleaseReplaced(c) => GS!ReleaseReplaced(c)
  BY SameStore
  DEF G!ReleaseReplaced, GS!ReleaseReplaced, G!At, GS!At, G!Goto, GS!Goto
<1>5. ASSUME NEW c \in ClaimID PROVE G!CreateClaim(c) => GS!CreateClaim(c)
  BY SameStore
  DEF G!CreateClaim, GS!CreateClaim, G!At, GS!At, G!Goto, GS!Goto
<1>6. ASSUME NEW c \in ClaimID PROVE G!AcceptUpgrade(c) => GS!AcceptUpgrade(c)
  BY DEF G!AcceptUpgrade, GS!AcceptUpgrade, G!registry, GS!registry, G!At, GS!At, G!Goto, GS!Goto,
      G!SetupIs, GS!SetupIs
<1>7. ASSUME NEW c \in ClaimID PROVE G!FailUpgrade(c) => GS!FailUpgrade(c)
  BY SameStore
  DEF G!FailUpgrade, GS!FailUpgrade, G!At, GS!At, G!Goto, GS!Goto
<1>8. ASSUME NEW c \in ClaimID PROVE G!SetupResult(c) => GS!SetupResult(c)
  BY DEF G!SetupResult, GS!SetupResult, G!registry, GS!registry, G!At, GS!At, G!Goto, GS!Goto
<1>9. ASSUME NEW c \in ClaimID PROVE G!SetupTimeout(c) => GS!SetupTimeout(c)
  BY DEF G!SetupTimeout, GS!SetupTimeout, G!registry, GS!registry, G!At, GS!At, G!Goto, GS!Goto,
      G!CloseLater, GS!CloseLater
<1>10. ASSUME NEW c \in ClaimID PROVE G!Handshake(c) => GS!Handshake(c)
  BY <1>2, <1>3, <1>4, <1>5, <1>6, <1>7, <1>8, <1>9
  DEF G!Handshake, GS!Handshake
<1>11. ASSUME NEW c \in ClaimID PROVE G!SetupStep(c) => GS!SetupStep(c)
  BY DEF G!SetupStep, GS!SetupStep, G!registry, GS!registry, G!SetupIs, GS!SetupIs
<1>12. ASSUME NEW c \in ClaimID PROVE G!SessionEnded(c) => GS!SessionEnded(c)
  BY DEF G!SessionEnded, GS!SessionEnded, G!registry, GS!registry, G!At, GS!At, G!Goto, GS!Goto
<1>13. ASSUME NEW c \in ClaimID PROVE G!ForgetSession(c) => GS!ForgetSession(c)
  BY DEF G!ForgetSession, GS!ForgetSession, G!registry, GS!registry, G!At, GS!At, G!Goto, GS!Goto
<1>14. ASSUME NEW c \in ClaimID PROVE G!ReleaseOwnClaim(c) => GS!ReleaseOwnClaim(c)
  BY SameStore
  DEF G!ReleaseOwnClaim, GS!ReleaseOwnClaim, G!At, GS!At, G!Goto, GS!Goto
<1>15. ASSUME NEW c \in ClaimID PROVE G!CloseOwnSession(c) => GS!CloseOwnSession(c)
  BY DEF G!CloseOwnSession, GS!CloseOwnSession, G!registry, GS!registry, G!At, GS!At, G!Goto,
      GS!Goto, G!Close, GS!Close
<1>16. ASSUME NEW c \in ClaimID PROVE G!CleanUp(c) => GS!CleanUp(c)
  BY <1>12, <1>13, <1>14, <1>15
  DEF G!CleanUp, GS!CleanUp
<1>17. ASSUME NEW c \in ClaimID PROVE G!DeferredClose(c) => GS!DeferredClose(c)
  BY DEF G!DeferredClose, GS!DeferredClose, G!registry, GS!registry, G!Close, GS!Close
<1>18. ASSUME NEW c \in ClaimID PROVE G!ClientAnswersReady(c) => GS!ClientAnswersReady(c)
  BY DEF G!ClientAnswersReady, GS!ClientAnswersReady, G!registry, GS!registry, G!SetupIs, GS!SetupIs
<1>19. ASSUME NEW c \in ClaimID PROVE G!ConnectionBreaks(c) => GS!ConnectionBreaks(c)
  BY DEF G!ConnectionBreaks, GS!ConnectionBreaks, G!registry, GS!registry, G!Close, GS!Close
<1>20. ASSUME NEW c \in ClaimID PROVE G!ClientServes(c) => GS!ClientServes(c)
  BY DEF G!ClientServes, GS!ClientServes, G!ClientIs, GS!ClientIs, G!registry, GS!registry, G!tunnel,
      GS!tunnel
<1>21. ASSUME NEW c \in ClaimID PROVE G!ClientLeaves(c) => GS!ClientLeaves(c)
  BY DEF G!ClientLeaves, GS!ClientLeaves, G!ClientIs, GS!ClientIs, G!registry, GS!registry, G!tunnel,
      GS!tunnel
<1>22. ASSUME NEW d \in Releaser PROVE G!ReleaseLooksUp(d) => GS!ReleaseLooksUp(d)
  BY DEF G!ReleaseLooksUp, GS!ReleaseLooksUp, G!RelAt, GS!RelAt, G!registry, GS!registry, G!tunnel,
      GS!tunnel
<1>23. ASSUME NEW d \in Releaser PROVE G!ReleaseFindsSession(d) => GS!ReleaseFindsSession(d)
  BY DEF G!ReleaseFindsSession, GS!ReleaseFindsSession, G!RelAt, GS!RelAt, G!registry, GS!registry,
      G!tunnel, GS!tunnel
<1>24. ASSUME NEW d \in Releaser PROVE G!ReleaseNotifies(d) => GS!ReleaseNotifies(d)
  BY DEF G!ReleaseNotifies, GS!ReleaseNotifies, G!RelAt, GS!RelAt, G!registry, GS!registry, G!tunnel,
      GS!tunnel
<1>25. ASSUME NEW d \in Releaser PROVE G!ReleaseReadsAck(d) => GS!ReleaseReadsAck(d)
  BY DEF G!ReleaseReadsAck, GS!ReleaseReadsAck, G!RelAt, GS!RelAt, G!registry, GS!registry,
      G!CloseLater, GS!CloseLater
<1>26. ASSUME NEW d \in Releaser PROVE G!ReleaseFails(d) => GS!ReleaseFails(d)
  BY DEF G!ReleaseFails, GS!ReleaseFails, G!RelAt, GS!RelAt, G!registry, GS!registry, G!tunnel,
      GS!tunnel
<1>27. ASSUME NEW d \in Releaser PROVE G!ReleaseFrees(d) => GS!ReleaseFrees(d)
  BY SameStore
  DEF G!ReleaseFrees, GS!ReleaseFrees, G!RelAt, GS!RelAt, G!tunnel, GS!tunnel
<1>28. ASSUME NEW d \in Releaser PROVE G!ReleaseStep(d) => GS!ReleaseStep(d)
  BY <1>22, <1>23, <1>24, <1>25, <1>26, <1>27
  DEF G!ReleaseStep, GS!ReleaseStep
<1>29. ASSUME NEW d \in Releaser PROVE G!DeleteArrives(d) => GS!DeleteArrives(d)
  BY DEF G!DeleteArrives, GS!DeleteArrives, G!registry, GS!registry, G!tunnel, GS!tunnel
<1>30. ASSUME NEW d \in Releaser PROVE G!ClientAcksRelease(d) => GS!ClientAcksRelease(d)
  BY DEF G!ClientAcksRelease, GS!ClientAcksRelease, G!RelAt, GS!RelAt, G!registry, GS!registry,
      G!tunnel, GS!tunnel
<1>31. G!Routable = GS!Routable
  BY DEF G!Routable, GS!Routable
<1>32. G!Routable' = GS!Routable'
  BY DEF G!Routable, GS!Routable
<1>33. \A path : G!RoutableFor(path) = GS!RoutableFor(path)
  BY SameStore, <1>31
  DEF G!RoutableFor, GS!RoutableFor
<1>34. G!Track => GS!Track
  BY <1>33, <1>32
  DEF G!Track, GS!Track
<1>35. QED
  BY <1>1, <1>10, <1>11, <1>16, <1>17, <1>18, <1>19, <1>20, <1>21, <1>28, <1>29, <1>30, <1>34

\* What both proofs assume, the system does.
LEMMA SameSplit ==
    G!Store!Split = GS!Store!Split /\ G!Store!RequestPath = GS!Store!RequestPath
BY DEF G!Store!Split, GS!Store!Split, G!Store!Kind, GS!Store!Kind,
       G!Store!RequestPath, GS!Store!RequestPath, G!Store!Trimmed, GS!Store!Trimmed

\* The gateway's steps keep its invariant here too ...
LEMMA GatewayKept == GS!IInv /\ [GS!Next]_GS!vars => GS!IInv'
BY GS!NextIInv, SystemAssumption, StoreAssumption, SameSplit

\* ... and the client's steps keep the client's.
LEMMA ClientKept == CS!IInv /\ [CS!Next]_CS!vars => CS!IInv'
BY CS!NextIInv, SystemAssumption

\* What is used here of the gateway's invariant ...
LEMMA GatewayFacts ==
    ASSUME GS!IInv
    PROVE  /\ issued \subseteq ClaimID /\ DOMAIN claims \subseteq issued
           /\ sessions \subseteq issued /\ closing \subseteq issued
           /\ ask \in [ClaimID -> GS!Asks] /\ rel \in [Releaser -> GS!Releases]
           /\ setup \in [ClaimID -> {"none", "open", "ready", "acked", "routable", "ok", "failed"}]
           /\ conn \in [ClaimID -> {"none", "open", "closed"}]
           /\ \A c \in ClaimID :
                /\ ask[c].replaces \in ClaimID \cup {None}
                /\ IF handler[c] \in GS!Upgraded
                   THEN conn[c] # "none"
                   ELSE conn[c] = "none" /\ setup[c] = "none"
                /\ handler[c] = "done" => conn[c] = "closed"
           /\ \A d \in Releaser : rel[d].at # "idle" => rel[d].id \in ClaimID
<1>1. GS!Types /\ GS!Asked /\ GS!Stages
  BY DEF GS!IInv
<1>2. \A c \in ClaimID : ask[c].replaces \in ClaimID \cup {None}
  BY <1>1 DEF GS!Types, GS!Asked
<1>3. \A d \in Releaser : rel[d].at # "idle" => rel[d].id \in ClaimID
  BY <1>1 DEF GS!Types, GS!Asked
<1>4. \A c \in ClaimID : /\ IF handler[c] \in GS!Upgraded
                            THEN conn[c] # "none"
                            ELSE conn[c] = "none" /\ setup[c] = "none"
                         /\ handler[c] = "done" => conn[c] = "closed"
  BY <1>1 DEF GS!Stages, GS!StageOf, GS!At
<1>5. QED
  BY <1>1, <1>2, <1>3, <1>4 DEF GS!Types

\* ... and of the client's.
LEMMA ClientFacts ==
    ASSUME CS!IInv
    PROVE  /\ current \in Tunnel /\ acked \subseteq Tunnel
           /\ session \in [Tunnel -> {"none", "open", "closed"}]
           /\ \A n \in Tunnel : session[n] = "open" => n = current /\ loop \notin CS!Broken
           /\ \A n \in Tunnel : acceptor[n] \in {"acked", "closing"} => n \in acked
BY DEF CS!IInv, CS!TypeOK, CS!OneTunnel, CS!AckedFirst, CS!Tunnel, Tunnel
-----------------------------------------------------------------------------
\* The steps of the client that leave the gateway alone.
ClientOnly ==
    \/ ClientLoop \/ DialMisses \/ DialLost \/ DialRefused \/ DialSucceeds \/ RunStep \/ ClientCancel
    \/ \E n \in Tunnel : ClientSessionStep(n) \/ ClientSessionBreaks(n)

\* The steps of the gateway that leave the client alone, with the claim or request.
GatewayOnly ==
    \/ ReleaseAsked
    \/ \E c \in ClaimID :
         \/ GatewayHandshake(c) \/ GatewaySetup(c) \/ GatewayCleanUp(c) \/ GatewayCloses(c)
         \/ AcksReady(c) \/ GatewayConnectionBreaks(c)
    \/ \E d \in Releaser : GatewayReleases(d)

Together == DialReaches \/ \E n \in Tunnel, d \in Releaser : AckRelease(n, d)

\* Every step is of one of the three kinds.
LEMMA Kinds == Next => ClientOnly \/ GatewayOnly \/ Together
BY DEF Next, ClientStep, GatewayStep, Network, ClientOnly, GatewayOnly, Together

\* What each kind of step leaves alone.
LEMMA KindFrames ==
    /\ ClientOnly => UNCHANGED gatewayVars
    /\ GatewayOnly => UNCHANGED <<clientVars, attempt, claimOf>> /\ G!Track
    /\ Together => G!Track /\ UNCHANGED claimOf
    /\ Next => Sees
<1>1. ClientOnly => UNCHANGED gatewayVars /\ Sees
  BY DEF ClientOnly, ClientLoop, DialMisses, DialLost, DialRefused, DialSucceeds, RunStep, ClientCancel,
         ClientSessionStep, ClientSessionBreaks, GatewayWaits
<1>2. GatewayOnly => UNCHANGED <<clientVars, attempt, claimOf>> /\ G!Track /\ Sees
  BY DEF GatewayOnly, ReleaseAsked, GatewayHandshake, GatewaySetup, GatewayCleanUp, GatewayCloses,
         AcksReady, GatewayConnectionBreaks, GatewayReleases, GatewayDoes, ClientWaits
<1>3. Together => G!Track /\ UNCHANGED claimOf /\ Sees
  BY DEF Together, DialReaches, AckRelease
<1>4. QED
  BY <1>1, <1>2, <1>3, Kinds

\* Every step is one of the client, or leaves it alone.
LEMMA ClientSteps == [Next]_vars => [CS!Next]_CS!vars
<1> USE DEF clientVars
<1>1. UNCHANGED clientVars => UNCHANGED CS!vars
  BY DEF CS!vars, CS!loopVars, CS!tunnelVars
<1>2. ClientOnly => CS!Next
  BY SameClient
  DEF ClientOnly, ClientLoop, DialMisses, DialLost, DialRefused, DialSucceeds, RunStep, ClientCancel,
      ClientSessionStep, ClientSessionBreaks, CS!Next, CS!Tunnel, Tunnel
<1>3. Together => CS!Next
  BY SameClient DEF Together, DialReaches, AckRelease, CS!Next, CS!Tunnel, Tunnel
<1>4. QED
  BY <1>1, <1>2, <1>3, Kinds, KindFrames DEF vars

\* Every step of the gateway is one of those that GatewayProofs is about.
LEMMA GatewaySteps ==
    /\ GatewayOnly \/ Together => GS!Next
    /\ \A c \in ClaimID : (G!ClientServes(c) \/ G!ClientLeaves(c)) /\ G!Track => GS!Next
<1>1. GatewayOnly => GS!Step
  BY SameGateway
  DEF GatewayOnly, ReleaseAsked, GatewayHandshake, GatewaySetup, GatewayCleanUp, GatewayCloses,
      AcksReady, GatewayConnectionBreaks, GatewayReleases, GS!Step, GS!Environment
<1>2. \A n \in Tunnel, d \in Releaser : AckRelease(n, d) => GS!Step
  BY SameGateway DEF AckRelease, GS!Step, GS!Environment
<1>3. DialReaches => \E c \in ClaimID : c = NextHandler /\ G!TunnelRequest(c)
  BY DEF DialReaches, NextHandler
<1>4. DialReaches => GS!Step
  BY <1>3, SameGateway DEF GS!Step, GS!Environment
<1>5. \A c \in ClaimID : G!ClientServes(c) \/ G!ClientLeaves(c) => GS!Step
  BY SameGateway DEF GS!Step, GS!Environment
<1>6. QED
  BY <1>1, <1>2, <1>4, <1>5, KindFrames, SameGateway DEF Together, GS!Next
-----------------------------------------------------------------------------
\* What the client looks like from the gateway, by what it knows of its tunnels.
LEMMA View ==
    ASSUME NEW c \in ClaimID
    PROVE  /\ conn[c] = "none" => ClientOf(c) = "none"
           /\ conn[c] # "none" =>
                /\ c = attempt => ClientOf(c) = "dialed"
                /\ c # attempt =>
                     /\ (\E n \in acked : claimOf[n] = c) => ClientOf(c) = "stopped"
                     /\ (\A n \in acked : claimOf[n] # c) =>
                          /\ (\E n \in Tunnel : claimOf[n] = c /\ session[n] = "open") =>
                               ClientOf(c) = "serving"
                          /\ (\A n \in Tunnel : claimOf[n] = c => session[n] # "open") =>
                               /\ (\E n \in Tunnel : claimOf[n] = c) => ClientOf(c) = "lost"
                               /\ (\A n \in Tunnel : claimOf[n] # c) => ClientOf(c) = "left"
BY DEF ClientOf

\* The view is that of the state alone.
LEMMA SameView ==
    ASSUME UNCHANGED <<conn, attempt, acked, claimOf, session>>
    PROVE  \A c \in ClaimID : ClientOf(c)' = ClientOf(c)
BY DEF ClientOf

\* A tunnel's claim is one the gateway has accepted, and not that of a dial.
LEMMA TunnelClaim ==
    ASSUME GS!IInv, Paired, NEW n \in Tunnel, claimOf[n] # None
    PROVE  /\ claimOf[n] \in ClaimID /\ claimOf[n] # attempt /\ setup[claimOf[n]] = "ok"
           /\ conn[claimOf[n]] # "none" /\ handler[claimOf[n]] \in GS!Upgraded
<1>1. claimOf[n] \in ClaimID /\ claimOf[n] # attempt /\ setup[claimOf[n]] = "ok"
  BY DEF Paired
<1>2. QED
  BY <1>1, GatewayFacts

\* A client's step is one that the gateway allows it, or one it does not see.
Seen == UNCHANGED client \/ \E c \in ClaimID : G!ClientServes(c) \/ G!ClientLeaves(c)

\* One change of the view is seen as one change of the client.
LEMMA OneChange ==
    ASSUME Viewed, Sees, NEW c \in ClaimID, NEW v,
           \A d \in ClaimID : d # c => ClientOf(d)' = ClientOf(d),
           ClientOf(c)' \in {ClientOf(c), v}
    PROVE  /\ client[c] = ClientOf(c)
           /\ UNCHANGED client \/ client' = [client EXCEPT ![c] = v]
BY DEF Viewed, Sees

\* What changes nothing the view depends on, the gateway does not see.
LEMMA Unseen ==
    ASSUME Viewed, Sees, UNCHANGED <<conn, attempt, acked, claimOf, session>>
    PROVE  UNCHANGED client
BY SameView DEF Viewed, Sees

\* A tunnel that is closed: its client has left, unless it had acknowledged the end.
LEMMA CloseSeen ==
    ASSUME GS!IInv, CS!IInv, Paired, Viewed, Sees, UNCHANGED gatewayVars,
           UNCHANGED <<attempt, acked, claimOf>>,
           NEW n \in Tunnel, session' = [session EXCEPT ![n] = "closed"]
    PROVE  Seen
<1> DEFINE c == claimOf[n]
<1>1. session \in [Tunnel -> {"none", "open", "closed"}] /\ UNCHANGED conn
  BY ClientFacts DEF gatewayVars
<1>2. \A m \in Tunnel : m # n => session'[m] = session[m]
  BY <1>1
<1>3. ASSUME NEW d \in ClaimID, d # c
      PROVE  ClientOf(d)' = ClientOf(d)
  BY <1>1, <1>2, <1>3 DEF ClientOf
<1>4. CASE session[n] # "open"
  <2>1. \A m \in Tunnel : session'[m] = "open" <=> session[m] = "open"
    BY <1>1, <1>4
  <2>2. \A d \in ClaimID : ClientOf(d)' = ClientOf(d)
    BY <1>1, <2>1 DEF ClientOf
  <2>3. QED
    BY <2>2 DEF Viewed, Sees, Seen
<1>5. CASE session[n] = "open" /\ c = None
  <2>1. \A d \in ClaimID : d # c
    BY <1>5, SystemAssumption
  <2>2. QED
    BY <1>3, <2>1 DEF Viewed, Sees, Seen
<1>6. CASE session[n] = "open" /\ c # None
  <2>1. c \in ClaimID /\ c # attempt /\ conn[c] # "none"
    BY <1>6, TunnelClaim
  <2>2. \A m \in Tunnel : claimOf[m] = c => m = n
    BY <1>6 DEF Paired
  <2>3. CASE \E m \in acked : claimOf[m] = c
    <3>1. ClientOf(c)' = ClientOf(c)
      BY <1>1, <2>1, <2>3 DEF ClientOf
    <3>2. QED
      BY <1>3, <3>1 DEF Viewed, Sees, Seen
  <2>4. CASE \A m \in acked : claimOf[m] # c
    <3>1. ClientOf(c) = "serving"
      BY <1>6, <2>1, <2>4, View
    <3>2. \A m \in Tunnel : claimOf[m] = c => session'[m] # "open"
      BY <1>1, <2>2
    <3>3. ClientOf(c)' = "lost"
      BY <1>1, <2>1, <2>4, <3>2 DEF ClientOf
    <3>4. client[c] = "serving" /\ (UNCHANGED client \/ client' = [client EXCEPT ![c] = "lost"])
      BY <1>3, <2>1, <3>1, <3>3, OneChange
    <3>5. QED
      BY <2>1, <3>4 DEF Seen, G!ClientLeaves, G!ClientIs, G!registry, G!tunnel, gatewayVars
  <2>5. QED
    BY <2>3, <2>4
<1>7. QED
  BY <1>4, <1>5, <1>6

\* A dial that is given up: its client has left, if the gateway has upgraded it.
LEMMA DialEndSeen ==
    ASSUME GS!IInv, CS!IInv, Paired, Viewed, Sees, UNCHANGED gatewayVars,
           UNCHANGED <<session, acked, claimOf>>, attempt' = None
    PROVE  Seen
<1>1. UNCHANGED conn /\ acked \subseteq Tunnel
  BY ClientFacts DEF gatewayVars
<1>2. ASSUME NEW d \in ClaimID, d # attempt
      PROVE  ClientOf(d)' = ClientOf(d)
  BY <1>1, <1>2, SystemAssumption DEF ClientOf
<1>3. CASE attempt = None
  BY <1>1, <1>3, Unseen DEF Seen
<1>4. CASE attempt \in ClaimID
  <2>1. \A n \in Tunnel : claimOf[n] # attempt
    BY <1>4, SystemAssumption DEF Paired
  <2>2. CASE conn[attempt] = "none"
    <3>1. PICK c \in ClaimID : c = attempt
      BY <1>4
    <3>2. ClientOf(c)' = ClientOf(c)
      BY <1>1, <2>2, <3>1 DEF ClientOf
    <3>3. \A d \in ClaimID : ClientOf(d)' = ClientOf(d)
      BY <1>2, <3>1, <3>2
    <3>4. QED
      BY <3>3 DEF Viewed, Sees, Seen
  <2>3. CASE conn[attempt] # "none"
    <3>1. PICK c \in ClaimID : c = attempt
      BY <1>4
    <3>2. ClientOf(c) = "dialed"
      BY <2>3, <3>1, View
    <3>3. ClientOf(c)' = "left"
      BY <1>1, <2>1, <2>3, <3>1, SystemAssumption DEF ClientOf
    <3>4. client[c] = "dialed" /\ (UNCHANGED client \/ client' = [client EXCEPT ![c] = "left"])
      BY <1>2, <3>1, <3>2, <3>3, OneChange
    <3>5. QED
      BY <3>1, <3>4 DEF Seen, G!ClientLeaves, G!ClientIs, G!registry, G!tunnel, gatewayVars
  <2>4. QED
    BY <2>2, <2>3
<1>5. QED
  BY <1>3, <1>4 DEF Paired

\* A dial that succeeds: its client serves.
LEMMA DialSeen ==
    ASSUME GS!IInv, CS!IInv, Paired, Viewed, Sees, DialSucceeds
    PROVE  Seen
<1> DEFINE new == current + 1
<1>1. /\ attempt # None /\ setup[attempt] = "ok" /\ UNCHANGED <<gatewayVars, acked>>
      /\ current < MaxTunnels /\ current' = new /\ attempt' = None
      /\ session' = [session EXCEPT ![new] = "open"] /\ claimOf' = [claimOf EXCEPT ![new] = attempt]
  BY DEF DialSucceeds, C!DialSucceeds, GatewayWaits
<1>2. new \in Tunnel /\ ~(new <= current)
  <2>1. current \in 1..MaxTunnels
    BY ClientFacts DEF Tunnel
  <2>2. QED
    BY <1>1, <2>1, SystemAssumption DEF Tunnel
<1>3. /\ session \in [Tunnel -> {"none", "open", "closed"}] /\ claimOf \in [Tunnel -> ClaimID \cup {None}]
      /\ acked \subseteq Tunnel /\ UNCHANGED <<conn, setup>>
  BY <1>1, ClientFacts DEF gatewayVars, Paired
<1>4. claimOf[new] = None /\ new \notin acked
  BY <1>2 DEF Paired
<1>5. PICK c \in ClaimID : c = attempt
  BY <1>1 DEF Paired
<1>6. conn[c] # "none"
  BY <1>1, <1>5, GatewayFacts
<1>7. \A n \in Tunnel : n # new => claimOf'[n] = claimOf[n] /\ session'[n] = session[n]
  BY <1>1, <1>3
<1>8. claimOf'[new] = c /\ session'[new] = "open"
  BY <1>1, <1>2, <1>3, <1>5
<1>9. ASSUME NEW d \in ClaimID, d # c
      PROVE  ClientOf(d)' = ClientOf(d)
  <2>1. d # attempt /\ d # attempt' /\ d # claimOf[new] /\ d # claimOf'[new]
    BY <1>1, <1>4, <1>5, <1>8, <1>9, SystemAssumption
  <2>2. \A n \in Tunnel : /\ claimOf'[n] = d <=> claimOf[n] = d
                          /\ claimOf[n] = d => session'[n] = session[n]
    BY <1>7, <2>1
  <2>3. (\E n \in acked' : claimOf'[n] = d) <=> \E n \in acked : claimOf[n] = d
    BY <1>1, <1>3, <2>2
  <2>4. QED
    BY <1>3, <2>1, <2>2, <2>3 DEF ClientOf
<1>10. ClientOf(c) = "dialed"
  BY <1>5, <1>6, View
<1>11. \A n \in acked : claimOf'[n] # c
  BY <1>3, <1>4, <1>5, <1>7 DEF Paired
<1>12. ClientOf(c)' = "serving"
  BY <1>1, <1>2, <1>3, <1>5, <1>6, <1>8, <1>11, SystemAssumption DEF ClientOf
<1>13. client[c] = "dialed" /\ (UNCHANGED client \/ client' = [client EXCEPT ![c] = "serving"])
  BY <1>9, <1>10, <1>12, OneChange
<1>14. QED
  BY <1>1, <1>5, <1>13 DEF Seen, G!ClientServes, G!ClientIs, G!registry, G!tunnel, gatewayVars

\* Whatever the client does alone, the gateway allows it.
LEMMA ClientSeen ==
    ASSUME GS!IInv, CS!IInv, Paired, Viewed, Sees, ClientOnly
    PROVE  Seen
<1>1. UNCHANGED gatewayVars /\ UNCHANGED conn
  BY KindFrames DEF gatewayVars
<1>2. current \in Tunnel
  BY ClientFacts
<1>3. CASE ClientLoop
  <2>1. UNCHANGED <<attempt, claimOf, acked>>
        /\ (UNCHANGED session \/ session' = [session EXCEPT ![current] = "closed"])
    BY <1>3
    DEF ClientLoop, C!LoopCancelled, C!LoopSeesClose, C!LoopChecksTerminal, C!LoopSends,
        C!LoopGivesUpSend, C!WaitRetry, C!Close, C!tunnelVars
  <2>2. QED
    BY <1>1, <1>2, <2>1, Unseen, CloseSeen DEF Seen
<1>4. CASE DialMisses \/ RunStep \/ ClientCancel
  <2>1. UNCHANGED <<attempt, claimOf, acked, session>>
    BY <1>4
    DEF DialMisses, RunStep, ClientCancel, C!StartDial, C!Run, C!RunCancelled, C!RunReceives,
        C!RunSeesLoopEnd, C!Cancel, C!tunnelVars
  <2>2. QED
    BY <1>1, <2>1, Unseen DEF Seen
<1>5. CASE DialLost \/ DialRefused
  <2>1. UNCHANGED <<claimOf, acked, session>> /\ attempt' = None
    BY <1>5 DEF DialLost, DialRefused, C!DialFails, C!tunnelVars
  <2>2. QED
    BY <1>1, <2>1, DialEndSeen
<1>6. CASE DialSucceeds
  BY <1>6, DialSeen
<1>7. ASSUME NEW n \in Tunnel, ClientSessionStep(n) \/ ClientSessionBreaks(n)
      PROVE  Seen
  <2>1. UNCHANGED <<attempt, claimOf, acked>>
        /\ (UNCHANGED session \/ session' = [session EXCEPT ![n] = "closed"])
    BY <1>7
    DEF ClientSessionStep, ClientSessionBreaks, C!ReportTerminal, C!EndAccept, C!SessionBreaks, C!Close
  <2>2. QED
    BY <1>1, <2>1, Unseen, CloseSeen DEF Seen
<1>8. QED
  BY <1>3, <1>4, <1>5, <1>6, <1>7 DEF ClientOnly
-----------------------------------------------------------------------------
\* What the gateway's actions leave alone.
LEMMA GatewayFrames ==
    /\ \A c \in ClaimID :
         /\ G!TunnelRequest(c) =>
              UNCHANGED <<claims, issued, sessions, conn, setup, expiry, closing, rel, proxy>>
         /\ G!Handshake(c) => UNCHANGED <<sessions, ask, rel, proxy>>
         /\ G!SetupStep(c) \/ G!ClientAnswersReady(c) =>
              UNCHANGED <<claims, issued, conn, handler, ask, expiry, closing, rel, proxy>>
         /\ G!CleanUp(c) => UNCHANGED <<issued, ask, setup, closing, rel, proxy>>
         /\ G!DeferredClose(c) \/ G!ConnectionBreaks(c) =>
              UNCHANGED <<claims, issued, sessions, handler, ask, setup, expiry, rel, proxy>>
    /\ \A d \in Releaser :
         /\ G!DeleteArrives(d) \/ G!ClientAcksRelease(d) =>
              UNCHANGED <<claims, issued, sessions, conn, handler, ask, setup, expiry, closing, proxy>>
         /\ G!ReleaseStep(d) =>
              UNCHANGED <<issued, sessions, conn, handler, ask, setup, expiry, proxy>>
<1> USE SystemAssumption, StoreAssumption, SameSplit
<1>1. ASSUME NEW c \in ClaimID
      PROVE  /\ G!TunnelRequest(c) =>
                  UNCHANGED <<claims, issued, sessions, conn, setup, expiry, closing, rel, proxy>>
             /\ G!Handshake(c) => UNCHANGED <<sessions, ask, rel, proxy>>
             /\ G!SetupStep(c) \/ G!ClientAnswersReady(c) =>
                  UNCHANGED <<claims, issued, conn, handler, ask, expiry, closing, rel, proxy>>
             /\ G!CleanUp(c) => UNCHANGED <<issued, ask, setup, closing, rel, proxy>>
             /\ G!DeferredClose(c) \/ G!ConnectionBreaks(c) =>
                  UNCHANGED <<claims, issued, sessions, handler, ask, setup, expiry, rel, proxy>>
  BY SameGateway, GS!Frames
<1>2. ASSUME NEW d \in Releaser
      PROVE  /\ G!DeleteArrives(d) \/ G!ClientAcksRelease(d) =>
                  UNCHANGED <<claims, issued, sessions, conn, handler, ask, setup, expiry, closing, proxy>>
             /\ G!ReleaseStep(d) =>
                  UNCHANGED <<issued, sessions, conn, handler, ask, setup, expiry, proxy>>
  BY SameGateway, GS!Frames DEF GS!tunnel
<1>3. QED
  BY <1>1, <1>2

\* The actions of GatewayOnly.
LEMMA GatewayKinds ==
    GatewayOnly =>
        \/ \E c \in ClaimID :
             \/ G!Handshake(c) \/ G!SetupStep(c) \/ G!CleanUp(c) \/ G!DeferredClose(c)
             \/ G!ClientAnswersReady(c) \/ G!ConnectionBreaks(c)
        \/ \E d \in Releaser : G!ReleaseStep(d) \/ G!DeleteArrives(d)
BY DEF GatewayOnly, ReleaseAsked, GatewayHandshake, GatewaySetup, GatewayCleanUp, GatewayCloses,
       AcksReady, GatewayConnectionBreaks, GatewayReleases

\* A dial that reaches the gateway starts a handler for the tunnel that is lost.
LEMMA Reaching ==
    ASSUME DialReaches
    PROVE  \E c \in ClaimID :
             /\ handler[c] = "idle" /\ attempt' = c /\ G!TunnelRequest(c)
             /\ ask'[c].replaces = claimOf[current]
             /\ loop = "dial" /\ loop' = "dialing"
             /\ UNCHANGED <<claimOf, current, acked, session>>
BY DEF DialReaches, NextHandler, C!StartDial, C!tunnelVars

\* Nobody starts to proxy.
LEMMA NextQuiet ==
    ASSUME Quiet, [Next]_vars
    PROVE  Quiet'
<1>1. CASE UNCHANGED gatewayVars
  BY <1>1 DEF Quiet, gatewayVars
<1>2. CASE GatewayOnly \/ Together
  <2>1. UNCHANGED proxy
    <3>1. CASE GatewayOnly
      BY <3>1, GatewayKinds, GatewayFrames
    <3>2. CASE DialReaches
      BY <3>2, Reaching, GatewayFrames
    <3>3. CASE \E n \in Tunnel, d \in Releaser : AckRelease(n, d)
      BY <3>3, GatewayFrames DEF AckRelease
    <3>4. QED
      BY <1>2, <3>1, <3>2, <3>3 DEF Together
  <2>2. G!Track
    BY <1>2, KindFrames
  <2>3. QED
    BY <2>1, <2>2 DEF Quiet, G!Track
<1>3. QED
  BY <1>1, <1>2, Kinds, KindFrames DEF vars

\* How a client's tunnels change: the next one opens, or at most one closes.
LEMMA TunnelMoves ==
    ASSUME CS!IInv, Paired, [Next]_vars
    PROVE  \/ DialSucceeds
           \/ /\ UNCHANGED <<claimOf, current>>
              /\ \A n \in Tunnel : session'[n] = "open" => session[n] = "open"
<1>0. session \in [Tunnel -> {"none", "open", "closed"}] /\ current \in Tunnel
  BY ClientFacts
<1>1. ASSUME NEW n \in Tunnel, session' = [session EXCEPT ![n] = "closed"]
      PROVE  \A m \in Tunnel : session'[m] = "open" => session[m] = "open"
  BY <1>0, <1>1
<1>2. CASE ClientLoop
  <2>1. UNCHANGED <<claimOf, current>>
        /\ (UNCHANGED session \/ session' = [session EXCEPT ![current] = "closed"])
    BY <1>2
    DEF ClientLoop, C!LoopCancelled, C!LoopSeesClose, C!LoopChecksTerminal, C!LoopSends,
        C!LoopGivesUpSend, C!WaitRetry, C!Close, C!tunnelVars
  <2>2. QED
    BY <1>0, <1>1, <2>1
<1>3. CASE DialMisses \/ RunStep \/ ClientCancel \/ DialLost \/ DialRefused
  BY <1>3
  DEF DialMisses, RunStep, ClientCancel, DialLost, DialRefused, C!StartDial, C!DialFails, C!Run,
      C!RunCancelled, C!RunReceives, C!RunSeesLoopEnd, C!Cancel, C!tunnelVars, C!loopVars
<1>4. ASSUME NEW n \in Tunnel, ClientSessionStep(n) \/ ClientSessionBreaks(n)
      PROVE  /\ UNCHANGED <<claimOf, current>>
             /\ \A m \in Tunnel : session'[m] = "open" => session[m] = "open"
  <2>1. UNCHANGED <<claimOf, current>>
        /\ (UNCHANGED session \/ session' = [session EXCEPT ![n] = "closed"])
    BY <1>4
    DEF ClientSessionStep, ClientSessionBreaks, C!ReportTerminal, C!EndAccept, C!SessionBreaks,
        C!Close, C!loopVars
  <2>2. QED
    BY <1>1, <2>1
<1>5. CASE Together
  BY <1>5, Reaching DEF Together, AckRelease, C!AckTerminalFrame, C!loopVars
<1>6. CASE GatewayOnly
  BY <1>6, KindFrames DEF clientVars
<1>7. CASE UNCHANGED vars
  BY <1>7 DEF vars, clientVars
<1>8. QED
  BY <1>2, <1>3, <1>4, <1>5, <1>6, <1>7, Kinds DEF ClientOnly

\* A tunnel that is lost stays so.
LEMMA StaleStays ==
    ASSUME CS!IInv, Paired, [Next]_vars, NEW c \in ClaimID, Stale(c)
    PROVE  Stale(c)'
<1>1. PICK n \in Tunnel : claimOf[n] = c /\ session[n] # "open"
  BY DEF Stale
<1>2. n <= current /\ current \in Tunnel /\ session \in [Tunnel -> {"none", "open", "closed"}]
      /\ claimOf \in [Tunnel -> ClaimID \cup {None}]
  BY <1>1, SystemAssumption, ClientFacts DEF Paired
<1>3. CASE DialSucceeds
  <2>1. /\ session' = [session EXCEPT ![current + 1] = "open"]
        /\ claimOf' = [claimOf EXCEPT ![current + 1] = attempt]
    BY <1>3 DEF DialSucceeds, C!DialSucceeds
  <2>2. n # current + 1
    BY <1>2, SystemAssumption DEF Tunnel
  <2>3. claimOf'[n] = c /\ session'[n] # "open"
    BY <1>1, <1>2, <2>1, <2>2
  <2>4. QED
    BY <2>3 DEF Stale
<1>4. CASE ~DialSucceeds
  BY <1>1, <1>4, TunnelMoves DEF Stale
<1>5. QED
  BY <1>3, <1>4
-----------------------------------------------------------------------------
\* The gateway's functions on claims, and what a handler has not yet reached.
LEMMA Early ==
    ASSUME GS!IInv
    PROVE  /\ handler = [c \in ClaimID |-> handler[c]] /\ conn = [c \in ClaimID |-> conn[c]]
           /\ setup = [c \in ClaimID |-> setup[c]]
           /\ \A c \in ClaimID : handler[c] \in {"idle", "create", "accept", "refused"} =>
                conn[c] = "none" /\ setup[c] = "none"
<1>1. GS!Types
  BY DEF GS!IInv
<1>2. /\ handler = [c \in ClaimID |-> handler[c]] /\ conn = [c \in ClaimID |-> conn[c]]
      /\ setup = [c \in ClaimID |-> setup[c]]
  BY <1>1 DEF GS!Types
<1>3. \A c \in ClaimID : handler[c] \in {"idle", "create", "accept", "refused"} =>
        conn[c] = "none" /\ setup[c] = "none"
  BY GatewayFacts DEF GS!Upgraded
<1>4. QED
  BY <1>2, <1>3

\* A handler does not start again, and a setup that succeeded stays so.
LEMMA GoesOn ==
    ASSUME GS!IInv, [Next]_vars, NEW x \in ClaimID
    PROVE  /\ handler[x] # "idle" => handler'[x] # "idle"
           /\ setup[x] = "ok" => setup'[x] = "ok"
<1> USE DEF G!At, G!Goto, G!SetupIs, G!Close, G!registry
<1> USE Early
<1>1. CASE UNCHANGED gatewayVars
  BY <1>1 DEF gatewayVars
<1>2. ASSUME NEW c \in ClaimID, G!Handshake(c)
      PROVE  /\ handler[x] # "idle" => handler'[x] # "idle"
             /\ setup[x] = "ok" => setup'[x] = "ok"
  BY <1>2
  DEF G!Handshake, G!LookupReplaced, G!CloseReplaced, G!ReleaseReplaced, G!CreateClaim, G!AcceptUpgrade,
      G!FailUpgrade, G!SetupResult, G!SetupTimeout
<1>3. ASSUME NEW c \in ClaimID, G!SetupStep(c) \/ G!ClientAnswersReady(c)
      PROVE  UNCHANGED handler /\ (setup[x] = "ok" => setup'[x] = "ok")
  BY <1>3 DEF G!SetupStep, G!ClientAnswersReady
<1>4. ASSUME NEW c \in ClaimID, G!CleanUp(c)
      PROVE  (handler[x] # "idle" => handler'[x] # "idle") /\ UNCHANGED setup
  BY <1>4 DEF G!CleanUp, G!SessionEnded, G!ForgetSession, G!ReleaseOwnClaim, G!CloseOwnSession
<1>5. ASSUME NEW c \in ClaimID, G!TunnelRequest(c)
      PROVE  (handler[x] # "idle" => handler'[x] # "idle") /\ UNCHANGED setup
  BY <1>5 DEF G!TunnelRequest
<1>6. CASE GatewayOnly
  BY <1>2, <1>3, <1>4, <1>6, GatewayKinds, GatewayFrames
<1>7. CASE Together
  BY <1>5, <1>7, Reaching, GatewayFrames DEF Together, AckRelease
<1>8. QED
  BY <1>1, <1>6, <1>7, Kinds, KindFrames DEF vars

\* A session that goes down stays down.
LEMMA GoingDownStays ==
    ASSUME GS!IInv, [Next]_vars, NEW x \in ClaimID, GoingDown(x)
    PROVE  GoingDown(x)'
<1> USE DEF G!At, G!Goto, G!SetupIs, G!Close, G!CloseLater, G!registry, GoingDown
<1> USE Early
<1>1. CASE UNCHANGED gatewayVars
  BY <1>1 DEF gatewayVars
<1>2. ASSUME NEW c \in ClaimID, G!Handshake(c)
      PROVE  GoingDown(x)'
  BY <1>2
  DEF G!Handshake, G!LookupReplaced, G!CloseReplaced, G!ReleaseReplaced, G!CreateClaim, G!AcceptUpgrade,
      G!FailUpgrade, G!SetupResult, G!SetupTimeout
<1>3. ASSUME NEW c \in ClaimID, G!CleanUp(c)
      PROVE  GoingDown(x)'
  BY <1>3, GatewayFrames
  DEF G!CleanUp, G!SessionEnded, G!ForgetSession, G!ReleaseOwnClaim, G!CloseOwnSession
<1>4. ASSUME NEW c \in ClaimID, G!DeferredClose(c) \/ G!ConnectionBreaks(c)
      PROVE  GoingDown(x)'
  BY <1>4 DEF G!DeferredClose, G!ConnectionBreaks
<1>5. ASSUME NEW d \in Releaser, G!ReleaseStep(d)
      PROVE  GoingDown(x)'
  BY <1>5, GatewayFrames
  DEF G!ReleaseStep, G!ReleaseLooksUp, G!ReleaseFindsSession, G!ReleaseNotifies, G!ReleaseReadsAck,
      G!ReleaseFails, G!ReleaseFrees, G!tunnel
<1>6. CASE GatewayOnly
  BY <1>2, <1>3, <1>4, <1>5, <1>6, GatewayKinds, GatewayFrames
<1>7. CASE Together
  BY <1>7, Reaching, GatewayFrames DEF Together, AckRelease
<1>8. QED
  BY <1>1, <1>6, <1>7, Kinds, KindFrames DEF vars

\* A handshake that replaces a claim replaces one whose tunnel is lost.
LEMMA NextReplacesStale ==
    ASSUME GS!IInv, CS!IInv, Paired, ReplacesStale, [Next]_vars
    PROVE  ReplacesStale'
<1>1. CASE UNCHANGED ask
  <2>1. ASSUME NEW c \in ClaimID, ask[c].replaces # None
        PROVE  \E n \in Tunnel : claimOf'[n] = ask[c].replaces /\ session'[n] # "open"
    <3>1. PICK old \in ClaimID : old = ask[c].replaces
      BY <2>1, GatewayFacts
    <3>2. Stale(old)
      BY <2>1, <3>1 DEF ReplacesStale
    <3>3. Stale(old)'
      BY <3>2, StaleStays
    <3>4. QED
      BY <3>1, <3>3 DEF Stale
  <2>2. QED
    BY <1>1, <2>1 DEF ReplacesStale, Stale
<1>2. CASE DialReaches
  <2>1. PICK c \in ClaimID :
          /\ G!TunnelRequest(c) /\ ask'[c].replaces = claimOf[current] /\ loop = "dial"
          /\ UNCHANGED <<claimOf, session>>
    BY <1>2, Reaching
  <2>2. \A d \in ClaimID : d # c => ask'[d] = ask[d]
    BY <2>1, GatewayFacts DEF G!TunnelRequest
  <2>3. current \in Tunnel /\ session[current] # "open"
    BY <2>1, ClientFacts DEF CS!Broken
  <2>4. ASSUME NEW d \in ClaimID, ask'[d].replaces # None
        PROVE  \E n \in Tunnel : claimOf'[n] = ask'[d].replaces /\ session'[n] # "open"
    <3>1. CASE d = c
      BY <2>1, <2>3, <3>1
    <3>2. CASE d # c
      BY <2>1, <2>2, <2>4, <3>2 DEF ReplacesStale, Stale
    <3>3. QED
      BY <3>1, <3>2
  <2>5. QED
    BY <2>4 DEF ReplacesStale, Stale
<1>3. CASE GatewayOnly
  BY <1>1, <1>3, GatewayKinds, GatewayFrames
<1>4. CASE \E n \in Tunnel, d \in Releaser : AckRelease(n, d)
  BY <1>1, <1>4, GatewayFrames DEF AckRelease
<1>5. CASE UNCHANGED gatewayVars
  BY <1>1, <1>5 DEF gatewayVars
<1>6. QED
  BY <1>2, <1>3, <1>4, <1>5, Kinds, KindFrames DEF Together, vars

\* A release request that moves on keeps its claim.
LEMMA RequestMoves ==
    ASSUME rel \in [Releaser -> GS!Releases], NEW e \in Releaser, NEW place,
           rel' = [rel EXCEPT ![e].at = place]
    PROVE  \A d \in Releaser :
             /\ rel'[d].id = rel[d].id /\ rel'[d].at = IF d = e THEN place ELSE rel[d].at
             /\ d # e => rel'[d] = rel[d]
<1>1. rel[e] \in GS!Releases
  OBVIOUS
<1>2. rel'[e].id = rel[e].id /\ rel'[e].at = place
  BY <1>1 DEF GS!Releases
<1>3. \A d \in Releaser : d # e => rel'[d] = rel[d]
  OBVIOUS
<1>4. QED
  BY <1>2, <1>3

\* A release that frees has closed the session before.
LEMMA NextFreedGoesDown ==
    ASSUME GS!IInv, FreedGoesDown, [Next]_vars
    PROVE  FreedGoesDown'
<1>0. rel \in [Releaser -> GS!Releases]
  BY GatewayFacts
<1> SUFFICES ASSUME NEW d \in Releaser, rel'[d].at \in {"release", "204"}
             PROVE  GoingDown(rel[d].id)'
  BY DEF FreedGoesDown
<1>2. ASSUME NEW c \in ClaimID, rel'[d].id = c, c \in closing' \/ GoingDown(c)
      PROVE  GoingDown(rel[d].id)'
  <2>1. GoingDown(c)'
    BY <1>2, GoingDownStays DEF GoingDown
  <2>2. QED
    BY <1>2, <2>1 DEF GoingDown
<1>3. CASE rel'[d] = rel[d]
  <2>1. rel[d].id \in ClaimID /\ GoingDown(rel[d].id)
    BY <1>3, GatewayFacts DEF FreedGoesDown
  <2>2. PICK c \in ClaimID : c = rel[d].id
    BY <2>1
  <2>3. QED
    BY <1>2, <1>3, <2>1, <2>2
<1>4. ASSUME NEW e \in Releaser, G!ReleaseStep(e), rel'[d] # rel[d]
      PROVE  GoingDown(rel[d].id)'
  <2>1. PICK place :
          /\ rel' = [rel EXCEPT ![e].at = place]
          /\ \/ place \notin {"release", "204"}
             \/ rel[e].at = "acked" /\ closing' = closing \cup {rel[e].id}
             \/ rel[e].at = "release"
    <3>1. \/ \E place \in {"401", "404", "session", "notify", "await", "409 unsent", "409"} :
                rel' = [rel EXCEPT ![e].at = place]
          \/ G!ReleaseReadsAck(e) \/ G!ReleaseFrees(e)
      BY <1>4
      DEF G!ReleaseStep, G!ReleaseLooksUp, G!ReleaseFindsSession, G!ReleaseNotifies, G!ReleaseFails, G!RelAt
    <3>2. QED
      BY <3>1 DEF G!ReleaseReadsAck, G!ReleaseFrees, G!RelAt, G!CloseLater
  <2>2. e = d /\ rel'[d].id = rel[d].id /\ rel'[d].at = place
    BY <1>0, <1>4, <2>1, RequestMoves
  <2>3. (rel[d].at = "acked" /\ rel[d].id \in closing') \/ rel[d].at = "release"
    BY <2>1, <2>2
  <2>4. rel[d].id \in ClaimID
    BY <2>3, GatewayFacts
  <2>5. PICK c \in ClaimID : c = rel[d].id
    BY <2>4
  <2>6. QED
    BY <1>2, <2>2, <2>3, <2>5 DEF FreedGoesDown
<1>5. ASSUME NEW e \in Releaser, G!DeleteArrives(e) \/ G!ClientAcksRelease(e)
      PROVE  rel'[d] = rel[d]
  <2>1. CASE G!DeleteArrives(e)
    BY <1>0, <2>1 DEF G!DeleteArrives
  <2>2. CASE G!ClientAcksRelease(e)
    <3>1. PICK place :
            rel' = [rel EXCEPT ![e].at = place] /\ place \in {"acked", "await", "409"}
      BY <2>2 DEF G!ClientAcksRelease, G!RelAt
    <3>2. QED
      BY <1>0, <3>1, RequestMoves
  <2>3. QED
    BY <1>5, <2>1, <2>2
<1>6. CASE GatewayOnly
  BY <1>3, <1>4, <1>5, <1>6, GatewayKinds, GatewayFrames
<1>7. CASE Together
  BY <1>3, <1>5, <1>7, Reaching, GatewayFrames DEF Together, AckRelease
<1>8. CASE UNCHANGED gatewayVars
  BY <1>3, <1>8 DEF gatewayVars
<1>9. QED
  BY <1>6, <1>7, <1>8, Kinds, KindFrames DEF vars
-----------------------------------------------------------------------------
\* Each tunnel keeps a claim of its own.
LEMMA NextPaired ==
    ASSUME GS!IInv, CS!IInv, Paired, [Next]_vars
    PROVE  Paired'
<1>0. /\ current \in Tunnel /\ acked \subseteq Tunnel
      /\ attempt \in ClaimID \cup {None} /\ claimOf \in [Tunnel -> ClaimID \cup {None}]
  BY ClientFacts DEF Paired
<1>1. \A c \in ClaimID : /\ handler[c] # "idle" => handler'[c] # "idle"
                         /\ setup[c] = "ok" => setup'[c] = "ok"
  BY GoesOn
<1>2. \A n \in Tunnel : claimOf[n] # None => claimOf[n] \in ClaimID /\ handler[claimOf[n]] # "idle"
  BY TunnelClaim DEF GS!Upgraded
<1>3. ASSUME UNCHANGED <<claimOf, current, acked, loop>>, attempt' \in {attempt, None}
      PROVE  Paired'
  BY <1>0, <1>1, <1>3, SystemAssumption DEF Paired
<1>4. CASE ClientLoop \/ DialMisses
  <2>1. loop # "dialing" /\ UNCHANGED <<claimOf, current, acked, attempt>>
    BY <1>4
    DEF ClientLoop, DialMisses, C!StartDial, C!LoopCancelled, C!LoopSeesClose, C!LoopChecksTerminal,
        C!LoopSends, C!LoopGivesUpSend, C!WaitRetry, C!Sending, C!tunnelVars
  <2>2. attempt = None
    BY <2>1 DEF Paired
  <2>3. QED
    BY <1>0, <1>1, <2>1, <2>2 DEF Paired
<1>5. CASE RunStep \/ ClientCancel \/ DialLost \/ DialRefused
  <2>1. CASE RunStep \/ ClientCancel
    BY <1>3, <2>1
    DEF RunStep, ClientCancel, C!Run, C!RunCancelled, C!RunReceives, C!RunSeesLoopEnd, C!Cancel,
        C!tunnelVars, C!loopVars
  <2>2. CASE DialLost \/ DialRefused
    <3>1. UNCHANGED <<claimOf, current, acked>> /\ attempt' = None
      BY <2>2 DEF DialLost, DialRefused, C!DialFails, C!tunnelVars
    <3>2. QED
      BY <1>0, <1>1, <3>1, SystemAssumption DEF Paired
  <2>3. QED
    BY <1>5, <2>1, <2>2
<1>6. ASSUME NEW n \in Tunnel, ClientSessionStep(n) \/ ClientSessionBreaks(n)
      PROVE  Paired'
  BY <1>3, <1>6
  DEF ClientSessionStep, ClientSessionBreaks, C!ReportTerminal, C!EndAccept, C!SessionBreaks, C!loopVars
<1>7. CASE DialSucceeds
  <2> DEFINE new == current + 1
  <2>1. /\ attempt # None /\ setup[attempt] = "ok" /\ UNCHANGED <<setup, handler, acked>>
        /\ current < MaxTunnels /\ current' = new /\ attempt' = None
        /\ claimOf' = [claimOf EXCEPT ![new] = attempt]
    BY <1>7 DEF DialSucceeds, C!DialSucceeds, GatewayWaits, gatewayVars
  <2>2. new \in Tunnel /\ ~(new <= current) /\ \A n \in Tunnel : n <= new <=> n <= current \/ n = new
    BY <1>0, <2>1, SystemAssumption DEF Tunnel
  <2>3. PICK c \in ClaimID : c = attempt
    BY <1>0, <2>1
  <2>4. claimOf'[new] = c /\ \A n \in Tunnel : n # new => claimOf'[n] = claimOf[n] /\ claimOf[n] # c
    BY <1>0, <2>1, <2>2, <2>3, SystemAssumption DEF Paired
  <2>5. \A n \in Tunnel : claimOf'[n] \in ClaimID \cup {None} /\ (claimOf'[n] # None <=> n <= new)
    BY <1>0, <2>2, <2>4, SystemAssumption DEF Paired
  <2>6. \A n \in Tunnel : claimOf'[n] # None => setup[claimOf'[n]] = "ok" /\ claimOf'[n] # None
    BY <2>1, <2>3, <2>4 DEF Paired
  <2>7. \A n \in Tunnel : n \in acked => claimOf'[n] # None
    BY <2>3, <2>4, SystemAssumption DEF Paired
  <2>8. \A m, n \in Tunnel : claimOf'[m] = claimOf'[n] /\ claimOf'[m] # None => m = n
    BY <2>4 DEF Paired
  <2>9. claimOf' \in [Tunnel -> ClaimID \cup {None}]
    BY <1>0, <2>1
  <2>10. QED
    BY <2>1, <2>5, <2>6, <2>7, <2>8, <2>9 DEF Paired
<1>8. CASE DialReaches
  <2>1. PICK c \in ClaimID : /\ handler[c] = "idle" /\ attempt' = c /\ G!TunnelRequest(c)
                             /\ loop' = "dialing" /\ UNCHANGED <<claimOf, current, acked>>
    BY <1>8, Reaching
  <2>2. handler'[c] # "idle"
    BY <2>1, Early DEF G!TunnelRequest, G!Goto
  <2>3. \A n \in Tunnel : claimOf[n] # None => claimOf[n] # c
    BY <1>2, <2>1
  <2>4. QED
    BY <1>0, <1>1, <2>1, <2>2, <2>3 DEF Paired
<1>9. ASSUME NEW n \in Tunnel, NEW d \in Releaser, AckRelease(n, d)
      PROVE  Paired'
  <2>1. /\ session[n] = "open" /\ acked' = acked \cup {n}
        /\ UNCHANGED <<claimOf, current, attempt, loop>>
    BY <1>9 DEF AckRelease, C!AckTerminalFrame, C!loopVars
  <2>2. n <= current
    BY <1>0, <2>1, ClientFacts DEF Tunnel
  <2>3. QED
    BY <1>0, <1>1, <2>1, <2>2 DEF Paired
<1>10. CASE GatewayOnly
  BY <1>3, <1>10, KindFrames DEF clientVars
<1>11. CASE UNCHANGED vars
  BY <1>3, <1>11 DEF vars, clientVars
<1>12. QED
  BY <1>4, <1>5, <1>6, <1>7, <1>8, <1>9, <1>10, <1>11, Kinds DEF ClientOnly, Together

\* The handlers that may hold a routable claim.
Live == {"accept", "setup", "serving"}

\* A live handler has just created its claim or was live before, and its claim is
\* only taken by a release or by the client that replaces it.
LEMMA LiveMoves ==
    ASSUME GS!IInv, ReplacesStale, FreedGoesDown, GatewayOnly \/ Together,
           NEW x \in ClaimID, handler'[x] \in Live
    PROVE  /\ handler[x] \in Live \/ (x \in DOMAIN claims' /\ setup'[x] = "none")
           /\ x \in DOMAIN claims => x \in DOMAIN claims' \/ GoingDown(x) \/ Stale(x)
<1> USE DEF G!At, G!Goto, G!registry, Live
<1> USE Early
<1>0. DOMAIN claims \subseteq ClaimID
  BY GatewayFacts
<1>1. ASSUME NEW c \in ClaimID, G!Handshake(c)
      PROVE  /\ handler[x] \in Live \/ (x \in DOMAIN claims' /\ setup'[x] = "none")
             /\ x \in DOMAIN claims => x \in DOMAIN claims' \/ GoingDown(x) \/ Stale(x)
  <2>1. CASE G!LookupReplaced(c) \/ G!CloseReplaced(c) \/ G!AcceptUpgrade(c) \/ G!SetupResult(c)
               \/ G!SetupTimeout(c)
    BY <2>1 DEF G!LookupReplaced, G!CloseReplaced, G!AcceptUpgrade, G!SetupResult, G!SetupTimeout
  <2>2. CASE G!ReleaseReplaced(c)
    <3>1. GS!Store!Release(ask[c].owner, ask[c].replaces) /\ handler'[c] = "create"
      BY <2>2, SameStore DEF G!ReleaseReplaced
    <3>2. x # c /\ handler'[x] = handler[x]
      BY <2>2, <3>1 DEF G!ReleaseReplaced
    <3>3. x \in DOMAIN claims => x \in DOMAIN claims' \/ x = ask[c].replaces
      BY <3>1 DEF GS!Store!Release
    <3>4. x = ask[c].replaces => Stale(x)
      BY SystemAssumption DEF ReplacesStale
    <3>5. QED
      BY <3>2, <3>3, <3>4
  <2>3. CASE G!CreateClaim(c)
    <3>1. GS!Store!Create(c, ask[c].owner, ask[c].paths)
          /\ handler'[c] = IF GS!Store!Accepted(ask[c].owner, ask[c].paths) THEN "accept" ELSE "refused"
      BY <2>3, SameStore DEF G!CreateClaim
    <3>2. x # c => handler'[x] = handler[x]
      BY <2>3 DEF G!CreateClaim
    <3>3. setup'[c] = "none"
      BY <2>3 DEF G!CreateClaim
    <3>4. x = c => x \in DOMAIN claims'
      BY <3>1 DEF GS!Store!Create
    <3>5. DOMAIN claims \subseteq DOMAIN claims'
      BY <3>1 DEF GS!Store!Create
    <3>6. QED
      BY <3>2, <3>3, <3>4, <3>5
  <2>4. CASE G!FailUpgrade(c)
    <3>1. GS!Store!Release(ask[c].owner, c) /\ handler'[c] = "refused"
      BY <2>4, SameStore DEF G!FailUpgrade
    <3>2. x # c /\ handler'[x] = handler[x]
      BY <2>4, <3>1 DEF G!FailUpgrade
    <3>3. QED
      BY <3>1, <3>2 DEF GS!Store!Release
  <2>5. QED
    BY <1>1, <2>1, <2>2, <2>3, <2>4 DEF G!Handshake
<1>2. ASSUME NEW c \in ClaimID, G!CleanUp(c)
      PROVE  /\ handler[x] \in Live
             /\ x \in DOMAIN claims => x \in DOMAIN claims'
  <2>1. x # c /\ handler'[x] = handler[x]
    BY <1>2 DEF G!CleanUp, G!SessionEnded, G!ForgetSession, G!ReleaseOwnClaim, G!CloseOwnSession
  <2>2. UNCHANGED claims \/ GS!Store!Release(ask[c].owner, c)
    BY <1>2, SameStore
    DEF G!CleanUp, G!SessionEnded, G!ForgetSession, G!ReleaseOwnClaim, G!CloseOwnSession
  <2>3. QED
    BY <2>1, <2>2 DEF GS!Store!Release
<1>3. ASSUME NEW d \in Releaser, G!ReleaseStep(d)
      PROVE  x \in DOMAIN claims => x \in DOMAIN claims' \/ GoingDown(x)
  <2>1. UNCHANGED claims \/ (rel[d].at = "release" /\ GS!Store!Release(rel[d].owner, rel[d].id))
    BY <1>3, SameStore
    DEF G!ReleaseStep, G!ReleaseLooksUp, G!ReleaseFindsSession, G!ReleaseNotifies, G!ReleaseReadsAck,
        G!ReleaseFails, G!ReleaseFrees
  <2>2. QED
    BY <2>1 DEF GS!Store!Release, FreedGoesDown
<1>4. ASSUME NEW c \in ClaimID, G!TunnelRequest(c)
      PROVE  handler[x] \in Live
  BY <1>4 DEF G!TunnelRequest
<1>5. CASE GatewayOnly
  BY <1>1, <1>2, <1>3, <1>5, GatewayKinds, GatewayFrames
<1>6. CASE Together
  BY <1>4, <1>6, Reaching, GatewayFrames DEF Together, AckRelease
<1>7. QED
  BY <1>5, <1>6

\* The session of a live handler is registered before the client is told, and
\* then stays in the table.
LEMMA SessionMoves ==
    ASSUME GS!IInv, GatewayOnly \/ Together, NEW x \in ClaimID, handler'[x] \in Live
    PROVE  /\ setup'[x] \in {"routable", "ok"} => setup[x] \in {"routable", "ok"} \/ x \in sessions'
           /\ x \in sessions => x \in sessions'
<1> USE DEF G!At, G!Goto, G!SetupIs, G!registry, Live
<1> USE Early
<1>1. ASSUME NEW c \in ClaimID, G!Handshake(c)
      PROVE  setup'[x] \in {"routable", "ok"} => setup[x] \in {"routable", "ok"}
  BY <1>1
  DEF G!Handshake, G!LookupReplaced, G!CloseReplaced, G!ReleaseReplaced, G!CreateClaim, G!AcceptUpgrade,
      G!FailUpgrade, G!SetupResult, G!SetupTimeout
<1>2. ASSUME NEW c \in ClaimID, G!SetupStep(c) \/ G!ClientAnswersReady(c)
      PROVE  /\ setup'[x] \in {"routable", "ok"} => setup[x] \in {"routable", "ok"} \/ x \in sessions'
             /\ x \in sessions => x \in sessions'
  BY <1>2 DEF G!SetupStep, G!ClientAnswersReady
<1>3. ASSUME NEW c \in ClaimID, G!CleanUp(c)
      PROVE  x \in sessions => x \in sessions'
  BY <1>3 DEF G!CleanUp, G!SessionEnded, G!ForgetSession, G!ReleaseOwnClaim, G!CloseOwnSession
<1>4. CASE GatewayOnly
  BY <1>1, <1>2, <1>3, <1>4, GatewayKinds, GatewayFrames
<1>5. CASE Together
  BY <1>5, Reaching, GatewayFrames DEF Together, AckRelease
<1>6. QED
  BY <1>4, <1>5

\* What a live handler has, it keeps.
LEMMA NextKept ==
    ASSUME GS!IInv, CS!IInv, Paired, ReplacesStale, FreedGoesDown, Kept, [Next]_vars
    PROVE  Kept'
<1> SUFFICES ASSUME NEW x \in ClaimID, handler'[x] \in Live
             PROVE  /\ x \in DOMAIN claims' \/ GoingDown(x)' \/ Stale(x)'
                    /\ setup'[x] \in {"routable", "ok"} => x \in sessions'
  BY DEF Kept, Live
<1>1. GoingDown(x) \/ Stale(x) => GoingDown(x)' \/ Stale(x)'
  BY GoingDownStays, StaleStays
<1>2. CASE UNCHANGED gatewayVars
  BY <1>1, <1>2 DEF Kept, Live, gatewayVars
<1>3. CASE GatewayOnly \/ Together
  <2>1. CASE handler[x] \in Live
    <3>1. /\ x \in DOMAIN claims \/ GoingDown(x) \/ Stale(x)
          /\ setup[x] \in {"routable", "ok"} => x \in sessions
      BY <2>1 DEF Kept, Live
    <3>2. QED
      BY <1>1, <1>3, <3>1, LiveMoves, SessionMoves
  <2>2. CASE handler[x] \notin Live
    <3>1. x \in DOMAIN claims' /\ setup'[x] = "none"
      BY <1>3, <2>2, LiveMoves
    <3>2. QED
      BY <3>1
  <2>3. QED
    BY <2>1, <2>2
<1>4. QED
  BY <1>2, <1>3, Kinds, KindFrames DEF vars

\* A handler leaves its session after the set-up failed or the session ended, or
\* starts to close it.
LEMMA NextLeftGoesDown ==
    ASSUME GS!IInv, LeftGoesDown, [Next]_vars
    PROVE  LeftGoesDown'
<1> SUFFICES ASSUME NEW x \in ClaimID, handler'[x] \in Left
             PROVE  setup'[x] = "failed" \/ GoingDown(x)'
  BY DEF LeftGoesDown
<1> USE DEF G!At, G!Goto, G!SetupIs, G!CloseLater, G!registry, Left
<1> USE Early
<1>1. GoingDown(x) => GoingDown(x)'
  BY GoingDownStays
<1>2. handler[x] \in Left => setup[x] = "failed" \/ GoingDown(x)
  BY DEF LeftGoesDown
<1>3. ASSUME NEW c \in ClaimID, G!Handshake(c)
      PROVE  /\ setup[x] = "failed" => setup'[x] = "failed"
             /\ handler[x] \in Left \/ setup'[x] = "failed" \/ GoingDown(x)'
  BY <1>3
  DEF G!Handshake, G!LookupReplaced, G!CloseReplaced, G!ReleaseReplaced, G!CreateClaim, G!AcceptUpgrade,
      G!FailUpgrade, G!SetupResult, G!SetupTimeout, GoingDown
<1>4. ASSUME NEW c \in ClaimID, G!CleanUp(c)
      PROVE  /\ UNCHANGED setup
             /\ handler[x] \in Left \/ GoingDown(x)'
  BY <1>4
  DEF G!CleanUp, G!SessionEnded, G!ForgetSession, G!ReleaseOwnClaim, G!CloseOwnSession, GoingDown
<1>5. ASSUME NEW c \in ClaimID, G!SetupStep(c) \/ G!ClientAnswersReady(c)
      PROVE  UNCHANGED handler /\ (setup[x] = "failed" => setup'[x] = "failed")
  BY <1>5 DEF G!SetupStep, G!ClientAnswersReady
<1>6. ASSUME NEW c \in ClaimID, G!TunnelRequest(c)
      PROVE  UNCHANGED setup /\ handler[x] \in Left
  BY <1>6 DEF G!TunnelRequest
<1>7. CASE UNCHANGED gatewayVars
  BY <1>1, <1>2, <1>7 DEF gatewayVars
<1>8. CASE GatewayOnly
  BY <1>1, <1>2, <1>3, <1>4, <1>5, <1>8, GatewayKinds, GatewayFrames
<1>9. CASE Together
  BY <1>1, <1>2, <1>6, <1>9, Reaching, GatewayFrames DEF Together, AckRelease
<1>10. QED
  BY <1>7, <1>8, <1>9, Kinds, KindFrames DEF vars
-----------------------------------------------------------------------------
\* The gateway with this client is one of the gateways that GatewayProofs is about.
LEMMA NextGateway ==
    ASSUME GS!IInv, CS!IInv, Paired, Viewed, Quiet, [Next]_vars
    PROVE  [GS!Next]_GS!vars
<1> USE DEF GS!vars, GS!registry, GS!tunnel, gatewayVars
<1>1. CASE GatewayOnly \/ Together
  BY <1>1, GatewaySteps
<1>2. CASE ClientOnly
  <2>1. Sees /\ UNCHANGED gatewayVars
    BY <1>2, KindFrames, Kinds DEF ClientOnly, ClientLoop, DialMisses, DialLost, DialRefused,
           DialSucceeds, RunStep, ClientCancel, ClientSessionStep, ClientSessionBreaks, GatewayWaits
  <2>2. Seen
    BY <1>2, <2>1, ClientSeen
  <2>3. G!Track
    BY <2>1 DEF Quiet, G!Track
  <2>4. CASE UNCHANGED client
    BY <2>1, <2>4
  <2>5. CASE \E c \in ClaimID : G!ClientServes(c) \/ G!ClientLeaves(c)
    BY <2>3, <2>5, GatewaySteps
  <2>6. QED
    BY <2>2, <2>4, <2>5 DEF Seen
<1>3. CASE UNCHANGED vars
  BY <1>3 DEF vars
<1>4. QED
  BY <1>1, <1>2, <1>3, Kinds

\* The client's view is given by every step.
LEMMA NextViewed ==
    ASSUME Viewed, [Next]_vars
    PROVE  Viewed'
<1>1. CASE Next
  BY <1>1, KindFrames DEF Sees, Viewed
<1>2. CASE UNCHANGED vars
  <2>1. UNCHANGED client /\ \A c \in ClaimID : ClientOf(c)' = ClientOf(c)
    BY <1>2, SameView DEF vars, gatewayVars, clientVars
  <2>2. QED
    BY <2>1 DEF Viewed
<1>3. QED
  BY <1>1, <1>2

\* The invariant is inductive.
LEMMA NextIInv == IInv /\ [Next]_vars => IInv'
<1> SUFFICES ASSUME IInv, [Next]_vars PROVE IInv'
  OBVIOUS
<1> USE DEF IInv
<1>1. GS!IInv'
  BY NextGateway, GatewayKept
<1>2. CS!IInv'
  BY ClientSteps, ClientKept
<1>3. Paired' /\ Viewed' /\ Quiet'
  BY NextPaired, NextViewed, NextQuiet
<1>4. ReplacesStale' /\ FreedGoesDown' /\ Kept' /\ LeftGoesDown'
  BY NextReplacesStale, NextFreedGoesDown, NextKept, NextLeftGoesDown
<1>5. QED
  BY <1>1, <1>2, <1>3, <1>4

\* The first tunnel stands.
LEMMA InitIInv == Init => IInv
<1> SUFFICES ASSUME Init PROVE IInv
  OBVIOUS
<1>1. PICK c \in ClaimID, paths \in Requested, owner \in Owner :
        /\ claims = [d \in {c} |-> [owner |-> owner, paths |-> {paths[i] : i \in DOMAIN paths}]]
        /\ issued = {c} /\ sessions = {c} /\ closing = {}
        /\ conn = [d \in ClaimID |-> IF d = c THEN "open" ELSE "none"]
        /\ handler = [d \in ClaimID |-> IF d = c THEN "serving" ELSE "idle"]
        /\ ask = [d \in ClaimID |-> IF d = c
                    THEN [owner |-> owner, paths |-> paths, replaces |-> None] ELSE G!NoAsk]
        /\ setup = [d \in ClaimID |-> IF d = c THEN "ok" ELSE "none"]
        /\ claimOf = [n \in Tunnel |-> IF n = 1 THEN c ELSE None]
  <2> DEFINE c0 == CHOOSE c \in ClaimID : TRUE
             paths0 == CHOOSE p \in Requested : TRUE
             owner0 == CHOOSE o \in Owner : TRUE
  <2>1. c0 \in ClaimID /\ paths0 \in Requested /\ owner0 \in Owner
    BY SystemAssumption
  <2>2. /\ claims = [d \in {c0} |-> [owner |-> owner0, paths |-> {paths0[i] : i \in DOMAIN paths0}]]
        /\ issued = {c0} /\ sessions = {c0} /\ closing = {}
        /\ conn = [d \in ClaimID |-> IF d = c0 THEN "open" ELSE "none"]
        /\ handler = [d \in ClaimID |-> IF d = c0 THEN "serving" ELSE "idle"]
        /\ ask = [d \in ClaimID |-> IF d = c0
                    THEN [owner |-> owner0, paths |-> paths0, replaces |-> None] ELSE G!NoAsk]
        /\ setup = [d \in ClaimID |-> IF d = c0 THEN "ok" ELSE "none"]
        /\ claimOf = [n \in Tunnel |-> IF n = 1 THEN c0 ELSE None]
    BY DEF Init
  <2> HIDE DEF c0, paths0, owner0
  <2>3. QED
    BY <2>1, <2>2
<1>2. /\ expiry = [d \in ClaimID |-> "off"]
      /\ rel = [d \in Releaser |-> [at |-> "idle", id |-> None, owner |-> None]]
      /\ proxy = [q \in Caller |-> [at |-> "idle", path |-> None, claim |-> None]]
      /\ routed = [q \in Caller |-> {}] /\ attempt = None
      /\ client = [d \in ClaimID |-> ClientOf(d)] /\ C!Init
  BY DEF Init
<1>3. /\ current = 1 /\ acked = {} /\ 1 \in Tunnel
      /\ session = [n \in Tunnel |-> IF n = 1 THEN "open" ELSE "none"]
  BY <1>2, SystemAssumption DEF C!Init, C!Tunnel, Tunnel
<1>4. ClientOf(c) = "serving" /\ \A d \in ClaimID : d # c => ClientOf(d) = "none"
  BY <1>1, <1>2, <1>3, SystemAssumption DEF ClientOf
<1>5. client = [d \in ClaimID |-> IF d = c THEN "serving" ELSE "none"]
  BY <1>2, <1>4
<1>6. \A d \in ClaimID : ask[d].replaces = None
  BY <1>1 DEF G!NoAsk
<1>7. GS!Types
  <2>1. ask \in [ClaimID -> GS!Asks]
    BY <1>1 DEF G!NoAsk, GS!Asks
  <2>2. rel \in [Releaser -> GS!Releases] /\ proxy \in [Caller -> GS!Proxied]
    BY <1>2 DEF GS!Releases, GS!ReleasePlace, GS!Proxied
  <2>3. QED
    BY <1>1, <1>2, <1>5, <2>1, <2>2 DEF GS!Types, GS!Before, GS!Upgraded
<1>8. GS!Asked
  BY <1>1, <1>2, <1>6 DEF GS!Asked, GS!At
<1>9. GS!Stages
  BY <1>1, <1>2, <1>5 DEF GS!Stages, GS!StageOf, GS!Before, GS!Upgraded, GS!At
<1>10. GS!Held /\ GS!Replacing /\ GS!Releasing
  BY <1>1, <1>2, <1>6, SystemAssumption DEF GS!Held, GS!Replacing, GS!Releasing, GS!Holding, GS!At
<1>11. CS!IInv
  BY <1>2, SameClient, CS!InitIInv, SystemAssumption
<1>12. Paired
  BY <1>1, <1>2, <1>3, SystemAssumption DEF Paired, Tunnel
<1>13. Viewed /\ Quiet
  BY <1>2 DEF Viewed, Quiet
<1>14. ReplacesStale /\ FreedGoesDown /\ Kept /\ LeftGoesDown
  BY <1>1, <1>2, <1>6 DEF ReplacesStale, FreedGoesDown, Kept, LeftGoesDown, Left
<1>15. QED
  BY <1>7, <1>8, <1>9, <1>10, <1>11, <1>12, <1>13, <1>14 DEF IInv, GS!IInv

\* The inductive invariant holds of every reachable state of the two together: with
\* it, all that GatewayProofs and ClientProofs derive from theirs.
THEOREM Invariance == Spec => []IInv
BY InitIInv, NextIInv, PTL DEF Spec

\* The gateway's assumptions about its clients are met by this client, with its
\* reconnections, lost answers and late acknowledgements: whatever step it takes
\* alone, the gateway's model lets some client take it.
THEOREM ClientIsAllowed == Spec => ImplementsGateway
<1>1. ASSUME IInv, Next
      PROVE  (UNCHANGED gatewayVars =>
                \/ \E c \in ClaimID : G!ClientServes(c) \/ G!ClientLeaves(c)
                \/ \E d \in Releaser : G!ClientAcksRelease(d)) \/ UNCHANGED client
  <2> USE DEF IInv
  <2>1. CASE ClientOnly
    <3>1. Seen
      BY <1>1, <2>1, KindFrames, ClientSeen
    <3>2. QED
      BY <3>1 DEF Seen
  <2>2. CASE GatewayOnly
    BY <1>1, <2>2, KindFrames, Unseen DEF clientVars, gatewayVars
  <2>3. CASE DialReaches
    <3>1. PICK c \in ClaimID : handler[c] = "idle" /\ G!TunnelRequest(c)
      BY <2>3, Reaching
    <3>2. handler'[c] # handler[c]
      BY <1>1, <3>1, Early DEF G!TunnelRequest, G!Goto
    <3>3. QED
      BY <3>2 DEF gatewayVars
  <2>4. CASE \E n \in Tunnel, d \in Releaser : AckRelease(n, d)
    BY <2>4 DEF AckRelease
  <2>5. QED
    BY <1>1, <2>1, <2>2, <2>3, <2>4, Kinds DEF Together
<1>2. IInv /\ [Next]_vars =>
        [UNCHANGED gatewayVars =>
           \/ \E c \in ClaimID : G!ClientServes(c) \/ G!ClientLeaves(c)
           \/ \E d \in Releaser : G!ClientAcksRelease(d)]_client
  BY <1>1 DEF vars
<1>3. QED
  BY <1>2, Invariance, PTL DEF Spec, ImplementsGateway

\* A client that believes in its tunnel is routable, whatever else the gateway is
\* doing, unless that session is being closed: nobody serves in vain for long.
THEOREM TunnelsRoutable == Spec => []ReadyMeansRoutable
<1>1. IInv => ReadyMeansRoutable
  <2> SUFFICES ASSUME IInv, NEW n \in Tunnel, session[n] = "open", conn[claimOf[n]] = "open"
               PROVE  \/ claimOf[n] \in closing
                      \/ claimOf[n] \in sessions /\ claimOf[n] \in DOMAIN claims
    BY DEF ReadyMeansRoutable
  <2> USE DEF IInv
  <2>1. n = current /\ n <= current
    BY ClientFacts DEF Tunnel
  <2>2. claimOf[n] # None
    BY <2>1 DEF Paired
  <2>3. PICK c \in ClaimID : c = claimOf[n]
    BY <2>2 DEF Paired
  <2>4. setup[c] = "ok" /\ handler[c] \in GS!Upgraded
    BY <2>2, <2>3, TunnelClaim
  <2>5. ~Stale(c)
    BY <2>2, <2>3 DEF Paired, Stale
  <2>6. handler[c] \in {"setup", "serving"} => c \in sessions /\ (c \in DOMAIN claims \/ c \in closing)
    BY <2>3, <2>4, <2>5 DEF Kept, GoingDown
  <2>7. handler[c] \in Left => c \in closing
    BY <2>3, <2>4 DEF LeftGoesDown, GoingDown
  <2>8. QED
    BY <2>3, <2>4, <2>6, <2>7 DEF GS!Upgraded, Left
<1>2. QED
  BY <1>1, Invariance, PTL

\* The system runs the client session of ClientProofs, so that all its theorems hold
\* here, with the gateway's answers in place of arbitrary ones.
THEOREM RefinesClient == Spec => CS!Spec
<1>1. Init => CS!Init
  BY SameClient DEF Init
<1>2. [Next]_vars => [CS!Next]_CS!vars
  BY ClientSteps
<1>3. QED
  BY <1>1, <1>2, PTL DEF Spec, CS!Spec

\* The system runs the gateway of GatewayProofs, from a state with a tunnel.
THEOREM RunsGateway == Spec => [][GS!Next]_GS!vars
<1>1. IInv /\ [Next]_vars => [GS!Next]_GS!vars
  BY NextGateway DEF IInv
<1>2. QED
  BY <1>1, Invariance, PTL DEF Spec

\* What the gateway promises, it keeps to this client: no claim of a lost tunnel is
\* stranded or in the way of its replacement, and a 204 means that this client has
\* acknowledged the release and that the paths are free.
THEOREM GatewayPromises ==
    Spec => [](G!ClaimsHaveHandlers /\ G!ReplacedIsFree /\ G!ReleaseIsFinal)
<1>1. IInv => G!ClaimsHaveHandlers
  BY GatewayFacts DEF IInv, GS!IInv, GS!Held, GS!Holding, G!ClaimsHaveHandlers
<1>2. IInv => G!ReplacedIsFree
  BY DEF IInv, GS!IInv, GS!Replacing, GS!At, G!ReplacedIsFree, G!At
<1>3. IInv => G!ReleaseIsFinal
  BY DEF IInv, GS!IInv, GS!Releasing, G!ReleaseIsFinal
<1>4. QED
  BY <1>1, <1>2, <1>3, Invariance, PTL
=============================================================================
