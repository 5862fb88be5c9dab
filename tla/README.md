# Tunlease, specified

TLA+ models of Tunlease, a gateway that lends callback paths of a public host to
developers: `tul claim /webhooks/x/** --to 8080` claims paths by opening a
tunnel, third-party requests below them go through the tunnel, everything else
goes to the origin. One gateway process holds all claims in memory. A claim
lives exactly as long as its tunnel.

Every definition is translated from the Go code; `PROJECT.json` maps it to the
lines. Definitions keep the names of the code where they can.

## The system

| component | state | operations | hard part | correct when |
|---|---|---|---|---|
| claim paths, `internal/claimpath` | none | `Normalize`, `Valid`, `Match`, `Overlap` | exact, `/*` and `/**` patterns, trailing slashes, blanks | overlap is exact; a pattern matches its own children only; what the client accepts the gateway accepts |
| registry, `internal/registry` | claims by identity | `Create`, `Release`, `List` | every check in one critical section, limits at the boundary | no request belongs to two claims; limits, allowlist and depth hold |
| tunnel handshake, `gatewayd/tunnel.go` | `sessions`, one goroutine per handshake | `ServeHTTP`, `completeSetup` | failure after the claim exists; setup timer against setup goroutine; replacement of a claim whose handler still runs | no claim is stranded; replacement frees the old claim |
| release and expiry, `gatewayd/tunnel_claim.go`, `server.go` | timers, DELETE requests | `expireClaim`, `terminateClaim`, `release` | acknowledgements lost or late; two endings of one claim | 204 is final; every ending ends |
| proxying, `gatewayd/tunnel_proxy.go` | one goroutine per request | `ProxyByPath`, `matchClaim` | claim and session are looked up separately | the origin answers only when no tunnel was there; each request is answered |
| client session, `tunnelclient/client.go`, `tunnel_reconnect.go` | session, claim, error, update channel | `Start`, `run`, `Close`, `reconnectLoop` | blocked sends against cancellation; late dials; terminal frame against broken session | no tunnel leaks; the user sees claim and reason; `Close` returns |
| client tunnel, `tunnel_connect.go`, `tunnel_stream.go` | yamux session, terminal and event channels | `dialTunnel`, `acceptStreams` | acknowledgement before report | an acknowledged release does not reconnect |
| protocol and authentication, `tunnel_protocol.go`, `server.go` | none | `requireCompatibleProtocol`, `authenticate` | version skew, identity modes | one owner per token or identity |
| CLI and state file, `internal/cliapp` | `state.json`, shared by processes | `claim`, `release`, `list`, detach | read-modify-write without a lock | no live claim is lost from the file |
| configuration and process, `gatewayconfig`, `gatewaycmd.go` | none | `Validate`, `runGateway` | shutdown | bounds the registry relies on |

The gateway's handshake, release, expiry and proxy goroutines share the registry
(its mutex) and `Tunnel.sessions` (another mutex, never held together with the
first). Client and gateway share a yamux session over a WebSocket: the gateway
opens a stream for each request and for each terminal frame. Inside the client,
`run`, `reconnectLoop` and `acceptStreams` exchange channel messages under two
nested contexts. CLI processes share only `state.json`.

## Modules

| module | models |
|---|---|
| `ClaimPath` | patterns, request paths, `Match`, `Overlap`, over segments |
| `MCClaimPath` | the same against the text, character by character |
| `PathSyntax`, `MCPathSyntax` | `Normalize` in the client, `Valid` in the gateway |
| `Registry`, `MCRegistry` | `Memory.Create` and `Memory.Release` |
| `PathOwnership` | what a registry promises: exclusive ownership of request paths |
| `Gateway`, `MCGateway` | the goroutines and timers of `internal/gatewayd` over `Registry` |
| `Client` | the goroutines of one `tunnelclient.Session` |
| `TunnelSystem`, `MCTunnelSystem` | one client session and the gateway it talks to |
| `StateFile`, `MCStateFile` | `claim`, detached `claim` and `release` processes around `state.json` |
| `ClaimPathProofs`, `MCClaimPathProofs`, `PathSyntaxProofs`, `RegistryProofs`, `GatewayProofs`, `ClientProofs`, `StateFileProofs`, `TunnelSystemProofs` | theorems about the module each is named for |

`Gateway` is composed with `Registry` by `Store == INSTANCE Registry`: each
handler calls the registry's actions, so a registry operation and the move of
its goroutine are one step. `Registry` EXTENDS `ClaimPath`. `TunnelSystem` joins
`Gateway` and `Client` by instance. `StateFile` stands alone: of the gateway it
keeps who holds which claim.

### Correspondence and abstractions

* **Paths.** A path is the sequence of segments between its slashes; the empty
  segment stands between adjacent slashes. A pattern is the pair `split`
  computes. `MCClaimPath` checks that comparing segments decides what comparing
  text does, including a segment that begins another (`a`, `ab`). Specificity
  counts segments where the code counts bytes: two bases that match one request
  are prefixes of it, so the order is the same. Both are proved for all patterns and
  requests (`MatchesText`, `SpecificityCountsText`).
* **Registry.** One action per method, since each runs under the mutex. Paths of
  one claim are a set: their order matters only for which error is returned,
  which `CreateError` keeps. Identities are random in the code; here they are
  any identity not issued before.
* **Gateway.** `handler[c]` is the place of the goroutine whose handshake gets
  claim `c`; a handler that is refused creates none. `conn[c]` is the session as
  the gateway's yamux sees it. `closing` holds the sessions that a `go
  session.Close()` is about to close. The code looks a session up and then asks
  `IsClosed`; the two are one step because a closed session never opens again.
  A handshake's `replaces` names a claim whose client lost its session, as
  `reconnectLoop` does. Authentication and protocol have been passed. A stream's
  deadline may pass at any time.
* **Client.** `loop` is the place of `reconnectLoop`; each `select` is an action
  per case, so all interleavings of ready cases are there. `updates` is the
  channel of capacity one. A dial ends well, with a 4xx answer, or otherwise.
  Event channels that drop what does not fit are a count, or left out where
  nothing depends on what is in them.
* **Tunnel.** `Gateway` alone leaves its clients open: `client[c]` says whether
  the other end of session `c` has dialled, serves, has acknowledged a terminal
  frame, or is gone, and may do anything a client could. In `TunnelSystem` it is
  the client's own state that decides (`Sees`): a dial of `reconnectLoop` that
  reaches the gateway is the arrival of a handshake naming the claim before it,
  the gateway's answers and frames are read by the client's steps, and each end
  of a session notices its end for itself. `ImplementsGateway` checks that
  what `Gateway` allows its clients is enough for the real one: a step that only
  changes `client` is one that `Gateway` has, and all others are taken from it.
* **State file.** `file` is what `loadState` would return: entries and the
  identity shown to the one gateway. A save is two steps: `os.WriteFile` truncates
  (`Truncate`), then writes (`Write`). What is read in between is empty, and so is
  what cannot be parsed; if two processes write at once, a longer text can leave
  its tail behind a shorter one. Between a load and its save a process does
  nothing else that shows, so the load is one step with the change (`mem`), except
  in `release`, which keeps its one load across all its requests. An entry's
  paths and port are those of the process that wrote it. `Free` keeps of the
  registry that a list of paths is held once; `Reconnect` is `reconnectLoop`
  running beside the process's main loop. What it has to say reaches the main loop
  through the session's event channel, which drops what does not fit (`Notify`): any
  notice of a reconnection may be dropped, since other events fill the channel too, and
  `missed` remembers whose last one was. A client that has acknowledged a release or an
  expiry may hear of it only as a lost connection, and dial again (`HearsEnd`, the race
  that `MCTunnelSystem_tombstone` shows). `Start` and the clean-up at the end frame the
  main loop: in between the claim can expire, or its connection be lost and renewed,
  before its entry is written. `list`, and the parent of a detached claim, look an
  identity up and may save one: that is a `release` that finds nothing to release.

## Runs

| run | shows |
|---|---|
| `MCClaimPath` | matching on segments agrees with the byte-wise code; `Overlap` is exact |
| `MCPathSyntax` | accepted paths are patterns; the gateway refuses a normalized path only if it ends in a blank |
| `MCRegistry` | unambiguous routing, limits, allowlist and depth of captured requests, refinement of `PathOwnership` |
| `MCGateway_route` | no stranded claims, replacement frees, requests reach tunnels that were there |
| `MCGateway_release` | a 204 is final; a live claim is taken only by expiry or by its own handler's clean-up |
| `MCGateway_live` | the claim of a closed session is released, and that of a client that is gone without the gateway having noticed (`DeadSessionsFree`, which rests on yamux keep-alive); a set-up ends in service or with its claim released (`SetupEnds`); releases, requests and expiries end |
| `Client` | no leaked tunnel, current claim, a reason for every end, which is true if it is a release or an expiry (`TerminalIsTrue`); `Close` returns; a terminal frame the loop saw is reported |
| `MCTunnelSystem` | `Gateway`'s assumption about clients holds of the client; whoever read "ok" is in the gateway's table and holds its claim while both ends are open, unless the gateway is ending the session: no client goes on serving without a claim |
| `MCStateFile` | what a `release` reports as already absent has no process left that could claim it again, or serves under an identifier that the file never got; a `release` of several claims that partly fails saves all that it could not release and nothing that it did (`PartialReleaseAccounted`); `claim --detach` reports only its own child, and only if it claimed; nobody claims without an identity; the file names the claim that the gateway holds and its owner as long as no other command has written it and the last reconnection was heard of (`SoleWriterReleasable`) |

Three runs look for a statement of the documentation and find it violated:

| run | statement | what happens |
|---|---|---|
| `MCTunnelSystem_tombstone` | no tombstone is needed, since after a successful release the client has stopped reconnecting (`tunnel_claim.go:57`) | the client acknowledges; the gateway answers 204 and closes the session before the client has reported the frame; its loop finds nothing terminal and dials again |
| `MCTunnelSystem_ghost` | on transient network loss it reconnects automatically (`developer-guide.md:159`) | the dial breaks after the gateway created the claim; the retry names the claim before, conflicts with the one just created, and the 409 ends the session |
| `MCStateFile_served` | a detached claim is torn down later with `tul release` (`detach.go:15`) | one process truncates the file to record its claim, another finds no identity in it, makes one and saves that over the first one's entry |

The other ways to lose an entry (a release that rewrites what it loaded before, a
clean-up by paths, a crash in the middle of a write) violate the same property;
the run stops at the shortest.

### Bounds

* Paths of up to two base segments and three request segments over three
  spellings: `Overlap` looks at one segment below a base, so a third segment
  reaches every case; `ClaimPathProofs`, `MCClaimPathProofs` and `PathSyntaxProofs`
  remove the bounds, those on spellings included.
* Three identities with at most two claims, one per owner: enough for a limit
  to be reached, a claim released and the limit reached again.
* Two handshakes in the gateway: an old claim and the one that replaces it, or
  two that compete; one release and one request. More handshakes only repeat
  these pairs, since no operator looks at three claims. `MCGateway_route` has two
  owners, so that a replacement can be refused; in `MCGateway_release` one owner
  suffices, because a release or an expiry acts for the claim's own. The safety
  runs permute claim identities and owners, which nothing orders. The liveness
  run has two owners, so that a release can be unauthorized, and one
  handshake: a handler's steps are guarded by its own place, session, setup and
  timer, and no registry operation blocks, so another claim cannot hold it up.
* `TunnelSystem`: one client. Two handshakes and one release for the properties,
  three handshakes and no release for the refused retry (the tunnel that is lost,
  the dial that fails and the retry). In a step of the system
  `run` is never behind (`RunIsBehind`): it only empties the loop's channel, so
  when it does so makes no difference to the gateway. The user either ends the
  session or asks for its release, and asks while the client believes in its first
  tunnel. No expiry: its frame is acknowledged as a release's is.
* `StateFile`: two `claim` processes and one `release`, so that every pair of
  commands meets; two claims created altogether, so that one process reconnects or
  two compete; one notice of a reconnection waits at a time (eight events in the code),
  a further one is dropped. All have the same paths in the safety run, which is where `release` and
  `detach` could mistake one for the other, and may have different ones in
  `MCStateFile_served`. An earlier command has left an identity; the first use, in
  which the one writer saves its identity before its claim, is covered by the proof.
* Three tunnels in the client: a first, a replacement and one after it. An event
  channel of two (sixteen in the code) shows empty, partly full and full.

`CHECK_DEADLOCK FALSE` stands where the system may stop: all handshakes used up,
the session done, or every command ended.

### Fairness

Goroutines that can run are scheduled and deadlines pass: weak fairness of each
goroutine's steps. That a claim's expiry timer fires is not assumed: its lifetime
may be longer than the behaviour. yamux keep-alive notices that the other end
is gone: weak fairness of `KeepAlive`. In the client, Go's `select` picks among
ready cases at random, so a context that is done is chosen in the end even while
events keep coming: strong fairness of these two cases only. Nothing is assumed
of clients' answers, of users or of the network.

`TunnelSystem` and `StateFile` state no fairness and check safety only: the
gateway's answers are live for any client (`MCGateway_live`), the client's end is
live for any gateway (`Client`), and a command of the CLI ends if those do.

Liveness is stated per goroutine place, for instance `ExpiryEnds` from the
moment the timer's handler has found its claim.

## Proofs

Eight modules prove what holds of a component for every value of the constants.
Each component with steps has an inductive invariant `IInv`, a lemma for each part of
it, and lemmas on what the steps of each actor leave alone (`Frames`,
`StepFrames`), so that a part is compared only with the steps that can disturb
it. TLC checked every `IInv` on the runs' instances before it was proved.

**Paths.** `ClaimPathProofs` proves for every set of segments, with no bound on
lengths, that `Overlap` is sound, complete and symmetric: it holds of two patterns
exactly if some request path is matched by both. The argument compares the
lengths of the bases; completeness needs one nonempty segment
(`SegmentAssumption`) to extend a base. `NarrowestMatch` says that the router's
search by longest base finds a claim whenever one matches. `MCClaimPathProofs`
turns the first two into `OverlapIsExact` as the run states it, over requests as they
arrive: `TrimRight` makes a request path of any path, and two overlapping patterns
have a common request at most one segment below a base (`CommonRequest`), so that
any bound on requests above that on patterns (`PathBoundAssumption`) reaches it.

`MCClaimPathProofs` also proves that the segments decide what the code's string
prefixes decide (`MatchesText`, whence `MatchAgrees`), for any alphabet without a
slash (`TextAssumption`). A text is put together by a fold, so this needs an
induction. The library's theorems for it take an operator; instead `SetInduction`
proves one for a set of numbers, from the well-foundedness of `<`, and the fold's
function is shown to exist and is followed step by step (`FoldStep`). The result is
`Layout`: for each segment the place where it ends in the text. Two texts of which one
begins the other are then compared segment by segment (`SameBeginning`): since no
segment holds a slash, the next slash of either is the end of a segment of both. That
gives each case of `Match`, trailing slashes included; and the position where a base
ends grows with its segments, which is `SpecificityCountsText`.

**Path syntax.** `PathSyntaxProofs` proves `RefusalNeedsTrailingBlank` and
`AcceptedIsPattern` for any spellings, lengths and way to trim blanks. `IInv` says that
the client sent a normalized path. `NormalForm` describes those: a base that is not
empty, ends in no slash and holds no wildcard, then a wildcard or none, within
the limit. Such a text is a fixed point of `Normalize` (`NormalStays`) unless its last
segment ends in a blank, so nothing else can be refused. It is not assumed that
trimming twice is trimming once.

**Registry.** `RegistryProofs` proves of every registry, for any owners, limits
and inputs: type correctness, `OneClaimant`, `WithinLimits`, `Confined`,
`DeepEnough`, and that `Registry` implements `PathOwnership`. `OneClaimant` is not
inductive: two overlapping claims may have no common path in `Request`, and
`Create` compares patterns, not requests. The inductive invariant therefore says
that no two held claims have overlapping patterns (`NoOverlap`), that every held
path passed the policy (`PathsChecked`), that claims are finitely many and within
limits. `OverlapSound` then gives `OneClaimant`, `MatchExtendsBase` gives
`Confined` and `DeepEnough`, and `OneClaimant` in the next state gives that
`Create` maps to `Grant`.

**Gateway.** `GatewayProofs` proves, for any number of handshakes, release requests
and proxied requests, type correctness, `ClaimsHaveHandlers`, `ReplacedIsFree`,
`ReleaseIsFinal`, `OriginOnlyWhenUnclaimed` and `LiveClaimsKept`: the properties of
both safety runs. `IInv` follows a claim through the stages of its handler. `Stages` ties a
handler's place to whether its claim was issued and whether it has a session;
`Held` says that a held claim belongs to a handler still going to release it, and
to the owner that handler will name, without which its clean-up could be refused
as another owner's; `Replacing` and `Releasing` say the same of the claims that a
replacing handshake and a DELETE request have looked up and not used yet. These
are the checks that the code makes in one critical section and relies on in a
later one: they stay true because identities are fresh and neither owner nor paths of
a claim ever change (`RegistryMoves`, stated for readers as `ClaimsAreFinal`). The
arguments a handler passes are those the registry accepts (`NextStore`), so the
registry's theorems hold in the gateway: the policy and the limits are kept whatever its goroutines do
(`ClaimsKeepPolicy`), and the gateway implements `PathOwnership` through the registry
(`PathsExclusive`). `OneClaimant` then shows, with `NarrowestMatch`, that the claim
the router picked is the only one that could have been routable all along
(`Routed`, which is inductive beside `IInv`).

**Client.** `ClientProofs` proves type correctness, `NoTunnelLeaks`,
`ClaimIsCurrent`, `EndHasReason` and `TerminalIsTrue` for any number of
reconnections and any capacity of the event channel. What has to be added is where
a thing is on its way: a claim that `run` does not have yet is about to be sent or
in the channel (`ClaimUnderWay`); the loop ends by itself only with a reason in the
channel (`ReasonUnderWay`), which is never overtaken since a channel of capacity
one is sent to only when it is empty; and a terminal error on its way is that of
the current tunnel, which the loop does not replace any more (`TerminalUnderWay`).

**State file.** `StateFileProofs` proves type correctness, `ReleaseNotMistaken`,
`PartialReleaseAccounted` and `DetachTruth` for any number of processes, crashes and
overwritten files. `IInv` does not try to say what the file keeps, since it keeps
nothing for certain. `Recorded` says only that every entry in the file, in a state
that a process is about to write or in a `release`'s list is of a process that has
had a claim; with `Begun` such a process never starts over, so that an entry that
comes back from a late writer says nothing false. A release removes by identifier:
that it removes nothing it could not release needs that no identifier is of two
processes in any copy of the file (`OneOwner`), and that each entry it loaded is in
one stage only, to be asked for, being asked for, failed or removed (`Stages`).

Of the file's content only this can be promised: what the one command that writes it
has put there (`SoleWriterKept`). `Alone` says at every place of a process that no other
has begun to write (`Wrote`) what it has made of the file by then, and whether that is in
the file or in hand with nobody in between (`InHand`). It needs that whoever is saving
counts as a writer already (`Writers`), and that a process that failed before it
claimed, or a release that dropped nothing, leaves the file as it was
(`OthersKeep`). `HeldKnown` ties that to the gateway: the claim it holds is the one the
process has told the file about, or the one in the notice that waits, unless the last
notice was dropped. `MCStateFile_served` shows that a second writer is enough to lose the
entry; a dropped notice is, too.

**System.** `TunnelSystemProofs` proves `ImplementsGateway` and
`ReadyMeansRoutable` for any number of tunnels, handshakes and release requests.
Its `IInv` is `GatewayProofs`' and `ClientProofs`' together with what joins them:
each of the client's tunnels up to the current one has a claim of its own, whose
set-up succeeded, and a dial under way has another (`Paired`); `client` is the
client (`Viewed`); a handshake replaces only a claim whose tunnel the client has
lost, and a release frees only paths of a session that goes down
(`ReplacesStale`, `FreedGoesDown`), whence a live handler keeps its claim and its
table entry (`Kept`). A handler that has left a set-up session goes on to close it
(`LeftGoesDown`), so that a claim is released under no client that could still serve
it. A step of the client alone is `ClientServes` or
`ClientLeaves` of the gateway, or is not seen there (`ClientSeen`); every step is
a step of `Client` or leaves it alone, and one of the gateway or leaves it alone
(`RefinesClient`, `RunsGateway`). The theorems of the two components thus hold
of the two together, and `GatewayPromises` states three of them. `RefinesClient` is about
`Client` without its event counter (`events <- 0`), as the system is;
`RunsGateway` says nothing of the initial state, which has a tunnel already.

The constants are assumed to be what the code and its configuration make them:
`SegmentAssumption`; `TextAssumption` and `PathBoundAssumption`, segments written
without slashes and requests longer than patterns; `SyntaxAssumption`, that the wildcards
are segments with a `*` in them; `ConfigAssumption`, what `gatewayconfig.Validate` enforces;
`InputAssumption`, paths as `claimpath` splits them; `NoneAssumption` and
`StoreAssumption`, the same for a gateway's registry; `BoundAssumption`, a session
that can dial and a channel that holds something; `ProcessAssumption`, that a
process is of one kind; and `SystemAssumption`, that there is someone to claim
something. TLC evaluates them in the runs.

Every invariant and safety action property of the passing runs is thus a theorem.
Only model-checked:

* the liveness properties (`CloseReturns`, `TerminalReported` and the five of
  `MCGateway_live`), since they need fairness and `ENABLED`, which the prover does not
  handle;
* the three counterexamples.

## Not modelled

* Protocol negotiation and authentication, beyond being passed: both are decided
  from one request and keep nothing.
* Header handling, body streaming and activity frames of a proxied request.
* The CLI's flags and output; `release PATH` for a path the file does not name, which
  asks the gateway and saves nothing; the reuse of process identities.
* Start and shutdown of the gateway process. Its state is in memory only, so a
  restart is the initial state with every client's session lost.
* Site, charts, scripts, packaging.

Five more places where the code and its documents differ follow from the models'
definitions without a run:

* `Normalize` trims blanks before slashes, so `"/a /"` is sent as `"/a "`, which the
  gateway refuses for its syntax (`path.go:2`, `RefusalNeedsTrailingBlank`).
* `Done` closes before the loop has closed the tunnel (`client.go:212`, `RunReturns`).
* Expiry frees the paths, and forgets the session, before it tells the client
  (`architecture.md:50`; `ExpiryReleases` comes before `ExpiryNotifies`).
* When the setup timer fires after the client's "ack" was read, the setup goroutine
  makes the session routable after the clean-up has removed it (`SetupStep` after
  `CloseOwnSession`). Nothing removes it again, and `ActiveSessions`, "the number of
  routable sessions" (`tunnel.go:49`), counts it. No request reaches it, since its
  claim is gone and its session closed.
* "Consumers must not depend on receiving every event for correctness"
  (`client.go:208`), but `runClaim` does: if the event of a reconnection is dropped
  (`Notify`), the file keeps the claim that was lost. `tul release` gets a 404 for it,
  sees that the process lives, and reports `release_pending` while the new claim is
  served; `ReleaseNotMistaken` is what keeps it from reporting more.
