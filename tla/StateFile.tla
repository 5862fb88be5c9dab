------------------------------ MODULE StateFile ------------------------------
(***************************************************************************)
(* internal/cliapp: the commands of one machine and the file they share.   *)
(* ~/.tunlease/state.json holds the claims made on this machine and the    *)
(* identity it shows to the gateway.  `claim` processes, in the foreground *)
(* or detached, and `release` commands load it, change what they loaded    *)
(* and save the result, without a lock.  A save truncates the file and     *)
(* then writes it, and what cannot be parsed is loaded as an empty state.  *)
(*                                                                         *)
(* One gateway and one port.  A client that has acknowledged the end of    *)
(* its claim may still dial again, and what its session tells the command  *)
(* may be lost.  Process identities are not reused.                        *)
(***************************************************************************)
EXTENDS Integers, FiniteSets

CONSTANTS Claimer,  \* `claim` processes, each run once
          Releaser, \* `release` commands, each run once
          Paths,    \* the lists of paths that can be claimed
          Earlier,  \* the identity an earlier command has left in the file, or None
          MaxClaims,\* bound: claims the gateway creates
          None

Process == Claimer \cup Releaser

ASSUME ProcessAssumption ==
    /\ Claimer \cap Releaser = {} /\ None \notin Process
    /\ MaxClaims \in Nat /\ None \notin 1..MaxClaims

VARIABLES
    file,    \* what loadState returns
    pc,      \* pc[x]: where process x is
    io,      \* io[x]: the save under way: "idle", "open" or "write"
    mem,     \* mem[x]: the state that x has loaded and changed
    ident,   \* ident[x]: the identity x shows to the gateway
    paths,   \* paths[p]: what p claims
    id,      \* id[p]: the claim p has told the file about
    news,    \* news[p]: EventTunnelReconnected, waiting in the session's event channel
    missed,  \* history: the claimers whose last such event was dropped
    told,    \* the claimers whose session has ended for good
    parent,  \* parent[p]: the command that started p in the background
    issued,  \* the gateway: how many claims it has created
    held,    \* held[p]: the claim it holds for p
    todo,    \* todo[r]: the entries r has still to release
    entry,   \* entry[r]: one that the gateway does not know
    failed,  \* failed[r]: the entries r could not release
    dropped, \* history: dropped[r]: the entries r removed
    absent   \* history: absent[r]: those among them it reported as already absent

disk == <<file, io>>
claimerVars == <<paths, id, news, missed, told, parent>>
gateway == <<issued, held>>
releaseVars == <<todo, entry, failed, dropped, absent>>
vars == <<disk, pc, mem, ident, claimerVars, gateway, releaseVars>>

Blank == [claims |-> {}, identity |-> None]
Goto(x, place) == pc' = [pc EXCEPT ![x] = place]

Alive(x) ==
    /\ pc[x] \notin {"idle", "failed", "crashed"}
    /\ pc[x] = "ended" => io[x] # "idle"

\* saveState of a changed copy: nothing else happens in x until it is over.
Save(x, state) ==
    /\ mem' = [mem EXCEPT ![x] = state]
    /\ io' = [io EXCEPT ![x] = "open"]
    /\ UNCHANGED file

Ready(x, place) == pc[x] = place /\ io[x] = "idle"
-----------------------------------------------------------------------------
(* saveState *)

Truncate(x) ==
    /\ io[x] = "open"
    /\ file' = Blank
    /\ io' = [io EXCEPT ![x] = "write"]
    /\ UNCHANGED <<pc, mem, ident, claimerVars, gateway, releaseVars>>

\* If another process has written since the truncation, the end of what it wrote may
\* stay behind, and the whole cannot be parsed.
Write(x) ==
    /\ io[x] = "write"
    /\ file' \in {mem[x]} \cup (IF file = Blank THEN {} ELSE {Blank})
    /\ io' = [io EXCEPT ![x] = "idle"]
    /\ mem' = [mem EXCEPT ![x] = IF x \in Releaser /\ pc[x] = "next" THEN @ ELSE Blank]
    /\ UNCHANGED <<pc, ident, claimerVars, gateway, releaseVars>>
-----------------------------------------------------------------------------
(* clientIdentityFor, which every command begins with *)

\* A lookup that returns what it finds, nothing included.
FindIdentity(x) ==
    /\ Ready(x, "identity")
    /\ ident' = [ident EXCEPT ![x] = file.identity]
    /\ Goto(x, "start") /\ UNCHANGED <<disk, mem>>
    /\ UNCHANGED <<claimerVars, gateway, releaseVars>>

LookUpIdentity(x) ==
    /\ Ready(x, "identity")
    /\ IF file.identity # None
       THEN /\ ident' = [ident EXCEPT ![x] = file.identity]
            /\ Goto(x, "start") /\ UNCHANGED <<disk, mem>>
       ELSE /\ ident' = [ident EXCEPT ![x] = x]
            /\ Save(x, [file EXCEPT !.identity = x])
            /\ Goto(x, "check identity")
    /\ UNCHANGED <<claimerVars, gateway, releaseVars>>

CheckIdentity(x) ==
    /\ Ready(x, "check identity")
    /\ Goto(x, IF file.identity = ident[x] THEN "start" ELSE "failed")
    /\ UNCHANGED <<disk, mem, ident, claimerVars, gateway, releaseVars>>
-----------------------------------------------------------------------------
(* runClaim *)

\* The command is run, by a parent that waits for it; in the foreground nobody waits,
\* which is what is left when the parent has given up.
Launch(p) ==
    /\ pc[p] = "idle"
    /\ Goto(p, "identity")
    /\ \E list \in Paths : paths' = [paths EXCEPT ![p] = list]
    /\ parent' = [parent EXCEPT ![p] = "waiting"]
    /\ UNCHANGED <<disk, mem, ident, id, news, missed, told, gateway, releaseVars>>

Free(p) == \A q \in Claimer : held[q] # None => paths[q] # paths[p]

\* A handshake of p that succeeds.
Claims(p) ==
    /\ Free(p) /\ issued < MaxClaims
    /\ issued' = issued + 1
    /\ held' = [held EXCEPT ![p] = issued + 1]

Start(p) ==
    /\ Ready(p, "start")
    /\ \/ /\ Claims(p) /\ Goto(p, "record")
          /\ id' = [id EXCEPT ![p] = issued + 1]
       \/ Goto(p, "failed") /\ UNCHANGED <<gateway, id>>
    /\ UNCHANGED <<disk, mem, ident, paths, news, missed, told, parent, releaseVars>>

SessionOf(p, e) == paths[e.pid] = paths[p]
Own(p) == [id |-> id[p], pid |-> p]

\* loadState, add and saveState of the new claim.
Record(p) ==
    /\ Ready(p, "record")
    /\ Save(p, [file EXCEPT !.claims = @ \cup {Own(p)}])
    /\ Goto(p, "serving")
    /\ UNCHANGED <<ident, claimerVars, gateway, releaseVars>>

\* emit: the event channel is full, perhaps of other events, and the notice is dropped.
\* Bound: one notice waits in it; while it does, a further one is dropped.
Notify(p, claim) ==
    \/ /\ news[p] = None
       /\ news' = [news EXCEPT ![p] = claim]
       /\ missed' = missed \ {p}
    \/ missed' = missed \cup {p} /\ UNCHANGED news

\* reconnectLoop, beside runClaim.
Reconnect(p) ==
    /\ pc[p] \in {"record", "serving"}
    /\ p \notin told /\ held[p] = None
    /\ \/ /\ Claims(p)
          /\ Notify(p, issued + 1)
          /\ UNCHANGED told
       \/ /\ ~Free(p)
          /\ told' = told \cup {p}
          /\ UNCHANGED <<gateway, news, missed>>
    /\ UNCHANGED <<disk, pc, mem, ident, paths, id, parent, releaseVars>>

\* A renewal that adds the new claim before it removes its session's.
RenewThenRemove(p) ==
    /\ Ready(p, "serving") /\ news[p] # None
    /\ id' = [id EXCEPT ![p] = news[p]]
    /\ news' = [news EXCEPT ![p] = None]
    /\ LET added == file.claims \cup {[id |-> news[p], pid |-> p]}
       IN  Save(p, [file EXCEPT !.claims = {e \in added : ~SessionOf(p, e)}])
    /\ UNCHANGED <<pc, ident, paths, missed, told, parent, gateway, releaseVars>>

\* EventTunnelReconnected, if it comes.
Renew(p) ==
    /\ Ready(p, "serving") /\ news[p] # None
    /\ id' = [id EXCEPT ![p] = news[p]]
    /\ news' = [news EXCEPT ![p] = None]
    /\ LET others == {e \in file.claims : ~SessionOf(p, e)}
       IN  Save(p, [file EXCEPT !.claims = others \cup {[id |-> news[p], pid |-> p]}])
    /\ UNCHANGED <<pc, ident, paths, missed, told, parent, gateway, releaseVars>>

\* The session ended, or the user ended it: cleanupSessionState.
CleanUp(p) ==
    /\ Ready(p, "serving")
    /\ Save(p, [file EXCEPT !.claims = {e \in @ : ~SessionOf(p, e)}])
    /\ told' = told \cup {p}
    /\ Goto(p, "ended")
    /\ UNCHANGED <<ident, paths, id, news, missed, parent, gateway, releaseVars>>

\* Killed: whatever was being saved stays as it is.
Crash(p) ==
    /\ Alive(p)
    /\ Goto(p, "crashed")
    /\ io' = [io EXCEPT ![p] = "idle"]
    /\ mem' = [mem EXCEPT ![p] = Blank]
    /\ UNCHANGED <<file, ident, claimerVars, gateway, releaseVars>>

\* The gateway sees the session break or close, and forgets its claim.
LoseConnection(p) ==
    /\ held[p] # None
    /\ held' = [held EXCEPT ![p] = None]
    /\ UNCHANGED <<disk, pc, mem, ident, claimerVars, issued, releaseVars>>

\* p has acknowledged the end of its claim.  The loop learns of it after that, or it sees
\* the session close first and takes that for a lost connection.
HearsEnd(p) == told' \in {told, told \cup {p}}

\* expireClaim, acknowledged; if it is not, the connection is lost.
Expire(p) ==
    /\ held[p] # None /\ pc[p] \in {"record", "serving"}
    /\ held' = [held EXCEPT ![p] = None]
    /\ HearsEnd(p)
    /\ UNCHANGED <<disk, pc, mem, ident, paths, id, news, missed, parent, issued, releaseVars>>
-----------------------------------------------------------------------------
(* runDetach *)

\* A lookup by paths alone.
ParentFindsPaths(p) ==
    /\ parent[p] = "waiting"
    /\ \E e \in file.claims : SessionOf(p, e)
    /\ parent' = [parent EXCEPT ![p] = "connected"]
    /\ UNCHANGED <<disk, pc, mem, ident, paths, id, news, missed, told, gateway, releaseVars>>

\* findDaemonClaim
ParentFindsClaim(p) ==
    /\ parent[p] = "waiting"
    /\ \E e \in file.claims : SessionOf(p, e) /\ e.pid = p
    /\ parent' = [parent EXCEPT ![p] = "connected"]
    /\ UNCHANGED <<disk, pc, mem, ident, paths, id, news, missed, told, gateway, releaseVars>>

\* The child is dead, or the deadline has passed.
ParentGivesUp(p) ==
    /\ parent[p] = "waiting"
    /\ parent' = [parent EXCEPT ![p] = "failed"]
    /\ UNCHANGED <<disk, pc, mem, ident, paths, id, news, missed, told, gateway, releaseVars>>
-----------------------------------------------------------------------------
(* runRelease *)

RunRelease(r) ==
    /\ pc[r] = "idle"
    /\ Goto(r, "identity")
    /\ UNCHANGED <<disk, mem, ident, claimerVars, gateway, releaseVars>>

\* The one loadState: every entry for the port, or the one for a path.
LoadTargets(r) ==
    /\ Ready(r, "start")
    /\ mem' = [mem EXCEPT ![r] = file]
    /\ \E targets \in {file.claims} \cup {{e} : e \in file.claims} :
         todo' = [todo EXCEPT ![r] = targets]
    /\ Goto(r, "next")
    /\ UNCHANGED <<disk, ident, claimerVars, gateway, entry, failed, dropped, absent>>

\* A removal that is made in the list as it was loaded.
DropFromLoaded(r, e) ==
    /\ Save(r, [mem[r] EXCEPT !.claims = {c \in @ \cup dropped[r] : c.id # e.id}])
    /\ dropped' = [dropped EXCEPT ![r] = @ \cup {e}]
    /\ UNCHANGED failed

\* removeByID of an entry from what LoadTargets loaded, and saveState.
Drop(r, e) ==
    /\ Save(r, [mem[r] EXCEPT !.claims = {c \in @ : c.id # e.id}])
    /\ dropped' = [dropped EXCEPT ![r] = @ \cup {e}]
    /\ UNCHANGED failed

Fail(r, e) ==
    /\ failed' = [failed EXCEPT ![r] = @ \cup {e}]
    /\ UNCHANGED <<disk, mem, dropped>>

\* Client.Release and its answer: 204 once the client has acknowledged, 404 for an
\* unknown claim, or any other error, a lost answer to an acknowledged release included.
Delete(r) ==
    /\ Ready(r, "next")
    /\ \E e \in todo[r] :
         LET p == e.pid
             known == held[p] = e.id
             acknowledges == known /\ ident[p] = ident[r] /\ pc[p] = "serving" /\ p \notin told
         IN  /\ todo' = [todo EXCEPT ![r] = @ \ {e}]
             /\ \/ /\ acknowledges
                   /\ held' = [held EXCEPT ![p] = None]
                   /\ HearsEnd(p)
                   /\ Drop(r, e) \/ Fail(r, e)
                   /\ UNCHANGED <<pc, entry>>
                \/ /\ known /\ Fail(r, e)
                   /\ UNCHANGED <<told, held, pc, entry>>
                \/ /\ ~known
                   /\ entry' = [entry EXCEPT ![r] = e]
                   /\ Goto(r, "absent")
                   /\ UNCHANGED <<told, held, disk, mem, failed, dropped>>
    /\ UNCHANGED <<ident, paths, id, news, missed, parent, issued, absent>>

DropAbsent(r, e) ==
    /\ Drop(r, e)
    /\ absent' = [absent EXCEPT ![r] = @ \cup {e}]

\* A 404 taken for the end of the claim.
TrustAbsence(r) ==
    /\ Ready(r, "absent")
    /\ DropAbsent(r, entry[r])
    /\ entry' = [entry EXCEPT ![r] = None]
    /\ Goto(r, "next")
    /\ UNCHANGED <<ident, claimerVars, gateway, todo>>

\* claim_not_found: release_pending while its process runs.
CheckProcess(r) ==
    /\ Ready(r, "absent")
    /\ IF Alive(entry[r].pid)
       THEN Fail(r, entry[r]) /\ UNCHANGED absent
       ELSE DropAbsent(r, entry[r])
    /\ entry' = [entry EXCEPT ![r] = None]
    /\ Goto(r, "next")
    /\ UNCHANGED <<ident, claimerVars, gateway, todo>>

ReleaseEnds(r) ==
    /\ Ready(r, "next") /\ todo[r] = {}
    /\ Goto(r, "ended")
    /\ mem' = [mem EXCEPT ![r] = Blank]
    /\ UNCHANGED <<disk, ident, claimerVars, gateway, releaseVars>>
-----------------------------------------------------------------------------
Init ==
    /\ file = [Blank EXCEPT !.identity = Earlier]
    /\ pc = [x \in Process |-> "idle"] /\ io = [x \in Process |-> "idle"]
    /\ mem = [x \in Process |-> Blank] /\ ident = [x \in Process |-> None]
    /\ paths = [p \in Claimer |-> None]
    /\ id = [p \in Claimer |-> None] /\ news = [p \in Claimer |-> None]
    /\ missed = {} /\ told = {} /\ parent = [p \in Claimer |-> "none"]
    /\ issued = 0 /\ held = [p \in Claimer |-> None]
    /\ todo = [r \in Releaser |-> {}] /\ entry = [r \in Releaser |-> None]
    /\ failed = [r \in Releaser |-> {}]
    /\ dropped = [r \in Releaser |-> {}] /\ absent = [r \in Releaser |-> {}]

Next ==
    \/ \E x \in Process :
         Truncate(x) \/ Write(x) \/ LookUpIdentity(x) \/ CheckIdentity(x)
    \/ \E p \in Claimer :
         \/ Launch(p) \/ Start(p) \/ Record(p) \/ Reconnect(p) \/ Renew(p)
         \/ CleanUp(p) \/ Crash(p) \/ LoseConnection(p) \/ Expire(p)
         \/ ParentFindsClaim(p) \/ ParentGivesUp(p)
    \/ \E r \in Releaser :
         \/ RunRelease(r) \/ LoadTargets(r) \/ Delete(r) \/ CheckProcess(r)
         \/ ReleaseEnds(r)

Spec == Init /\ [][Next]_vars
-----------------------------------------------------------------------------
Entry == [id : 1..MaxClaims, pid : Claimer]
State == [claims : SUBSET Entry, identity : Process \cup {Earlier, None}]

TypeOK ==
    /\ file \in State /\ mem \in [Process -> State]
    /\ io \in [Process -> {"idle", "open", "write"}]
    /\ \A x \in Process : pc[x] \in {"idle", "identity", "failed", "crashed"} \/ ident[x] \in (Process \cup {Earlier}) \ {None}
    /\ paths \in [Claimer -> Paths \cup {None}]
    /\ id \in [Claimer -> 1..issued \cup {None}] /\ news \in [Claimer -> 1..issued \cup {None}]
    /\ told \subseteq Claimer /\ missed \subseteq Claimer
    /\ parent \in [Claimer -> {"none", "waiting", "connected", "failed"}]
    /\ issued \in 0..MaxClaims /\ held \in [Claimer -> 1..issued \cup {None}]
    /\ todo \in [Releaser -> SUBSET Entry] /\ entry \in [Releaser -> Entry \cup {None}]
    /\ failed \in [Releaser -> SUBSET Entry] /\ dropped \in [Releaser -> SUBSET Entry]
    /\ absent \in [Releaser -> SUBSET Entry]

\* A reconnection is never mistaken for a completed release: whatever entry a release
\* reports as already absent, the process that made it is gone, and so is not about to
\* claim the same paths again.
ReleaseNotMistaken ==
    \A r \in Releaser : \A e \in absent[r] : ~Alive(e.pid)

\* A release of several claims that partly fails: what it saves has every entry it could
\* not release or has still to ask for, and none it reported as released or absent,
\* whatever answers it gets in which order and whatever others save in between.
PartialReleaseAccounted ==
    \A r \in Releaser : pc[r] \in {"next", "absent"} =>
        /\ todo[r] \cup failed[r] \subseteq mem[r].claims
        /\ \A e \in mem[r].claims, d \in dropped[r] : e.id # d.id

\* `claim --detach` reports a connection only for the child it started, and only once
\* that child has had a claim, whatever older entries name the same paths.
DetachTruth ==
    \A p \in Claimer : parent[p] = "connected" => id[p] # None

\* x has begun to change the file: its identity, its claim, or what it released.
Wrote(x) ==
    \/ ident[x] = x
    \/ x \in Claimer /\ id[x] # None
    \/ x \in Releaser /\ dropped[x] # {}

SoleWriter(p) == \A x \in Process \ {p} : ~Wrote(x)

\* How far a detached claim can be torn down later: as long as no other command changes
\* the file and the last reconnection was heard of, the file has the claim that is held at
\* the gateway and the identity that owns it, between any two saves of the process that
\* serves it, first use, reconnections and failed releases included.
SoleWriterReleasable ==
    \A p \in Claimer :
        Ready(p, "serving") /\ SoleWriter(p) /\ held[p] # None
          /\ news[p] = None /\ p \notin missed =>
            file = [claims |-> {[id |-> held[p], pid |-> p]}, identity |-> ident[p]]
-----------------------------------------------------------------------------
(* What the documentation says and the code does not do. *)

Settled(x) == io[x] = "idle" /\ pc[x] \in {"idle", "serving", "ended", "failed"}

\* A detached claim "is torn down later with `tul release`": when no command is under
\* way, the file has every claim that is served, and the identity that owns it.
ServedIsReleasable ==
    (\A x \in Process : Settled(x)) =>
        \A p \in Claimer :
            pc[p] = "serving" /\ p \notin told /\ held[p] = id[p] =>
                Own(p) \in file.claims /\ file.identity = ident[p]
=============================================================================
