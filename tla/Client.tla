------------------------------- MODULE Client -------------------------------
(***************************************************************************)
(* pkg/tunnelclient: one started Session.  Its goroutines are run, which   *)
(* publishes what happens; reconnectLoop, which owns the current tunnel    *)
(* and replaces it when it breaks; and, for every tunnel, acceptStreams.   *)
(* They talk over channels and a pair of contexts.  Tunnels are numbered   *)
(* in the order they were dialed; the number stands for the claim as well. *)
(* The gateway and the network decide when tunnels break, when a terminal  *)
(* frame comes and how a dial ends.                                        *)
(***************************************************************************)
EXTENDS Integers, Sequences

CONSTANTS MaxTunnels, \* bound: tunnels dialed successfully
          MaxEvents   \* capacity of a tunnel's event channel

ASSUME BoundAssumption == MaxTunnels \in Nat \ {0} /\ MaxEvents \in Nat \ {0}

VARIABLES
    cancelled,  \* the Session's context
    stopped,    \* stopTunnel was called: the loop's context, which is below it
    run,        \* run: "select" or "done"
    err,        \* Session.Err
    claim,      \* Session.Claim, by its tunnel
    loop,       \* where reconnectLoop is
    current,    \* the loop's tunnel
    updates,    \* the channel from the loop to run, of capacity 1
    session,    \* session[n]: the yamux session of tunnel n
    acceptor,   \* acceptor[n]: acceptStreams
    terminal,   \* the tunnels with a message in their terminal channel
    events,     \* how many messages are in the current tunnel's event channel
    acked       \* history: tunnels whose terminal frame was acknowledged

loopVars == <<loop, current, updates>>
tunnelVars == <<session, acceptor, terminal, events, acked>>
vars == <<cancelled, stopped, run, err, claim, loopVars, tunnelVars>>

Tunnel == 1..MaxTunnels
Ended == cancelled \/ stopped \* ctx.Done() of the loop

Close(n) == session' = [session EXCEPT ![n] = "closed"]
-----------------------------------------------------------------------------
(* run *)

\* Every return runs the deferred stopTunnel and closes Done.
RunReturns == run' = "done" /\ stopped' = TRUE

RunCancelled ==
    /\ run = "select" /\ cancelled
    /\ RunReturns
    /\ UNCHANGED <<cancelled, err, claim, loopVars, tunnelVars>>

\* Lifecycle and request events are only published; they change nothing here.
RunReceives ==
    /\ run = "select" /\ updates # << >>
    /\ LET update == Head(updates) IN
       \/ /\ update.kind = "event"
          /\ UNCHANGED <<run, stopped, err, claim>>
       \/ /\ update.kind = "claim"
          /\ claim' = update.tunnel
          /\ UNCHANGED <<run, stopped, err>>
       \/ /\ update.kind \in {"terminal", "refused"}
          /\ err' = update.kind
          /\ RunReturns
          /\ UNCHANGED claim
    /\ updates' = Tail(updates)
    /\ UNCHANGED <<cancelled, loop, current, tunnelVars>>

RunSeesLoopEnd ==
    /\ run = "select" /\ updates = << >> /\ loop = "ended"
    /\ err' = IF cancelled THEN err ELSE "tunnel stopped"
    /\ RunReturns
    /\ UNCHANGED <<cancelled, claim, loopVars, tunnelVars>>

\* Session.Close, or the caller's context.
Cancel ==
    /\ ~cancelled
    /\ cancelled' = TRUE
    /\ UNCHANGED <<stopped, run, err, claim, loopVars, tunnelVars>>
-----------------------------------------------------------------------------
(* reconnectLoop *)

LoopCancelled ==
    /\ loop = "select" /\ Ended
    /\ Close(current)
    /\ loop' = "ended"
    /\ UNCHANGED <<cancelled, stopped, run, err, claim, current, updates,
                   acceptor, terminal, events, acked>>

LoopTakesEvent ==
    /\ loop = "select" /\ events > 0
    /\ events' = events - 1
    /\ loop' = "send event"
    /\ UNCHANGED <<cancelled, stopped, run, err, claim, current, updates,
                   session, acceptor, terminal, acked>>

\* CloseChan, then the non-blocking look into the terminal channel.
LoopSeesClose ==
    /\ loop = "select" /\ session[current] = "closed"
    /\ loop' = "check"
    /\ UNCHANGED <<cancelled, stopped, run, err, claim, current, updates, tunnelVars>>

\* A look into a terminal channel that all tunnels share.
CheckAnyTerminal ==
    /\ loop = "check"
    /\ loop' = IF terminal # {} THEN "send terminal" ELSE "send disconnected"
    /\ terminal' = {}
    /\ UNCHANGED <<cancelled, stopped, run, err, claim, current, updates,
                   session, acceptor, events, acked>>

LoopChecksTerminal ==
    /\ loop = "check"
    /\ loop' = IF current \in terminal THEN "send terminal" ELSE "send disconnected"
    /\ terminal' = terminal \ {current}
    /\ UNCHANGED <<cancelled, stopped, run, err, claim, current, updates,
                   session, acceptor, events, acked>>

\* The update each sending place sends, and the place after it.
Update ==
    [kind |-> CASE loop \in {"send event", "send disconnected"} -> "event"
                [] loop = "send terminal" -> "terminal"
                [] loop = "send refused" -> "refused"
                [] loop = "send claim" -> "claim",
     tunnel |-> current]

\* for ctx.Err() == nil { waitRetry ... }
NextTry == IF Ended THEN "select" ELSE "retry"

AfterSend ==
    CASE loop \in {"send event", "send claim"} -> "select"
      [] loop \in {"send terminal", "send refused"} -> "ended"
      [] loop = "send disconnected" -> NextTry

Sending == {"send event", "send claim", "send terminal", "send refused",
            "send disconnected"}

\* A send that drops what does not fit, like the event channels' sends.
LoopSendsOrDrops ==
    /\ loop \in Sending
    /\ updates' = IF updates = << >> THEN <<Update>> ELSE updates
    /\ loop' = AfterSend
    /\ UNCHANGED <<cancelled, stopped, run, err, claim, current, tunnelVars>>

LoopSends ==
    /\ loop \in Sending
    /\ updates = << >>
    /\ updates' = <<Update>>
    /\ loop' = AfterSend
    /\ UNCHANGED <<cancelled, stopped, run, err, claim, current, tunnelVars>>

\* A cancelled send that always just returns.
GiveUpSendKeepTunnel ==
    /\ loop \in Sending /\ Ended
    /\ loop' = "ended"
    /\ UNCHANGED <<cancelled, stopped, run, err, claim, current, updates, tunnelVars>>

\* Sends without ctx.Done() beside them.
NeverGiveUpSend == FALSE /\ UNCHANGED vars

\* ctx.Done() beside a send; only where the tunnel may be open is it closed.
LoopGivesUpSend ==
    /\ loop \in Sending /\ Ended
    /\ IF loop \in {"send event", "send claim"} THEN Close(current) ELSE UNCHANGED session
    /\ loop' = "ended"
    /\ UNCHANGED <<cancelled, stopped, run, err, claim, current, updates,
                   acceptor, terminal, events, acked>>

\* waitRetry: the timer or the context, whichever the select picks.
WaitRetry ==
    /\ loop = "retry"
    /\ loop' \in {"dial"} \cup (IF Ended THEN {"ended"} ELSE {})
    /\ UNCHANGED <<cancelled, stopped, run, err, claim, current, updates, tunnelVars>>

\* A dial under a context that has ended fails at once; otherwise it is under way.
StartDial ==
    /\ loop = "dial"
    /\ loop' = IF Ended THEN "select" ELSE "dialing"
    /\ UNCHANGED <<cancelled, stopped, run, err, claim, current, updates, tunnelVars>>

\* The context does not reach completeClientSetup, so a dial may succeed late.
DialSucceeds ==
    /\ loop = "dialing" /\ current < MaxTunnels
    /\ current' = current + 1
    /\ session' = [session EXCEPT ![current + 1] = "open"]
    /\ acceptor' = [acceptor EXCEPT ![current + 1] = "accepting"]
    /\ events' = 0
    /\ loop' = "send claim"
    /\ UNCHANGED <<cancelled, stopped, run, err, claim, updates, terminal, acked>>

\* A 4xx answer ends the session; anything else is tried again.
DialFails ==
    /\ loop = "dialing"
    /\ loop' \in {"send refused", NextTry}
    /\ UNCHANGED <<cancelled, stopped, run, err, claim, current, updates, tunnelVars>>
-----------------------------------------------------------------------------
(* acceptStreams, and what reaches it *)

\* The goroutine of a request or activity stream, which may outlive the session;
\* its event is dropped when the channel is full.
StreamEvent ==
    /\ events < MaxEvents
    /\ events' = events + 1
    /\ UNCHANGED <<cancelled, stopped, run, err, claim, loopVars,
                   session, acceptor, terminal, acked>>

\* A release or expiry frame; from here on the gateway knows it was received.
AckTerminalFrame(n) ==
    /\ session[n] = "open" /\ acceptor[n] = "accepting"
    /\ acceptor' = [acceptor EXCEPT ![n] = "acked"]
    /\ acked' = acked \cup {n}
    /\ UNCHANGED <<cancelled, stopped, run, err, claim, loopVars,
                   session, terminal, events>>

ReportTerminal(n) ==
    /\ acceptor[n] = "acked"
    /\ terminal' = terminal \cup {n}
    /\ acceptor' = [acceptor EXCEPT ![n] = "closing"]
    /\ UNCHANGED <<cancelled, stopped, run, err, claim, loopVars, session, events, acked>>

\* An end that is reported although its acknowledgement could not be written.
EndAcceptReporting(n) ==
    /\ \/ acceptor[n] = "closing" /\ UNCHANGED terminal
       \/ /\ acceptor[n] = "accepting" /\ session[n] = "closed"
          /\ terminal' = terminal \cup {n}
    /\ Close(n)
    /\ acceptor' = [acceptor EXCEPT ![n] = "ended"]
    /\ UNCHANGED <<cancelled, stopped, run, err, claim, loopVars, events, acked>>

\* After a terminal frame acceptStreams closes the session; without one it ends
\* with the session.
EndAccept(n) ==
    /\ \/ acceptor[n] = "closing"
       \/ acceptor[n] = "accepting" /\ session[n] = "closed"
    /\ Close(n)
    /\ acceptor' = [acceptor EXCEPT ![n] = "ended"]
    /\ UNCHANGED <<cancelled, stopped, run, err, claim, loopVars, terminal, events, acked>>

\* The network or the gateway ends the session, also right after an ack.
SessionBreaks(n) ==
    /\ session[n] = "open"
    /\ Close(n)
    /\ UNCHANGED <<cancelled, stopped, run, err, claim, loopVars,
                   acceptor, terminal, events, acked>>
-----------------------------------------------------------------------------
\* Client.Start has dialed the first tunnel.
Init ==
    /\ cancelled = FALSE /\ stopped = FALSE
    /\ run = "select" /\ err = "none" /\ claim = 1
    /\ loop = "select" /\ current = 1 /\ updates = << >>
    /\ session = [n \in Tunnel |-> IF n = 1 THEN "open" ELSE "none"]
    /\ acceptor = [n \in Tunnel |-> IF n = 1 THEN "accepting" ELSE "none"]
    /\ terminal = {} /\ events = 0 /\ acked = {}

Run == RunCancelled \/ RunReceives \/ RunSeesLoopEnd

LoopStep ==
    \/ LoopCancelled \/ LoopTakesEvent \/ LoopSeesClose \/ LoopChecksTerminal
    \/ LoopSends \/ LoopGivesUpSend
    \/ WaitRetry \/ StartDial \/ DialSucceeds \/ DialFails

Next ==
    \/ Cancel \/ StreamEvent
    \/ Run \/ LoopStep
    \/ \E n \in Tunnel :
         AckTerminalFrame(n) \/ ReportTerminal(n) \/ EndAccept(n) \/ SessionBreaks(n)

Spec == Init /\ [][Next]_vars

\* Goroutines run.  A Go select picks among its ready cases at random, so a case
\* that is ready again and again is picked in the end: SF on the contexts' cases.
Fairness ==
    /\ WF_vars(Run) /\ WF_vars(LoopStep)
    /\ SF_vars(RunCancelled) /\ SF_vars(LoopCancelled)
    /\ \A n \in Tunnel : WF_vars(ReportTerminal(n)) /\ WF_vars(EndAccept(n))

FairSpec == Spec /\ Fairness
-----------------------------------------------------------------------------
TypeOK ==
    /\ {cancelled, stopped} \subseteq BOOLEAN
    /\ run \in {"select", "done"}
    /\ err \in {"none", "terminal", "refused", "tunnel stopped"}
    /\ claim \in Tunnel /\ current \in Tunnel
    /\ loop \in Sending \cup {"select", "check", "retry", "dial", "dialing", "ended"}
    /\ updates = << >> \/ \E n \in Tunnel, kind \in {"event", "claim", "terminal", "refused"} :
                          updates = <<[kind |-> kind, tunnel |-> n]>>
    /\ session \in [Tunnel -> {"none", "open", "closed"}]
    /\ acceptor \in [Tunnel -> {"none", "accepting", "acked", "closing", "ended"}]
    /\ terminal \subseteq acked /\ acked \subseteq Tunnel
    /\ events \in 0..MaxEvents

\* No tunnel outlives the loop that owns it: only the current tunnel is ever
\* open, and none once the loop has ended, wherever the cancellation found it.
NoTunnelLeaks ==
    \A n \in Tunnel : session[n] = "open" => n = current /\ loop # "ended"

\* Once the loop waits on its tunnel again and run has caught up, Session.Claim is
\* the claim of that tunnel: an update of the claim is never lost.
ClaimIsCurrent ==
    run = "select" /\ loop = "select" /\ updates = << >> => claim = current

\* A session that its user did not end has ended for a reason the user is told:
\* the loop never stops silently, and "tunnel stopped" is never the answer.
EndHasReason ==
    run = "done" /\ ~cancelled => err \in {"terminal", "refused"}

\* Only the end of the claim the session holds is reported as such: the user is told
\* of a release or an expiry for the current tunnel's terminal frame, never for one
\* that an earlier tunnel received after it had broken.
TerminalIsTrue == err = "terminal" => current \in acked

\* After Close, or the end of the caller's context, Done closes and the loop ends.
CloseReturns == cancelled ~> (run = "done" /\ loop = "ended")

\* A terminal frame that reconnectLoop has seen reaches the user, unless the user
\* ends the session first.
TerminalReported == loop = "send terminal" ~> (err = "terminal" \/ cancelled)
=============================================================================
