---------------------------- MODULE ClientProofs ----------------------------
(***************************************************************************)
(* The client session's invariants for any number of reconnections and any *)
(* capacity of the event channel.  IInv follows what the loop still owes   *)
(* the user: the tunnel it has to close, the claim and the reason it has   *)
(* to send through a channel that holds one update.                        *)
(***************************************************************************)
EXTENDS Client, TLAPS

\* Where the loop is once its tunnel has broken.
Broken == {"check", "send terminal", "send refused", "send disconnected", "retry",
           "dial", "dialing", "ended"}

Pending(kinds) == updates # << >> /\ updates[1].kind \in kinds

\* One tunnel at a time is open, and only while the loop may still close it.
OneTunnel ==
    \A n \in Tunnel : session[n] = "open" => n = current /\ loop \notin Broken

\* An acceptor goes past a terminal frame only after it has acknowledged it.
AckedFirst ==
    \A n \in Tunnel : acceptor[n] \in {"acked", "closing"} => n \in acked

\* A claim that run does not have yet is about to be sent or in the channel, and an
\* outdated one in the channel will be followed by the current one.
ClaimUnderWay ==
    loop \notin {"send claim", "ended"} =>
        /\ claim = current \/ Pending({"claim"})
        /\ Pending({"claim"}) => updates[1].tunnel = current

\* The loop ends by itself only with a reason in the channel, and that is the last
\* update; its context is ended by the user, or by run, which has returned then.
ReasonUnderWay ==
    /\ stopped => run = "done"
    /\ loop = "ended" => Ended \/ Pending({"terminal", "refused"})

\* On its way to the user, the end of a claim is that of the current tunnel, which
\* the loop does not replace any more.
TerminalUnderWay ==
    loop = "send terminal" \/ Pending({"terminal"}) \/ err = "terminal" =>
        /\ current \in acked
        /\ loop \in {"send terminal", "ended"}

IInv ==
    /\ TypeOK /\ OneTunnel /\ AckedFirst /\ ClaimUnderWay
    /\ ReasonUnderWay /\ EndHasReason /\ TerminalUnderWay
-----------------------------------------------------------------------------
\* Sending into the empty channel and receiving what it holds.
LEMMA Channel ==
    ASSUME NEW x
    PROVE  <<x>> # << >> /\ <<x>>[1] = x /\ Head(<<x>>) = x /\ Tail(<<x>>) = << >>
OBVIOUS

\* What the steps of each goroutine leave alone.
LEMMA StepFrames ==
    /\ Cancel => UNCHANGED <<stopped, run, err, claim, loopVars, tunnelVars>>
    /\ StreamEvent => UNCHANGED <<cancelled, stopped, run, err, claim, loopVars,
                                  session, acceptor, terminal, acked>>
    /\ Run => UNCHANGED <<cancelled, loop, current, tunnelVars>>
    /\ LoopStep => UNCHANGED <<cancelled, stopped, run, err, claim, acked>>
    /\ \A n \in Tunnel :
         AckTerminalFrame(n) \/ ReportTerminal(n) \/ EndAccept(n) \/ SessionBreaks(n) =>
             UNCHANGED <<cancelled, stopped, run, err, claim, loopVars, events>>
<1> USE DEF loopVars, tunnelVars
<1>1. Cancel => UNCHANGED <<stopped, run, err, claim, loopVars, tunnelVars>>
  BY DEF Cancel
<1>2. StreamEvent => UNCHANGED <<cancelled, stopped, run, err, claim, loopVars,
                                 session, acceptor, terminal, acked>>
  BY DEF StreamEvent
<1>3. Run => UNCHANGED <<cancelled, loop, current, tunnelVars>>
  BY DEF Run, RunCancelled, RunReceives, RunSeesLoopEnd
<1>4. LoopStep => UNCHANGED <<cancelled, stopped, run, err, claim, acked>>
  BY DEF LoopStep, LoopCancelled, LoopTakesEvent, LoopSeesClose, LoopChecksTerminal, LoopSends,
         LoopGivesUpSend, WaitRetry, StartDial, DialSucceeds, DialFails
<1>5. ASSUME NEW n \in Tunnel
      PROVE  AckTerminalFrame(n) \/ ReportTerminal(n) \/ EndAccept(n) \/ SessionBreaks(n) =>
                 UNCHANGED <<cancelled, stopped, run, err, claim, loopVars, events>>
  BY DEF AckTerminalFrame, ReportTerminal, EndAccept, SessionBreaks
<1>6. QED
  BY <1>1, <1>2, <1>3, <1>4, <1>5

Kind == {"event", "claim", "terminal", "refused"}
UpdateType == [kind : Kind, tunnel : Tunnel]

\* The channel is empty or holds one update.
LEMMA UpdatesType ==
    ASSUME TypeOK
    PROVE  updates = << >> \/ \E u \in UpdateType : updates = <<u>>
BY DEF TypeOK, UpdateType, Kind

\* What is sent, and from where.
LEMMA SentUpdate ==
    ASSUME TypeOK, loop \in Sending
    PROVE  /\ Update \in UpdateType /\ Update.tunnel = current
           /\ Update.kind = "event" => loop \in {"send event", "send disconnected"}
           /\ Update.kind = "claim" => loop = "send claim"
           /\ Update.kind = "terminal" => loop = "send terminal"
           /\ Update.kind = "refused" => loop = "send refused"
           /\ loop = "send claim" => Update.kind = "claim"
           /\ loop \in {"send terminal", "send refused"} => Update.kind \in {"terminal", "refused"}
BY DEF TypeOK, Update, UpdateType, Kind, Sending

\* Receiving one update.
LEMMA Received ==
    ASSUME TypeOK, RunReceives
    PROVE  \E u \in UpdateType :
             /\ updates = <<u>> /\ updates' = << >>
             /\ claim' = IF u.kind = "claim" THEN u.tunnel ELSE claim
             /\ u.kind \in {"terminal", "refused"} =>
                   err' = u.kind /\ run' = "done" /\ stopped' = TRUE
             /\ u.kind \in {"event", "claim"} => UNCHANGED <<run, stopped, err>>
<1>1. PICK u \in UpdateType : updates = <<u>>
  BY UpdatesType DEF RunReceives
<1>2. Head(updates) = u /\ updates' = << >>
  BY <1>1, Channel DEF RunReceives
<1>3. QED
  BY <1>1, <1>2 DEF RunReceives, RunReturns, UpdateType, Kind

-----------------------------------------------------------------------------
\* Every step leaves each variable within its type.
LEMMA NextTypes ==
    ASSUME TypeOK, AckedFirst, [Next]_vars
    PROVE  TypeOK'
<1> USE DEF Tunnel
<1>1. CASE UNCHANGED vars
  BY <1>1 DEF vars, loopVars, tunnelVars, TypeOK
<1>2. CASE Cancel
  BY <1>2 DEF Cancel, loopVars, tunnelVars, TypeOK
<1>3. CASE StreamEvent
  <2>1. events' \in 0..MaxEvents
    <3>1. events < MaxEvents /\ events' = events + 1 /\ events \in 0..MaxEvents
      BY <1>3 DEF StreamEvent, TypeOK
    <3>2. QED
      BY <3>1, BoundAssumption
  <2>2. QED
    BY <1>3, <2>1, StepFrames DEF loopVars, TypeOK
<1>4. CASE Run
  <2>1. CASE RunCancelled
    BY <2>1 DEF RunCancelled, RunReturns, loopVars, tunnelVars, TypeOK
  <2>2. CASE RunReceives
    <3>1. PICK u \in UpdateType :
             /\ updates = <<u>> /\ updates' = << >>
             /\ claim' = IF u.kind = "claim" THEN u.tunnel ELSE claim
             /\ u.kind \in {"terminal", "refused"} =>
                   err' = u.kind /\ run' = "done" /\ stopped' = TRUE
             /\ u.kind \in {"event", "claim"} => UNCHANGED <<run, stopped, err>>
      BY <2>2, Received
    <3>2. QED
      BY <3>1, <2>2 DEF RunReceives, tunnelVars, TypeOK, UpdateType, Kind
  <2>3. CASE RunSeesLoopEnd
    BY <2>3 DEF RunSeesLoopEnd, RunReturns, loopVars, tunnelVars, TypeOK
  <2>4. QED
    BY <1>4, <2>1, <2>2, <2>3 DEF Run
<1>5. CASE LoopStep
  <2>1. {cancelled, stopped}' \subseteq BOOLEAN /\ run' \in {"select", "done"}
        /\ err' \in {"none", "terminal", "refused", "tunnel stopped"} /\ claim' \in Tunnel
    BY <1>5, StepFrames DEF TypeOK
  <2>2. current' \in Tunnel /\ events' \in 0..MaxEvents
    <3>1. \/ UNCHANGED <<current, events>>
          \/ UNCHANGED current /\ events > 0 /\ events' = events - 1
          \/ current < MaxTunnels /\ current' = current + 1 /\ events' = 0
      BY <1>5
      DEF LoopStep, LoopCancelled, LoopTakesEvent, LoopSeesClose, LoopChecksTerminal, LoopSends,
          LoopGivesUpSend, WaitRetry, StartDial, DialSucceeds, DialFails, tunnelVars
    <3>2. current \in 1..MaxTunnels /\ events \in 0..MaxEvents
      BY DEF TypeOK
    <3>3. QED
      BY <3>1, <3>2, BoundAssumption
  <2>3. loop' \in Sending \cup {"select", "check", "retry", "dial", "dialing", "ended"}
    BY <1>5
    DEF LoopStep, LoopCancelled, LoopTakesEvent, LoopSeesClose, LoopChecksTerminal, LoopSends,
        LoopGivesUpSend, WaitRetry, StartDial, DialSucceeds, DialFails, TypeOK, AfterSend,
        NextTry, Sending
  <2>4. updates' = << >> \/ \E n \in Tunnel, kind \in Kind : updates' = <<[kind |-> kind, tunnel |-> n]>>
    <3>1. CASE LoopSends
      <4>1. Update \in UpdateType /\ updates' = <<Update>>
        BY <3>1, SentUpdate DEF LoopSends
      <4>2. PICK n \in Tunnel, kind \in Kind : Update = [kind |-> kind, tunnel |-> n]
        BY <4>1 DEF UpdateType
      <4>3. QED
        BY <4>1, <4>2
    <3>2. CASE UNCHANGED updates
      BY <3>2 DEF TypeOK, Kind
    <3>3. QED
      BY <1>5, <3>1, <3>2
      DEF LoopStep, LoopCancelled, LoopTakesEvent, LoopSeesClose, LoopChecksTerminal,
          LoopGivesUpSend, WaitRetry, StartDial, DialSucceeds, DialFails
  <2>5. session' \in [Tunnel -> {"none", "open", "closed"}]
        /\ acceptor' \in [Tunnel -> {"none", "accepting", "acked", "closing", "ended"}]
    BY <1>5
    DEF LoopStep, LoopCancelled, LoopTakesEvent, LoopSeesClose, LoopChecksTerminal, LoopSends,
        LoopGivesUpSend, WaitRetry, StartDial, DialSucceeds, DialFails, tunnelVars, TypeOK, Close
  <2>6. terminal' \subseteq acked' /\ acked' \subseteq Tunnel
    BY <1>5, StepFrames
    DEF LoopStep, LoopCancelled, LoopTakesEvent, LoopSeesClose, LoopChecksTerminal, LoopSends,
        LoopGivesUpSend, WaitRetry, StartDial, DialSucceeds, DialFails, tunnelVars, TypeOK
  <2>7. QED
    BY <2>1, <2>2, <2>3, <2>4, <2>5, <2>6 DEF TypeOK, Kind
<1>6. ASSUME NEW n \in Tunnel,
             AckTerminalFrame(n) \/ ReportTerminal(n) \/ EndAccept(n) \/ SessionBreaks(n)
      PROVE  TypeOK'
  <2>1. UNCHANGED <<cancelled, stopped, run, err, claim, loop, current, updates, events>>
    BY <1>6, StepFrames DEF loopVars
  <2>2. session' \in [Tunnel -> {"none", "open", "closed"}]
        /\ acceptor' \in [Tunnel -> {"none", "accepting", "acked", "closing", "ended"}]
    BY <1>6 DEF AckTerminalFrame, ReportTerminal, EndAccept, SessionBreaks, Close, TypeOK
  <2>3. terminal' \subseteq acked' /\ acked' \subseteq Tunnel
    BY <1>6 DEF AckTerminalFrame, ReportTerminal, EndAccept, SessionBreaks, AckedFirst, TypeOK
  <2>4. QED
    BY <2>1, <2>2, <2>3 DEF TypeOK
<1>7. QED
  BY <1>1, <1>2, <1>3, <1>4, <1>5, <1>6 DEF Next

\* An acceptor leaves "accepting" for a terminal frame only by acknowledging it, and a
\* new tunnel's has not seen one.
LEMMA NextAckedFirst ==
    ASSUME TypeOK, AckedFirst, [Next]_vars
    PROVE  AckedFirst'
<1>1. CASE UNCHANGED <<acceptor, acked>>
  BY <1>1 DEF AckedFirst
<1>2. CASE DialSucceeds
  BY <1>2 DEF DialSucceeds, AckedFirst, TypeOK, Tunnel
<1>3. ASSUME NEW n \in Tunnel, AckTerminalFrame(n) \/ ReportTerminal(n) \/ EndAccept(n)
      PROVE  AckedFirst'
  BY <1>3 DEF AckTerminalFrame, ReportTerminal, EndAccept, AckedFirst, TypeOK
<1>4. LoopStep => DialSucceeds \/ UNCHANGED <<acceptor, acked>>
  BY DEF LoopStep, LoopCancelled, LoopTakesEvent, LoopSeesClose, LoopChecksTerminal, LoopSends,
         LoopGivesUpSend, WaitRetry, StartDial, DialFails, tunnelVars
<1>5. QED
  BY <1>1, <1>2, <1>3, <1>4, StepFrames DEF Next, vars, tunnelVars, SessionBreaks

\* The loop leaves a tunnel it may still have open only by closing it, and dials a
\* new one only from where the old one is closed.
LEMMA NextOneTunnel ==
    ASSUME TypeOK, OneTunnel, [Next]_vars
    PROVE  OneTunnel'
<1>1. CASE UNCHANGED <<loop, current, session>>
  BY <1>1 DEF OneTunnel
<1>2. CASE LoopCancelled \/ LoopGivesUpSend
  BY <1>2 DEF LoopCancelled, LoopGivesUpSend, Close, OneTunnel, TypeOK, Sending, Broken
<1>3. CASE LoopSeesClose \/ LoopChecksTerminal \/ LoopTakesEvent
  BY <1>3 DEF LoopSeesClose, LoopChecksTerminal, LoopTakesEvent, tunnelVars, OneTunnel, TypeOK, Broken
<1>4. CASE LoopSends
  BY <1>4 DEF LoopSends, AfterSend, NextTry, Sending, tunnelVars, OneTunnel, Broken
<1>5. CASE WaitRetry \/ StartDial \/ DialFails
  BY <1>5 DEF WaitRetry, StartDial, DialFails, NextTry, tunnelVars, OneTunnel, Broken
<1>6. CASE DialSucceeds
  BY <1>6 DEF DialSucceeds, OneTunnel, TypeOK, Tunnel, Broken
<1>7. ASSUME NEW n \in Tunnel, AckTerminalFrame(n) \/ ReportTerminal(n) \/ EndAccept(n) \/ SessionBreaks(n)
      PROVE  OneTunnel'
  <2>1. UNCHANGED <<loop, current>>
    BY <1>7, StepFrames DEF loopVars
  <2>2. \A m \in Tunnel : session'[m] = "open" => session[m] = "open"
    BY <1>7 DEF AckTerminalFrame, ReportTerminal, EndAccept, SessionBreaks, Close, TypeOK
  <2>3. QED
    BY <2>1, <2>2 DEF OneTunnel
<1>8. QED
  BY <1>1, <1>2, <1>3, <1>4, <1>5, <1>6, <1>7, StepFrames
  DEF Next, LoopStep, vars, loopVars, tunnelVars

\* The channel is changed by run's receiving and the loop's sending only.
LEMMA ChannelMoves ==
    ASSUME [Next]_vars
    PROVE  RunReceives \/ LoopSends \/ UNCHANGED updates
BY StepFrames
DEF Next, Run, RunCancelled, RunSeesLoopEnd, LoopStep, LoopCancelled, LoopTakesEvent, LoopSeesClose,
    LoopChecksTerminal, LoopGivesUpSend, WaitRetry, StartDial, DialSucceeds, DialFails, vars,
    loopVars

\* The loop is done with a new tunnel's claim only when it has sent it, and the
\* channel takes it only when run has received whatever was before it.
LEMMA NextClaimUnderWay ==
    ASSUME TypeOK, ClaimUnderWay, [Next]_vars
    PROVE  ClaimUnderWay'
<1> USE DEF Pending
<1>1. CASE UNCHANGED <<claim, current, updates>>
           /\ (loop' \in {"send claim", "ended"} \/ loop \notin {"send claim", "ended"})
  BY <1>1 DEF ClaimUnderWay
<1>2. CASE RunReceives
  <2>1. PICK u \in UpdateType :
           /\ updates = <<u>> /\ updates' = << >>
           /\ claim' = IF u.kind = "claim" THEN u.tunnel ELSE claim
    BY <1>2, Received
  <2>2. <<u>>[1] = u /\ <<u>> # << >>
    BY Channel
  <2>3. UNCHANGED <<loop, current>>
    BY <1>2, StepFrames DEF Run
  <2>4. QED
    BY <2>1, <2>2, <2>3 DEF ClaimUnderWay
<1>3. CASE LoopSends
  <2>1. /\ updates = << >> /\ updates' = <<Update>> /\ updates' # << >> /\ updates'[1] = Update
        /\ UNCHANGED <<claim, current>>
    BY <1>3, Channel DEF LoopSends
  <2>2. CASE loop = "send claim"
    BY <2>1, <2>2, <1>3, SentUpdate DEF ClaimUnderWay, LoopSends
  <2>3. CASE loop # "send claim"
    <3>1. Update.kind # "claim"
      BY <2>3, <1>3, SentUpdate DEF LoopSends
    <3>2. loop \notin {"send claim", "ended"}
      BY <1>3, <2>3 DEF LoopSends, Sending
    <3>3. claim = current /\ Update.tunnel = current
      BY <2>1, <3>2, <1>3, SentUpdate DEF ClaimUnderWay, LoopSends
    <3>4. QED
      BY <2>1, <3>3 DEF ClaimUnderWay
  <2>4. QED
    BY <2>2, <2>3
<1>4. CASE LoopStep /\ ~LoopSends
  <2>1. UNCHANGED <<claim, updates>>
    BY <1>4, StepFrames
    DEF LoopStep, LoopCancelled, LoopTakesEvent, LoopSeesClose, LoopChecksTerminal,
        LoopGivesUpSend, WaitRetry, StartDial, DialSucceeds, DialFails
  <2>2. \/ loop' \in {"send claim", "ended"}
        \/ UNCHANGED current /\ loop \notin {"send claim", "ended"}
    BY <1>4
    DEF LoopStep, LoopCancelled, LoopTakesEvent, LoopSeesClose, LoopChecksTerminal,
        LoopGivesUpSend, WaitRetry, StartDial, DialSucceeds, DialFails
  <2>3. QED
    BY <2>1, <2>2 DEF ClaimUnderWay
<1>5. CASE ~RunReceives /\ ~LoopStep
  <2>1. UNCHANGED <<claim, current, updates, loop>>
    BY <1>5, StepFrames DEF Next, Run, RunCancelled, RunSeesLoopEnd, vars, loopVars
  <2>2. QED
    BY <2>1 DEF ClaimUnderWay
<1>6. QED
  BY <1>2, <1>3, <1>4, <1>5

\* The loop ends because its context has, or with a terminal frame or a refusal sent;
\* run takes that for the session's error and never sees the end without it.
LEMMA NextReasonUnderWay ==
    ASSUME TypeOK, ReasonUnderWay, EndHasReason, [Next]_vars
    PROVE  ReasonUnderWay' /\ EndHasReason'
<1> USE DEF Pending
<1>1. CASE UNCHANGED <<stopped, run, err, updates>>
           /\ (cancelled => cancelled') /\ (loop' = "ended" => loop = "ended" \/ Ended)
  BY <1>1 DEF ReasonUnderWay, EndHasReason, Ended
<1>2. CASE RunReceives
  <2>1. PICK u \in UpdateType :
           /\ updates = <<u>> /\ updates' = << >>
           /\ u.kind \in {"terminal", "refused"} =>
                 err' = u.kind /\ run' = "done" /\ stopped' = TRUE
           /\ u.kind \in {"event", "claim"} => UNCHANGED <<run, stopped, err>>
    BY <1>2, Received
  <2>2. <<u>>[1] = u /\ <<u>> # << >> /\ u.kind \in Kind
    BY Channel DEF UpdateType
  <2>3. UNCHANGED <<loop, cancelled>>
    BY <1>2, StepFrames DEF Run
  <2>4. CASE u.kind \in {"terminal", "refused"}
    BY <2>1, <2>3, <2>4 DEF ReasonUnderWay, EndHasReason, Ended
  <2>5. CASE u.kind \in {"event", "claim"}
    BY <2>1, <2>2, <2>3, <2>5 DEF ReasonUnderWay, EndHasReason, Ended
  <2>6. QED
    BY <2>2, <2>4, <2>5 DEF Kind
<1>3. CASE RunCancelled \/ RunSeesLoopEnd
  <2>1. Ended
    BY <1>3 DEF RunCancelled, RunSeesLoopEnd, ReasonUnderWay, Ended
  <2>2. cancelled
    BY <1>3, <2>1 DEF RunCancelled, RunSeesLoopEnd, ReasonUnderWay, Ended
  <2>3. cancelled' /\ run' = "done" /\ stopped'
    BY <1>3, <2>2 DEF RunCancelled, RunSeesLoopEnd, RunReturns
  <2>4. QED
    BY <2>3 DEF ReasonUnderWay, EndHasReason, Ended
<1>4. CASE LoopSends
  <2>1. updates' # << >> /\ updates'[1] = Update
    BY <1>4, Channel DEF LoopSends
  <2>2. UNCHANGED <<cancelled, stopped, run, err>>
    BY <1>4 DEF LoopSends
  <2>3. loop' = "ended" => loop \in {"send terminal", "send refused"}
    BY <1>4 DEF LoopSends, AfterSend, NextTry, Sending
  <2>4. loop' = "ended" => Update.kind \in {"terminal", "refused"}
    BY <2>3, <1>4, SentUpdate DEF LoopSends
  <2>5. QED
    BY <2>1, <2>2, <2>4 DEF ReasonUnderWay, EndHasReason
<1>5. CASE LoopStep /\ ~LoopSends
  <2>1. UNCHANGED <<cancelled, stopped, run, err, updates>>
    BY <1>5, StepFrames
    DEF LoopStep, LoopCancelled, LoopTakesEvent, LoopSeesClose, LoopChecksTerminal,
        LoopGivesUpSend, WaitRetry, StartDial, DialSucceeds, DialFails
  <2>2. loop' = "ended" => Ended
    BY <1>5
    DEF LoopStep, LoopCancelled, LoopTakesEvent, LoopSeesClose, LoopChecksTerminal,
        LoopGivesUpSend, WaitRetry, StartDial, DialSucceeds, DialFails, NextTry
  <2>3. QED
    BY <1>1, <2>1, <2>2
<1>6. CASE ~Run /\ ~LoopStep
  <2>1. UNCHANGED <<stopped, run, err, updates, loop>> /\ (cancelled => cancelled')
    BY <1>6, StepFrames DEF Next, Cancel, vars, loopVars
  <2>2. QED
    BY <2>1, <1>1
<1>7. QED
  BY <1>2, <1>3, <1>4, <1>5, <1>6 DEF Run

\* From the look into the current tunnel's terminal channel on, the loop does nothing
\* but report what it found.
LEMMA NextTerminalUnderWay ==
    ASSUME TypeOK, TerminalUnderWay, [Next]_vars
    PROVE  TerminalUnderWay'
<1> USE DEF Pending
<1>1. acked \subseteq acked'
  BY StepFrames DEF Next, vars, tunnelVars, AckTerminalFrame, ReportTerminal, EndAccept, SessionBreaks
<1>2. CASE RunReceives
  <2>1. PICK u \in UpdateType :
           /\ updates = <<u>> /\ updates' = << >>
           /\ u.kind \in {"terminal", "refused"} => err' = u.kind
           /\ u.kind \in {"event", "claim"} => UNCHANGED err
    BY <1>2, Received
  <2>2. <<u>>[1] = u /\ <<u>> # << >> /\ u.kind \in Kind
    BY Channel DEF UpdateType
  <2>3. UNCHANGED <<loop, current>>
    BY <1>2, StepFrames DEF Run
  <2>4. err' = "terminal" => err = "terminal" \/ u.kind = "terminal"
    BY <2>1, <2>2 DEF Kind
  <2>5. QED
    BY <1>1, <2>1, <2>2, <2>3, <2>4 DEF TerminalUnderWay
<1>3. CASE LoopSends
  <2>1. updates = << >> /\ updates' # << >> /\ updates'[1] = Update
    BY <1>3, Channel DEF LoopSends
  <2>2. UNCHANGED <<current, err>>
    BY <1>3 DEF LoopSends
  <2>3. Update.kind = "terminal" => loop = "send terminal"
    BY <1>3, SentUpdate DEF LoopSends
  <2>4. loop = "send terminal" => loop' = "ended"
    BY <1>3 DEF LoopSends, AfterSend
  <2>5. loop # "ended" /\ loop' # "send terminal"
    BY <1>3 DEF LoopSends, AfterSend, NextTry, Sending
  <2>6. QED
    BY <1>1, <2>1, <2>2, <2>3, <2>4, <2>5 DEF TerminalUnderWay
<1>4. CASE LoopStep /\ ~LoopSends
  <2>1. UNCHANGED <<err, updates>>
    BY <1>4, StepFrames
    DEF LoopStep, LoopCancelled, LoopTakesEvent, LoopSeesClose, LoopChecksTerminal,
        LoopGivesUpSend, WaitRetry, StartDial, DialSucceeds, DialFails
  <2>2. loop' = "send terminal" => loop = "check" /\ current \in acked /\ UNCHANGED current
    BY <1>4
    DEF LoopStep, LoopCancelled, LoopTakesEvent, LoopSeesClose, LoopChecksTerminal,
        LoopGivesUpSend, WaitRetry, StartDial, DialSucceeds, DialFails, NextTry, TypeOK
  <2>3. loop \in {"send terminal", "ended"} => loop' = "ended" /\ UNCHANGED current
    BY <1>4
    DEF LoopStep, LoopCancelled, LoopTakesEvent, LoopSeesClose, LoopChecksTerminal,
        LoopGivesUpSend, WaitRetry, StartDial, DialSucceeds, DialFails
  <2>4. QED
    BY <1>1, <2>1, <2>2, <2>3 DEF TerminalUnderWay
<1>5. CASE ~RunReceives /\ ~LoopStep
  <2>1. UNCHANGED <<current, updates, loop>> /\ (err' = "terminal" => err = "terminal")
    BY <1>5, StepFrames DEF Next, Run, RunCancelled, RunSeesLoopEnd, vars, loopVars
  <2>2. QED
    BY <1>1, <2>1 DEF TerminalUnderWay
<1>6. QED
  BY <1>2, <1>3, <1>4, <1>5
-----------------------------------------------------------------------------
\* Client.Start leaves a session that owes nothing.
LEMMA InitIInv == Init => IInv
<1> SUFFICES ASSUME Init PROVE IInv
  OBVIOUS
<1>1. TypeOK
  <2>1. 1 \in Tunnel /\ 0 \in 0..MaxEvents
    BY BoundAssumption DEF Tunnel
  <2>2. {cancelled, stopped} \subseteq BOOLEAN /\ terminal \subseteq acked /\ acked \subseteq Tunnel
    BY DEF Init
  <2>3. session \in [Tunnel -> {"none", "open", "closed"}]
        /\ acceptor \in [Tunnel -> {"none", "accepting", "acked", "closing", "ended"}]
    BY DEF Init
  <2>4. QED
    BY <2>1, <2>2, <2>3 DEF Init, TypeOK
<1>2. OneTunnel /\ AckedFirst /\ ClaimUnderWay
  BY DEF Init, OneTunnel, AckedFirst, ClaimUnderWay, Pending, Broken, Tunnel
<1>3. ReasonUnderWay /\ EndHasReason /\ TerminalUnderWay
  BY DEF Init, ReasonUnderWay, EndHasReason, TerminalUnderWay, Pending, Ended
<1>4. QED
  BY <1>1, <1>2, <1>3 DEF IInv

\* Every step keeps the inductive invariant.
LEMMA NextIInv == IInv /\ [Next]_vars => IInv'
BY NextTypes, NextAckedFirst, NextOneTunnel, NextClaimUnderWay, NextReasonUnderWay,
   NextTerminalUnderWay DEF IInv

\* The invariant holds of every session, however often it reconnects.
THEOREM Invariance == Spec => []IInv
BY InitIInv, NextIInv, PTL DEF Spec

\* Every variable keeps its type: in particular a tunnel's event channel never holds
\* more than its capacity, and only acknowledged terminal frames are reported.
THEOREM TypeCorrect == Spec => []TypeOK
<1>1. IInv => TypeOK
  BY DEF IInv
<1>2. QED
  BY <1>1, Invariance, PTL

\* However the session ends, the loop leaves no tunnel open behind it, and there are
\* never two at a time: a dial that succeeds after a cancellation included.
THEOREM NoLeaks == Spec => []NoTunnelLeaks
<1>1. IInv => NoTunnelLeaks
  BY DEF IInv, OneTunnel, NoTunnelLeaks, Broken
<1>2. QED
  BY <1>1, Invariance, PTL

\* Session.Claim catches up with every reconnection.
THEOREM ClaimCatchesUp == Spec => []ClaimIsCurrent
<1>1. IInv => ClaimIsCurrent
  BY DEF IInv, ClaimUnderWay, Pending, ClaimIsCurrent
<1>2. QED
  BY <1>1, Invariance, PTL

\* A session its user did not end tells the user why it ended.
THEOREM ReasonGiven == Spec => []EndHasReason
<1>1. IInv => EndHasReason
  BY DEF IInv
<1>2. QED
  BY <1>1, Invariance, PTL

\* The user is told that the claim was ended only if the gateway was told that the
\* current tunnel's terminal frame was received.
THEOREM TerminalTold == Spec => []TerminalIsTrue
<1>1. IInv => TerminalIsTrue
  BY DEF IInv, TerminalUnderWay, TerminalIsTrue
<1>2. QED
  BY <1>1, Invariance, PTL
=============================================================================
