-------------------------- MODULE StateFileProofs --------------------------
(***************************************************************************)
(* What the commands of one machine may rely on, for any number of them,   *)
(* although they share a file without a lock and it may lose what any of   *)
(* them wrote.  IInv says nothing of what the file keeps: only that every  *)
(* entry in it, and in every copy of it, is of a process that had a claim  *)
(* once, which is enough because such a process never starts over, and     *)
(* that no identifier is of two processes, so that a release which removes *)
(* one entry keeps the others.  Of a file that only one of them changes,   *)
(* Alone says what is in it.                                               *)
(***************************************************************************)
EXTENDS StateFile, TLAPS

Places == {"idle", "identity", "check identity", "start", "failed", "crashed", "record",
           "serving", "ended", "next", "absent"}
Identity == Process \cup {Earlier, None}

\* What the variables range over, with the places and identities of all processes.
Types ==
    /\ TypeOK
    /\ pc \in [Process -> Places] /\ ident \in [Process -> Identity]

\* A process has an identifier for its claim exactly from the answer of the gateway on.
Begun ==
    \A p \in Claimer :
        /\ id[p] # None => pc[p] \in {"record", "serving", "ended", "crashed"}
        /\ pc[p] \in {"record", "serving"} => id[p] # None

Claimed(e) == id[e.pid] # None

\* The entries in the file, in what is about to be written to it, or derived from it.
Known(e) ==
    \/ e \in file.claims \/ \E x \in Process : e \in mem[x].claims
    \/ \E r \in Releaser : e \in todo[r] \cup dropped[r] \/ (pc[r] = "absent" /\ e = entry[r])

\* Only processes that have had a claim are ever entered, whatever is lost or
\* overwritten; a release looks into the process of such an entry.
Recorded ==
    /\ \A e \in Entry : Known(e) => Claimed(e)
    /\ \A r \in Releaser : pc[r] = "absent" => entry[r] \in Entry
    /\ \A r \in Releaser : absent[r] \subseteq dropped[r]

\* Claim i is, or was, of process p.
Belongs(i, p) == id[p] = i \/ news[p] = i \/ Known([id |-> i, pid |-> p])

\* An identifier is of one process, and of an issued claim.
OneOwner ==
    /\ \A i \in 1..MaxClaims, p \in Claimer : Belongs(i, p) => i <= issued
    /\ \A i \in 1..MaxClaims, p, q \in Claimer : Belongs(i, p) /\ Belongs(i, q) => p = q

\* A release has nothing to account for before it has loaded the file; then every entry
\* is still to be asked for, being asked for, failed or removed.
Stage(r) ==
    /\ pc[r] \in {"idle", "identity", "check identity", "start", "failed"} =>
         todo[r] = {} /\ failed[r] = {} /\ dropped[r] = {}
    /\ pc[r] = "absent" =>
         io[r] = "idle" /\ entry[r] \in mem[r].claims \ (todo[r] \cup failed[r])
    /\ todo[r] \cap failed[r] = {}

Stages == \A r \in Releaser : Stage(r)

IInv ==
    /\ Types /\ Begun /\ Recorded /\ OneOwner /\ Stages
    /\ ReleaseNotMistaken /\ PartialReleaseAccounted /\ DetachTruth
-----------------------------------------------------------------------------
\* Changing one field of a loaded state leaves a state, with the other field.
LEMMA StateOps ==
    ASSUME NEW s \in State
    PROVE  /\ s.claims \subseteq Entry /\ s.identity \in Identity
           /\ \A C \in SUBSET Entry :
                [s EXCEPT !.claims = C] \in State /\ [s EXCEPT !.claims = C].claims = C
           /\ \A i \in Identity :
                [s EXCEPT !.identity = i] \in State /\ [s EXCEPT !.identity = i].claims = s.claims
BY DEF State, Identity

\* What saveState begins with is a state without entries.
LEMMA BlankState == Blank \in State /\ Blank.claims = {}
BY DEF Blank, State

\* An entry is of a claimer.
LEMMA EntryOps ==
    /\ \A e \in Entry : e.pid \in Claimer /\ e.id \in 1..MaxClaims
    /\ \A p \in Claimer, i \in 1..MaxClaims :
         [id |-> i, pid |-> p] \in Entry /\ [id |-> i, pid |-> p].pid = p
BY DEF Entry

\* What the actions leave alone.
LEMMA StepFrames ==
    /\ \A x \in Process :
         /\ Truncate(x) \/ Write(x) =>
              UNCHANGED <<pc, ident, paths, id, news, missed, told, parent, issued, held,
                          todo, entry, failed, dropped, absent>>
         /\ LookUpIdentity(x) \/ CheckIdentity(x) =>
              UNCHANGED <<file, paths, id, news, missed, told, parent, issued, held,
                          todo, entry, failed, dropped, absent>>
    /\ \A p \in Claimer :
         /\ Launch(p) \/ Start(p) \/ Reconnect(p) \/ LoseConnection(p) \/ Expire(p) =>
              UNCHANGED <<file, io, mem, ident, todo, entry, failed, dropped, absent>>
         /\ Record(p) \/ Renew(p) \/ CleanUp(p) \/ Crash(p) =>
              UNCHANGED <<file, ident, paths, parent, issued, held, todo, entry, failed, dropped, absent>>
         /\ ParentFindsClaim(p) \/ ParentGivesUp(p) =>
              UNCHANGED <<file, io, pc, mem, ident, paths, id, news, missed, told, issued, held,
                          todo, entry, failed, dropped, absent>>
    /\ \A r \in Releaser :
         RunRelease(r) \/ LoadTargets(r) \/ Delete(r) \/ CheckProcess(r) \/ ReleaseEnds(r) =>
              UNCHANGED <<file, ident, paths, id, news, missed, parent, issued>>
<1> USE DEF disk, claimerVars, gateway, releaseVars
<1>1. ASSUME NEW x \in Process
      PROVE  /\ Truncate(x) \/ Write(x) =>
                  UNCHANGED <<pc, ident, paths, id, news, missed, told, parent, issued, held,
                          todo, entry, failed, dropped, absent>>
             /\ LookUpIdentity(x) \/ CheckIdentity(x) =>
                  UNCHANGED <<file, paths, id, news, missed, told, parent, issued, held,
                          todo, entry, failed, dropped, absent>>
  BY DEF Truncate, Write, LookUpIdentity, CheckIdentity, Save
<1>2. ASSUME NEW p \in Claimer
      PROVE  /\ Launch(p) \/ Start(p) \/ Reconnect(p) \/ LoseConnection(p) \/ Expire(p) =>
                  UNCHANGED <<file, io, mem, ident, todo, entry, failed, dropped, absent>>
             /\ Record(p) \/ Renew(p) \/ CleanUp(p) \/ Crash(p) =>
                  UNCHANGED <<file, ident, paths, parent, issued, held, todo, entry, failed, dropped, absent>>
             /\ ParentFindsClaim(p) \/ ParentGivesUp(p) =>
                  UNCHANGED <<file, io, pc, mem, ident, paths, id, news, missed, told, issued, held,
                              todo, entry, failed, dropped, absent>>
  BY DEF Launch, Start, Reconnect, Notify, LoseConnection, Expire, HearsEnd, Record, Renew, CleanUp, Crash,
         ParentFindsClaim, ParentGivesUp, Save, Claims
<1>3. ASSUME NEW r \in Releaser
      PROVE  RunRelease(r) \/ LoadTargets(r) \/ Delete(r) \/ CheckProcess(r) \/ ReleaseEnds(r) =>
                  UNCHANGED <<file, ident, paths, id, news, missed, parent, issued>>
  BY DEF RunRelease, LoadTargets, Delete, CheckProcess, ReleaseEnds, DropAbsent, Drop, Fail, Save
<1>4. QED
  BY <1>1, <1>2, <1>3
-----------------------------------------------------------------------------
\* Where process x goes next, by what it does.
Moves(x, place) ==
    /\ pc' = [pc EXCEPT ![x] = place]
    /\ \/ LookUpIdentity(x) /\ place \in {"start", "check identity"}
       \/ CheckIdentity(x) /\ place \in {"start", "failed"}
       \/ /\ x \in Claimer
          /\ \/ Launch(x) /\ place = "identity"
             \/ Start(x) /\ place = "record" /\ id' = [id EXCEPT ![x] = issued + 1]
             \/ Start(x) /\ place = "failed" /\ UNCHANGED id
             \/ Record(x) /\ place = "serving"
             \/ CleanUp(x) /\ place = "ended"
             \/ Crash(x) /\ place = "crashed"
       \/ /\ x \in Releaser
          /\ \/ RunRelease(x) /\ place = "identity"
             \/ LoadTargets(x) /\ place = "next"
             \/ Delete(x) /\ place = "absent"
             \/ CheckProcess(x) /\ place = "next"
             \/ ReleaseEnds(x) /\ place = "ended"

\* One process moves at a time, and only in one of these ways.
LEMMA PcMoves ==
    ASSUME [Next]_vars
    PROVE  UNCHANGED pc \/ \E x \in Process, place \in Places : Moves(x, place)
<1> USE DEF Goto, Places
<1>1. ASSUME NEW x \in Process, LookUpIdentity(x) \/ CheckIdentity(x)
      PROVE  \E place \in Places : Moves(x, place)
  <2>1. \E place \in Places : pc' = [pc EXCEPT ![x] = place]
                             /\ \/ LookUpIdentity(x) /\ place \in {"start", "check identity"}
                                \/ CheckIdentity(x) /\ place \in {"start", "failed"}
    BY <1>1 DEF LookUpIdentity, CheckIdentity
  <2>2. QED
    BY <2>1 DEF Moves
<1>2. ASSUME NEW p \in Claimer, Launch(p) \/ Start(p) \/ Record(p) \/ CleanUp(p) \/ Crash(p)
      PROVE  \E place \in Places : Moves(p, place)
  <2>1. \E place \in Places :
          /\ pc' = [pc EXCEPT ![p] = place]
          /\ \/ Launch(p) /\ place = "identity"
             \/ Start(p) /\ place = "record" /\ id' = [id EXCEPT ![p] = issued + 1]
             \/ Start(p) /\ place = "failed" /\ UNCHANGED id
             \/ Record(p) /\ place = "serving"
             \/ CleanUp(p) /\ place = "ended"
             \/ Crash(p) /\ place = "crashed"
    BY <1>2 DEF Launch, Start, Record, CleanUp, Crash
  <2>2. QED
    BY <2>1 DEF Moves
<1>3. ASSUME NEW r \in Releaser,
             RunRelease(r) \/ LoadTargets(r) \/ Delete(r) \/ CheckProcess(r) \/ ReleaseEnds(r)
      PROVE  UNCHANGED pc \/ \E place \in Places : Moves(r, place)
  <2>1. CASE Delete(r)
    <3>1. UNCHANGED pc \/ pc' = [pc EXCEPT ![r] = "absent"]
      BY <2>1 DEF Delete
    <3>2. QED
      BY <2>1, <3>1 DEF Moves
  <2>2. CASE RunRelease(r) \/ LoadTargets(r) \/ CheckProcess(r) \/ ReleaseEnds(r)
    <3>1. \E place \in Places :
            /\ pc' = [pc EXCEPT ![r] = place]
            /\ \/ RunRelease(r) /\ place = "identity"
               \/ LoadTargets(r) /\ place = "next"
               \/ CheckProcess(r) /\ place = "next"
               \/ ReleaseEnds(r) /\ place = "ended"
      BY <2>2 DEF RunRelease, LoadTargets, CheckProcess, ReleaseEnds
    <3>2. QED
      BY <3>1 DEF Moves
  <2>3. QED
    BY <1>3, <2>1, <2>2
<1>4. ASSUME NEW p \in Claimer, Reconnect(p) \/ Renew(p) \/ LoseConnection(p) \/ Expire(p)
      PROVE  UNCHANGED pc
  BY <1>4 DEF Reconnect, Renew, LoseConnection, Expire
<1>5. QED
  BY <1>1, <1>2, <1>3, <1>4, StepFrames DEF Next, vars, Process

\* An identifier is got by the first handshake, or by a reconnection, and never lost.
LEMMA IdMoves ==
    ASSUME Types, [Next]_vars
    PROVE  \/ UNCHANGED id
           \/ \E p \in Claimer : Start(p) /\ Claims(p) /\ issued < MaxClaims
                                /\ id' = [id EXCEPT ![p] = issued + 1]
           \/ \E p \in Claimer : Renew(p) /\ news[p] # None /\ id' = [id EXCEPT ![p] = news[p]]
<1>1. ASSUME NEW p \in Claimer, Start(p)
      PROVE  \/ UNCHANGED id
             \/ Claims(p) /\ issued < MaxClaims /\ id' = [id EXCEPT ![p] = issued + 1]
  BY <1>1 DEF Start, Claims
<1>2. ASSUME NEW p \in Claimer,
             Launch(p) \/ Record(p) \/ Reconnect(p) \/ CleanUp(p) \/ Crash(p) \/ LoseConnection(p) \/ Expire(p)
      PROVE  UNCHANGED id
  BY <1>2 DEF Launch, Record, Reconnect, CleanUp, Crash, LoseConnection, Expire, claimerVars
<1>3. ASSUME NEW p \in Claimer, Renew(p)
      PROVE  news[p] # None /\ id' = [id EXCEPT ![p] = news[p]]
  BY <1>3 DEF Renew
<1>4. QED
  BY <1>1, <1>2, <1>3, StepFrames DEF Next, vars, claimerVars

\* Identifiers are numbers, so that None is not one of them.
LEMMA Numbered ==
    ASSUME TypeOK
    PROVE  /\ issued \in 0..MaxClaims
           /\ 1..issued \subseteq 1..MaxClaims
           /\ \A p \in Claimer : /\ id[p] # None => id[p] \in 1..issued
                                 /\ news[p] # None => news[p] \in 1..issued
           /\ issued < MaxClaims => issued + 1 \in 1..MaxClaims /\ issued + 1 # None
           /\ \A i \in 1..issued : i # None
<1>1. issued \in 0..MaxClaims
  BY DEF TypeOK
<1>2. 1..issued \subseteq 1..MaxClaims
  BY <1>1, ProcessAssumption
<1>3. issued < MaxClaims => issued + 1 \in 1..MaxClaims
  BY <1>1, ProcessAssumption
<1>4. \A p \in Claimer : /\ id[p] # None => id[p] \in 1..issued
                         /\ news[p] # None => news[p] \in 1..issued
  BY DEF TypeOK
<1>5. QED
  BY <1>1, <1>2, <1>3, <1>4, ProcessAssumption

\* A process that has had a claim never forgets it.
LEMMA ClaimedStays ==
    ASSUME Types, [Next]_vars
    PROVE  \A p \in Claimer : id[p] # None => id'[p] # None
<1>1. TypeOK /\ id \in [Claimer -> 1..issued \cup {None}]
  BY DEF Types, TypeOK
<1>2. CASE UNCHANGED id
  BY <1>2
<1>3. ASSUME NEW p \in Claimer, issued < MaxClaims, id' = [id EXCEPT ![p] = issued + 1]
      PROVE  \A q \in Claimer : id[q] # None => id'[q] # None
  BY <1>1, <1>3, Numbered
<1>4. ASSUME NEW p \in Claimer, news[p] # None, id' = [id EXCEPT ![p] = news[p]]
      PROVE  \A q \in Claimer : id[q] # None => id'[q] # None
  BY <1>1, <1>4
<1>5. QED
  BY <1>2, <1>3, <1>4, IdMoves

-----------------------------------------------------------------------------
\* A process puts its entry into a copy.
Enters(e) == \E p \in Claimer : \/ Record(p) /\ e = Own(p)
                                \/ Renew(p) /\ e = [id |-> news[p], pid |-> p]

\* Loading, changing and saving states, whatever of it is lost: every entry in the file
\* or in a copy was known before, or is the one a process has just made of itself.
LEMMA FileMoves ==
    ASSUME Types, Begun, [Next]_vars
    PROVE  /\ file' \in State /\ mem' \in [Process -> State]
           /\ \A e : e \in file'.claims => e \in file.claims \/ \E x \in Process : e \in mem[x].claims
           /\ \A x \in Process : \A e : e \in mem'[x].claims =>
                e \in file.claims \/ e \in mem[x].claims \/ Enters(e)
<1> DEFINE OldFile(s) == \A e : e \in s.claims => e \in file.claims \/ \E x \in Process : e \in mem[x].claims
           OldMem(m) == \A x \in Process : \A e : e \in m[x].claims =>
                           e \in file.claims \/ e \in mem[x].claims \/ Enters(e)
           Old == /\ file' \in State /\ mem' \in [Process -> State]
                  /\ OldFile(file') /\ OldMem(mem')
<1>1. file \in State /\ mem \in [Process -> State]
  BY DEF Types, TypeOK
<1>2. CASE UNCHANGED <<file, mem>>
  BY <1>1, <1>2
<1>3. ASSUME NEW x \in Process, Truncate(x) \/ Write(x)
      PROVE  Old
  <2>1. file' \in {Blank, mem[x], file}
    BY <1>3 DEF Truncate, Write
  <2>2. \E s \in {Blank, mem[x]} : mem' = [mem EXCEPT ![x] = s]
    <3>1. CASE Truncate(x)
      BY <1>1, <3>1 DEF Truncate
    <3>2. CASE Write(x)
      BY <1>1, <3>2 DEF Write
    <3>3. QED
      BY <1>3, <3>1, <3>2
  <2>3. file' \in State /\ OldFile(file')
    BY <1>1, <2>1, BlankState
  <2>4. mem' \in [Process -> State] /\ OldMem(mem')
    BY <1>1, <2>2, BlankState
  <2>5. QED
    BY <2>3, <2>4
<1>4. ASSUME NEW x \in Process, NEW s \in State, UNCHANGED file, mem' = [mem EXCEPT ![x] = s],
             \A e : e \in s.claims => e \in file.claims \/ e \in mem[x].claims \/ Enters(e)
      PROVE  Old
  <2>1. mem' \in [Process -> State] /\ OldMem(mem')
    BY <1>1, <1>4
  <2>2. QED
    BY <1>1, <1>4, <2>1
<1>5. ASSUME NEW x \in Process, LookUpIdentity(x)
      PROVE  Old
  <2>1. CASE file.identity # None
    BY <1>2, <1>5, <2>1, StepFrames DEF LookUpIdentity
  <2>2. CASE file.identity = None
    <3>1. UNCHANGED file /\ mem' = [mem EXCEPT ![x] = [file EXCEPT !.identity = x]]
      BY <1>5, <2>2 DEF LookUpIdentity, Save
    <3>2. [file EXCEPT !.identity = x] \in State /\ [file EXCEPT !.identity = x].claims = file.claims
      BY <1>1, StateOps DEF Identity
    <3>3. QED
      BY <1>4, <3>1, <3>2
  <2>3. QED
    BY <2>1, <2>2
<1>6. ASSUME NEW p \in Claimer, Record(p)
      PROVE  Old
  <2>1. Own(p) \in Entry /\ Own(p).pid = p
    <3>1. id[p] # None
      BY <1>6 DEF Record, Ready, Begun
    <3>2. id[p] \in 1..MaxClaims
      BY <3>1, Numbered DEF Types
    <3>3. QED
      BY <3>2, EntryOps DEF Own
  <2>2. mem' = [mem EXCEPT ![p] = [file EXCEPT !.claims = file.claims \cup {Own(p)}]] /\ UNCHANGED file
    BY <1>6 DEF Record, Save
  <2>3. file.claims \cup {Own(p)} \in SUBSET Entry
    BY <1>1, <2>1, StateOps
  <2>4. \A e : e \in file.claims \cup {Own(p)} => e \in file.claims \/ Enters(e)
    BY <1>6, <2>1 DEF Enters
  <2>5. QED
    BY <1>1, <1>4, <2>2, <2>3, <2>4, StateOps DEF Process
<1>7. ASSUME NEW p \in Claimer, Renew(p)
      PROVE  Old
  <2> DEFINE new == [id |-> news[p], pid |-> p]
             C == {e \in file.claims : ~SessionOf(p, e)} \cup {new}
  <2>1. new \in Entry /\ new.pid = p
    <3>1. news[p] \in 1..MaxClaims
      BY <1>7, Numbered DEF Types, Renew
    <3>2. QED
      BY <3>1, EntryOps
  <2>2. mem' = [mem EXCEPT ![p] = [file EXCEPT !.claims = C]] /\ UNCHANGED file
    BY <1>7 DEF Renew, Save
  <2>3. C \in SUBSET Entry
    BY <1>1, <2>1, StateOps
  <2>4. \A e : e \in C => e \in file.claims \/ Enters(e)
    BY <1>7, <2>1 DEF Enters
  <2> HIDE DEF C
  <2>5. QED
    BY <1>1, <1>4, <2>2, <2>3, <2>4, StateOps DEF Process
<1>8. ASSUME NEW p \in Claimer, CleanUp(p)
      PROVE  Old
  <2> DEFINE C == {e \in file.claims : ~SessionOf(p, e)}
  <2>1. mem' = [mem EXCEPT ![p] = [file EXCEPT !.claims = C]] /\ UNCHANGED file
    BY <1>8 DEF CleanUp, Save
  <2>2. C \in SUBSET Entry /\ C \subseteq file.claims
    BY <1>1, StateOps
  <2> HIDE DEF C
  <2>3. QED
    BY <1>1, <1>4, <2>1, <2>2, StateOps DEF Process
<1>9. ASSUME NEW p \in Claimer, Crash(p)
      PROVE  Old
  BY <1>4, <1>9, BlankState DEF Crash, Process
<1>10. ASSUME NEW r \in Releaser, LoadTargets(r) \/ ReleaseEnds(r)
       PROVE  Old
  <2>1. UNCHANGED file /\ \E s \in {file, Blank} : mem' = [mem EXCEPT ![r] = s]
    BY <1>10 DEF LoadTargets, ReleaseEnds, disk
  <2>2. QED
    BY <1>1, <1>4, <2>1, BlankState DEF Process
<1>11. ASSUME NEW r \in Releaser, NEW e, Drop(r, e)
       PROVE  Old
  <2> DEFINE C == {c \in mem[r].claims : c.id # e.id}
  <2>1. mem' = [mem EXCEPT ![r] = [mem[r] EXCEPT !.claims = C]] /\ UNCHANGED file
    BY <1>11 DEF Drop, Save
  <2>2. mem[r] \in State /\ C \in SUBSET Entry /\ C \subseteq mem[r].claims
    BY <1>1, StateOps DEF Process
  <2> HIDE DEF C
  <2>3. QED
    BY <1>1, <1>4, <2>1, <2>2, StateOps DEF Process
<1>12. ASSUME NEW r \in Releaser, Delete(r) \/ CheckProcess(r)
       PROVE  Old
  <2>1. UNCHANGED <<file, mem>> \/ \E e : Drop(r, e)
    BY <1>12 DEF Delete, CheckProcess, DropAbsent, Fail, disk
  <2>2. QED
    BY <1>2, <1>11, <2>1
<1>13. ASSUME NEW r \in Releaser, RunRelease(r)
       PROVE  Old
  BY <1>2, <1>13 DEF RunRelease, disk
<1>14. ASSUME NEW x \in Process, CheckIdentity(x)
       PROVE  Old
  BY <1>2, <1>14 DEF CheckIdentity, disk
<1>15. Old
  BY <1>2, <1>3, <1>5, <1>6, <1>7, <1>8, <1>9, <1>10, <1>12, <1>13, <1>14, StepFrames
  DEF Next, vars, disk
<1>16. QED
  BY <1>15

\* What a process is known by does not change once it has started.
LEMMA IdentityMoves ==
    ASSUME Types, [Next]_vars
    PROVE  /\ ident' \in [Process -> Identity]
           /\ \A x \in Process :
                pc'[x] \in {"idle", "identity", "failed", "crashed"} \/ ident'[x] \in Identity \ {None}
<1>1. /\ pc \in [Process -> Places] /\ ident \in [Process -> Identity] /\ file \in State
      /\ \A x \in Process :
           pc[x] \in {"idle", "identity", "failed", "crashed"} \/ ident[x] \in Identity \ {None}
  BY DEF Types, TypeOK, Identity
<1>2. \A x \in Process : x \in Identity \ {None}
  BY ProcessAssumption DEF Identity
<1>3. ASSUME NEW x \in Process, LookUpIdentity(x)
      PROVE  \E i \in Identity \ {None} : ident' = [ident EXCEPT ![x] = i]
  BY <1>1, <1>2, <1>3, StateOps DEF LookUpIdentity
<1>4. CASE \E x \in Process : LookUpIdentity(x)
  <2>1. PICK x \in Process : LookUpIdentity(x)
    BY <1>4
  <2>2. PICK i \in Identity \ {None} : ident' = [ident EXCEPT ![x] = i]
    BY <1>3, <2>1
  <2>3. \E place \in Places : pc' = [pc EXCEPT ![x] = place]
    BY <2>1 DEF LookUpIdentity, Goto, Places
  <2>4. QED
    BY <1>1, <2>2, <2>3
<1>5. CASE ~\E x \in Process : LookUpIdentity(x)
  <2>1. UNCHANGED ident
    BY <1>5, StepFrames DEF Next, CheckIdentity, vars
  <2>2. CASE UNCHANGED pc
    BY <1>1, <2>1, <2>2
  <2>3. ASSUME NEW x \in Process, NEW place \in Places, Moves(x, place)
        PROVE  pc'[x] \in {"idle", "identity", "failed", "crashed"}
               \/ pc[x] \notin {"idle", "identity", "failed", "crashed"}
    BY <1>1, <1>5, <2>3, ProcessAssumption
    DEF Moves, CheckIdentity, Launch, Start, Record, CleanUp, Crash, RunRelease, LoadTargets,
        Delete, CheckProcess, ReleaseEnds, Ready
  <2>4. ASSUME NEW x \in Process, NEW place \in Places, pc' = [pc EXCEPT ![x] = place],
               pc'[x] \in {"idle", "identity", "failed", "crashed"}
               \/ pc[x] \notin {"idle", "identity", "failed", "crashed"}
        PROVE  \A y \in Process :
                  pc'[y] \in {"idle", "identity", "failed", "crashed"} \/ ident'[y] \in Identity \ {None}
    BY <1>1, <2>1, <2>4
  <2>5. \A y \in Process :
          pc'[y] \in {"idle", "identity", "failed", "crashed"} \/ ident'[y] \in Identity \ {None}
    BY <2>2, <1>1, <2>1, <2>3, <2>4, PcMoves DEF Moves
  <2>6. QED
    BY <1>1, <2>1, <2>5
<1>6. QED
  BY <1>4, <1>5

\* The gateway numbers claims within the bound, and whoever knows a claim knows an
\* issued one.
LEMMA GatewayMoves ==
    ASSUME TypeOK, [Next]_vars
    PROVE  /\ issued' \in 0..MaxClaims
           /\ id' \in [Claimer -> 1..issued' \cup {None}]
           /\ news' \in [Claimer -> 1..issued' \cup {None}]
           /\ held' \in [Claimer -> 1..issued' \cup {None}]
<1> DEFINE Numbers(n) == 1..n \cup {None}
           Next3(n) == /\ id' \in [Claimer -> Numbers(n)] /\ news' \in [Claimer -> Numbers(n)]
                       /\ held' \in [Claimer -> Numbers(n)]
<1>1. /\ issued \in 0..MaxClaims /\ id \in [Claimer -> Numbers(issued)]
      /\ news \in [Claimer -> Numbers(issued)] /\ held \in [Claimer -> Numbers(issued)]
  BY DEF TypeOK
<1>2. \A m, n \in Nat : m <= n => Numbers(m) \subseteq Numbers(n)
  OBVIOUS
<1>3. issued < MaxClaims => /\ issued + 1 \in 0..MaxClaims /\ issued + 1 \in Numbers(issued + 1)
                            /\ Numbers(issued) \subseteq Numbers(issued + 1)
  BY <1>1, <1>2, ProcessAssumption
<1>4. None \in Numbers(issued)
  OBVIOUS
<1> HIDE DEF Numbers
<1>5. CASE UNCHANGED <<issued, id, news, held>>
  BY <1>1, <1>5 DEF Numbers
<1>6. ASSUME NEW p \in Claimer, Claims(p),
             \/ id' = [id EXCEPT ![p] = issued + 1] /\ UNCHANGED news
             \/ news' \in {news, [news EXCEPT ![p] = issued + 1]} /\ UNCHANGED id
      PROVE  issued' \in 0..MaxClaims /\ Next3(issued')
  <2>1. issued < MaxClaims /\ issued' = issued + 1 /\ held' = [held EXCEPT ![p] = issued + 1]
    BY <1>6 DEF Claims
  <2>2. held' \in [Claimer -> Numbers(issued + 1)]
    BY <1>1, <1>3, <2>1
  <2>3. id' \in [Claimer -> Numbers(issued + 1)]
    BY <1>1, <1>3, <1>6, <2>1
  <2>4. news' \in [Claimer -> Numbers(issued + 1)]
    BY <1>1, <1>3, <1>6, <2>1
  <2>5. QED
    BY <1>3, <2>1, <2>2, <2>3, <2>4
<1>7. ASSUME NEW p \in Claimer, Start(p) \/ Reconnect(p)
      PROVE  issued' \in 0..MaxClaims /\ Next3(issued')
  <2>1. \/ UNCHANGED <<issued, id, news, held>>
        \/ /\ Claims(p)
           /\ \/ id' = [id EXCEPT ![p] = issued + 1] /\ UNCHANGED news
              \/ news' \in {news, [news EXCEPT ![p] = issued + 1]} /\ UNCHANGED id
    BY <1>7 DEF Start, Reconnect, Notify, gateway
  <2>2. QED
    BY <1>5, <1>6, <2>1 DEF Numbers
<1>8. ASSUME NEW p \in Claimer, Renew(p)
      PROVE  issued' \in 0..MaxClaims /\ Next3(issued')
  <2>1. /\ id' = [id EXCEPT ![p] = news[p]] /\ news' = [news EXCEPT ![p] = None]
        /\ UNCHANGED <<issued, held>>
    BY <1>8 DEF Renew, gateway
  <2>2. QED
    BY <1>1, <1>4, <2>1
<1>9. ASSUME NEW p \in Claimer, UNCHANGED <<issued, id, news>>,
             held' = held \/ held' = [held EXCEPT ![p] = None]
      PROVE  issued' \in 0..MaxClaims /\ Next3(issued')
  BY <1>1, <1>4, <1>9
<1>10. ASSUME NEW p \in Claimer, LoseConnection(p) \/ Expire(p)
       PROVE  issued' \in 0..MaxClaims /\ Next3(issued')
  BY <1>9, <1>10 DEF LoseConnection, Expire, claimerVars
<1>11. ASSUME NEW r \in Releaser, Delete(r)
       PROVE  issued' \in 0..MaxClaims /\ Next3(issued')
  <2>1. PICK e \in todo[r] : held' = [held EXCEPT ![e.pid] = None] \/ held' = held
    BY <1>11 DEF Delete
  <2>2. e.pid \in Claimer
    BY EntryOps DEF TypeOK
  <2>3. QED
    BY <1>9, <1>11, <2>1, <2>2, StepFrames
<1>12. ASSUME NEW p \in Claimer, Launch(p) \/ Record(p) \/ CleanUp(p) \/ Crash(p)
       PROVE  UNCHANGED <<issued, id, news, held>>
  BY <1>12 DEF Launch, Record, CleanUp, Crash, gateway, claimerVars
<1>13. ASSUME NEW r \in Releaser, RunRelease(r) \/ LoadTargets(r) \/ CheckProcess(r) \/ ReleaseEnds(r)
       PROVE  UNCHANGED <<issued, id, news, held>>
  BY <1>13 DEF RunRelease, LoadTargets, CheckProcess, ReleaseEnds, gateway, claimerVars
<1>14. issued' \in 0..MaxClaims /\ Next3(issued')
  BY <1>5, <1>7, <1>8, <1>10, <1>11, <1>12, <1>13, StepFrames DEF Next, vars, gateway, claimerVars, Numbers
<1>15. QED
  BY <1>14 DEF Numbers

\* What a release has still to do, looks at, has failed in and has removed.
LEMMA ReleaseMoves ==
    ASSUME Types, Recorded, [Next]_vars
    PROVE  /\ todo' \in [Releaser -> SUBSET Entry] /\ entry' \in [Releaser -> Entry \cup {None}]
           /\ failed' \in [Releaser -> SUBSET Entry] /\ dropped' \in [Releaser -> SUBSET Entry]
           /\ absent' \in [Releaser -> SUBSET Entry]
<1> DEFINE Answers == /\ failed' \in [Releaser -> SUBSET Entry] /\ dropped' \in [Releaser -> SUBSET Entry]
                      /\ absent' \in [Releaser -> SUBSET Entry]
           Old == /\ todo' \in [Releaser -> SUBSET Entry] /\ entry' \in [Releaser -> Entry \cup {None}]
                  /\ Answers
<1>1. /\ todo \in [Releaser -> SUBSET Entry] /\ entry \in [Releaser -> Entry \cup {None}]
      /\ failed \in [Releaser -> SUBSET Entry] /\ dropped \in [Releaser -> SUBSET Entry]
      /\ absent \in [Releaser -> SUBSET Entry] /\ file \in State
  BY DEF Types, TypeOK
<1>2. CASE UNCHANGED <<todo, entry, failed, dropped, absent>>
  BY <1>1, <1>2
<1>3. ASSUME NEW r \in Releaser, NEW T \in SUBSET Entry, todo' = [todo EXCEPT ![r] = T],
             UNCHANGED <<entry, failed, dropped, absent>>
      PROVE  Old
  BY <1>1, <1>3
<1>4. ASSUME NEW r \in Releaser, LoadTargets(r)
      PROVE  Old
  <2>1. \E T \in {file.claims} \cup {{e} : e \in file.claims} : todo' = [todo EXCEPT ![r] = T]
    BY <1>4 DEF LoadTargets
  <2>2. \A T \in {file.claims} \cup {{e} : e \in file.claims} : T \in SUBSET Entry
    BY <1>1, StateOps
  <2>3. UNCHANGED <<entry, failed, dropped, absent>>
    BY <1>4 DEF LoadTargets
  <2>4. QED
    BY <1>3, <2>1, <2>2, <2>3
<1>5. ASSUME NEW r \in Releaser, NEW e \in Entry,
             \/ (Drop(r, e) \/ Fail(r, e)) /\ UNCHANGED absent
             \/ DropAbsent(r, e)
             \/ UNCHANGED <<failed, dropped, absent>>
      PROVE  Answers
  <2>1. /\ UNCHANGED failed \/ failed' = [failed EXCEPT ![r] = failed[r] \cup {e}]
        /\ UNCHANGED dropped \/ dropped' = [dropped EXCEPT ![r] = dropped[r] \cup {e}]
        /\ UNCHANGED absent \/ absent' = [absent EXCEPT ![r] = absent[r] \cup {e}]
    BY <1>5 DEF Drop, Fail, DropAbsent
  <2>2. QED
    BY <1>1, <2>1
<1>6. ASSUME NEW r \in Releaser, Delete(r)
      PROVE  Old
  <2>1. PICK e \in todo[r] :
          /\ todo' = [todo EXCEPT ![r] = todo[r] \ {e}]
          /\ \/ (Drop(r, e) \/ Fail(r, e)) /\ UNCHANGED <<entry, absent>>
             \/ entry' = [entry EXCEPT ![r] = e] /\ UNCHANGED <<failed, dropped, absent>>
    BY <1>6 DEF Delete
  <2>2. e \in Entry
    BY <1>1
  <2>3. Answers
    BY <1>5, <2>1, <2>2
  <2>4. todo' \in [Releaser -> SUBSET Entry] /\ entry' \in [Releaser -> Entry \cup {None}]
    BY <1>1, <2>1, <2>2
  <2>5. QED
    BY <2>3, <2>4
<1>7. ASSUME NEW r \in Releaser, CheckProcess(r)
      PROVE  Old
  <2>0. entry[r] \in Entry
    BY <1>7 DEF CheckProcess, Ready, Recorded
  <2>1. /\ (Fail(r, entry[r]) /\ UNCHANGED absent) \/ DropAbsent(r, entry[r])
        /\ entry' = [entry EXCEPT ![r] = None] /\ UNCHANGED todo
    BY <1>7 DEF CheckProcess
  <2>2. Answers
    BY <1>5, <2>0, <2>1
  <2>3. QED
    BY <1>1, <2>1, <2>2
<1>8. ASSUME NEW r \in Releaser, RunRelease(r) \/ ReleaseEnds(r)
      PROVE  UNCHANGED <<todo, entry, failed, dropped, absent>>
  BY <1>8 DEF RunRelease, ReleaseEnds, releaseVars
<1>9. QED
  BY <1>2, <1>4, <1>6, <1>7, <1>8, StepFrames DEF Next, vars, releaseVars

\* Every step leaves each variable within its type.
LEMMA NextTypes ==
    ASSUME Types, Begun, Recorded, [Next]_vars
    PROVE  Types'
<1>1. /\ TypeOK /\ io \in [Process -> {"idle", "open", "write"}] /\ pc \in [Process -> Places]
      /\ told \subseteq Claimer /\ missed \subseteq Claimer /\ paths \in [Claimer -> Paths \cup {None}]
      /\ parent \in [Claimer -> {"none", "waiting", "connected", "failed"}]
  BY DEF Types, TypeOK
<1>2. pc' \in [Process -> Places]
  BY <1>1, PcMoves DEF Moves
<1>3. io' \in [Process -> {"idle", "open", "write"}]
  <2>1. ASSUME NEW x \in Process, Truncate(x) \/ Write(x) \/ LookUpIdentity(x) \/ CheckIdentity(x)
        PROVE  \/ UNCHANGED io
               \/ \E at \in {"idle", "open", "write"} : io' = [io EXCEPT ![x] = at]
    BY <2>1 DEF Truncate, Write, LookUpIdentity, CheckIdentity, Save, disk
  <2>2. ASSUME NEW p \in Claimer, Record(p) \/ Renew(p) \/ CleanUp(p) \/ Crash(p)
        PROVE  \E at \in {"idle", "open", "write"} : io' = [io EXCEPT ![p] = at]
    BY <2>2 DEF Record, Renew, CleanUp, Crash, Save
  <2>3. ASSUME NEW r \in Releaser,
               RunRelease(r) \/ LoadTargets(r) \/ Delete(r) \/ CheckProcess(r) \/ ReleaseEnds(r)
        PROVE  UNCHANGED io \/ io' = [io EXCEPT ![r] = "open"]
    BY <2>3 DEF RunRelease, LoadTargets, Delete, CheckProcess, ReleaseEnds, DropAbsent, Drop, Fail, Save, disk
  <2>4. \/ UNCHANGED io
        \/ \E x \in Process, at \in {"idle", "open", "write"} : io' = [io EXCEPT ![x] = at]
    BY <2>1, <2>2, <2>3, StepFrames DEF Next, vars, disk, Process
  <2>5. QED
    BY <1>1, <2>4
<1>4. told' \subseteq Claimer
  <2>1. ASSUME NEW r \in Releaser, Delete(r)
        PROVE  told' \subseteq Claimer
    <3>1. PICK e \in todo[r] : told' = told \cup {e.pid} \/ told' = told
      BY <2>1 DEF Delete, HearsEnd
    <3>2. e.pid \in Claimer
      BY <1>1, EntryOps DEF TypeOK
    <3>3. QED
      BY <1>1, <3>1, <3>2
  <2>2. ASSUME NEW r \in Releaser, RunRelease(r) \/ LoadTargets(r) \/ CheckProcess(r) \/ ReleaseEnds(r)
        PROVE  UNCHANGED told
    BY <2>2 DEF RunRelease, LoadTargets, CheckProcess, ReleaseEnds, claimerVars
  <2>3. ASSUME NEW p \in Claimer
        PROVE  Launch(p) \/ Start(p) \/ Record(p) \/ Reconnect(p) \/ Renew(p) \/ CleanUp(p) \/ Crash(p)
               \/ LoseConnection(p) \/ Expire(p) => told' = told \/ told' = told \cup {p}
    BY DEF Launch, Start, Record, Reconnect, Renew, CleanUp, Crash, LoseConnection, Expire, HearsEnd, claimerVars
  <2>4. QED
    BY <1>1, <2>1, <2>2, <2>3, StepFrames DEF Next, vars, claimerVars
<1>12. missed' \subseteq Claimer
  <2>1. ASSUME NEW p \in Claimer, Reconnect(p)
        PROVE  missed' \in {missed, missed \ {p}, missed \cup {p}}
    BY <2>1 DEF Reconnect, Notify
  <2>2. ASSUME NEW p \in Claimer
        PROVE  Launch(p) \/ Start(p) \/ Record(p) \/ Renew(p) \/ CleanUp(p) \/ Crash(p)
               \/ LoseConnection(p) \/ Expire(p) => UNCHANGED missed
    BY DEF Launch, Start, Record, Renew, CleanUp, Crash, LoseConnection, Expire, claimerVars
  <2>3. QED
    BY <1>1, <2>1, <2>2, StepFrames DEF Next, vars, claimerVars
<1>5. paths' \in [Claimer -> Paths \cup {None}]
      /\ parent' \in [Claimer -> {"none", "waiting", "connected", "failed"}]
  <2>1. ASSUME NEW p \in Claimer, Launch(p)
        PROVE  /\ \E list \in Paths : paths' = [paths EXCEPT ![p] = list]
               /\ parent' = [parent EXCEPT ![p] = "waiting"]
    BY <2>1 DEF Launch
  <2>2. ASSUME NEW p \in Claimer
        PROVE  /\ Start(p) \/ Reconnect(p) \/ LoseConnection(p) \/ Expire(p) => UNCHANGED <<paths, parent>>
               /\ ParentFindsClaim(p) \/ ParentGivesUp(p) =>
                    /\ UNCHANGED paths
                    /\ \E s \in {"connected", "failed"} : parent' = [parent EXCEPT ![p] = s]
    BY DEF Start, Reconnect, LoseConnection, Expire, ParentFindsClaim, ParentGivesUp, claimerVars
  <2>3. \/ UNCHANGED <<paths, parent>>
        \/ \E p \in Claimer : Launch(p)
        \/ \E p \in Claimer : ParentFindsClaim(p) \/ ParentGivesUp(p)
    BY <2>2, StepFrames DEF Next, vars, claimerVars
  <2>4. CASE \E p \in Claimer : Launch(p)
    BY <1>1, <2>1, <2>4
  <2>5. CASE \E p \in Claimer : ParentFindsClaim(p) \/ ParentGivesUp(p)
    BY <1>1, <2>2, <2>5
  <2>6. QED
    BY <1>1, <2>3, <2>4, <2>5
<1>6. file' \in State /\ mem' \in [Process -> State]
  BY FileMoves
<1>7. /\ issued' \in 0..MaxClaims /\ id' \in [Claimer -> 1..issued' \cup {None}]
      /\ news' \in [Claimer -> 1..issued' \cup {None}] /\ held' \in [Claimer -> 1..issued' \cup {None}]
  BY <1>1, GatewayMoves
<1>8. /\ ident' \in [Process -> Identity]
      /\ \A x \in Process : pc'[x] \in {"idle", "identity", "failed", "crashed"}
                            \/ ident'[x] \in (Process \cup {Earlier}) \ {None}
  BY IdentityMoves DEF Identity
<1>9. /\ todo' \in [Releaser -> SUBSET Entry] /\ entry' \in [Releaser -> Entry \cup {None}]
      /\ failed' \in [Releaser -> SUBSET Entry] /\ dropped' \in [Releaser -> SUBSET Entry]
      /\ absent' \in [Releaser -> SUBSET Entry]
  BY ReleaseMoves
<1>10. TypeOK'
  BY <1>3, <1>4, <1>5, <1>6, <1>7, <1>8, <1>9, <1>12 DEF TypeOK
<1>11. QED
  BY <1>2, <1>8, <1>10 DEF Types

\* A process that has an identifier is past its start and does not go back.
LEMMA NextBegun ==
    ASSUME Types, Begun, [Next]_vars
    PROVE  Begun'
<1>1. TypeOK /\ pc \in [Process -> Places] /\ id \in [Claimer -> 1..issued \cup {None}]
  BY DEF Types, TypeOK
<1>2. \A p \in Claimer : p \in Process /\ p \notin Releaser
  BY ProcessAssumption DEF Process
<1> SUFFICES ASSUME NEW p \in Claimer
             PROVE  /\ id'[p] # None => pc'[p] \in {"record", "serving", "ended", "crashed"}
                    /\ pc'[p] \in {"record", "serving"} => id'[p] # None
  BY DEF Begun
<1>3. CASE UNCHANGED pc
  <2>1. id'[p] # None => id[p] # None \/ Renew(p) \/ Start(p)
    BY <1>1, IdMoves
  <2>2. Renew(p) => pc[p] = "serving"
    BY DEF Renew, Ready
  <2>3. ~Start(p)
    BY <1>1, <1>2, <1>3 DEF Start, Goto, Ready
  <2>4. id[p] # None => id'[p] # None
    BY ClaimedStays
  <2>5. QED
    BY <1>3, <2>1, <2>2, <2>3, <2>4 DEF Begun
<1>4. ASSUME NEW x \in Process, NEW place \in Places, Moves(x, place), x # p
      PROVE  pc'[p] = pc[p] /\ (Start(p) => FALSE)
  BY <1>1, <1>2, <1>4 DEF Moves, Start, Goto, Ready
<1>5. ASSUME NEW x \in Process, NEW place \in Places, Moves(x, place), x # p
      PROVE  (id'[p] # None => pc'[p] \in {"record", "serving", "ended", "crashed"})
             /\ (pc'[p] \in {"record", "serving"} => id'[p] # None)
  <2>1. pc'[p] = pc[p] /\ ~Start(p)
    BY <1>4, <1>5
  <2>2. id'[p] # None => id[p] # None \/ Renew(p)
    BY <1>1, <2>1, IdMoves
  <2>3. Renew(p) => pc[p] = "serving"
    BY DEF Renew, Ready
  <2>4. QED
    BY <2>1, <2>2, <2>3, ClaimedStays DEF Begun
<1>6. ASSUME NEW place \in Places, Moves(p, place)
      PROVE  (id'[p] # None => pc'[p] \in {"record", "serving", "ended", "crashed"})
             /\ (pc'[p] \in {"record", "serving"} => id'[p] # None)
  <2>1. pc' = [pc EXCEPT ![p] = place] /\ pc'[p] = place
    BY <1>1, <1>2, <1>6 DEF Moves
  <2>2. CASE place \in {"serving", "ended", "crashed"}
    <3>1. place = "serving" => pc[p] = "record"
      BY <1>2, <1>6 DEF Moves, Record, Ready
    <3>2. place = "serving" => id'[p] # None
      BY <3>1, ClaimedStays DEF Begun
    <3>3. QED
      BY <2>1, <2>2, <3>2
  <2>3. CASE place = "record"
    <3>1. Start(p) /\ id' = [id EXCEPT ![p] = issued + 1]
      BY <1>2, <1>6, <2>3 DEF Moves
    <3>2. issued < MaxClaims
      BY <1>1, <2>1, <2>3, <3>1, <1>2 DEF Start, Claims, Goto
    <3>3. id'[p] = issued + 1 /\ issued + 1 # None
      BY <1>1, <3>1, <3>2, Numbered
    <3>4. QED
      BY <2>1, <2>3, <3>3
  <2>4. CASE place \notin {"serving", "ended", "crashed", "record"}
    <3>1. UNCHANGED id
      BY <1>2, <1>6, <2>4, StepFrames DEF Moves, Launch
    <3>2. pc[p] \notin {"record", "serving", "ended", "crashed"}
      BY <1>2, <1>6, <2>4 DEF Moves, LookUpIdentity, CheckIdentity, Launch, Start, Ready
    <3>3. QED
      BY <2>1, <2>4, <3>1, <3>2 DEF Begun
  <2>5. QED
    BY <2>2, <2>3, <2>4
<1>7. QED
  BY <1>3, <1>5, <1>6, PcMoves

\* What a release looks into, it has just been told the gateway does not know.
LEMMA AbsentMoves ==
    ASSUME Types, [Next]_vars, NEW r \in Releaser, pc'[r] = "absent"
    PROVE  \/ pc[r] = "absent" /\ entry'[r] = entry[r]
           \/ entry'[r] \in todo[r]
<1>1. /\ pc \in [Process -> Places] /\ entry \in [Releaser -> Entry \cup {None}]
      /\ r \in Process /\ r \notin Claimer
  BY ProcessAssumption DEF Types, TypeOK, Process
<1>2. ASSUME NEW s \in Releaser, Delete(s), pc' # pc
      PROVE  (pc[r] = "absent" /\ entry'[r] = entry[r]) \/ entry'[r] \in todo[r]
  <2>1. PICK e \in todo[s] : entry' = [entry EXCEPT ![s] = e] /\ pc' = [pc EXCEPT ![s] = "absent"]
    BY <1>2 DEF Delete, Goto
  <2>2. r # s => pc[r] = "absent" /\ entry'[r] = entry[r]
    BY <1>1, <2>1
  <2>3. r = s => entry'[r] \in todo[r]
    BY <1>1, <2>1
  <2>4. QED
    BY <2>2, <2>3
<1>3. ASSUME NEW s \in Releaser, CheckProcess(s)
      PROVE  pc[r] = "absent" /\ entry'[r] = entry[r]
  <2>1. entry' = [entry EXCEPT ![s] = None] /\ pc' = [pc EXCEPT ![s] = "next"] /\ s \in Process
    BY <1>3 DEF CheckProcess, Goto, Process
  <2>2. r # s
    BY <1>1, <2>1
  <2>3. QED
    BY <1>1, <2>1, <2>2
<1>4. ASSUME NEW s \in Releaser, Delete(s), pc' = pc
      PROVE  UNCHANGED entry
  BY <1>1, <1>4 DEF Delete, Goto, Ready, Process
<1>5. ASSUME NEW s \in Releaser, RunRelease(s) \/ LoadTargets(s) \/ ReleaseEnds(s)
      PROVE  UNCHANGED entry
  BY <1>5 DEF RunRelease, LoadTargets, ReleaseEnds, releaseVars
<1>6. UNCHANGED entry \/ \E s \in Releaser : Delete(s) \/ CheckProcess(s)
  BY <1>5, StepFrames DEF Next, vars, releaseVars
<1>7. CASE ~\E s \in Releaser : (Delete(s) /\ pc' # pc) \/ CheckProcess(s)
  <2>1. UNCHANGED entry
    BY <1>4, <1>6, <1>7
  <2>2. ASSUME NEW x \in Process, NEW place \in Places, Moves(x, place), pc' # pc
        PROVE  place # "absent"
    BY <1>7, <2>2 DEF Moves
  <2>3. pc[r] = "absent"
    BY <1>1, <2>2, PcMoves DEF Moves
  <2>4. QED
    BY <2>1, <2>3
<1>8. QED
  BY <1>2, <1>3, <1>7

\* Every entry that a step writes, loads, looks at or removes was known before, or is the
\* one a process makes of itself.
LEMMA KnownMoves ==
    ASSUME Types, Begun, Recorded, [Next]_vars, NEW e \in Entry, Known(e)'
    PROVE  Known(e) \/ Enters(e)
<1>1. /\ TypeOK /\ file \in State /\ mem \in [Process -> State]
      /\ todo \in [Releaser -> SUBSET Entry] /\ entry \in [Releaser -> Entry \cup {None}]
      /\ dropped \in [Releaser -> SUBSET Entry] /\ pc \in [Process -> Places]
  BY DEF Types, TypeOK
<1>2. CASE e \in file'.claims \/ \E x \in Process : e \in mem'[x].claims
  <2>1. CASE e \in file'.claims
    <3>1. e \in file.claims \/ \E x \in Process : e \in mem[x].claims
      BY <2>1, FileMoves
    <3>2. QED
      BY <3>1 DEF Known
  <2>2. CASE \E x \in Process : e \in mem'[x].claims
    <3>1. PICK x \in Process : e \in mem'[x].claims
      BY <2>2
    <3>2. e \in file.claims \/ e \in mem[x].claims \/ Enters(e)
      BY <3>1, FileMoves
    <3>3. QED
      BY <3>2 DEF Known
  <2>3. QED
    BY <1>2, <2>1, <2>2
<1>3. ASSUME NEW r \in Releaser, e \in todo'[r]
      PROVE  Known(e)
  <2>1. CASE \E s \in Releaser : LoadTargets(s)
    <3>1. PICK s \in Releaser : LoadTargets(s)
      BY <2>1
    <3>2. PICK T \in {file.claims} \cup {{d} : d \in file.claims} : todo' = [todo EXCEPT ![s] = T]
      BY <3>1 DEF LoadTargets
    <3>3. T \subseteq file.claims
      BY <3>2
    <3>4. e \in todo[r] \/ e \in file.claims
      BY <1>1, <1>3, <3>2, <3>3
    <3>5. QED
      BY <3>4 DEF Known
  <2>2. CASE \E s \in Releaser : Delete(s)
    <3>1. PICK s \in Releaser : \E d : todo' = [todo EXCEPT ![s] = todo[s] \ {d}]
      BY <2>2 DEF Delete
    <3>2. e \in todo[r]
      BY <1>1, <1>3, <3>1
    <3>3. QED
      BY <3>2 DEF Known
  <2>3. CASE UNCHANGED todo
    BY <1>3, <2>3 DEF Known
  <2>4. ASSUME NEW s \in Releaser, RunRelease(s) \/ CheckProcess(s) \/ ReleaseEnds(s)
        PROVE  UNCHANGED todo
    BY <2>4 DEF RunRelease, CheckProcess, ReleaseEnds, releaseVars
  <2>5. QED
    BY <2>1, <2>2, <2>3, <2>4, StepFrames DEF Next, vars, releaseVars
<1>4. ASSUME NEW r \in Releaser, e \in dropped'[r]
      PROVE  Known(e)
  <2>1. ASSUME NEW s \in Releaser, NEW d \in Entry, Known(d), Drop(s, d)
        PROVE  Known(e)
    <3>1. dropped' = [dropped EXCEPT ![s] = dropped[s] \cup {d}]
      BY <2>1 DEF Drop
    <3>2. e \in dropped[r] \/ e = d
      BY <1>1, <1>4, <3>1
    <3>3. QED
      BY <2>1, <3>2 DEF Known
  <2>2. CASE UNCHANGED dropped
    BY <1>4, <2>2 DEF Known
  <2>3. ASSUME NEW s \in Releaser, Delete(s)
        PROVE  Known(e)
    <3>1. UNCHANGED dropped \/ \E d \in todo[s] : Drop(s, d)
      BY <2>3 DEF Delete, Fail
    <3>2. \A d \in todo[s] : d \in Entry /\ Known(d)
      BY <1>1 DEF Known
    <3>3. QED
      BY <2>1, <2>2, <3>1, <3>2
  <2>4. ASSUME NEW s \in Releaser, CheckProcess(s)
        PROVE  Known(e)
    <3>1. UNCHANGED dropped \/ Drop(s, entry[s])
      BY <2>4 DEF CheckProcess, DropAbsent, Fail
    <3>2. entry[s] \in Entry /\ Known(entry[s])
      BY <2>4 DEF CheckProcess, Ready, Recorded, Known
    <3>3. QED
      BY <2>1, <2>2, <3>1, <3>2
  <2>5. ASSUME NEW s \in Releaser, RunRelease(s) \/ LoadTargets(s) \/ ReleaseEnds(s)
        PROVE  UNCHANGED dropped
    BY <2>5 DEF RunRelease, LoadTargets, ReleaseEnds, releaseVars
  <2>6. QED
    BY <2>2, <2>3, <2>4, <2>5, StepFrames DEF Next, vars, releaseVars
<1>5. ASSUME NEW r \in Releaser, pc'[r] = "absent", e = entry'[r]
      PROVE  Known(e)
  BY <1>1, <1>5, AbsentMoves DEF Known
<1>6. QED
  BY <1>2, <1>3, <1>4, <1>5 DEF Known

\* Only processes that have had a claim are ever entered.
LEMMA NextRecorded ==
    ASSUME Types, Begun, Recorded, [Next]_vars
    PROVE  Recorded'
<1>1. TypeOK /\ absent \in [Releaser -> SUBSET Entry] /\ dropped \in [Releaser -> SUBSET Entry]
  BY DEF Types, TypeOK
<1>2. ASSUME NEW e \in Entry, Enters(e)
      PROVE  Claimed(e)'
  <2>1. PICK p \in Claimer : \/ Record(p) /\ e = Own(p)
                             \/ Renew(p) /\ e = [id |-> news[p], pid |-> p]
    BY <1>2 DEF Enters
  <2>2. e.pid = p
    BY <2>1 DEF Own
  <2>3. CASE Record(p)
    BY <2>2, <2>3, ClaimedStays DEF Record, Ready, Begun, Claimed
  <2>4. CASE Renew(p)
    <3>1. id' = [id EXCEPT ![p] = news[p]] /\ news[p] # None
      BY <2>4 DEF Renew
    <3>2. id'[p] # None
      BY <1>1, <3>1 DEF TypeOK
    <3>3. QED
      BY <2>2, <3>2 DEF Claimed
  <2>5. QED
    BY <2>1, <2>3, <2>4
<1>3. ASSUME NEW e \in Entry, Known(e)'
      PROVE  Claimed(e)'
  <2>1. Known(e) => Claimed(e)'
    BY ClaimedStays, EntryOps DEF Claimed, Recorded
  <2>2. QED
    BY <1>2, <1>3, <2>1, KnownMoves
<1>4. ASSUME NEW r \in Releaser, pc'[r] = "absent"
      PROVE  entry'[r] \in Entry
  <2>1. todo[r] \subseteq Entry
    BY <1>1 DEF TypeOK
  <2>2. QED
    BY <1>4, <2>1, AbsentMoves DEF Recorded
<1>5. ASSUME NEW r \in Releaser
      PROVE  absent'[r] \subseteq dropped'[r]
  <2>1. CASE UNCHANGED <<absent, dropped>>
    BY <2>1 DEF Recorded
  <2>2. ASSUME NEW s \in Releaser, RunRelease(s) \/ LoadTargets(s) \/ Delete(s) \/ CheckProcess(s) \/ ReleaseEnds(s)
        PROVE  \/ UNCHANGED <<absent, dropped>>
               \/ \E d : /\ dropped' = [dropped EXCEPT ![s] = dropped[s] \cup {d}]
                         /\ absent' \in {absent, [absent EXCEPT ![s] = absent[s] \cup {d}]}
    BY <2>2 DEF RunRelease, LoadTargets, Delete, CheckProcess, ReleaseEnds, DropAbsent, Drop, Fail, releaseVars
  <2>3. ASSUME NEW s \in Releaser, NEW d, dropped' = [dropped EXCEPT ![s] = dropped[s] \cup {d}],
               absent' \in {absent, [absent EXCEPT ![s] = absent[s] \cup {d}]}
        PROVE  absent'[r] \subseteq dropped'[r]
    BY <1>1, <2>3 DEF Recorded
  <2>4. QED
    BY <2>1, <2>2, <2>3, StepFrames DEF Next, vars, releaseVars
<1>6. QED
  BY <1>3, <1>4, <1>5 DEF Recorded

\* Whoever comes to be named by an identifier was named by it before, or is given it now.
LEMMA BelongsMoves ==
    ASSUME Types, Begun, Recorded, [Next]_vars,
           NEW i \in 1..MaxClaims, NEW p \in Claimer, Belongs(i, p)'
    PROVE  Belongs(i, p) \/ (i = issued + 1 /\ Claims(p))
<1>1. /\ TypeOK /\ id \in [Claimer -> 1..issued \cup {None}]
      /\ news \in [Claimer -> 1..issued \cup {None}] /\ i # None
  BY ProcessAssumption DEF Types, TypeOK
<1>2. CASE id'[p] = i
  <2>1. CASE UNCHANGED id
    BY <1>2, <2>1 DEF Belongs
  <2>2. ASSUME NEW q \in Claimer, Claims(q), id' = [id EXCEPT ![q] = issued + 1]
        PROVE  Belongs(i, p) \/ (i = issued + 1 /\ Claims(p))
    BY <1>1, <1>2, <2>2 DEF Belongs
  <2>3. ASSUME NEW q \in Claimer, id' = [id EXCEPT ![q] = news[q]]
        PROVE  Belongs(i, p)
    BY <1>1, <1>2, <2>3 DEF Belongs
  <2>4. QED
    BY <2>1, <2>2, <2>3, IdMoves
<1>3. CASE news'[p] = i
  <2>1. CASE UNCHANGED news
    BY <1>3, <2>1 DEF Belongs
  <2>2. ASSUME NEW q \in Claimer, Reconnect(q)
        PROVE  \/ UNCHANGED news
               \/ Claims(q) /\ news' = [news EXCEPT ![q] = issued + 1]
    BY <2>2 DEF Reconnect, Notify
  <2>3. ASSUME NEW q \in Claimer, Claims(q), news' = [news EXCEPT ![q] = issued + 1]
        PROVE  Belongs(i, p) \/ (i = issued + 1 /\ Claims(p))
    BY <1>1, <1>3, <2>3 DEF Belongs
  <2>4. ASSUME NEW q \in Claimer, Renew(q)
        PROVE  Belongs(i, p)
    <3>1. news' = [news EXCEPT ![q] = None]
      BY <2>4 DEF Renew
    <3>2. QED
      BY <1>1, <1>3, <3>1 DEF Belongs
  <2>5. ASSUME NEW q \in Claimer,
               Launch(q) \/ Start(q) \/ Record(q) \/ CleanUp(q) \/ Crash(q) \/ LoseConnection(q) \/ Expire(q)
        PROVE  UNCHANGED news
    BY <2>5 DEF Launch, Start, Record, CleanUp, Crash, LoseConnection, Expire, claimerVars
  <2>6. QED
    BY <2>1, <2>2, <2>3, <2>4, <2>5, StepFrames DEF Next, vars, claimerVars
<1>4. CASE Known([id |-> i, pid |-> p])'
  <2> DEFINE e == [id |-> i, pid |-> p]
  <2>1. e \in Entry
    BY EntryOps
  <2>2. CASE Known(e)
    BY <2>2 DEF Belongs
  <2>3. CASE Enters(e)
    <3>1. PICK q \in Claimer : e = [id |-> id[q], pid |-> q] \/ e = [id |-> news[q], pid |-> q]
      BY <2>3 DEF Enters, Own
    <3>2. e.id = i /\ e.pid = p
      OBVIOUS
    <3>3. q = p /\ (id[p] = i \/ news[p] = i)
      BY <3>1, <3>2
    <3>4. QED
      BY <3>3 DEF Belongs
  <2> HIDE DEF e
  <2>4. QED
    BY <1>4, <2>1, <2>2, <2>3, KnownMoves DEF e
<1>5. QED
  BY <1>2, <1>3, <1>4 DEF Belongs

\* A new claim is numbered after all others, and is one process's.
LEMMA NextOneOwner ==
    ASSUME Types, Begun, Recorded, OneOwner, [Next]_vars
    PROVE  OneOwner'
<1>1. /\ TypeOK /\ issued \in Nat /\ issued' \in Nat /\ held \in [Claimer -> 1..issued \cup {None}]
  BY GatewayMoves, ProcessAssumption DEF Types, TypeOK
<1>2. issued <= issued'
  <2>1. ASSUME NEW p \in Claimer, Start(p) \/ Reconnect(p)
        PROVE  issued' \in {issued, issued + 1}
    BY <2>1 DEF Start, Reconnect, Claims, gateway
  <2>2. ASSUME NEW p \in Claimer, Launch(p) \/ LoseConnection(p) \/ Expire(p)
        PROVE  UNCHANGED issued
    BY <2>2 DEF Launch, LoseConnection, Expire, gateway
  <2>3. issued' \in {issued, issued + 1}
    BY <2>1, <2>2, StepFrames DEF Next, vars, gateway
  <2>4. QED
    BY <1>1, <2>3
<1>3. ASSUME NEW i \in 1..MaxClaims, NEW p \in Claimer, Belongs(i, p)'
      PROVE  i <= issued'
  <2>1. CASE Belongs(i, p)
    BY <1>1, <1>2, <2>1 DEF OneOwner
  <2>2. CASE i = issued + 1 /\ Claims(p)
    BY <1>1, <2>2 DEF Claims
  <2>3. QED
    BY <1>3, <2>1, <2>2, BelongsMoves
<1>4. ASSUME NEW i \in 1..MaxClaims, NEW p \in Claimer, NEW q \in Claimer,
             Belongs(i, p)', Belongs(i, q)'
      PROVE  p = q
  <2>1. Belongs(i, p) \/ (i = issued + 1 /\ Claims(p))
    BY <1>4, BelongsMoves
  <2>2. Belongs(i, q) \/ (i = issued + 1 /\ Claims(q))
    BY <1>4, BelongsMoves
  <2>3. i = issued + 1 => ~Belongs(i, p) /\ ~Belongs(i, q)
    BY <1>1 DEF OneOwner
  <2>4. CASE Belongs(i, p) /\ Belongs(i, q)
    BY <2>4 DEF OneOwner
  <2>5. CASE Claims(p) /\ Claims(q)
    <3>1. /\ held' = [held EXCEPT ![p] = issued + 1]
          /\ held' = [held EXCEPT ![q] = issued + 1] /\ issued < MaxClaims
      BY <2>5 DEF Claims
    <3>2. held'[p] = issued + 1 /\ issued + 1 # None /\ held[p] # issued + 1
      BY <1>1, <3>1, Numbered
    <3>3. p # q => held'[p] = held[p]
      BY <1>1, <3>1
    <3>4. QED
      BY <3>2, <3>3
  <2>6. QED
    BY <2>1, <2>2, <2>3, <2>4, <2>5
<1>5. QED
  BY <1>3, <1>4 DEF OneOwner

\* Of the entries that are known, no two have one identifier.
LEMMA UniqueEntries ==
    ASSUME Types, OneOwner, NEW c \in Entry, NEW d \in Entry, Known(c), Known(d), c.id = d.id
    PROVE  c = d
<1>1. /\ c = [id |-> c.id, pid |-> c.pid] /\ d = [id |-> d.id, pid |-> d.pid]
      /\ c.id \in 1..MaxClaims /\ c.pid \in Claimer /\ d.pid \in Claimer
  BY DEF Entry
<1>2. Belongs(c.id, c.pid) /\ Belongs(c.id, d.pid)
  BY <1>1 DEF Belongs
<1>3. c.pid = d.pid
  BY <1>1, <1>2 DEF OneOwner
<1>4. QED
  BY <1>1, <1>3

\* A removal takes one entry out of what a release saves, and no other.
LEMMA DropOne ==
    ASSUME Types, OneOwner, NEW r \in Releaser, NEW e \in mem[r].claims, Drop(r, e)
    PROVE  /\ mem'[r].claims = mem[r].claims \ {e}
           /\ \A c \in mem'[r].claims : c.id # e.id
           /\ dropped'[r] = dropped[r] \cup {e}
<1>1. /\ mem \in [Process -> State] /\ dropped \in [Releaser -> SUBSET Entry] /\ r \in Process
      /\ mem[r] \in State /\ mem[r].claims \subseteq Entry
  BY StateOps DEF Types, TypeOK, Process
<1> DEFINE C == {c \in mem[r].claims : c.id # e.id}
<1>2. mem' = [mem EXCEPT ![r] = [mem[r] EXCEPT !.claims = C]]
      /\ dropped' = [dropped EXCEPT ![r] = dropped[r] \cup {e}]
  BY DEF Drop, Save
<1>3. C \in SUBSET Entry
  BY <1>1
<1>4. C = mem[r].claims \ {e}
  <2>1. \A c \in mem[r].claims : c.id = e.id => c = e
    BY <1>1, UniqueEntries DEF Known
  <2>2. QED
    BY <2>1
<1>5. \A c \in C : c.id # e.id
  OBVIOUS
<1> HIDE DEF C
<1>6. mem'[r].claims = C
  BY <1>1, <1>2, <1>3, StateOps
<1>7. QED
  BY <1>1, <1>2, <1>4, <1>5, <1>6

\* r takes a step.
ReleaserActs(r) ==
    \/ Truncate(r) \/ Write(r) \/ LookUpIdentity(r) \/ CheckIdentity(r)
    \/ RunRelease(r) \/ LoadTargets(r) \/ Delete(r) \/ CheckProcess(r) \/ ReleaseEnds(r)

\* The others leave what a release has in hand alone.
LEMMA ReleaserKept ==
    ASSUME Types, [Next]_vars, NEW r \in Releaser, ~ReleaserActs(r)
    PROVE  /\ pc'[r] = pc[r] /\ io'[r] = io[r] /\ mem'[r] = mem[r] /\ todo'[r] = todo[r]
           /\ entry'[r] = entry[r] /\ failed'[r] = failed[r] /\ dropped'[r] = dropped[r]
<1> DEFINE Only(x) ==
             /\ UNCHANGED pc \/ \E v : pc' = [pc EXCEPT ![x] = v]
             /\ UNCHANGED io \/ \E v : io' = [io EXCEPT ![x] = v]
             /\ UNCHANGED mem \/ \E v : mem' = [mem EXCEPT ![x] = v]
           OnlyRelease(s) ==
             /\ UNCHANGED todo \/ \E v : todo' = [todo EXCEPT ![s] = v]
             /\ UNCHANGED entry \/ \E v : entry' = [entry EXCEPT ![s] = v]
             /\ UNCHANGED failed \/ \E v : failed' = [failed EXCEPT ![s] = v]
             /\ UNCHANGED dropped \/ \E v : dropped' = [dropped EXCEPT ![s] = v]
           Releases == <<todo, entry, failed, dropped>>
<1>1. /\ pc \in [Process -> Places] /\ io \in [Process -> {"idle", "open", "write"}]
      /\ mem \in [Process -> State] /\ todo \in [Releaser -> SUBSET Entry]
      /\ entry \in [Releaser -> Entry \cup {None}] /\ failed \in [Releaser -> SUBSET Entry]
      /\ dropped \in [Releaser -> SUBSET Entry] /\ r \in Process /\ r \notin Claimer
  BY ProcessAssumption DEF Types, TypeOK, Process
<1>2. ASSUME NEW x \in Process, Truncate(x) \/ Write(x) \/ LookUpIdentity(x) \/ CheckIdentity(x)
      PROVE  x # r /\ Only(x) /\ UNCHANGED Releases
  <2>1. x # r
    BY <1>2 DEF ReleaserActs
  <2>2. UNCHANGED Releases
    BY <1>2, StepFrames
  <2>3. CASE Truncate(x)
    BY <2>1, <2>2, <2>3 DEF Truncate
  <2>4. CASE Write(x)
    BY <2>1, <2>2, <2>4 DEF Write
  <2>5. CASE LookUpIdentity(x)
    BY <2>1, <2>2, <2>5 DEF LookUpIdentity, Save, Goto, disk
  <2>6. CASE CheckIdentity(x)
    BY <2>1, <2>2, <2>6 DEF CheckIdentity, Goto, disk
  <2>7. QED
    BY <1>2, <2>3, <2>4, <2>5, <2>6
<1>3. ASSUME NEW p \in Claimer,
             Launch(p) \/ Start(p) \/ Reconnect(p) \/ LoseConnection(p) \/ Expire(p)
      PROVE  Only(p) /\ UNCHANGED Releases
  <2>1. UNCHANGED Releases /\ UNCHANGED <<io, mem>>
    BY <1>3, StepFrames
  <2>2. UNCHANGED pc \/ \E v : pc' = [pc EXCEPT ![p] = v]
    BY <1>3 DEF Launch, Start, Reconnect, LoseConnection, Expire, Goto
  <2>3. QED
    BY <2>1, <2>2
<1>4. ASSUME NEW p \in Claimer, Record(p) \/ Renew(p) \/ CleanUp(p) \/ Crash(p)
      PROVE  Only(p) /\ UNCHANGED Releases
  <2>1. UNCHANGED Releases
    BY <1>4, StepFrames
  <2>2. Only(p)
    BY <1>4 DEF Record, Renew, CleanUp, Crash, Save, Goto
  <2>3. QED
    BY <2>1, <2>2
<1>5. ASSUME NEW p \in Claimer, ParentFindsClaim(p) \/ ParentGivesUp(p)
      PROVE  Only(p) /\ UNCHANGED Releases
  BY <1>5, StepFrames
<1>6. ASSUME NEW s \in Releaser,
             RunRelease(s) \/ LoadTargets(s) \/ Delete(s) \/ CheckProcess(s) \/ ReleaseEnds(s)
      PROVE  s # r /\ Only(s) /\ OnlyRelease(s)
  <2>1. s # r
    BY <1>6 DEF ReleaserActs
  <2>2. CASE RunRelease(s)
    BY <2>1, <2>2 DEF RunRelease, Goto, disk, releaseVars
  <2>3. CASE LoadTargets(s)
    BY <2>1, <2>3 DEF LoadTargets, Goto, disk
  <2>4. CASE Delete(s)
    <3>1. /\ UNCHANGED pc \/ \E v : pc' = [pc EXCEPT ![s] = v]
          /\ \E v : todo' = [todo EXCEPT ![s] = v]
          /\ UNCHANGED entry \/ \E v : entry' = [entry EXCEPT ![s] = v]
          /\ UNCHANGED <<io, mem, failed, dropped>> \/ \E e : Drop(s, e) \/ Fail(s, e)
      BY <2>4 DEF Delete, Goto, disk
    <3>2. QED
      BY <2>1, <3>1 DEF Drop, Fail, Save, disk
  <2>5. CASE CheckProcess(s)
    <3>1. /\ \E v : pc' = [pc EXCEPT ![s] = v]
          /\ \E v : entry' = [entry EXCEPT ![s] = v]
          /\ UNCHANGED todo /\ \E e : Drop(s, e) \/ Fail(s, e)
      BY <2>5 DEF CheckProcess, DropAbsent, Goto
    <3>2. QED
      BY <2>1, <3>1 DEF Drop, Fail, Save, disk
  <2>6. CASE ReleaseEnds(s)
    BY <2>1, <2>6 DEF ReleaseEnds, Goto, disk, releaseVars
  <2>7. QED
    BY <1>6, <2>2, <2>3, <2>4, <2>5, <2>6
<1>7. \/ UNCHANGED <<pc, io, mem, todo, entry, failed, dropped>>
      \/ \E x \in Process \ {r} : Only(x) /\ UNCHANGED Releases
      \/ \E s \in Releaser \ {r} : Only(s) /\ OnlyRelease(s)
  <2>1. Claimer \subseteq Process \ {r}
    BY <1>1 DEF Process
  <2> HIDE DEF Only, OnlyRelease, Releases
  <2>2. UNCHANGED vars => UNCHANGED <<pc, io, mem, todo, entry, failed, dropped>>
    BY DEF vars, disk, releaseVars
  <2>3. QED
    BY <1>2, <1>3, <1>4, <1>5, <1>6, <2>1, <2>2 DEF Next
<1>8. CASE \E x \in Process \ {r} : Only(x) /\ UNCHANGED Releases
  BY <1>1, <1>8
<1>9. CASE \E s \in Releaser \ {r} : Only(s) /\ OnlyRelease(s)
  <2>1. PICK s \in Releaser \ {r} : Only(s) /\ OnlyRelease(s)
    BY <1>9
  <2>2. pc'[r] = pc[r] /\ io'[r] = io[r] /\ mem'[r] = mem[r]
    BY <1>1, <2>1
  <2>3. todo'[r] = todo[r] /\ entry'[r] = entry[r] /\ failed'[r] = failed[r] /\ dropped'[r] = dropped[r]
    BY <1>1, <2>1
  <2>4. QED
    BY <2>2, <2>3
<1>10. QED
  BY <1>7, <1>8, <1>9

\* What r has in hand accounts for every target.
Accounted(r) ==
    pc[r] \in {"next", "absent"} =>
        /\ todo[r] \cup failed[r] \subseteq mem[r].claims
        /\ \A e \in mem[r].claims, d \in dropped[r] : e.id # d.id

\* Each answer moves one entry from what is asked for to what failed, keeping it in what
\* is saved, or to what was removed, out of it.
LEMMA NextAccounted ==
    ASSUME Types, Recorded, OneOwner, Stages, PartialReleaseAccounted, [Next]_vars
    PROVE  Stages' /\ PartialReleaseAccounted'
<1> SUFFICES ASSUME NEW r \in Releaser
             PROVE  Stage(r)' /\ Accounted(r)'
  BY DEF Stages, PartialReleaseAccounted, Accounted
<1>1. /\ pc \in [Process -> Places] /\ io \in [Process -> {"idle", "open", "write"}]
      /\ mem \in [Process -> State] /\ todo \in [Releaser -> SUBSET Entry]
      /\ entry \in [Releaser -> Entry \cup {None}] /\ failed \in [Releaser -> SUBSET Entry]
      /\ dropped \in [Releaser -> SUBSET Entry] /\ r \in Process /\ file \in State
  BY DEF Types, TypeOK, Process
<1>2. Stage(r) /\ Accounted(r)
  BY DEF Stages, PartialReleaseAccounted, Accounted
<1>3. CASE ~ReleaserActs(r)
  BY <1>2, <1>3, ReleaserKept DEF Stage, Accounted
<1>4. CASE Truncate(r) \/ Write(r)
  <2>1. pc[r] # "absent"
    BY <1>2, <1>4 DEF Truncate, Write, Stage
  <2>2. UNCHANGED <<pc, todo, failed, dropped>>
    BY <1>1, <1>4, StepFrames
  <2>3. pc[r] = "next" => mem'[r] = mem[r]
    BY <1>1, <1>4 DEF Truncate, Write
  <2>4. QED
    BY <1>2, <2>1, <2>2, <2>3 DEF Stage, Accounted
<1>5. CASE LookUpIdentity(r) \/ CheckIdentity(r) \/ RunRelease(r)
  <2>1. /\ pc[r] \in {"idle", "identity", "check identity"}
        /\ pc'[r] \in {"identity", "check identity", "start", "failed"}
    BY <1>1, <1>5 DEF LookUpIdentity, CheckIdentity, RunRelease, Ready, Goto
  <2>2. UNCHANGED <<todo, failed, dropped>>
    BY <1>1, <1>5, StepFrames DEF RunRelease, releaseVars
  <2>3. QED
    BY <1>2, <2>1, <2>2 DEF Stage, Accounted
<1>6. CASE LoadTargets(r)
  <2>1. /\ pc[r] = "start" /\ pc'[r] = "next" /\ mem'[r] = file
        /\ todo'[r] \subseteq file.claims /\ UNCHANGED <<failed, dropped>>
    BY <1>1, <1>6 DEF LoadTargets, Ready, Goto
  <2>2. QED
    BY <1>2, <2>1 DEF Stage, Accounted
<1>7. ASSUME NEW e \in mem[r].claims, e \notin todo'[r], e \notin failed[r], pc[r] \in {"next", "absent"},
             todo'[r] \subseteq todo[r], pc'[r] = "next", Drop(r, e)
      PROVE  Stage(r)' /\ Accounted(r)'
  <2>1. /\ mem'[r].claims = mem[r].claims \ {e} /\ UNCHANGED failed
        /\ \A c \in mem'[r].claims : c.id # e.id
        /\ dropped'[r] = dropped[r] \cup {e}
    BY <1>7, DropOne DEF Drop
  <2>2. QED
    BY <1>2, <1>7, <2>1 DEF Stage, Accounted
<1>8. ASSUME NEW e \in mem[r].claims, e \notin todo'[r], pc[r] \in {"next", "absent"},
             todo'[r] \subseteq todo[r], pc'[r] = "next", Fail(r, e)
      PROVE  Stage(r)' /\ Accounted(r)'
  <2>1. failed'[r] = failed[r] \cup {e} /\ UNCHANGED <<mem, dropped>>
    BY <1>1, <1>8 DEF Fail
  <2>2. QED
    BY <1>2, <1>8, <2>1 DEF Stage, Accounted
<1>9. CASE Delete(r)
  <2>1. PICK e \in todo[r] :
          /\ todo' = [todo EXCEPT ![r] = todo[r] \ {e}]
          /\ \/ (Drop(r, e) \/ Fail(r, e)) /\ UNCHANGED pc
             \/ /\ entry' = [entry EXCEPT ![r] = e] /\ pc' = [pc EXCEPT ![r] = "absent"]
                /\ UNCHANGED <<io, mem, failed, dropped>>
    BY <1>9 DEF Delete, Goto, disk
  <2>2. pc[r] = "next" /\ io[r] = "idle"
    BY <1>9 DEF Delete, Ready
  <2>3. /\ todo'[r] = todo[r] \ {e} /\ e \in mem[r].claims /\ e \notin failed[r]
    BY <1>1, <1>2, <2>1, <2>2 DEF Stage, Accounted
  <2>4. CASE (Drop(r, e) \/ Fail(r, e)) /\ UNCHANGED pc
    BY <1>7, <1>8, <2>2, <2>3, <2>4
  <2>5. CASE /\ entry' = [entry EXCEPT ![r] = e] /\ pc' = [pc EXCEPT ![r] = "absent"]
             /\ UNCHANGED <<io, mem, failed, dropped>>
    <3>1. entry'[r] = e /\ pc'[r] = "absent"
      BY <1>1, <2>5
    <3>2. QED
      BY <1>2, <2>2, <2>3, <2>5, <3>1 DEF Stage, Accounted
  <2>6. QED
    BY <2>1, <2>4, <2>5
<1>10. CASE CheckProcess(r)
  <2>1. /\ pc[r] = "absent" /\ pc'[r] = "next" /\ UNCHANGED todo
        /\ Drop(r, entry[r]) \/ Fail(r, entry[r])
    BY <1>1, <1>10 DEF CheckProcess, DropAbsent, Ready, Goto
  <2>2. entry[r] \in mem[r].claims /\ entry[r] \notin todo'[r] /\ entry[r] \notin failed[r]
    BY <1>2, <2>1 DEF Stage
  <2>3. QED
    BY <1>7, <1>8, <2>1, <2>2
<1>11. CASE ReleaseEnds(r)
  <2>1. pc'[r] = "ended" /\ UNCHANGED <<todo, failed>>
    BY <1>1, <1>11 DEF ReleaseEnds, Goto, releaseVars
  <2>2. QED
    BY <1>2, <2>1 DEF Stage, Accounted
<1>12. QED
  BY <1>3, <1>4, <1>5, <1>6, <1>9, <1>10, <1>11 DEF ReleaserActs

\* A claim process that moves is alive or about to be launched.
LEMMA OnlyAliveMove ==
    ASSUME NEW p \in Process, p \notin Releaser, NEW place, Moves(p, place)
    PROVE  pc[p] = "idle" \/ Alive(p)
<1>1. CASE LookUpIdentity(p) \/ CheckIdentity(p)
  BY <1>1 DEF LookUpIdentity, CheckIdentity, Ready, Alive
<1>2. CASE Launch(p) \/ Crash(p)
  BY <1>2 DEF Launch, Crash
<1>3. CASE Start(p) \/ Record(p) \/ CleanUp(p)
  BY <1>3 DEF Start, Record, CleanUp, Ready, Alive
<1> QED
  BY <1>1, <1>2, <1>3 DEF Moves

\* Nothing that a process does brings it back.
LEMMA DeadStays ==
    ASSUME Types, Begun, [Next]_vars
    PROVE  \A p \in Claimer : id[p] # None /\ ~Alive(p) => ~Alive(p)'
<1> SUFFICES ASSUME NEW p \in Claimer, id[p] # None, ~Alive(p)
             PROVE  ~Alive(p)'
  OBVIOUS
<1>1. /\ TypeOK /\ pc \in [Process -> Places] /\ io \in [Process -> {"idle", "open", "write"}]
      /\ p \in Process /\ p \notin Releaser
  BY ProcessAssumption DEF Types, TypeOK, Process
<1>4. CASE pc[p] = "crashed"
  <2>1. pc'[p] = "crashed"
    <3>1. ASSUME NEW place \in Places, Moves(p, place)
          PROVE  FALSE
      BY <1>1, <1>4, <3>1, OnlyAliveMove DEF Alive
    <3>2. ASSUME NEW x \in Process, NEW place \in Places, Moves(x, place)
          PROVE  pc'[p] = pc[p]
      <4>1. x # p /\ pc' = [pc EXCEPT ![x] = place]
        BY <3>1, <3>2 DEF Moves
      <4>2. QED
        BY <1>1, <4>1
    <3>3. QED
      BY <1>4, <3>2, PcMoves
  <2>2. QED
    BY <2>1 DEF Alive
<1>5. CASE pc[p] = "ended" /\ io[p] = "idle"
  <2>1. pc'[p] = "ended"
    <3>1. ASSUME NEW place \in Places, Moves(p, place)
          PROVE  FALSE
      BY <1>1, <1>5, <3>1, OnlyAliveMove DEF Alive
    <3>2. ASSUME NEW x \in Process, NEW place \in Places, Moves(x, place)
          PROVE  pc'[p] = pc[p]
      <4>1. x # p /\ pc' = [pc EXCEPT ![x] = place]
        BY <3>1, <3>2 DEF Moves
      <4>2. QED
        BY <1>1, <4>1
    <3>3. QED
      BY <1>5, <3>2, PcMoves
  <2>2. io'[p] = "idle"
    <3>1. ASSUME NEW x \in Process, Truncate(x) \/ Write(x) \/ LookUpIdentity(x)
          PROVE  x # p /\ (UNCHANGED io \/ \E at : io' = [io EXCEPT ![x] = at])
      BY <1>5, <3>1 DEF Truncate, Write, LookUpIdentity, Ready, Save, disk
    <3>2. ASSUME NEW q \in Claimer, Record(q) \/ Renew(q) \/ CleanUp(q) \/ Crash(q)
          PROVE  (q # p \/ Crash(q)) /\ \E at : io' = [io EXCEPT ![q] = at]
      BY <1>5, <3>2 DEF Record, Renew, CleanUp, Crash, Ready, Save
    <3>3. ~Crash(p)
      BY <1>5 DEF Crash, Alive
    <3>4. ASSUME NEW r \in Releaser,
                 RunRelease(r) \/ LoadTargets(r) \/ Delete(r) \/ CheckProcess(r) \/ ReleaseEnds(r)
          PROVE  UNCHANGED io \/ io' = [io EXCEPT ![r] = "open"]
      BY <3>4 DEF RunRelease, LoadTargets, Delete, CheckProcess, ReleaseEnds, DropAbsent, Drop, Fail, Save, disk
    <3>5. ASSUME NEW x \in Process, CheckIdentity(x)
          PROVE  UNCHANGED io
      BY <3>5 DEF CheckIdentity, disk
    <3>6. UNCHANGED io \/ \E x \in Process : x # p /\ \E at : io' = [io EXCEPT ![x] = at]
      BY <1>1, <3>1, <3>2, <3>3, <3>4, <3>5, StepFrames DEF Next, vars, disk, Process
    <3>7. QED
      BY <1>1, <1>5, <3>6
  <2>3. QED
    BY <2>1, <2>2 DEF Alive
<1>6. QED
  BY <1>4, <1>5 DEF Alive, Begun

\* A release reports an entry as absent when its process has been seen to be dead.
LEMMA NextReleaseNotMistaken ==
    ASSUME Types, Begun, Recorded, ReleaseNotMistaken, [Next]_vars
    PROVE  ReleaseNotMistaken'
<1>1. absent \in [Releaser -> SUBSET Entry]
  BY DEF Types, TypeOK
<1>2. ASSUME NEW e \in Entry, Known(e), ~Alive(e.pid)
      PROVE  ~Alive(e.pid)'
  BY <1>2, EntryOps, DeadStays DEF Recorded, Claimed
<1>3. ASSUME NEW r \in Releaser, NEW e \in absent[r]
      PROVE  ~Alive(e.pid)'
  <2>1. e \in Entry /\ Known(e) /\ ~Alive(e.pid)
    BY <1>1 DEF Known, Recorded, ReleaseNotMistaken
  <2>2. QED
    BY <1>2, <2>1
<1>4. ASSUME NEW s \in Releaser, CheckProcess(s), ~UNCHANGED absent
      PROVE  ReleaseNotMistaken'
  <2>1. PICK d \in Entry : d = entry[s] /\ Known(d)
    BY <1>4 DEF CheckProcess, Ready, Recorded, Known
  <2>2. ~Alive(d.pid) /\ absent' = [absent EXCEPT ![s] = absent[s] \cup {d}]
    BY <1>4, <2>1 DEF CheckProcess, DropAbsent
  <2>3. ~Alive(d.pid)'
    BY <1>2, <2>1, <2>2
  <2>4. \A r \in Releaser : \A e \in absent'[r] : e \in absent[r] \/ e = d
    BY <1>1, <2>2
  <2>5. QED
    BY <1>3, <2>3, <2>4 DEF ReleaseNotMistaken
<1>5. ASSUME NEW s \in Releaser, RunRelease(s) \/ LoadTargets(s) \/ Delete(s) \/ ReleaseEnds(s)
      PROVE  UNCHANGED absent
  BY <1>5 DEF RunRelease, LoadTargets, Delete, ReleaseEnds, releaseVars
<1>6. CASE UNCHANGED absent
  BY <1>3, <1>6 DEF ReleaseNotMistaken
<1>7. QED
  BY <1>4, <1>5, <1>6, StepFrames DEF Next, vars, releaseVars

\* A parent finds its own child in the file, and only children that have had a claim
\* are entered.
LEMMA NextDetachTruth ==
    ASSUME Types, Recorded, DetachTruth, [Next]_vars
    PROVE  DetachTruth'
<1>1. parent \in [Claimer -> {"none", "waiting", "connected", "failed"}] /\ file \in State
  BY DEF Types, TypeOK
<1>2. ASSUME NEW p \in Claimer, ParentFindsClaim(p)
      PROVE  parent' = [parent EXCEPT ![p] = "connected"] /\ id[p] # None
  <2>1. PICK e \in file.claims : e.pid = p
    BY <1>2 DEF ParentFindsClaim
  <2>2. e \in Entry /\ Known(e)
    BY <1>1, <2>1, StateOps DEF Known
  <2>3. QED
    BY <1>2, <2>1, <2>2 DEF ParentFindsClaim, Recorded, Claimed
<1>3. ASSUME NEW p \in Claimer
      PROVE  /\ Launch(p) => parent' = [parent EXCEPT ![p] = "waiting"]
             /\ ParentGivesUp(p) => parent' = [parent EXCEPT ![p] = "failed"]
             /\ Start(p) \/ Reconnect(p) \/ LoseConnection(p) \/ Expire(p) => UNCHANGED parent
  BY DEF Launch, ParentGivesUp, Start, Reconnect, LoseConnection, Expire, claimerVars
<1>4. \/ UNCHANGED parent
      \/ \E p \in Claimer : parent' = [parent EXCEPT ![p] = "connected"] /\ id[p] # None
      \/ \E p \in Claimer : parent' = [parent EXCEPT ![p] = "waiting"]
      \/ \E p \in Claimer : parent' = [parent EXCEPT ![p] = "failed"]
  BY <1>2, <1>3, StepFrames DEF Next, vars, claimerVars
<1>5. \A p \in Claimer : parent'[p] = "connected" => parent[p] = "connected" \/ id[p] # None
  BY <1>1, <1>4
<1>6. QED
  BY <1>5, ClaimedStays DEF DetachTruth

-----------------------------------------------------------------------------
(* One command that changes the file while no other does. *)

\* An identity is shown only once looked up, and whoever saves has something to write.
Writers ==
    /\ \A x \in Process : pc[x] \in {"idle", "identity"} => ident[x] = None
    /\ \A x \in Process : io[x] # "idle" => Wrote(x)

\* What p has made of the file by the time it is at pc[p].
Product(p) ==
    [claims |-> IF pc[p] = "serving" THEN {Own(p)} ELSE {},
     identity |-> IF pc[p] \in {"idle", "identity"} THEN Earlier ELSE ident[p]]

UpToServing == {"idle", "identity", "check identity", "start", "record", "serving"}

\* It is in the file, or about to be written to it with nobody in between.
InHand(p) ==
    IF io[p] = "idle" THEN file = Product(p)
    ELSE mem[p] = Product(p) /\ (io[p] = "write" => file = Blank)

Alone == \A p \in Claimer : SoleWriter(p) /\ pc[p] \in UpToServing => InHand(p)

\* Who has begun to write stays one who has.
LEMMA WroteStays ==
    ASSUME Types, Writers, [Next]_vars, NEW x \in Process, Wrote(x)
    PROVE  Wrote(x)'
<1>1. /\ ident \in [Process -> Identity] /\ dropped \in [Releaser -> SUBSET Entry]
      /\ None \notin Process
  BY ProcessAssumption DEF Types, TypeOK
<1>2. CASE ident[x] = x
  <2>1. ASSUME NEW y \in Process, LookUpIdentity(y)
        PROVE  ident'[x] = x
    <3>1. y # x
      BY <1>1, <1>2, <2>1 DEF LookUpIdentity, Ready, Writers
    <3>2. \E i : ident' = [ident EXCEPT ![y] = i]
      BY <2>1 DEF LookUpIdentity
    <3> QED
      BY <1>1, <1>2, <3>1, <3>2
  <2>2. ASSUME NEW y \in Process, CheckIdentity(y)
        PROVE  UNCHANGED ident
    BY <2>2 DEF CheckIdentity
  <2>3. UNCHANGED ident \/ \E y \in Process : LookUpIdentity(y)
    BY <2>2, StepFrames DEF Next, vars
  <2> QED
    BY <1>2, <2>1, <2>3 DEF Wrote
<1>3. CASE x \in Claimer /\ id[x] # None
  BY <1>3, ClaimedStays DEF Wrote
<1>4. CASE x \in Releaser /\ dropped[x] # {}
  <2>1. ASSUME NEW r \in Releaser,
               RunRelease(r) \/ LoadTargets(r) \/ Delete(r) \/ CheckProcess(r) \/ ReleaseEnds(r)
        PROVE  UNCHANGED dropped \/ \E e : dropped' = [dropped EXCEPT ![r] = dropped[r] \cup {e}]
    BY <2>1 DEF RunRelease, LoadTargets, Delete, CheckProcess, ReleaseEnds, DropAbsent, Drop, Fail, releaseVars
  <2>2. UNCHANGED dropped
        \/ \E r \in Releaser : \E e : dropped' = [dropped EXCEPT ![r] = dropped[r] \cup {e}]
    BY <2>1, StepFrames DEF Next, vars, releaseVars
  <2>3. dropped'[x] # {}
    BY <1>1, <1>4, <2>2
  <2> QED
    BY <1>4, <2>3 DEF Wrote
<1> QED
  BY <1>2, <1>3, <1>4 DEF Wrote

\* Only a command that has something to write opens the file.
LEMMA NextWriters ==
    ASSUME Types, Begun, Writers, [Next]_vars
    PROVE  Writers'
<1>1. /\ pc \in [Process -> Places] /\ io \in [Process -> {"idle", "open", "write"}]
      /\ ident \in [Process -> Identity] /\ dropped \in [Releaser -> SUBSET Entry]
  BY DEF Types, TypeOK
<1>2. ASSUME NEW x \in Process, pc'[x] \in {"idle", "identity"}
      PROVE  ident'[x] = None
  <2>1. ASSUME NEW y \in Process, NEW place \in Places, Moves(y, place)
        PROVE  /\ pc[x] \in {"idle", "identity"}
               /\ LookUpIdentity(y) => x # y
    BY <1>1, <1>2, <2>1 DEF Moves, Launch, RunRelease, LookUpIdentity, Goto
  <2>2. pc[x] \in {"idle", "identity"}
    BY <1>2, <2>1, PcMoves
  <2>3. ASSUME NEW y \in Process, LookUpIdentity(y)
        PROVE  ident'[x] = ident[x]
    <3>1. x # y /\ \E i : ident' = [ident EXCEPT ![y] = i]
      BY <1>1, <1>2, <2>3 DEF LookUpIdentity, Goto, Ready
    <3> QED
      BY <1>1, <3>1
  <2>4. UNCHANGED ident \/ \E y \in Process : LookUpIdentity(y)
    <3>1. ASSUME NEW y \in Process, CheckIdentity(y)
          PROVE  UNCHANGED ident
      BY <3>1 DEF CheckIdentity
    <3> QED
      BY <3>1, StepFrames DEF Next, vars
  <2> QED
    BY <2>2, <2>3, <2>4 DEF Writers
<1>3. ASSUME NEW x \in Process, io'[x] # "idle"
      PROVE  Wrote(x)'
  <2>1. CASE io[x] # "idle"
    BY <2>1, WroteStays DEF Writers
  <2>2. CASE io[x] = "idle"
    <3>1. ASSUME NEW y \in Process, Truncate(y) \/ Write(y) \/ LookUpIdentity(y)
          PROVE  LookUpIdentity(x) /\ ident'[x] = x
      <4>1. ~Truncate(y) /\ ~Write(y)
        BY <1>1, <1>3, <2>2 DEF Truncate, Write
      <4>2. CASE file.identity # None
        BY <1>3, <2>2, <3>1, <4>1, <4>2 DEF LookUpIdentity, disk
      <4>3. CASE file.identity = None
        <5>1. ident' = [ident EXCEPT ![y] = y] /\ io' = [io EXCEPT ![y] = "open"]
          BY <3>1, <4>1, <4>3 DEF LookUpIdentity, Save
        <5>2. x = y
          BY <1>1, <1>3, <2>2, <5>1
        <5> QED
          BY <1>1, <3>1, <4>1, <5>1, <5>2
      <4> QED
        BY <4>2, <4>3
    <3>2. ASSUME NEW q \in Claimer, Record(q) \/ Renew(q) \/ CleanUp(q) \/ Crash(q)
          PROVE  x \in Claimer /\ id[x] # None
      <4>1. x = q /\ pc[q] \in {"record", "serving"}
        BY <1>1, <1>3, <2>2, <3>2 DEF Record, Renew, CleanUp, Crash, Save, Ready
      <4> QED
        BY <4>1 DEF Begun
    <3>3. ASSUME NEW r \in Releaser,
                 RunRelease(r) \/ LoadTargets(r) \/ Delete(r) \/ CheckProcess(r) \/ ReleaseEnds(r)
          PROVE  x \in Releaser /\ dropped'[x] # {}
      <4>1. x = r /\ \E e : Drop(r, e)
        BY <1>1, <1>3, <2>2, <3>3
        DEF RunRelease, LoadTargets, Delete, CheckProcess, ReleaseEnds, DropAbsent, Drop, Fail, Save, disk
      <4> QED
        BY <1>1, <4>1 DEF Drop
    <3>4. ASSUME NEW y \in Process, CheckIdentity(y)
          PROVE  UNCHANGED io
      BY <3>4 DEF CheckIdentity, disk
    <3>5. \/ ident'[x] = x
          \/ x \in Claimer /\ id[x] # None
          \/ x \in Releaser /\ dropped'[x] # {}
      BY <1>3, <2>2, <3>1, <3>2, <3>3, <3>4, StepFrames DEF Next, vars, disk
    <3> QED
      BY <3>5, ClaimedStays DEF Wrote
  <2> QED
    BY <2>1, <2>2
<1> QED
  BY <1>2, <1>3 DEF Writers

\* p takes a step.
Acts(p) ==
    \/ Truncate(p) \/ Write(p) \/ LookUpIdentity(p) \/ CheckIdentity(p)
    \/ Launch(p) \/ Start(p) \/ Record(p) \/ Renew(p) \/ CleanUp(p) \/ Crash(p)

\* The others leave p and the file alone as long as none of them begins to write.
LEMMA OthersKeep ==
    ASSUME Types, Begun, Writers, [Next]_vars, NEW p \in Claimer, SoleWriter(p)',
           ~Acts(p)
    PROVE  /\ UNCHANGED file
           /\ io'[p] = io[p] /\ pc'[p] = pc[p] /\ ident'[p] = ident[p]
           /\ mem'[p] = mem[p] /\ id'[p] = id[p]
<1> USE DEF disk, claimerVars, gateway, releaseVars
<1>1. /\ pc \in [Process -> Places] /\ io \in [Process -> {"idle", "open", "write"}]
      /\ ident \in [Process -> Identity] /\ dropped \in [Releaser -> SUBSET Entry]
      /\ mem \in [Process -> State] /\ id \in [Claimer -> 1..issued \cup {None}]
      /\ p \in Process /\ p \notin Releaser
  BY ProcessAssumption DEF Types, TypeOK, Process
<1>2. \A x \in Process \ {p} : ~Wrote(x) /\ ~Wrote(x)' /\ io[x] = "idle"
  BY WroteStays DEF SoleWriter, Writers
<1> DEFINE Kept == /\ UNCHANGED file
                   /\ io'[p] = io[p] /\ pc'[p] = pc[p] /\ ident'[p] = ident[p]
                   /\ mem'[p] = mem[p] /\ id'[p] = id[p]
<1>3. ASSUME NEW x \in Process, Truncate(x) \/ Write(x)
      PROVE  FALSE
  BY <1>2, <1>3 DEF Truncate, Write, Acts
<1>4. ASSUME NEW x \in Process, LookUpIdentity(x)
      PROVE  Kept
  <2>1. x # p /\ ident'[x] # x
    BY <1>2, <1>4 DEF Acts, Wrote
  <2>2. /\ UNCHANGED <<file, io, mem, id>> /\ \E i : ident' = [ident EXCEPT ![x] = i]
        /\ pc' = [pc EXCEPT ![x] = "start"]
    BY <1>1, <1>4, <2>1 DEF LookUpIdentity, Goto
  <2> QED
    BY <1>1, <2>1, <2>2
<1>5. ASSUME NEW x \in Process, CheckIdentity(x)
      PROVE  Kept
  BY <1>1, <1>5 DEF CheckIdentity, Goto, Acts
<1>6. ASSUME NEW q \in Claimer, Record(q) \/ Renew(q) \/ CleanUp(q)
      PROVE  FALSE
  <2>1. q # p /\ q \in Process /\ id[q] # None
    BY <1>6 DEF Record, Renew, CleanUp, Ready, Begun, Acts, Process
  <2> QED
    BY <1>2, <2>1 DEF Wrote
<1>7. ASSUME NEW q \in Claimer, Launch(q) \/ Start(q) \/ Crash(q)
      PROVE  Kept
  <2>1. q # p
    BY <1>7 DEF Acts
  <2>2. UNCHANGED <<file, ident>> /\ \E place : pc' = [pc EXCEPT ![q] = place]
    BY <1>7 DEF Launch, Start, Crash, Goto
  <2>3. /\ UNCHANGED io \/ io' = [io EXCEPT ![q] = "idle"]
        /\ UNCHANGED mem \/ mem' = [mem EXCEPT ![q] = Blank]
        /\ UNCHANGED id \/ id' = [id EXCEPT ![q] = issued + 1]
    BY <1>7 DEF Launch, Start, Crash
  <2> QED
    BY <1>1, <2>1, <2>2, <2>3
<1>8. ASSUME NEW q \in Claimer,
             Reconnect(q) \/ LoseConnection(q) \/ Expire(q) \/ ParentFindsClaim(q) \/ ParentGivesUp(q)
      PROVE  Kept
  BY <1>8 DEF Reconnect, LoseConnection, Expire, ParentFindsClaim, ParentGivesUp
<1>9. ASSUME NEW r \in Releaser, RunRelease(r) \/ LoadTargets(r) \/ ReleaseEnds(r)
      PROVE  Kept
  <2>1. r # p /\ UNCHANGED <<file, io, ident, id>>
    BY <1>1, <1>9 DEF RunRelease, LoadTargets, ReleaseEnds
  <2>2. \E place : pc' = [pc EXCEPT ![r] = place]
    BY <1>9 DEF RunRelease, LoadTargets, ReleaseEnds, Goto
  <2>3. UNCHANGED mem \/ \E s : mem' = [mem EXCEPT ![r] = s]
    BY <1>9 DEF RunRelease, LoadTargets, ReleaseEnds
  <2> QED
    BY <1>1, <2>1, <2>2, <2>3
<1>10. ASSUME NEW r \in Releaser, Delete(r) \/ CheckProcess(r)
      PROVE  Kept
  <2>1. r # p /\ r \in Process /\ dropped'[r] = {}
    BY <1>1, <1>2 DEF Wrote, Process
  <2>2. ASSUME NEW e, Drop(r, e)
        PROVE  FALSE
    <3>1. dropped' = [dropped EXCEPT ![r] = dropped[r] \cup {e}]
      BY <2>2 DEF Drop
    <3> QED
      BY <1>1, <2>1, <3>1
  <2>3. UNCHANGED <<file, ident, id>>
    BY <1>10, StepFrames
  <2>4. UNCHANGED <<io, mem>>
    BY <1>10, <2>2 DEF Delete, CheckProcess, DropAbsent, Fail
  <2>5. UNCHANGED pc \/ \E place : pc' = [pc EXCEPT ![r] = place]
    BY <1>10 DEF Delete, CheckProcess, Goto
  <2> QED
    BY <1>1, <2>1, <2>3, <2>4, <2>5
<1>11. CASE UNCHANGED vars
  BY <1>11 DEF vars
<1> QED
  BY <1>3, <1>4, <1>5, <1>6, <1>7, <1>8, <1>9, <1>10, <1>11 DEF Next

\* What p does to the file on its own, it does to what it made of it before.
LEMMA ActsKeep ==
    ASSUME Types, Begun, Writers, NEW p \in Claimer, SoleWriter(p), Acts(p),
           pc[p] \in UpToServing, InHand(p), pc'[p] \in UpToServing
    PROVE  InHand(p)'
<1> USE DEF disk, claimerVars, gateway, releaseVars
<1>1. /\ pc \in [Process -> Places] /\ io \in [Process -> {"idle", "open", "write"}]
      /\ ident \in [Process -> Identity] /\ file \in State
      /\ mem \in [Process -> State] /\ id \in [Claimer -> 1..issued \cup {None}]
      /\ p \in Process /\ p \notin Releaser
  BY ProcessAssumption DEF Types, TypeOK, Process
<1>2. CASE Truncate(p)
  <2>1. io[p] = "open" /\ io'[p] = "write" /\ file' = Blank /\ UNCHANGED <<pc, mem, ident, id>>
    BY <1>1, <1>2 DEF Truncate
  <2> QED
    BY <2>1 DEF InHand, Product, Own
<1>3. CASE Write(p)
  <2>1. io[p] = "write" /\ io'[p] = "idle" /\ UNCHANGED <<pc, ident, id>>
        /\ (file = Blank => file' = mem[p])
    BY <1>1, <1>3 DEF Write
  <2> QED
    BY <2>1 DEF InHand, Product, Own
<1>4. CASE LookUpIdentity(p)
  <2>1. pc[p] = "identity" /\ file = [claims |-> {}, identity |-> Earlier] /\ io[p] = "idle"
    BY <1>4 DEF LookUpIdentity, Ready, InHand, Product
  <2>2. CASE Earlier # None
    BY <1>1, <1>4, <2>1, <2>2 DEF LookUpIdentity, Goto, InHand, Product
  <2>3. CASE Earlier = None
    <3>1. file.identity = None
      BY <2>1, <2>3
    <3>2. /\ ident' = [ident EXCEPT ![p] = p] /\ pc' = [pc EXCEPT ![p] = "check identity"]
          /\ io' = [io EXCEPT ![p] = "open"]
          /\ mem' = [mem EXCEPT ![p] = [file EXCEPT !.identity = p]]
      BY <1>4, <3>1 DEF LookUpIdentity, Goto, Save
    <3>3. [file EXCEPT !.identity = p] = [claims |-> {}, identity |-> p]
      BY <2>1
    <3>4. /\ ident'[p] = p /\ pc'[p] = "check identity" /\ io'[p] = "open"
          /\ mem'[p] = [claims |-> {}, identity |-> p]
      BY <1>1, <3>2, <3>3
    <3> QED
      BY <3>4 DEF InHand, Product
  <2> QED
    BY <2>2, <2>3
<1>5. CASE CheckIdentity(p)
  <2>1. pc[p] = "check identity" /\ pc'[p] = "start" /\ io[p] = "idle" /\ UNCHANGED <<file, io, ident>>
    BY <1>1, <1>5 DEF CheckIdentity, Ready, Goto, UpToServing
  <2> QED
    BY <2>1 DEF InHand, Product
<1>6. CASE Launch(p) \/ Start(p)
  <2>1. UNCHANGED <<file, io, mem, ident>>
    BY <1>6 DEF Launch, Start, Ready
  <2>2. CASE Launch(p)
    <3>1. pc[p] = "idle" /\ pc'[p] = "identity"
      BY <1>1, <2>2 DEF Launch, Goto
    <3> QED
      BY <2>1, <3>1 DEF InHand, Product
  <2>3. CASE Start(p)
    <3>1. pc[p] = "start" /\ pc'[p] = "record"
      BY <1>1, <2>3 DEF Start, Ready, Goto, UpToServing
    <3> QED
      BY <2>1, <3>1 DEF InHand, Product
  <2> QED
    BY <1>6, <2>2, <2>3
<1>7. CASE Record(p)
  <2>1. file = [claims |-> {}, identity |-> ident[p]]
    BY <1>7 DEF Record, Ready, InHand, Product
  <2>2. /\ mem'[p] = [claims |-> {Own(p)}, identity |-> ident[p]]
        /\ io'[p] = "open" /\ pc'[p] = "serving" /\ UNCHANGED <<ident, id>>
    BY <1>1, <1>7, <2>1 DEF Record, Save, Goto
  <2> QED
    BY <2>2 DEF InHand, Product, Own
<1>8. CASE Renew(p)
  <2>1. pc[p] = "serving" /\ file = [claims |-> {Own(p)}, identity |-> ident[p]]
    BY <1>8 DEF Renew, Ready, InHand, Product
  <2>2. {e \in file.claims : ~SessionOf(p, e)} = {}
    BY <2>1 DEF SessionOf, Own
  <2>3. /\ mem'[p] = [claims |-> {[id |-> news[p], pid |-> p]}, identity |-> ident[p]]
        /\ io'[p] = "open" /\ id'[p] = news[p] /\ UNCHANGED <<pc, ident>>
    BY <1>1, <1>8, <2>1, <2>2 DEF Renew, Save
  <2> QED
    BY <2>1, <2>3 DEF InHand, Product, Own
<1>9. CASE CleanUp(p) \/ Crash(p)
  BY <1>1, <1>9 DEF CleanUp, Crash, Goto, UpToServing
<1> QED
  BY <1>2, <1>3, <1>4, <1>5, <1>6, <1>7, <1>8, <1>9 DEF Acts

\* Every step keeps the file of a sole writer in its hand.
LEMMA NextAlone ==
    ASSUME Types, Begun, Writers, Alone, [Next]_vars
    PROVE  Alone'
<1> SUFFICES ASSUME NEW p \in Claimer, SoleWriter(p)', pc'[p] \in UpToServing
             PROVE  InHand(p)'
  BY DEF Alone
<1>1. SoleWriter(p)
  BY WroteStays DEF SoleWriter
<1>2. CASE ~Acts(p)
  <2>1. /\ UNCHANGED file
        /\ io'[p] = io[p] /\ pc'[p] = pc[p] /\ ident'[p] = ident[p]
        /\ mem'[p] = mem[p] /\ id'[p] = id[p]
    BY <1>2, OthersKeep
  <2>2. InHand(p)
    BY <1>1, <2>1 DEF Alone
  <2> QED
    BY <2>1, <2>2 DEF InHand, Product, Own
<1>3. CASE Acts(p)
  <2>1. pc[p] \in UpToServing
    <3>1. pc \in [Process -> Places] /\ p \in Process
      BY DEF Types, Process
    <3>2. Truncate(p) \/ Write(p) => pc'[p] = pc[p]
      BY DEF Truncate, Write
    <3>3. LookUpIdentity(p) \/ CheckIdentity(p) \/ Launch(p) \/ Start(p) \/ Record(p) \/ Renew(p)
            \/ CleanUp(p) => pc[p] \in UpToServing
      BY DEF LookUpIdentity, CheckIdentity, Launch, Start, Record, Renew, CleanUp, Ready, UpToServing
    <3>4. Crash(p) => pc'[p] = "crashed"
      BY <3>1 DEF Crash, Goto
    <3> QED
      BY <1>3, <3>2, <3>3, <3>4 DEF Acts, UpToServing
  <2> QED
    BY <1>1, <1>3, <2>1, ActsKeep DEF Alone
<1> QED
  BY <1>2, <1>3

\* What the gateway holds for p is what p waits to hear of or has told the file about,
\* unless the notice of it was dropped.
HeldKnown ==
    \A p \in Claimer :
        /\ held[p] # None /\ p \notin missed => held[p] = IF news[p] # None THEN news[p] ELSE id[p]
        /\ id[p] = None => news[p] = None

\* A claim is got with its identifier, or with a notice that waits or is dropped.
LEMMA NextHeldKnown ==
    ASSUME Types, Begun, HeldKnown, [Next]_vars
    PROVE  HeldKnown'
<1>1. /\ TypeOK /\ id \in [Claimer -> 1..issued \cup {None}] /\ missed \subseteq Claimer
      /\ news \in [Claimer -> 1..issued \cup {None}] /\ held \in [Claimer -> 1..issued \cup {None}]
      /\ None \notin Process
  BY ProcessAssumption DEF Types, TypeOK
<1>2. CASE UNCHANGED <<id, news, missed, held>>
  BY <1>2 DEF HeldKnown
<1>3. ASSUME NEW p \in Claimer, UNCHANGED <<id, news, missed>>, held' = [held EXCEPT ![p] = None]
      PROVE  HeldKnown'
  BY <1>1, <1>3 DEF HeldKnown
<1>4. ASSUME NEW p \in Claimer, Start(p)
      PROVE  HeldKnown'
  <2>1. id[p] = None /\ news[p] = None
    BY <1>4 DEF Start, Ready, Begun, HeldKnown
  <2>2. CASE Claims(p) /\ id' = [id EXCEPT ![p] = issued + 1]
    <3>1. /\ held' = [held EXCEPT ![p] = issued + 1] /\ issued + 1 # None
          /\ UNCHANGED <<news, missed>>
      BY <1>1, <1>4, <2>2, Numbered DEF Start, Claims
    <3>2. QED
      BY <1>1, <2>1, <2>2, <3>1 DEF HeldKnown
  <2>3. CASE UNCHANGED <<gateway, id>>
    BY <1>2, <1>4, <2>3 DEF Start, gateway
  <2>4. QED
    BY <1>4, <2>2, <2>3 DEF Start
<1>5. ASSUME NEW p \in Claimer, Reconnect(p)
      PROVE  HeldKnown'
  <2>1. id[p] # None /\ UNCHANGED id
    BY <1>5 DEF Reconnect, Begun
  <2>2. CASE Claims(p) /\ Notify(p, issued + 1)
    <3>1. held' = [held EXCEPT ![p] = issued + 1] /\ issued + 1 # None
      BY <1>1, <2>2, Numbered DEF Claims
    <3>2. CASE news' = [news EXCEPT ![p] = issued + 1] /\ missed' = missed \ {p}
      BY <1>1, <2>1, <3>1, <3>2 DEF HeldKnown
    <3>3. CASE missed' = missed \cup {p} /\ UNCHANGED news
      BY <1>1, <2>1, <3>1, <3>3 DEF HeldKnown
    <3>4. QED
      BY <2>2, <3>2, <3>3 DEF Notify
  <2>3. CASE UNCHANGED <<gateway, news, missed>>
    BY <1>2, <2>1, <2>3 DEF gateway
  <2>4. QED
    BY <1>5, <2>2, <2>3 DEF Reconnect
<1>6. ASSUME NEW p \in Claimer, Renew(p)
      PROVE  HeldKnown'
  <2>1. /\ id' = [id EXCEPT ![p] = news[p]] /\ news' = [news EXCEPT ![p] = None]
        /\ news[p] # None /\ UNCHANGED <<missed, held>>
    BY <1>6 DEF Renew, gateway
  <2>2. QED
    BY <1>1, <2>1 DEF HeldKnown
<1>7. ASSUME NEW p \in Claimer, LoseConnection(p) \/ Expire(p)
      PROVE  HeldKnown'
  BY <1>3, <1>7 DEF LoseConnection, Expire, claimerVars
<1>8. ASSUME NEW r \in Releaser, Delete(r)
      PROVE  HeldKnown'
  <2>1. PICK e \in todo[r] : held' = [held EXCEPT ![e.pid] = None] \/ held' = held
    BY <1>8 DEF Delete
  <2>2. e.pid \in Claimer
    BY <1>1, EntryOps DEF TypeOK
  <2>3. QED
    BY <1>2, <1>3, <1>8, <2>1, <2>2, StepFrames
<1>9. ASSUME NEW p \in Claimer, Launch(p) \/ Record(p) \/ CleanUp(p) \/ Crash(p)
      PROVE  UNCHANGED <<id, news, missed, held>>
  BY <1>9 DEF Launch, Record, CleanUp, Crash, gateway, claimerVars
<1>10. ASSUME NEW r \in Releaser, RunRelease(r) \/ LoadTargets(r) \/ CheckProcess(r) \/ ReleaseEnds(r)
       PROVE  UNCHANGED <<id, news, missed, held>>
  BY <1>10 DEF RunRelease, LoadTargets, CheckProcess, ReleaseEnds, gateway, claimerVars
<1>11. QED
  BY <1>2, <1>4, <1>5, <1>6, <1>7, <1>8, <1>9, <1>10, StepFrames DEF Next, vars, gateway, claimerVars
-----------------------------------------------------------------------------
\* A machine on which nothing runs yet, with or without an identity in its file.
LEMMA InitIInv == Init => IInv
<1> SUFFICES ASSUME Init PROVE IInv
  OBVIOUS
<1>1. file \in State /\ file.claims = {}
  BY BlankState DEF Init, Blank, State
<1>2. mem \in [Process -> State] /\ \A x \in Process : mem[x].claims = {}
  BY BlankState DEF Init
<1>3. issued \in 0..MaxClaims
  BY ProcessAssumption DEF Init
<1>4. Types
  BY <1>1, <1>2, <1>3 DEF Init, Types, TypeOK, Places, Identity
<1>5. Begun /\ DetachTruth /\ ReleaseNotMistaken
  BY ProcessAssumption DEF Init, Begun, DetachTruth, ReleaseNotMistaken, Process
<1>6. Recorded /\ \A e \in Entry : ~Known(e)
  <2>1. \A r \in Releaser : pc[r] # "absent"
    BY DEF Init, Process
  <2>2. \A e \in Entry : ~Known(e)
    BY <1>1, <1>2, <2>1 DEF Init, Known
  <2>3. QED
    BY <2>1, <2>2 DEF Init, Recorded
<1>8. OneOwner
  <2>1. \A i \in 1..MaxClaims, p \in Claimer : ~Belongs(i, p)
    BY <1>6, EntryOps, ProcessAssumption DEF Init, Belongs
  <2>2. QED
    BY <2>1 DEF OneOwner
<1>9. Stages /\ PartialReleaseAccounted
  BY DEF Init, Stages, Stage, PartialReleaseAccounted, Process
<1>7. QED
  BY <1>4, <1>5, <1>6, <1>8, <1>9 DEF IInv

\* Every step keeps the inductive invariant.
LEMMA NextIInv == IInv /\ [Next]_vars => IInv'
BY NextTypes, NextBegun, NextRecorded, NextOneOwner, NextAccounted, NextReleaseNotMistaken,
   NextDetachTruth DEF IInv

\* The invariant holds of every machine, whatever its commands overwrite of each other's.
THEOREM Invariance == Spec => []IInv
BY InitIInv, NextIInv, PTL DEF Spec

\* Every variable keeps its type, and whoever shows an identity to the gateway has one.
THEOREM TypeCorrect == Spec => []TypeOK
<1>1. IInv => TypeOK
  BY DEF IInv, Types
<1>2. QED
  BY <1>1, Invariance, PTL

\* As long as no other command changes the file, and unless the session's channel was too
\* full for the notice of the last reconnection, the claim the gateway holds is in the file,
\* with the identity that owns it: on first use too, after every reconnection, and while
\* other commands fail.
THEOREM SoleWriterKept == Spec => []SoleWriterReleasable
<1>1. Init => Writers /\ Alone /\ HeldKnown
  <2> SUFFICES ASSUME Init PROVE Writers /\ Alone /\ HeldKnown
    OBVIOUS
  <2>1. Writers /\ HeldKnown
    BY DEF Init, Writers, HeldKnown
  <2>2. \A p \in Claimer : pc[p] = "idle" /\ io[p] = "idle" /\ file = [claims |-> {}, identity |-> Earlier]
    BY DEF Init, Blank, Process
  <2> QED
    BY <2>1, <2>2 DEF Alone, InHand, Product
<1>2. IInv /\ Writers /\ Alone /\ HeldKnown /\ [Next]_vars => (Writers /\ Alone /\ HeldKnown)'
  BY NextWriters, NextAlone, NextHeldKnown DEF IInv
<1>3. Alone /\ HeldKnown => SoleWriterReleasable
  <2> SUFFICES ASSUME Alone, HeldKnown, NEW p \in Claimer, Ready(p, "serving"), SoleWriter(p),
                      held[p] # None, news[p] = None, p \notin missed
               PROVE  file = [claims |-> {[id |-> held[p], pid |-> p]}, identity |-> ident[p]]
    BY DEF SoleWriterReleasable
  <2>1. file = [claims |-> {Own(p)}, identity |-> ident[p]]
    BY DEF Alone, UpToServing, InHand, Product, Ready
  <2>2. id[p] = held[p]
    BY DEF HeldKnown
  <2> QED
    BY <2>1, <2>2 DEF Own
<1> QED
  BY <1>1, <1>2, <1>3, Invariance, PTL DEF Spec

\* What `release` reports as absent has no process that could claim it again, for any
\* number of reconnecting claimers and concurrent releases.
THEOREM ReleasesAreTrue == Spec => []ReleaseNotMistaken
<1>1. IInv => ReleaseNotMistaken
  BY DEF IInv
<1>2. QED
  BY <1>1, Invariance, PTL

\* A release that partly fails saves all that it could not release and nothing that it
\* did, although identifiers are all it removes by and others rewrite the file meanwhile.
THEOREM PartialReleases == Spec => []PartialReleaseAccounted
<1>1. IInv => PartialReleaseAccounted
  BY DEF IInv
<1>2. QED
  BY <1>1, Invariance, PTL

\* What `claim --detach` reports as connected has been connected.
THEOREM DetachIsTrue == Spec => []DetachTruth
<1>1. IInv => DetachTruth
  BY DEF IInv
<1>2. QED
  BY <1>1, Invariance, PTL
=============================================================================
