--------------------------- MODULE RegistryProofs ---------------------------
(***************************************************************************)
(* The registry's invariants for any segments, owners, limits, allowlist   *)
(* and number of claims.  The inductive invariant speaks of patterns (no   *)
(* two claims overlap, every path was checked against the policy); the     *)
(* algebra of ClaimPathProofs turns it into facts about request paths.     *)
(***************************************************************************)
EXTENDS Registry, ClaimPathProofs, FiniteSetTheorems

\* Every path of a held claim passed the checks that Create makes of it.
PathsChecked ==
    \A id \in DOMAIN claims : \A p \in claims[id].paths :
        Len(p.base) >= MinPathSegments /\ InAllowlist(p)

\* Create compared every new path with every held one.
NoOverlap ==
    \A id1, id2 \in DOMAIN claims : id1 # id2 =>
        \A p \in claims[id1].paths, q \in claims[id2].paths : ~Overlap(p, q)

FinitelyMany == IsFiniteSet(DOMAIN claims)

IInv == TypeOK /\ PathsChecked /\ NoOverlap /\ FinitelyMany /\ WithinLimits

vars == <<claims, issued>>
-----------------------------------------------------------------------------
\* What an accepted list of paths has been checked for.
LEMMA AcceptedPaths ==
    ASSUME NEW owner, NEW paths \in Requested, Accepted(owner, paths)
    PROVE  \A i \in DOMAIN paths :
             /\ paths[i] \in Pattern
             /\ Len(paths[i].base) >= MinPathSegments
             /\ InAllowlist(paths[i])
             /\ ~Conflicts(paths[i])
<1> SUFFICES ASSUME NEW i \in DOMAIN paths
             PROVE  /\ paths[i] \in Pattern
                    /\ Len(paths[i].base) >= MinPathSegments
                    /\ InAllowlist(paths[i])
                    /\ ~Conflicts(paths[i])
  OBVIOUS
<1>1. paths[i] \in Split
  BY InputAssumption, LenProperties, ElementOfSeq
<1>2. PathError(paths[i]) = "none"
  BY DEF Accepted, Refused
<1>3. /\ Valid(paths[i]) /\ ~(Segments(paths[i]) < MinPathSegments)
      /\ InAllowlist(paths[i]) /\ ~Conflicts(paths[i])
  BY <1>2 DEF PathError
<1>4. Len(paths[i].base) \in Nat
  BY <1>1, LenProperties DEF Split
<1> QED
  BY <1>1, <1>3, <1>4, ConfigAssumption DEF Pattern, Segments

\* The state after a claim was created.
LEMMA CreateEffect ==
    ASSUME TypeOK,
           NEW id \in ClaimID, NEW owner \in Owner, NEW paths \in Requested,
           Create(id, owner, paths), Accepted(owner, paths)
    PROVE  /\ id \notin issued /\ id \notin DOMAIN claims
           /\ DOMAIN claims' = DOMAIN claims \cup {id}
           /\ claims'[id] \in Claim
           /\ claims'[id].owner = owner
           /\ claims'[id].paths = {paths[i] : i \in DOMAIN paths}
           /\ \A c \in DOMAIN claims : claims'[c] = claims[c]
           /\ issued' = issued \cup {id}
<1>1. {paths[i] : i \in DOMAIN paths} \subseteq Pattern
  BY AcceptedPaths
<1> QED
  BY <1>1 DEF Create, TypeOK, Claim

\* The state after a release that found its claim.
LEMMA ReleaseEffect ==
    ASSUME NEW id, NEW owner, Release(owner, id)
    PROVE  \/ UNCHANGED <<claims, issued>>
           \/ /\ id \in DOMAIN claims /\ claims[id].owner = owner
              /\ DOMAIN claims' = DOMAIN claims \ {id}
              /\ \A c \in DOMAIN claims' : claims'[c] = claims[c]
              /\ issued' = issued
BY DEF Release

\* Nothing is claimed at first.
LEMMA InitTypeOK == Init => TypeOK
BY DEF Init, TypeOK

\* Every operation keeps the types.
LEMMA NextTypeOK ==
    ASSUME TypeOK, [Next]_vars
    PROVE  TypeOK'
<1>1. ASSUME NEW owner \in Owner, NEW id \in ClaimID, NEW paths \in Requested,
             Create(id, owner, paths)
      PROVE  TypeOK'
  <2>1. CASE Accepted(owner, paths)
    <3>1. claims' = [c \in DOMAIN claims' |-> claims'[c]]
      BY <1>1, <2>1 DEF Create
    <3> QED
      BY <1>1, <2>1, <3>1, CreateEffect DEF TypeOK
  <2>2. CASE ~Accepted(owner, paths)
    BY <1>1, <2>2 DEF Create, TypeOK
  <2> QED
    BY <2>1, <2>2
<1>2. ASSUME NEW owner \in Owner, NEW id \in ClaimID, Release(owner, id)
      PROVE  TypeOK'
  BY <1>2 DEF Release, TypeOK
<1>3. CASE UNCHANGED vars
  BY <1>3 DEF vars, TypeOK
<1> QED
  BY <1>1, <1>2, <1>3 DEF Next

\* The registry's state always has its type; identities are never reused.
THEOREM TypeCorrect == Spec => []TypeOK
<1>1. TypeOK /\ [Next]_vars => TypeOK'
  BY NextTypeOK
<1> QED
  BY <1>1, InitTypeOK, PTL DEF Spec, vars
-----------------------------------------------------------------------------
\* A created claim obeys the path policy and conflicts with no claim there is.
LEMMA CreateKeepsPolicy ==
    ASSUME IInv, NEW id \in ClaimID, NEW owner \in Owner, NEW paths \in Requested,
           Create(id, owner, paths), Accepted(owner, paths)
    PROVE  PathsChecked' /\ NoOverlap'
<1>1. /\ DOMAIN claims' = DOMAIN claims \cup {id} /\ id \notin DOMAIN claims
      /\ claims'[id].paths = {paths[i] : i \in DOMAIN paths}
      /\ \A c \in DOMAIN claims : claims'[c] = claims[c]
  BY CreateEffect DEF IInv
<1>2. \A p \in claims'[id].paths :
        /\ p \in Pattern /\ Len(p.base) >= MinPathSegments /\ InAllowlist(p)
        /\ ~Conflicts(p)
  BY <1>1, AcceptedPaths
<1>3. \A c \in DOMAIN claims : \A q \in claims[c].paths : q \in Pattern
  BY DEF IInv, TypeOK, Claim
<1>4. PathsChecked'
  BY <1>1, <1>2 DEF IInv, PathsChecked, InAllowlist
<1>5. \A p \in claims'[id].paths : \A c \in DOMAIN claims : \A q \in claims[c].paths :
        ~Overlap(p, q) /\ ~Overlap(q, p)
  BY <1>2, <1>3, OverlapSymmetric DEF Conflicts
<1>6. NoOverlap'
  BY <1>1, <1>5 DEF IInv, NoOverlap
<1> QED
  BY <1>4, <1>6

\* A claim is only created below the limits, so it reaches them at most.
LEMMA CreateKeepsLimits ==
    ASSUME IInv, NEW id \in ClaimID, NEW owner \in Owner, NEW paths \in Requested,
           Create(id, owner, paths), Accepted(owner, paths)
    PROVE  FinitelyMany' /\ WithinLimits'
<1>1. /\ DOMAIN claims' = DOMAIN claims \cup {id} /\ id \notin DOMAIN claims
      /\ claims'[id].owner = owner
      /\ \A c \in DOMAIN claims : claims'[c] = claims[c]
  BY CreateEffect DEF IInv
<1>2. IsFiniteSet(DOMAIN claims) /\ Cardinality(DOMAIN claims) \in Nat
  BY FS_CardinalityType DEF IInv, FinitelyMany
<1>3. LimitError(owner) = "none"
  BY DEF Accepted
<1>4. FinitelyMany' /\ Cardinality(DOMAIN claims') = Cardinality(DOMAIN claims) + 1
  BY <1>1, <1>2, FS_AddElement DEF FinitelyMany
<1>5. Cardinality(DOMAIN claims') <= MaxClaims
  BY <1>2, <1>3, <1>4, ConfigAssumption DEF LimitError
<1>6. ASSUME MaxClaimsPerOwner > 0, NEW o \in Owner
      PROVE  Cardinality(Owned(o)') <= MaxClaimsPerOwner
  <2>1. IsFiniteSet(Owned(o)) /\ Cardinality(Owned(o)) \in Nat
    <3>1. Owned(o) \in SUBSET DOMAIN claims
      BY DEF Owned
    <3> QED
      BY <1>2, <3>1, FS_Subset, FS_CardinalityType
  <2>2. Cardinality(Owned(o)) <= MaxClaimsPerOwner
    BY <1>6 DEF IInv, WithinLimits
  <2>3. CASE o = owner
    <3>1. Owned(o)' = Owned(o) \cup {id} /\ id \notin Owned(o)
      BY <1>1, <2>3 DEF Owned
    <3>2. Cardinality(Owned(o)') = Cardinality(Owned(o)) + 1
      BY <2>1, <3>1, FS_AddElement
    <3>3. Cardinality(Owned(o)) < MaxClaimsPerOwner
      BY <1>3, <1>6, <2>1, <2>3, ConfigAssumption DEF LimitError
    <3> QED
      BY <2>1, <3>2, <3>3, ConfigAssumption
  <2>4. CASE o # owner
    <3>1. Owned(o)' = Owned(o)
      BY <1>1, <2>4 DEF Owned
    <3> QED
      BY <2>2, <3>1
  <2> QED
    BY <2>3, <2>4
<1> QED
  BY <1>4, <1>5, <1>6 DEF WithinLimits

\* Fewer claims obey what more claims obeyed.
LEMMA ReleaseKeepsInv ==
    ASSUME IInv, NEW id, NEW owner, Release(owner, id)
    PROVE  PathsChecked' /\ NoOverlap' /\ FinitelyMany' /\ WithinLimits'
<1>1. CASE UNCHANGED <<claims, issued>>
  BY <1>1 DEF IInv, PathsChecked, NoOverlap, FinitelyMany, WithinLimits, Owned, InAllowlist
<1>2. CASE /\ DOMAIN claims' = DOMAIN claims \ {id}
           /\ \A c \in DOMAIN claims' : claims'[c] = claims[c]
  <2>1. PathsChecked' /\ NoOverlap'
    BY <1>2 DEF IInv, PathsChecked, NoOverlap, InAllowlist
  <2>2. /\ IsFiniteSet(DOMAIN claims) /\ Cardinality(DOMAIN claims) \in Nat
        /\ DOMAIN claims' \in SUBSET DOMAIN claims
    BY <1>2, FS_CardinalityType DEF IInv, FinitelyMany
  <2>3. FinitelyMany' /\ Cardinality(DOMAIN claims') \in Nat
        /\ Cardinality(DOMAIN claims') <= Cardinality(DOMAIN claims)
    BY <2>2, FS_Subset, FS_CardinalityType DEF FinitelyMany
  <2>4. ASSUME MaxClaimsPerOwner > 0, NEW o \in Owner
        PROVE  Cardinality(Owned(o)') <= MaxClaimsPerOwner
    <3>1. Owned(o) \in SUBSET DOMAIN claims /\ Owned(o)' \in SUBSET Owned(o)
      BY <1>2 DEF Owned
    <3>2. IsFiniteSet(Owned(o)) /\ Cardinality(Owned(o)) \in Nat
      BY <2>2, <3>1, FS_Subset, FS_CardinalityType
    <3>3. /\ Cardinality(Owned(o)') \in Nat
          /\ Cardinality(Owned(o)') <= Cardinality(Owned(o))
      BY <3>1, <3>2, FS_Subset, FS_CardinalityType
    <3> QED
      BY <2>4, <3>2, <3>3, ConfigAssumption DEF IInv, WithinLimits
  <2>5. Cardinality(DOMAIN claims') <= MaxClaims
    BY <2>2, <2>3, ConfigAssumption DEF IInv, WithinLimits
  <2> QED
    BY <2>1, <2>3, <2>4, <2>5 DEF WithinLimits
<1> QED
  BY <1>1, <1>2, ReleaseEffect

\* The empty registry obeys every policy.
LEMMA InitIInv == Init => IInv
<1> SUFFICES ASSUME Init PROVE IInv
  OBVIOUS
<1>1. claims = << >> /\ DOMAIN claims = {}
  BY DEF Init
<1>2. PathsChecked /\ NoOverlap /\ FinitelyMany
  BY <1>1, FS_EmptySet DEF PathsChecked, NoOverlap, FinitelyMany
<1>3. \A o \in Owner : Owned(o) = {}
  BY <1>1 DEF Owned
<1>4. WithinLimits
  BY <1>1, <1>3, FS_EmptySet, ConfigAssumption DEF WithinLimits
<1> QED
  BY <1>2, <1>4, InitTypeOK DEF IInv

\* The invariant is inductive.
LEMMA NextIInv == IInv /\ [Next]_vars => IInv'
<1> SUFFICES ASSUME IInv, [Next]_vars PROVE IInv'
  OBVIOUS
<1>1. TypeOK'
  BY NextTypeOK DEF IInv
<1>2. ASSUME NEW owner \in Owner, NEW id \in ClaimID, NEW paths \in Requested,
             Create(id, owner, paths)
      PROVE  PathsChecked' /\ NoOverlap' /\ FinitelyMany' /\ WithinLimits'
  <2>1. CASE Accepted(owner, paths)
    BY <1>2, <2>1, CreateKeepsPolicy, CreateKeepsLimits
  <2>2. CASE ~Accepted(owner, paths)
    BY <1>2, <2>2 DEF Create, IInv, PathsChecked, NoOverlap, FinitelyMany, WithinLimits,
                      Owned, InAllowlist
  <2> QED
    BY <2>1, <2>2
<1>3. ASSUME NEW owner \in Owner, NEW id \in ClaimID, Release(owner, id)
      PROVE  PathsChecked' /\ NoOverlap' /\ FinitelyMany' /\ WithinLimits'
  BY <1>3, ReleaseKeepsInv
<1>4. ASSUME UNCHANGED vars
      PROVE  PathsChecked' /\ NoOverlap' /\ FinitelyMany' /\ WithinLimits'
  <2>1. claims' = claims
    BY <1>4 DEF vars
  <2> QED
    BY <2>1 DEF IInv, PathsChecked, NoOverlap, FinitelyMany, WithinLimits, Owned, InAllowlist
<1>5. PathsChecked' /\ NoOverlap' /\ FinitelyMany' /\ WithinLimits'
  BY <1>2, <1>3, <1>4 DEF Next
<1> QED
  BY <1>1, <1>5 DEF IInv

\* The inductive invariant holds of every reachable registry.
THEOREM Invariance == Spec => []IInv
BY InitIInv, NextIInv, PTL DEF Spec, vars

\* The limits hold whatever the number of owners and claims.
THEOREM LimitsHold == Spec => []WithinLimits
<1>1. IInv => WithinLimits
  BY DEF IInv
<1> QED
  BY <1>1, Invariance, PTL
-----------------------------------------------------------------------------
\* Claims without conflicts have no request path in common.
LEMMA IInvOneClaimant == IInv => OneClaimant
<1> SUFFICES ASSUME IInv, NEW r \in Request, NEW id1 \in Claimants(r), NEW id2 \in Claimants(r)
             PROVE  id1 = id2
  BY DEF OneClaimant
<1>1. /\ id1 \in DOMAIN claims /\ id2 \in DOMAIN claims
      /\ \E p \in claims[id1].paths : matches(p, r)
      /\ \E q \in claims[id2].paths : matches(q, r)
  BY DEF Claimants
<1>2. PICK p \in claims[id1].paths : matches(p, r)
  BY <1>1
<1>3. PICK q \in claims[id2].paths : matches(q, r)
  BY <1>1
<1>4. p \in Pattern /\ q \in Pattern /\ r \in RequestPath
  BY <1>1, InputAssumption DEF IInv, TypeOK, Claim
<1>5. Overlap(p, q)
  BY <1>2, <1>3, <1>4, OverlapSound
<1> QED
  BY <1>1, <1>5 DEF IInv, NoOverlap

\* No request path is ever matched by two claims: the narrowest-match search of
\* the router never has a choice to make between claims.
THEOREM UnambiguousRouting == Spec => []OneClaimant
BY IInvOneClaimant, Invariance, PTL

\* A claim matches nothing outside the policy it was accepted by.
LEMMA IInvConfined == IInv => Confined /\ DeepEnough
<1> SUFFICES ASSUME IInv, NEW id \in DOMAIN claims, NEW p \in claims[id].paths,
                    NEW r \in Request, matches(p, r)
             PROVE  /\ Allowed # {} => \E c \in Allowed : HasPrefix(r, c)
                    /\ Len(r) >= MinPathSegments
  BY DEF Confined, DeepEnough
<1>1. p \in Pattern /\ r \in RequestPath /\ p.base \in Seq(Segment) /\ Len(p.base) \in Nat
  BY InputAssumption, PatternParts DEF IInv, TypeOK, Claim
<1>2. Len(p.base) <= Len(r) /\ \A i \in 1..Len(p.base) : r[i] = p.base[i]
  BY <1>1, MatchExtendsBase
<1>3. Len(p.base) >= MinPathSegments /\ InAllowlist(p)
  BY DEF IInv, PathsChecked
<1>4. Len(r) \in Nat
  BY <1>1, LenProperties DEF RequestPath
<1>5. ASSUME Allowed # {}
      PROVE  \E c \in Allowed : HasPrefix(r, c)
  <2>1. PICK c \in Allowed : HasPrefix(p.base, c)
    BY <1>3, <1>5 DEF InAllowlist
  <2>2. Len(c) \in Nat
    BY ConfigAssumption, LenProperties
  <2>3. HasPrefix(r, c)
    BY <1>1, <1>2, <1>4, <2>1, <2>2 DEF HasPrefix
  <2> QED
    BY <2>3
<1> QED
  BY <1>1, <1>2, <1>3, <1>4, <1>5, ConfigAssumption

\* A request that is routed to any claim is below an allowed prefix.
THEOREM AllowlistConfines == Spec => []Confined
BY IInvConfined, Invariance, PTL

\* A request that is routed to any claim is at least as deep as configured.
THEOREM DepthHolds == Spec => []DeepEnough
BY IInvConfined, Invariance, PTL
-----------------------------------------------------------------------------
\* Nobody owns a path at first.
LEMMA InitServes == Init => Ownership!Init
<1> SUFFICES ASSUME Init PROVE Ownership!Init
  OBVIOUS
<1>1. \A r \in Request : Claimants(r) = {}
  BY DEF Init, Claimants
<1> QED
  BY <1>1 DEF Ownership!Init, Serves

\* A created claim takes paths that no other claim serves.
LEMMA CreateGrants ==
    ASSUME IInv, IInv', NEW id \in ClaimID, NEW owner \in Owner, NEW paths \in Requested,
           Create(id, owner, paths), Accepted(owner, paths)
    PROVE  Ownership!Grant(id)
<1>1. /\ id \notin DOMAIN claims
      /\ DOMAIN claims' = DOMAIN claims \cup {id}
      /\ \A c \in DOMAIN claims : claims'[c] = claims[c]
  BY CreateEffect DEF IInv
<1>2. Serves[id] = {}
  BY <1>1 DEF Serves, Claimants
<1>3. Serves' \in [ClaimID -> SUBSET Request]
  BY DEF Serves
<1>4. ASSUME NEW u \in ClaimID \ {id}
      PROVE  Serves'[u] = Serves[u] /\ Serves'[u] \cap Serves'[id] = {}
  <2>1. \A r \in Request : u \in Claimants(r)' <=> u \in Claimants(r)
    BY <1>1, <1>4 DEF Claimants
  <2>2. \A r \in Request : ~(u \in Claimants(r)' /\ id \in Claimants(r)')
    <3>1. OneClaimant'
      BY IInvOneClaimant, PTL
    <3> QED
      BY <1>4, <3>1 DEF OneClaimant
  <2>3. /\ Serves'[u] = {r \in Request : u \in Claimants(r)'}
        /\ Serves'[id] = {r \in Request : id \in Claimants(r)'}
        /\ Serves[u] = {r \in Request : u \in Claimants(r)}
    BY DEF Serves
  <2> QED
    BY <2>1, <2>2, <2>3
<1> QED
  BY <1>2, <1>3, <1>4 DEF Ownership!Grant

\* A released claim serves nothing any more, and no other claim changes.
LEMMA ReleaseRevokes ==
    ASSUME NEW id \in ClaimID, NEW owner, Release(owner, id)
    PROVE  Ownership!Revoke(id) \/ UNCHANGED Serves
<1>1. CASE UNCHANGED <<claims, issued>>
  BY <1>1 DEF Serves, Claimants
<1>2. CASE /\ DOMAIN claims' = DOMAIN claims \ {id}
           /\ \A c \in DOMAIN claims' : claims'[c] = claims[c]
  <2>1. ASSUME NEW u \in ClaimID
        PROVE  Serves'[u] = [Serves EXCEPT ![id] = {}][u]
    <3>1. \A r \in Request : u \in Claimants(r)' <=> u # id /\ u \in Claimants(r)
      BY <1>2 DEF Claimants
    <3>2. /\ Serves'[u] = {r \in Request : u \in Claimants(r)'}
          /\ Serves[u] = {r \in Request : u \in Claimants(r)}
      BY DEF Serves
    <3>3. [Serves EXCEPT ![id] = {}][u] = IF u = id THEN {} ELSE Serves[u]
      BY DEF Serves
    <3> QED
      BY <3>1, <3>2, <3>3
  <2>2. Serves' = [Serves EXCEPT ![id] = {}]
    BY <2>1 DEF Serves
  <2> QED
    BY <2>2 DEF Ownership!Revoke
<1> QED
  BY <1>1, <1>2, ReleaseEffect

\* Every operation of the registry grants paths, revokes them, or changes nothing.
LEMMA NextServes ==
    ASSUME IInv, IInv', [Next]_vars
    PROVE  [Ownership!Next]_Serves
<1>1. ASSUME NEW owner \in Owner, NEW id \in ClaimID, NEW paths \in Requested,
             Create(id, owner, paths)
      PROVE  [Ownership!Next]_Serves
  <2>1. CASE Accepted(owner, paths)
    BY <1>1, <2>1, CreateGrants DEF Ownership!Next
  <2>2. CASE ~Accepted(owner, paths)
    BY <1>1, <2>2 DEF Create, Serves, Claimants
  <2> QED
    BY <2>1, <2>2
<1>2. ASSUME NEW owner \in Owner, NEW id \in ClaimID, Release(owner, id)
      PROVE  [Ownership!Next]_Serves
  BY <1>2, ReleaseRevokes DEF Ownership!Next
<1>3. ASSUME UNCHANGED vars
      PROVE  [Ownership!Next]_Serves
  BY <1>3 DEF vars, Serves, Claimants
<1> QED
  BY <1>1, <1>2, <1>3 DEF Next

\* The registry implements exclusive ownership of request paths: it never hands
\* over a path that another claim still serves, and never takes only some back.
THEOREM RefinesOwnership == Spec => ImplementsOwnership
<1>1. IInv /\ IInv' /\ [Next]_vars => [Ownership!Next]_Serves
  BY NextServes
<1> QED
  BY <1>1, InitServes, Invariance, PTL DEF Spec, vars, ImplementsOwnership, Ownership!Spec
=============================================================================
