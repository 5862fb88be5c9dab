------------------------------ MODULE Registry ------------------------------
(***************************************************************************)
(* internal/registry's Memory: the claims a gateway holds.  Each operation *)
(* runs under one mutex, so each is one action.                            *)
(***************************************************************************)
EXTENDS ClaimPath, FiniteSets

CONSTANTS
    ClaimID,           \* claim identities; random in the code, never reused
    Owner,
    Request,           \* the request paths that may arrive
    Requested,         \* the path lists a handshake may carry: sequences of Split
    Allowed,           \* allowlist prefixes, as the segments between slashes
    MinPathSegments,
    MaxPathsPerClaim,
    MaxClaims,
    MaxClaimsPerOwner  \* 0 for no limit

\* gatewayconfig.Validate, after Defaults.
ASSUME ConfigAssumption ==
    /\ MaxClaims \in Nat \ {0} /\ MaxPathsPerClaim \in Nat \ {0}
    /\ MaxClaimsPerOwner \in Nat /\ MinPathSegments \in Nat
    /\ Allowed \subseteq Seq(Segment)

ASSUME InputAssumption ==
    Requested \subseteq Seq(Split) /\ Request \subseteq RequestPath

VARIABLES
    claims,  \* claims[id]: the owner and paths of each claim held
    issued   \* the identities given out so far

Claim == [owner : Owner, paths : SUBSET Pattern]

Owned(owner) == {id \in DOMAIN claims : claims[id].owner = owner}
-----------------------------------------------------------------------------
\* strings.HasPrefix(Base(path)+"/", candidate); every candidate ends in "/".
HasPrefix(base, candidate) ==
    /\ Len(candidate) <= Len(base)
    /\ \A i \in 1..Len(candidate) : base[i] = candidate[i]

\* The allowlist consulted the wrong way round: a prefix inside the claim.
AllowlistInverted(p) ==
    Allowed = {} \/ \E c \in Allowed : HasPrefix(p.base, c) \/ HasPrefix(c, p.base)

InAllowlist(p) == Allowed = {} \/ \E c \in Allowed : HasPrefix(p.base, c)

Conflicts(p) ==
    \E id \in DOMAIN claims : \E q \in claims[id].paths : Overlap(p, q)

\* The syntax left to the client.
PathErrorNoSyntax(p) ==
    IF Segments(p) < MinPathSegments \/ ~InAllowlist(p) THEN "not_allowed"
    ELSE IF Conflicts(p) THEN "conflict"
    ELSE "none"

PathError(p) ==
    IF ~Valid(p) THEN "invalid_path"
    ELSE IF Segments(p) < MinPathSegments \/ ~InAllowlist(p) THEN "not_allowed"
    ELSE IF Conflicts(p) THEN "conflict"
    ELSE "none"

\* The limits checked one claim too late.
LimitErrorLate(owner) ==
    IF Cardinality(DOMAIN claims) > MaxClaims THEN "too_many_claims"
    ELSE IF MaxClaimsPerOwner > 0 /\ Cardinality(Owned(owner)) > MaxClaimsPerOwner
    THEN "too_many_owner_claims"
    ELSE "none"

LimitError(owner) ==
    IF Cardinality(DOMAIN claims) >= MaxClaims THEN "too_many_claims"
    ELSE IF MaxClaimsPerOwner > 0 /\ Cardinality(Owned(owner)) >= MaxClaimsPerOwner
    THEN "too_many_owner_claims"
    ELSE "none"

Refused(paths) == {i \in DOMAIN paths : PathError(paths[i]) # "none"}

\* The first path with an error decides; the limits come after every path.
CreateError(owner, paths) ==
    IF Len(paths) \notin 1..MaxPathsPerClaim THEN "invalid_path"
    ELSE IF Refused(paths) = {} THEN LimitError(owner)
    ELSE PathError(paths[Min(Refused(paths))])

Accepted(owner, paths) ==
    /\ Len(paths) \in 1..MaxPathsPerClaim
    /\ Refused(paths) = {}
    /\ LimitError(owner) = "none"

\* Create with identities that may repeat.
CreateReusing(id, owner, paths) ==
    /\ Accepted(owner, paths)
    /\ claims' = [c \in DOMAIN claims \cup {id} |->
                    IF c = id THEN [owner |-> owner,
                                    paths |-> {paths[i] : i \in DOMAIN paths}]
                    ELSE claims[c]]
    /\ issued' = issued \cup {id}

Create(id, owner, paths) ==
    /\ id \in ClaimID \ issued
    /\ IF Accepted(owner, paths)
       THEN /\ claims' = [c \in DOMAIN claims \cup {id} |->
                            IF c = id
                            THEN [owner |-> owner,
                                  paths |-> {paths[i] : i \in DOMAIN paths}]
                            ELSE claims[c]]
            /\ issued' = issued \cup {id}
       ELSE UNCHANGED <<claims, issued>>

\* Not found and forbidden change nothing.
Release(owner, id) ==
    /\ claims' = IF id \in DOMAIN claims /\ claims[id].owner = owner
                 THEN [c \in DOMAIN claims \ {id} |-> claims[c]]
                 ELSE claims
    /\ UNCHANGED issued
-----------------------------------------------------------------------------
Init == claims = << >> /\ issued = {}

Next ==
    \E owner \in Owner, id \in ClaimID :
        \/ \E paths \in Requested : Create(id, owner, paths)
        \/ Release(owner, id)

Spec == Init /\ [][Next]_<<claims, issued>>
-----------------------------------------------------------------------------
TypeOK ==
    /\ claims \in [DOMAIN claims -> Claim]
    /\ DOMAIN claims \subseteq issued
    /\ issued \subseteq ClaimID

\* The claims with a path that a request matches.
Claimants(request) ==
    {id \in DOMAIN claims : \E p \in claims[id].paths : matches(p, request)}

\* Routing is unambiguous: no request path is matched by two claims, whatever
\* order of claims, releases and owners led here.
OneClaimant ==
    \A r \in Request : \A id1, id2 \in Claimants(r) : id1 = id2

\* The allowlist holds of what a claim captures and not only of how the claim is
\* spelled: a request that any claim matches is below an allowed prefix.
Confined ==
    Allowed # {} =>
        \A id \in DOMAIN claims : \A p \in claims[id].paths : \A r \in Request :
            matches(p, r) => \E c \in Allowed : HasPrefix(r, c)

\* A claim is never below the configured depth, so a wildcard cannot capture a
\* whole top-level prefix when the operator forbade it.
DeepEnough ==
    \A id \in DOMAIN claims : \A p \in claims[id].paths : \A r \in Request :
        matches(p, r) => Len(r) >= MinPathSegments

\* Neither limit is ever exceeded.
WithinLimits ==
    /\ Cardinality(DOMAIN claims) <= MaxClaims
    /\ MaxClaimsPerOwner > 0 =>
        \A owner \in Owner : Cardinality(Owned(owner)) <= MaxClaimsPerOwner

\* The request paths each claim serves: the refinement mapping to PathOwnership.
Serves == [id \in ClaimID |-> {r \in Request : id \in Claimants(r)}]

Ownership == INSTANCE PathOwnership WITH
    Tunnel <- ClaimID, Path <- Request, serves <- Serves

\* Every step hands out free paths to one claim, or takes all of its paths back:
\* the registry implements exclusive path ownership.
ImplementsOwnership == Ownership!Spec
=============================================================================
