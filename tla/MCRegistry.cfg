CONSTANTS
    Segment <- MCSegment
    Empty <- MCEmpty
    ClaimID = {c1, c2, c3}
    Owner = {o1, o2}
    Request <- MCRequest
    Requested <- MCRequested
    Allowed <- MCAllowed
    MinPathSegments = 2
    MaxPathsPerClaim = 2
    MaxClaims = 2
    MaxClaimsPerOwner = 1
SPECIFICATION Spec
INVARIANTS
    TypeOK
    OneClaimant
    WithinLimits
    Confined
    DeepEnough
PROPERTY ImplementsOwnership
