CONSTANTS
    Segment <- MCSegment
    Empty <- MCEmpty
    ClaimID = {c1, c2}
    Owner = {o1, o2}
    Request <- MCRequest
    Requested <- MCOneList
    Allowed <- MCNoAllowlist
    MinPathSegments = 0
    MaxPathsPerClaim = 1
    MaxClaims = 2
    MaxClaimsPerOwner = 0
    Releaser = {}
    Caller = {q1}
    Expiring = FALSE
    None = None
SPECIFICATION Spec
CHECK_DEADLOCK FALSE
SYMMETRY Symmetry
INVARIANTS
    TypeOK
    ClaimsHaveHandlers
    OriginOnlyWhenUnclaimed
    ReplacedIsFree
