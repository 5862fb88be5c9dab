CONSTANTS
    Segment <- MCSegment
    Empty <- MCEmpty
    ClaimID = {c1, c2}
    Owner = {o1}
    Request <- MCRequest
    Requested <- MCOneList
    Allowed <- MCNoAllowlist
    MinPathSegments = 0
    MaxPathsPerClaim = 1
    MaxClaims = 2
    MaxClaimsPerOwner = 0
    Releaser = {d1}
    Caller = {}
    Expiring = TRUE
    None = None
SPECIFICATION Spec
CHECK_DEADLOCK FALSE
SYMMETRY Symmetry
INVARIANT ReleaseIsFinal
PROPERTY LiveClaimsKept
