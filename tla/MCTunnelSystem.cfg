CONSTANTS
    Segment <- MCSegment
    Empty <- MCEmpty
    ClaimID = {c1, c2}
    Owner = {o1}
    Request = {}
    Requested <- MCOneList
    Allowed <- MCNoAllowlist
    MinPathSegments = 0
    MaxPathsPerClaim = 1
    MaxClaims = 3
    MaxClaimsPerOwner = 2
    Releaser = {d1}
    Caller = {}
    Expiring = FALSE
    None = None
    MaxTunnels = 2
    MaxEvents = 1
SPECIFICATION Spec
CHECK_DEADLOCK FALSE
INVARIANT
    ReadyMeansRoutable
PROPERTY
    ImplementsGateway
