CONSTANTS
    Segment <- MCSegment
    Empty <- MCEmpty
    ClaimID = {c1}
    Owner = {o1, o2}
    Request <- MCRequest
    Requested <- MCOneList
    Allowed <- MCNoAllowlist
    MinPathSegments = 0
    MaxPathsPerClaim = 1
    MaxClaims = 2
    MaxClaimsPerOwner = 0
    Releaser = {d1}
    Caller = {q1}
    Expiring = TRUE
    None = None
SPECIFICATION FairSpec
CHECK_DEADLOCK FALSE
PROPERTIES
    ReleasesAnswered
    RequestsAnswered
    ExpiryEnds
    DeadSessionsFree
    SetupEnds
