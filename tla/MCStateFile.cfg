CONSTANTS
    Claimer = {p1, p2}
    Releaser = {r1}
    Paths = {l1}
    Earlier = i0
    MaxClaims = 2
    None = None
SPECIFICATION Spec
CHECK_DEADLOCK FALSE
SYMMETRY Symmetry
INVARIANTS
    TypeOK
    ReleaseNotMistaken
    PartialReleaseAccounted
    DetachTruth
    SoleWriterReleasable
