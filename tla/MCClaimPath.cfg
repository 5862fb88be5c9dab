CONSTANTS
    Character = {"a", "b"}
    Segment <- MCSegment
    Empty <- MCEmpty
    MaxBase = 2
    MaxPath = 3
SPECIFICATION Spec
INVARIANTS
    MatchAgreesWithText
    OverlapIsExact
