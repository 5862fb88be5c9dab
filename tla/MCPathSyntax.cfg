CONSTANTS
    Segment <- MCSegment
    Starred <- MCStarred
    TrimBlanks <- MCTrimBlanks
    Bytes <- MCBytes
    MaxPathLength = 7
    MaxSegments = 4
SPECIFICATION Spec
CHECK_DEADLOCK FALSE
INVARIANTS
    RefusalNeedsTrailingBlank
    AcceptedIsPattern
