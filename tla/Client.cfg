CONSTANTS
    MaxTunnels = 3
    MaxEvents = 2
SPECIFICATION FairSpec
CHECK_DEADLOCK FALSE
INVARIANTS
    TypeOK
    NoTunnelLeaks
    ClaimIsCurrent
    EndHasReason
    TerminalIsTrue
PROPERTIES
    CloseReturns
    TerminalReported
