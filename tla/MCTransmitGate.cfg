CONSTANTS
    Lease = 2
    Burst = 4
    Skew = 1
    MaxEdges = 4
    Horizon = 7
SPECIFICATION Spec
INVARIANTS
    ReleaseFences
    ExpiryNeedsRelease
    TalkIsBounded
CHECK_DEADLOCK FALSE
