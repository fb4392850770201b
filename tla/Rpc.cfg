SPECIFICATION FairSpec
CONSTANTS
    Limits <- TwoLimits
    Windows <- TwoWindows
    MaxPending = 2
    TTL = 1
    MaxFlush = 2
    Idle = Idle
    MaxRpc = 3
INVARIANTS
    RateLimited
    QueuedAccounted
PROPERTIES
    PendingLeaves
