SPECIFICATION FairSpec
CONSTANTS
    None = None
    p1 = p1
    p2 = p2
    Payloads <- TwoPayloads
    ObjectIds <- ZeroToTwo
    OutboxMax = 2
    DrainBatch = 2
    TTL = 1
    MaxSessions = 2
    MaxControl = 3
    MaxReports = 2
    MaxClock = 2
ACTION_CONSTRAINT KindKept
INVARIANTS
    SessionIsolation
PROPERTIES
    StopReturns
    ControlLeaves
    PosesDelivered
    ImplementsControlLane
    ImplementsSlots
