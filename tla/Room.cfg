SPECIFICATION RoomSpec
CONSTANTS
    None = None
    g = g
    c = c
    v1 = v1
    v2 = v2
    Keys <- GlobalAndClient
    Scope <- ScopeOf
    Global = "global"
    Mine = "mine"
    Values <- TwoValues
    MaxVars = 1
    Debounce = 1
    MaxUp = 2
    MaxDown = 2
    Nobody = Nobody
    Me = Me
    Other = Other
    p1 = p1
    p2 = p2
    Ids <- OneId
    Poses <- TwoPoses
    Interval = 1
    Heartbeat = 1
    InboxMax = 1
    MaxCtl = 2
    MaxSub = 1
CONSTRAINT OneKeyWritten
SYMMETRY PosesAlike
INVARIANTS
    GlobalIntentKept
    DedupeCoherent
    OwnerCoherent
PROPERTIES
    PublishesOnlyGranted
