SPECIFICATION FairSpec
CONSTANTS
    None = None
    Nobody = Nobody
    Me = Me
    Other = Other
    p1 = p1
    p2 = p2
    Ids <- OneId
    Poses <- TwoPoses
    Interval = 1
    Heartbeat = 2
    InboxMax = 1
    MaxCtl = 1
    MaxSub = 1
PROPERTIES
    PosePublished
