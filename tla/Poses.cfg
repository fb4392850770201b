SPECIFICATION PosesSpec
CONSTANTS
    None = None
    Rooms <- TwoRooms
    ObjSuffix <- Suffix
    SubHwm = 4
    InboxMax = 1
    MaxMessages = 3
    MaxSessions = 2
    Stealth = Stealth
    NoPose = NoPose
    p1 = p1
    p2 = p2
    Poses <- TwoPoses
    Intervals = {1, 2, 3}
    Heartbeat = 5
INVARIANTS
    SeenInRoomAndOrder
    NewestDelivered
    ControlAccounted
    PoseNeverStale
    HeartbeatKept
