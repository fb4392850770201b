SPECIFICATION FairSpec
CONSTANTS
    a = a
    Self = Self
    None = None
    Others <- OneOther
    InboxMax = 2
    MaxCtl = 2
    MaxSub = 2
    MaxSessions = 2
INVARIANTS
    OwnNeverAnnounced
PROPERTIES
    RemoteTracked
