SPECIFICATION FairConnectSpec
CONSTANTS
    None = None
    OutboxMax = 1
    InboxMax = 2
    SyncTimeout = 1
    MaxEpochs = 2
    MaxSends = 1
    MaxDown = 1
    MaxErrors = 1
    Servers <- AllServers
    Localhost <- OnThisMachine
    Entries <- AllEntries
    Hears <- HearsAll
    NoServer = NoServer
    HasCache = FALSE
    MailMax = 2
    MaxStarts = 2
INVARIANTS
    NoStaleEvents
    ReadyAfterHandshake
    HelloAccounted
    FoundIsGenuine
PROPERTIES
    FollowsLifeCycle
    CallsReturn
    ErrorSurfaces
    ReadyEventually
    SearchEnds
