SPECIFICATION ConnectSpec
CONSTANTS
    None = None
    OutboxMax = 2
    InboxMax = 2
    SyncTimeout = 1
    MaxEpochs = 1
    MaxSends = 1
    MaxDown = 1
    MaxErrors = 0
    Servers <- AllServers
    Localhost <- OnThisMachine
    Entries <- AllEntries
    Hears <- HearsAll
    NoServer = NoServer
    HasCache = FALSE
    MailMax = 2
    MaxStarts = 0
INVARIANT HelloFirst
