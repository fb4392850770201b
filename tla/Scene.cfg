SPECIFICATION FairSpec
CONSTANTS
    a = a
    b = b
    c = c
    None = None
    Nodes <- TwoNodes
    IdOf <- SharedId
    Claiming <- OneClaims
    Numbers <- TwoNumbers
    MaxSessions = 2
    MaxInbox = 1
INVARIANTS
    VisitTellsOwner
PROPERTIES
    NodeFollows
