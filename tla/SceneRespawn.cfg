SPECIFICATION Spec
CONSTANTS
    a = a
    b = b
    c = c
    None = None
    Nodes <- ThreeNodes
    IdOf <- SharedId
    Claiming <- OneClaims
    Numbers <- TwoNumbers
    MaxSessions = 2
    MaxInbox = 1
INVARIANT NodeServed
