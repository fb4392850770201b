SPECIFICATION FormatsSpec
CONSTANTS
    Messages <- MCMessages
    ForeignPoses <- MCForeignPoses
    U8Max = 4
    U16Max = 13
    MaxVirtuals = 2
    MaxNameChars = 2
    MaxValueChars = 3
    MaxDepth = 2
    Numerals <- MCNumerals
    strtod <- MCstrtod
    Infinity = Infinity
    Printed <- MCPrinted
    HexOf <- MCHexOf
    Fragments <- MCFragments
    Characters <- MCCharacters
    MaxText = 7
    MaxString = 4
    NoId = NoId
    Size = 2
    MaxLaunches = 4
INVARIANTS
    RoundTrip
    TruncationRefused
    StaysAligned
    ArgumentsSurvive
    CompactFormFaithful
    IdentitySurvives
CHECK_DEADLOCK FALSE
