SPECIFICATION Spec
CONSTANTS
    None = None
    g = g
    c = c
    v1 = v1
    v2 = v2
    Keys <- JustClient
    Scope <- ScopeOf
    Global = "global"
    Mine = "mine"
    Values <- TwoValues
    MaxVars = 1
    Debounce = 1
    MaxUp = 2
    MaxDown = 2
INVARIANT ClientIntentKept
