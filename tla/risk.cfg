CONSTANTS
    s1 = s1
    s2 = s2
    a1 = a1
    p1 = p1
    NoToken = NoToken
    Stub = Stub
    Slots = {s1, s2}
    Symbols = {"EURUSD", "GBPUSD"}
    Activations = {a1}
    Promotions = {p1}
    Setups = {"old", "new"}
    CanaryFills = 2
    RiskPerTrade = 100
    MaxRiskPerTrade = 150
    MinMarginLevel = 150
    Quotes <- MCQuotes
    Risk <- MCLimits
    Weight <- MCWeight
    Bounds <- MCBounds
SYMMETRY Symmetry
SPECIFICATION RiskSpec
INVARIANTS
    RiskTypeOK
    VetoesBite
    CapsOvershootBySlots
    SendsAreFused
    FullSizeIsEarned
    ReArmNeedsHuman
CHECK_DEADLOCK FALSE
