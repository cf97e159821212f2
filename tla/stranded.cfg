CONSTANTS
    p = p
    m = m
    p1 = p1
    m1 = m1
    m2 = m2
    NoGroup = ""
    Keys = {p, m}
    Calls = {p1, m1, m2}
    PendingKeys = {p}
    KeyOf <- MCKeyOf
    SymbolOf <- MCSymbolOf
    GroupOf <- MCGroupOf
    LyingAcks = {"VERIFY_FILL"}
    MaxCrashes = 1
SPECIFICATION RecoverySpec
PROPERTIES
    InFlightIsListed
CHECK_DEADLOCK FALSE
