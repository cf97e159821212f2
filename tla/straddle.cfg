CONSTANTS
    p = p
    q = q
    p1 = p1
    q1 = q1
    d1 = d1
    d2 = d2
    NoGroup = ""
    Keys = {p, q}
    Calls = {p1, q1}
    PendingKeys = {p, q}
    KeyOf <- MCKeyOf
    SymbolOf <- MCSymbolOf
    GroupOf <- MCGroupOf
    LyingAcks = {}
    Detections = {d1, d2}
SPECIFICATION StraddleSpec
INVARIANTS
    ReleasedIsDead
    CancelsOnce
    BackstopFrees
CHECK_DEADLOCK FALSE
