CONSTANTS
    p = p
    m = m
    p1 = p1
    m1 = m1
    m2 = m2
    NoGroup = ""
    Keys = {p, m}
    Calls = {p1, m1, m2}
    PendingKeys = {p}
    KeyOf <- MCKeyOf
    SymbolOf <- MCSymbolOf
    GroupOf <- MCGroupOf
    LyingAcks = {"VERIFY_FILL"}
    MaxCrashes = 2
SPECIFICATION RecoverySpec
INVARIANTS
    RecoveryTypeOK
    NoDuplicateExecution
    OneInFlightPerSymbol
    FilledIsReal
    ReleaseSurvivesRestart
PROPERTIES
    SettledByBroker
CHECK_DEADLOCK FALSE
