CONSTANTS
    m = m
    n = n
    m1 = m1
    m2 = m2
    n1 = n1
    NoGroup = ""
    Keys = {m, n}
    Calls = {m1, m2, n1}
    PendingKeys = {n}
    KeyOf <- MCKeyOf
    SymbolOf <- MCSymbolOf
    GroupOf <- MCGroupOf
    LyingAcks = {"VERIFY_FILL", "ACCEPT_PARTIAL"}
SPECIFICATION FairSpec
INVARIANTS
    TypeOK
    NoDuplicateExecution
    OneInFlightPerSymbol
    FilledIsReal
    ReleasedIsDead
    SendsAreBudgeted
PROPERTIES
    ResendOnlyIfAbsent
    ImplementsProtocol
    CallsReturn
CHECK_DEADLOCK FALSE
