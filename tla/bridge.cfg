CONSTANTS
    Grace = 1
    PendingGrace = 1
    MaxConns = 2
    MaxOrders = 1
SPECIFICATION Spec
INVARIANTS
    TypeOK
    EntriesNeedResync
PROPERTIES
    SilenceEndsEntries
    LinkLossIsSafe
    LinkComesBack
CHECK_DEADLOCK FALSE
