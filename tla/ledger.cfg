CONSTANTS
    Processes = {desk, second, cli}
    Journaling = {desk, second}
    MaxRows = 3
SPECIFICATION Spec
INVARIANTS
    TypeOK
    BrokenOnlyIfShared
    JournalFollowsChain
CHECK_DEADLOCK FALSE
