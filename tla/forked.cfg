CONSTANTS
    Processes = {desk, cli}
    Journaling = {desk}
    MaxRows = 3
SPECIFICATION Spec
INVARIANTS
    ChainIntact
CHECK_DEADLOCK FALSE
