CONSTANTS
    NULL = NULL
    Capacities = {0, 8, 16, 64, 120, 400, 432, 512, 1024}
    Slot = 32
    Values <- Texts
    Files <- All
SPECIFICATION Spec
INVARIANTS TypeOK PoolHolds DocumentIsPrefix OwnFilesRead
CHECK_DEADLOCK FALSE
