CONSTANTS
    NULL = NULL
    Conn = {c1, c2}
    MaxUp = 2
    MaxDown = 2
SPECIFICATION FairSpec
INVARIANTS TypeOK IInv NeverDown StreamsWhole FlushedBeforeFreed
PROPERTIES ImplementsConnection PairReleased
CHECK_DEADLOCK FALSE
