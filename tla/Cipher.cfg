CONSTANTS
    Size = 3
    EncChunk = 2
    DecChunk = 3
    MaxBytes = 3
SPECIFICATION FairSpec
INVARIANTS TypeOK IInv TableInverts RoundTrip
PROPERTY AllDelivered
CHECK_DEADLOCK FALSE
