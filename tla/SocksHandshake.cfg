CONSTANTS
    NULL = NULL
    Byte <- Bytes
    Password <- Rotated
    Scratch = 32
    ReadMax = 63
    Clients <- Some
SPECIFICATION FairSpec
INVARIANTS OnlyLongOrEager AskedRight
PROPERTY Served
CHECK_DEADLOCK FALSE
