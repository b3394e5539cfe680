CONSTANTS
    NULL = NULL
    Byte <- Bytes
    Size = 4
    Template <- Your
SPECIFICATION FairSpec
INVARIANTS TypeOK TablesMatch
PROPERTIES PasswordKept GenerationEnds
CHECK_DEADLOCK FALSE
