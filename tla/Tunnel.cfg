CONSTANTS
    NULL = NULL
    Conn = {c1}
    Addr = {a1}
    Requests = {"domain", "ipv4", "ipv6"}
    MaxUp = 2
    MaxDown = 2
SPECIFICATION FairSpec
INVARIANTS UpConserved AppReadsOnlyItsOwn TargetReadsOnlyItsOwn
PROPERTY TunnelReleased
CHECK_DEADLOCK FALSE
