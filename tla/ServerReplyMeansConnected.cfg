CONSTANTS
    NULL = NULL
    Conn = {c1}
    Addr = {a1}
    Optimistic = {}
    Greetings = {"noauth"}
    Requests = {"domain", "ipv4"}
    MaxUp = 0
    MaxDown = 0
SPECIFICATION Spec
INVARIANT ReplyMeansConnected
CHECK_DEADLOCK FALSE
