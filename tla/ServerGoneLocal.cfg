CONSTANTS
    NULL = NULL
    Conn = {c1, c2}
    Addr = {a1}
    Optimistic = {}
    Greetings = {"noauth"}
    Requests = {"domain"}
    MaxUp = 0
    MaxDown = 0
SPECIFICATION Spec
INVARIANT GoneLocalIsSeen
CHECK_DEADLOCK FALSE
