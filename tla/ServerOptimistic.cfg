CONSTANTS
    NULL = NULL
    Conn = {c1}
    Addr = {a1}
    Optimistic = {c1}
    Greetings = {"noauth", "noauth_or_more"}
    Requests = {"domain", "ipv4", "ipv6", "bind", "short"}
    MaxUp = 3
    MaxDown = 2
SPECIFICATION Spec
INVARIANTS StreamInv UpstreamComplete DownstreamInOrder
CHECK_DEADLOCK FALSE
