CONSTANTS
    NULL = NULL
    Conn = {c1, c2}
    Addr = {a1}
    Optimistic = {}
    Greetings = {"noauth"}
    Requests = {"domain", "ipv4"}
    MaxUp = 0
    MaxDown = 1
SPECIFICATION FairSpec
PROPERTIES HangupReleases RemoteReleased
CHECK_DEADLOCK FALSE
