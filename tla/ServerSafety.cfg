CONSTANTS
    NULL = NULL
    Conn = {c1, c2, c3}
    Addr = {a1, a2}
    Optimistic = {}
    Greetings = {"noauth"}
    Requests = {"domain"}
    MaxUp = 0
    MaxDown = 0
SPECIFICATION Spec
SYMMETRY Symmetry
INVARIANTS TypeOK StreamInv LocalContextLive PartnerOpen RemoteContextLive DomainReplyMeansConnected
PROPERTY FirstMisuse
CHECK_DEADLOCK FALSE
