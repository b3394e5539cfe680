---------------------------- MODULE ServerProps ----------------------------
(***************************************************************************)
(* What LightSocks-server promises about its connections, and what the     *)
(* repository says of it that its code does not do.                        *)
(***************************************************************************)
EXTENDS Server, SequencesExt

-----------------------------------------------------------------------------
\* Lifetimes.

\* As long as no deleted context was used, a callback of a local bufferevent never
\* finds its Socks5ctx deleted or reused, and the context->self it reads is the
\* bufferevent it runs on.  A misuse may end this: a context deleted twice is
\* handed out to two connections.
LocalContextLive == ~ub => \A c \in Conn :
    self[c].st = "open" /\ self[c].arg # NULL =>
        Valid(c, self[c].arg) /\ heap[self[c].arg].self = c

\* context->partner is never a bufferevent that was freed, so the callbacks that
\* free it free it once, and it carries the context that points to it.
PartnerOpen == \A a \in Addr :
    heap[a].partner # NULL =>
        remote[heap[a].partner].st = "open" /\ remote[heap[a].partner].arg = a

\* As long as no deleted context was used, a remote bufferevent whose connect
\* got under way belongs to a live context of its own connection: the two
\* bufferevents and the context are released together by whoever is first.
RemoteContextLive == ~ub => \A c \in Conn :
    remote[c].st = "open" /\ remote[c].fd # "none" =>
        /\ Valid(c, remote[c].arg)
        /\ heap[remote[c].arg].partner = c
        /\ self[c].st = "open"

\* The first use of a deleted context is one of two late callbacks: dns_cb for a
\* client that left during its lookup, or the read timeout of a bufferevent
\* whose connect failed at once and whose client left since.
FirstMisuse == [][~ub /\ ub' =>
    \E c \in Conn :
        /\ self[c].st = "freed"
        /\ \/ dns[c] # NULL /\ dns'[c] = NULL
           \/ remote[c].st = "open" /\ remote[c].fd = "none" /\ "timeout" \in remote[c].pending
    ]_vars

-----------------------------------------------------------------------------
\* Streams.

\* The plain data messages 1..n of connection c.
Data(c, n) == [i \in 1..n |-> Plain("data", c, i)]
DataSent(c) == Data(c, IF Len(sent[c]) > 2 THEN Len(sent[c]) - 2 ELSE 0)

\* Between a client and its target nothing is lost, duplicated, reordered, mixed
\* with another connection or left encrypted: what the target has, then the
\* two buffers, is what the client sent.  A client that did not wait for the
\* reply may have lost the beginning of it to handle_last's drain.
UpstreamComplete == ~ub => \A c \in Conn :
    remote[c].st = "open" /\ remote[c].fd # "none" =>
        LET flow == fetched[c] \o remote[c].out \o DecryptAll(self[c].in)
        IN  IF c \in Optimistic THEN IsSuffix(flow, DataSent(c)) ELSE flow = DataSent(c)

\* What the client has received and what is on its way to it, decrypted.
Written(c) == got[c] \o DecryptAll(self[c].out)

\* A client is told the method, then success, then gets its own target's data in
\* order and encrypted exactly once, whatever order the events arrived in; as
\* long as the pair exists, what was not yet written is still in remote.in.
DownstreamInOrder == ~ub => \A c \in Conn :
    LET all == <<Plain("method", c, 0), Plain("reply", c, 0)>> \o Data(c, served[c])
    IN  /\ IsPrefix(Written(c), all)
        /\ remote[c].st = "open" /\ Len(Written(c)) > 1 => Written(c) \o remote[c].in = all

Announced(c) == \E i \in DOMAIN Written(c) : Written(c)[i] = Plain("reply", c, 0)
Asked(c, kind) == Len(sent[c]) > 1 /\ sent[c][2].kind = kind

\* A client that asked for a domain is told "succeeded" only after the connect to
\* its own target has completed.
DomainReplyMeansConnected == ~ub => \A c \in Conn :
    Asked(c, "domain") /\ Announced(c) => remote[c].fd = "connected" \/ remote[c].st = "freed"

-----------------------------------------------------------------------------
\* Release.

Broken == proc = "down" \/ ub

\* When a client leaves, its bufferevent and its context are released, unless it
\* asked for an IPv4 address: handle_second gave that bufferevent a null context
\* and local_event_cb returns at once (the memory leak the README reports).
HangupReleases == \A c \in Conn :
    (self[c].st = "open" /\ self[c].arg # NULL /\ ~self[c].reading)
        ~> (self[c].st = "freed" \/ self[c].arg = NULL \/ Broken)

\* Every remote bufferevent is released in the end, even if its connect failed:
\* once its target has sent all it will send, which is bounded here, at the
\* latest the 15 s read timeout does it.
RemoteReleased == \A c \in Conn :
    remote[c].st = "open" ~> (remote[c].st = "freed" \/ Broken)

-----------------------------------------------------------------------------
\* What the repository says and the code does not do.

\* server.cpp:71-75 expects CONNECTED to come when the local bufferevent is gone
\* and relies on context->self being null then.
GoneLocalIsSeen == \A c \in Conn :
    proc = "up" /\ ConnectedDue(remote[c]) /\ self[c].st = "freed"
        => heap[remote[c].arg].self = NULL

\* The protocol notes give REP 0x00 the meaning "succeeded", the answer to a
\* request to connect to the target.
ReplyMeansConnected == \A c \in Conn :
    Announced(c) => remote[c].fd = "connected" \/ remote[c].st = "freed" \/ Broken
=============================================================================
