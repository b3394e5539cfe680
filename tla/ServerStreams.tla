--------------------------- MODULE ServerStreams ---------------------------
(***************************************************************************)
(* The inductive invariant behind the stream properties of ServerProps.    *)
(* Until a deleted context is used, every connection is in one phase of    *)
(* the handshake, told by the callback its local bufferevent has, and the  *)
(* phase says how much has been written to the client, what is unread, and *)
(* where the data messages are that were sent so far.                      *)
(***************************************************************************)
EXTENDS ServerInvariant

\* How many data messages the client of c has sent.
DataCount(c) == IF Len(sent[c]) > 2 THEN Len(sent[c]) - 2 ELSE 0

\* s is the end of the data messages 1..n of connection c.
LastOf(c, s, n) ==
    Len(s) <= n /\ \A i \in 1..Len(s) : s[i] = Plain("data", c, n - Len(s) + i)

\* The i-th message a client is to receive.
Answer(c, i) ==
    IF i = 1 THEN Plain("method", c, 0)
    ELSE IF i = 2 THEN Plain("reply", c, 0)
    ELSE Plain("data", c, i - 2)

\* s is a beginning of what the client of c is to receive.
Ordered(c, s) == \A i \in 1..Len(s) : s[i] = Answer(c, i)

\* What left the client of c for its target, from the target backwards.
Flow(c) == fetched[c] \o remote[c].out \o DecryptAll(self[c].in)

\* The reply to a domain request is still to be written.
Waiting(c) == remote[c].fd # "connected" \/ "connected" \in remote[c].pending

-----------------------------------------------------------------------------
\* What holds in every phase.

\* A client sends a greeting, a request, and then its data in order.
InProtocol(c) == \A i \in 1..Len(sent[c]) :
    /\ i = 1 => sent[c][i].kind \in AllGreetings
    /\ i = 2 => sent[c][i].kind \in AllRequests
    /\ i > 2 => sent[c][i] = Plain("data", c, i - 2)

\* The input buffer holds the end of what the client has sent.
Unread(c) ==
    LET k == Len(sent[c]) - Len(self[c].in)
    IN  k >= 0 /\ \A i \in 1..Len(self[c].in) : self[c].in[i] = Encrypt(sent[c][k + i])

\* A read callback is scheduled only when there is something to read, and on a
\* target's bufferevent nothing but events before its connect has succeeded.
Scheduled(c) ==
    /\ "read" \in self[c].pending => self[c].in # <<>>
    /\ remote[c].pending \cap {"connected", "read"} # {} => remote[c].fd = "connected"

\* What was written to the client is the beginning of what it is to receive.
InOrder(c) == Ordered(c, Written(c))

\* Without a target nothing has come from it, and without a socket nothing has
\* gone to it.
NoTarget(c) ==
    /\ remote[c].st = "none" => remote[c] = Absent /\ served[c] = 0
    /\ remote[c].st # "freed" /\ remote[c].fd = "none" =>
         fetched[c] = <<>> /\ remote[c].out = <<>>

-----------------------------------------------------------------------------
\* The phases of a connection whose local bufferevent is open.

Greeting(c) ==
    /\ self[c].readcb = "local_read_cb"
    /\ Len(sent[c]) <= 1
    /\ Len(Written(c)) = 0

Requesting(c) ==
    /\ self[c].readcb = "handle_second"
    /\ c \notin Optimistic => Len(sent[c]) <= 2
    /\ Len(Written(c)) = 1

\* The IPv4 branch: success was reported and no target will ever exist.
Stranded(c) ==
    /\ self[c].readcb = "handle_last" /\ self[c].arg = NULL
    /\ Asked(c, "ipv4")
    /\ Len(Written(c)) = 2

\* The domain branch, before and after the reply.
Relaying(c) ==
    /\ self[c].readcb = "handle_last" /\ self[c].arg # NULL
    /\ Asked(c, "domain")
    /\ LastOf(c, Flow(c), DataCount(c))
    /\ c \notin Optimistic => Len(Flow(c)) = DataCount(c)
    /\ LastOf(c, remote[c].in, served[c])
    /\ IF Waiting(c)
         THEN /\ Len(Written(c)) = 1
              /\ Len(remote[c].in) = served[c]
              /\ c \notin Optimistic => Len(sent[c]) = 2
         ELSE Len(Written(c)) + Len(remote[c].in) = served[c] + 2

\* Before the connection, and after its release.
NotThere(c) ==
    /\ self[c].in = <<>> /\ self[c].out = <<>>
    /\ Len(got[c]) <= served[c] + 2
    /\ remote[c].st # "freed" => Len(got[c]) <= 1
    /\ self[c].st = "none" => sent[c] = <<>> /\ got[c] = <<>>

InPhase(c) ==
    IF Open(self[c])
      THEN /\ remote[c].st # "freed"
           /\ Greeting(c) \/ Requesting(c) \/ Stranded(c) \/ Relaying(c)
      ELSE NotThere(c)

Intact(c) ==
    /\ InProtocol(c) /\ Unread(c) /\ Scheduled(c)
    /\ InOrder(c) /\ NoTarget(c) /\ InPhase(c)

\* The streams of every connection are where its phase says.
Streams == ~ub => \A c \in Conn : Intact(c)

\* The inductive invariant of the server: its lifetimes and its streams.
StreamInv == IInv /\ Streams
=============================================================================
