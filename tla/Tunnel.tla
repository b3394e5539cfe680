------------------------------- MODULE Tunnel -------------------------------
(***************************************************************************)
(* An application, LightSocks-client, LightSocks-server and a target: the  *)
(* two proxies of Client and Server with the TCP connection between them.  *)
(*                                                                         *)
(* Client!remote[c] and Server!self[c] are the two ends of it.  What the   *)
(* client's kernel has taken (uploaded) and the server has not read (sent) *)
(* is in flight, and the same the other way (got, downloaded).  The        *)
(* network may break the connection at any time: each end then sees it by  *)
(* itself, early or late, and what is in flight is lost with it.           *)
(***************************************************************************)
EXTENDS Message

CONSTANTS NULL, Conn, Addr, Requests, MaxUp, MaxDown

ASSUME TunnelAssumption ==
    /\ NULL \notin Conn \cup Addr
    /\ NULL \notin {"local_read_cb", "remote_read_cb", "close_on_finished_write_cb"}
    /\ Requests \subseteq AllRequests
    /\ MaxUp \in Nat /\ MaxDown \in Nat

VARIABLES
    clientProc, local, uplink, typed, shown, uploaded, downloaded, gone,
    serverProc, heap, self, remote, dns, running, ub, sent, got, served, fetched,
    linked  \* connections whose TCP handshake was completed

Client == INSTANCE Client WITH proc <- clientProc, remote <- uplink,
                               MaxUp <- MaxUp + 2, MaxDown <- MaxDown + 2
Server == INSTANCE Server WITH proc <- serverProc, Optimistic <- {}, Greetings <- {"noauth"}

clientVars == <<clientProc, local, uplink, typed, shown, uploaded, downloaded, gone>>
serverVars == <<serverProc, heap, self, remote, dns, running, ub, sent, got, served, fetched>>
vars == <<clientVars, serverVars, linked>>

Init == Client!Init /\ Server!Init /\ linked = {}

\* One side moves and the other does not notice yet.
InClient(step) == step /\ UNCHANGED <<serverVars, linked>>
InServer(step) == step /\ UNCHANGED <<clientVars, linked>>

-----------------------------------------------------------------------------
\* An application asks as SOCKS5 wants it: it waits for each answer.
Heard(c, kind) == \E i \in DOMAIN shown[c] : shown[c][i] = Plain(kind, c, 0)

Saying(c) ==
    LET n == Len(typed[c])
    IN  CASE n = 0 -> {Plain("noauth", c, 0)}
          [] n = 1 /\ Heard(c, "method") -> {Plain(k, c, 0) : k \in Requests}
          [] n > 1 /\ n < MaxUp + 2 /\ Heard(c, "reply") -> {Plain("data", c, n - 1)}
          [] OTHER -> {}

AppSends(c) == InClient(\E m \in Saying(c) : Client!LocalReads(c, m))
AppLeaves(c) == InClient(Client!LocalEnds(c))
AppReceives(c) == InClient(Client!LocalWrites(c))

-----------------------------------------------------------------------------
\* The TCP connection between the proxies.

\* The kernels complete the handshake; the server's listen_cb runs later.
Handshake(c) ==
    /\ Client!RemoteConnects(c)
    /\ linked' = linked \cup {c}
    /\ UNCHANGED serverVars

Unreachable(c) == InClient(Client!RemoteRefused(c))
Accepts(c) == c \in linked /\ InServer(Server!listen_cb(c))

Uploads(c) == InClient(Client!RemoteWrites(c))

ServerReads(c) == InServer(
    /\ Len(sent[c]) < Len(uploaded[c])
    /\ Server!SelfReceives(c, Decrypt(uploaded[c][Len(sent[c]) + 1])))

ServerWrites(c) == InServer(Server!ClientReceives(c))

ClientReads(c) == InClient(
    /\ Len(downloaded[c]) < Len(got[c])
    /\ Client!RemoteReads(c, Encrypt(got[c][Len(downloaded[c]) + 1])))

\* An end sees that the other has closed, or that the network failed.
ServerSeesEnd(c) == InServer(Server!ClientLeaves(c))
ClientSeesEnd(c) == InClient(Client!RemoteEnds(c))
ClientTimesOut(c) == InClient(Client!RemoteTimesOut(c))

-----------------------------------------------------------------------------
ServerRuns(c) ==
    \/ InServer(Server!Callback(c)) \/ InServer(Server!LookupReturns(c))
    \/ InServer(Server!ReadTimeout(c))

Target(c) ==
    \/ InServer(Server!ConnectEnds(c)) \/ InServer(Server!TargetSends(c))
    \/ InServer(Server!TargetReceives(c)) \/ InServer(Server!TargetLeaves(c))

Next == \E c \in Conn :
    \/ InClient(Client!listen_cb(c)) \/ AppSends(c) \/ AppLeaves(c) \/ AppReceives(c)
    \/ Handshake(c) \/ Unreachable(c) \/ Accepts(c)
    \/ Uploads(c) \/ ServerReads(c) \/ ServerWrites(c) \/ ClientReads(c)
    \/ ServerSeesEnd(c) \/ ClientSeesEnd(c) \/ ClientTimesOut(c)
    \/ ServerRuns(c) \/ Target(c)

Spec == Init /\ [][Next]_vars

\* The fairness of the two proxies, and a network that delivers what was written and
\* tells an end that the other one has closed.  Nothing is assumed of applications,
\* targets and failures.
Fairness == \A c \in Conn :
    /\ WF_vars(Handshake(c) \/ Unreachable(c)) /\ WF_vars(ClientTimesOut(c))
    /\ WF_vars(AppReceives(c)) /\ WF_vars(Uploads(c))
    /\ WF_vars(Accepts(c)) /\ WF_vars(InServer(Server!Callback(c)))
    /\ WF_vars(InServer(Server!LookupReturns(c))) /\ WF_vars(InServer(Server!ReadTimeout(c)))
    /\ WF_vars(uplink[c].st = "freed" /\ ServerSeesEnd(c))

FairSpec == Spec /\ Fairness

-----------------------------------------------------------------------------
\* Properties.

From(s, n) == SubSeq(s, n, Len(s))
Whole(c) == local[c].st = "open" /\ uplink[c].st = "open"
            /\ self[c].st = "open" /\ remote[c].st = "open" /\ remote[c].fd # "none"

\* While the four bufferevents exist, what the application typed after its request is
\* what the target has, then the server's two buffers, the wire and the client's
\* buffer: in order, once, and with the two substitutions undone exactly once.
UpConserved == ~ub => \A c \in Conn : Whole(c) =>
    fetched[c] \o remote[c].out
      \o DecryptAll(self[c].in \o From(uploaded[c], Len(sent[c]) + 1) \o uplink[c].out)
    = From(typed[c], 3)

Answers(c) == <<Plain("method", c, 0), Plain("reply", c, 0)>>
                \o [i \in 1..served[c] |-> Plain("data", c, i)]

\* Whatever breaks, an application never reads anything but the start of what its own
\* connection was answered: the two handshake messages and the target's data, in clear.
AppReadsOnlyItsOwn == ~ub => \A c \in Conn :
    \E n \in 0..Len(Answers(c)) : shown[c] = SubSeq(Answers(c), 1, n)

\* The same for the target: only the start of what the application typed after its request.
TargetReadsOnlyItsOwn == ~ub => \A c \in Conn :
    \E n \in 0..Len(typed[c]) : fetched[c] = SubSeq(typed[c], 3, n)

Broken == serverProc = "down" \/ ub

\* The server gives its clients no timeout (server.cpp:145-146), and is rid of them all
\* the same when LightSocks-client is in front of it: the client's 15 s timer, or the
\* application's leaving, closes the tunnel, and the server follows.  Only the context
\* that the IPv4 branch drops keeps its bufferevent.
TunnelReleased == \A c \in Conn :
    self[c].st = "open" ~> (self[c].st = "freed" \/ self[c].arg = NULL \/ Broken)
=============================================================================
