------------------------------- MODULE Client -------------------------------
(***************************************************************************)
(* LightSocks-client: client.cpp.                                          *)
(*                                                                         *)
(* listen_cb makes two bufferevents for a connection c of an application:  *)
(* local[c] for the application and remote[c] for the server.  The         *)
(* argument of the callbacks of each is the other one, or null once the    *)
(* other one is gone.  There is no context object.                         *)
(*                                                                         *)
(* Unlike the server's, these bufferevents do not defer their callbacks: a *)
(* callback runs inside the libevent function that saw the event, so an    *)
(* event and its callback are one action here.                             *)
(***************************************************************************)
EXTENDS Bufferevent, Message

CONSTANTS
    Conn,     \* connections of applications
    MaxUp,    \* bound: messages an application sends
    MaxDown   \* bound: messages the server sends

\* The callbacks a bufferevent may have: read and write.
ClientCallbacks == {"local_read_cb", "remote_read_cb", "close_on_finished_write_cb"}

ASSUME ClientAssumption ==
    /\ NULL \notin Conn /\ NULL \notin ClientCallbacks
    /\ MaxUp \in Nat /\ MaxDown \in Nat

Messages == MessagesOf(Conn)

VARIABLES
    proc,       \* "up" or "down": the process crashed
    local,      \* by connection: the bufferevent of the application
    remote,     \* by connection: the bufferevent of the server
    typed,      \* by connection: what the application has sent
    shown,      \* by connection: what the application has received
    uploaded,   \* by connection: what TCP has taken for the server
    downloaded, \* by connection: what TCP has brought from the server
    gone        \* by connection: which peers have left it, or let the timer run out

streams == <<typed, shown, uploaded, downloaded>>
peers == <<streams, gone>>
vars == <<proc, local, remote, peers>>

Pipes == Bufferevents(Conn, ClientCallbacks, Messages)

TypeOK ==
    /\ proc \in {"up", "down"}
    /\ local \in [Conn -> Pipes]
    /\ remote \in [Conn -> Pipes]
    /\ typed \in [Conn -> Seq(Messages)]
    /\ shown \in [Conn -> Seq(Messages)]
    /\ uploaded \in [Conn -> Seq(Messages)]
    /\ downloaded \in [Conn -> Seq(Messages)]
    /\ gone \in [Conn -> SUBSET {"application", "server", "timer"}]

Init ==
    /\ proc = "up"
    /\ local = [c \in Conn |-> Absent]
    /\ remote = [c \in Conn |-> Absent]
    /\ typed = [c \in Conn |-> <<>>]
    /\ shown = [c \in Conn |-> <<>>]
    /\ uploaded = [c \in Conn |-> <<>>]
    /\ downloaded = [c \in Conn |-> <<>>]
    /\ gone = [c \in Conn |-> {}]

Up == proc = "up"

-----------------------------------------------------------------------------
\* client::listen_cb.  The result of bufferevent_socket_connect is only logged:
\* when it fails at once the remote bufferevent has no socket.
listen_cb(c) ==
    /\ Up
    /\ local[c].st = "none"
    /\ local' = [local EXCEPT ![c] = Opened("connected", c, "local_read_cb", FALSE)]
    /\ \E fd \in {"connecting", "none"} :
         remote' = [remote EXCEPT ![c] = Opened(fd, c, "remote_read_cb", TRUE)]
    /\ UNCHANGED <<proc, peers>>

\* What the read callbacks do to the other bufferevent: everything is converted
\* and appended to its output.
Given(b, data) == [b EXCEPT !.out = @ \o data]

\* Mutant: the context is cleared, the read callback and EV_READ are not.
Closing_still_reading(b) == [b EXCEPT !.writecb = "close_on_finished_write_cb", !.arg = NULL]

\* Mutant: the write and the event callback are passed in the wrong order.
Closing_swapped(b) == [b EXCEPT !.readcb = NULL, !.writecb = "remote_event_cb",
                                !.arg = NULL, !.reading = FALSE]

\* bufferevent_setcb(partner, 0, close_on_finished_write_cb, ..., 0) and
\* bufferevent_disable(partner, EV_READ).
Closing(b) == [b EXCEPT !.readcb = NULL, !.writecb = "close_on_finished_write_cb",
                        !.arg = NULL, !.reading = FALSE]

\* Mutant: the partner is freed at once.
LeftBehind_freed(b, data) == Freed

\* What the event callbacks do to the partner of a bufferevent that saw end of file
\* or an error: it gets the data that was still unread, and is kept until that and
\* all it had is written, or freed if there is nothing to write.
LeftBehind(b, data) ==
    IF Given(b, data).out # <<>> THEN Closing(Given(b, data)) ELSE Freed

-----------------------------------------------------------------------------
\* The application's side.

\* Mutant: the data is copied out and stays in the input buffer.
local_read_cb_copied(c, data) ==
    /\ local[c].arg # NULL
    /\ remote' = [remote EXCEPT ![local[c].arg] = Given(@, EncryptAll(data))]
    /\ local' = [local EXCEPT ![c].in = data]
    /\ UNCHANGED proc

\* client::local_read_cb.  The process does not survive a read without a partner:
\* bufferevent_get_output(nullptr).
local_read_cb(c, data) ==
    IF local[c].arg = NULL
      THEN /\ proc' = "down"
           /\ UNCHANGED <<local, remote>>
      ELSE /\ remote' = [remote EXCEPT ![local[c].arg] = Given(@, EncryptAll(data))]
           /\ local' = [local EXCEPT ![c].in = <<>>]
           /\ UNCHANGED proc

\* The application sends m; without a read callback it stays in the input buffer.
LocalReads(c, m) ==
    /\ Up
    /\ CanRead(local[c])
    /\ typed' = [typed EXCEPT ![c] = Append(@, m)]
    /\ IF local[c].readcb = NULL
         THEN /\ local' = [local EXCEPT ![c].in = Append(@, m)]
              /\ UNCHANGED <<proc, remote>>
         ELSE local_read_cb(c, Append(local[c].in, m))
    /\ UNCHANGED <<shown, uploaded, downloaded, gone>>

\* client::local_event_cb with end of file or an error.  There is no timeout on this
\* side, so its other branches are never taken.
local_event_cb(c) ==
    /\ remote' = [x \in Conn |-> IF x = local[c].arg
                                   THEN LeftBehind(remote[x], EncryptAll(local[c].in))
                                   ELSE remote[x]]
    /\ local' = [local EXCEPT ![c] = Freed]
    /\ UNCHANGED proc

\* The peer has left: end of file, a reset, a refused connect, silence.
Leaves(c, peer) == gone' = [gone EXCEPT ![c] = @ \cup {peer}] /\ UNCHANGED streams

\* The application closes the connection, or a read or a write fails.
LocalEnds(c) ==
    /\ Up
    /\ CanRead(local[c]) \/ CanWrite(local[c])
    /\ local_event_cb(c)
    /\ Leaves(c, "application")

\* Mutant: nothing is freed when the output buffer is empty.
Written_not_freed(b) == Flushed(b)

\* The kernel takes what b has to write; close_on_finished_write_cb frees it when
\* that was the last of it.
Written(b) ==
    IF b.writecb = "close_on_finished_write_cb" /\ Len(b.out) = 1 THEN Freed ELSE Flushed(b)

LocalWrites(c) ==
    /\ Up
    /\ CanWrite(local[c])
    /\ shown' = [shown EXCEPT ![c] = Append(@, Head(local[c].out))]
    /\ local' = [local EXCEPT ![c] = Written(@)]
    /\ UNCHANGED <<proc, remote, typed, uploaded, downloaded, gone>>

-----------------------------------------------------------------------------
\* The server's side.

remote_read_cb(c, data) ==
    IF remote[c].arg = NULL
      THEN /\ proc' = "down"
           /\ UNCHANGED <<local, remote>>
      ELSE /\ local' = [local EXCEPT ![remote[c].arg] = Given(@, DecryptAll(data))]
           /\ remote' = [remote EXCEPT ![c].in = <<>>]
           /\ UNCHANGED proc

RemoteReads(c, m) ==
    /\ Up
    /\ CanRead(remote[c])
    /\ downloaded' = [downloaded EXCEPT ![c] = Append(@, m)]
    /\ IF remote[c].readcb = NULL
         THEN /\ remote' = [remote EXCEPT ![c].in = Append(@, m)]
              /\ UNCHANGED <<proc, local>>
         ELSE remote_read_cb(c, Append(remote[c].in, m))
    /\ UNCHANGED <<typed, shown, uploaded, gone>>

\* client::remote_event_cb with CONNECTED: nothing is done.
RemoteConnects(c) ==
    /\ Up
    /\ remote[c].st = "open" /\ remote[c].fd = "connecting"
    /\ remote' = [remote EXCEPT ![c].fd = "connected"]
    /\ UNCHANGED <<proc, local, peers>>

\* client::remote_event_cb with end of file or an error.
remote_event_cb(c) ==
    /\ local' = [x \in Conn |-> IF x = remote[c].arg
                                  THEN LeftBehind(local[x], DecryptAll(remote[c].in))
                                  ELSE local[x]]
    /\ remote' = [remote EXCEPT ![c] = Freed]
    /\ UNCHANGED proc

RemoteRefused(c) ==
    /\ Up
    /\ remote[c].st = "open" /\ remote[c].fd = "connecting"
    /\ remote_event_cb(c)
    /\ Leaves(c, "server")

RemoteEnds(c) ==
    /\ Up
    /\ CanRead(remote[c]) \/ CanWrite(remote[c])
    /\ remote_event_cb(c)
    /\ Leaves(c, "server")

\* client::remote_event_cb with the read timeout: both are freed, whatever is still
\* to be written.  bufferevent_free(nullptr) is a null dereference.
RemoteTimesOut(c) ==
    /\ Up
    /\ CanTimeOut(remote[c])
    /\ remote' = [remote EXCEPT ![c] = Freed]
    /\ local' = [x \in Conn |-> IF x = remote[c].arg THEN Freed ELSE local[x]]
    /\ proc' = IF remote[c].arg = NULL THEN "down" ELSE proc
    /\ Leaves(c, "timer")

RemoteWrites(c) ==
    /\ Up
    /\ CanWrite(remote[c])
    /\ uploaded' = [uploaded EXCEPT ![c] = Append(@, Head(remote[c].out))]
    /\ remote' = [remote EXCEPT ![c] = Written(@)]
    /\ UNCHANGED <<proc, local, typed, shown, downloaded, gone>>

-----------------------------------------------------------------------------
\* The n-th message of an application, and of the server.
AppSends(c) ==
    /\ Len(typed[c]) < MaxUp
    /\ LocalReads(c, Plain("data", c, Len(typed[c]) + 1))

ServerSends(c) ==
    /\ Len(downloaded[c]) < MaxDown
    /\ RemoteReads(c, Encrypt(Plain("data", c, Len(downloaded[c]) + 1)))

Connects(c) == RemoteConnects(c) \/ RemoteRefused(c)

Next == \E c \in Conn :
    \/ listen_cb(c)
    \/ AppSends(c) \/ LocalEnds(c) \/ LocalWrites(c)
    \/ ServerSends(c) \/ RemoteEnds(c) \/ RemoteWrites(c)
    \/ Connects(c) \/ RemoteTimesOut(c)

Spec == Init /\ [][Next]_vars

\* connect() ends, the read timer runs out, and the kernels at both ends take what is
\* written to them.  Nothing is assumed about what the peers send or when they close.
Fairness == \A c \in Conn :
    /\ WF_vars(Connects(c)) /\ WF_vars(RemoteTimesOut(c))
    /\ WF_vars(LocalWrites(c)) /\ WF_vars(RemoteWrites(c))

FairSpec == Spec /\ Fairness
=============================================================================
