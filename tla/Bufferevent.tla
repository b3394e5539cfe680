---------------------------- MODULE Bufferevent ----------------------------
(***************************************************************************)
(* The part of a libevent socket bufferevent that server.cpp, socks5.cpp   *)
(* and client.cpp use, as a record and the operators that change it.       *)
(* libevent is not in src/ (only its headers are): this is what the        *)
(* callers rely on, taken from how they call it.                           *)
(*                                                                         *)
(*   st       no object yet, allocated, or given to bufferevent_free       *)
(*   fd       no socket (-1), connect() in progress, connected, refused    *)
(*   arg      the void* handed to every callback, NULL included            *)
(*   readcb, writecb  the callbacks installed by bufferevent_setcb         *)
(*   timed    a non-zero read timeout is set                               *)
(*   reading, writing   EV_READ and EV_WRITE are enabled                   *)
(*   in, out  the two evbuffers, oldest element first                      *)
(*   pending  callbacks that are scheduled and have not run yet            *)
(***************************************************************************)
EXTENDS Integers, Sequences

CONSTANT NULL

\* What can be scheduled: the read callback, or a bit of the event callback.
Callbacks == {"connected", "read", "eof", "error", "timeout"}

Bufferevents(Arg, Handler, Element) ==
    [st : {"none", "open", "freed"}, fd : {"none", "connecting", "connected", "failed"},
     arg : Arg \cup {NULL}, readcb : Handler \cup {NULL}, writecb : Handler \cup {NULL},
     timed : BOOLEAN, reading : BOOLEAN, writing : BOOLEAN,
     in : Seq(Element), out : Seq(Element), pending : SUBSET Callbacks]

Absent == [st |-> "none", fd |-> "none", arg |-> NULL, readcb |-> NULL,
           writecb |-> NULL, timed |-> FALSE, reading |-> FALSE, writing |-> FALSE,
           in |-> <<>>, out |-> <<>>, pending |-> {}]

\* bufferevent_free: the callbacks are cleared, so what was pending never
\* runs, and what the output buffer still held is not written.
Freed == [Absent EXCEPT !.st = "freed"]

\* bufferevent_socket_new, bufferevent_setcb and bufferevent_enable(EV_READ |
\* EV_WRITE) on a socket in state fd.
Opened(fd, arg, readcb, timed) ==
    [Absent EXCEPT !.st = "open", !.fd = fd, !.arg = arg, !.readcb = readcb,
                   !.timed = timed, !.reading = TRUE, !.writing = TRUE]

\* The socket is readable: the bytes are moved to the input buffer.
Received(b, x) == [b EXCEPT !.in = Append(@, x), !.pending = @ \cup {"read"}]

\* End of file, a failing read or the read timeout disables EV_READ first.
ReadStops(b, e) == [b EXCEPT !.reading = FALSE, !.pending = @ \cup {e}]

\* A failing write disables EV_WRITE first.
WriteStops(b) == [b EXCEPT !.writing = FALSE, !.pending = @ \cup {"error"}]

\* connect() has an outcome.
Connected(b) == [b EXCEPT !.fd = "connected", !.pending = @ \cup {"connected"}]
Refused(b) == [b EXCEPT !.fd = "failed", !.reading = FALSE, !.writing = FALSE,
                        !.pending = @ \cup {"error"}]

\* The kernel takes the first element of the output buffer.
Flushed(b) == [b EXCEPT !.out = Tail(@)]

CanRead(b) == b.st = "open" /\ b.fd = "connected" /\ b.reading
CanWrite(b) == b.st = "open" /\ b.fd = "connected" /\ b.writing /\ b.out # <<>>
CanTimeOut(b) == b.st = "open" /\ b.timed /\ b.reading

\* The order in which one run of the deferred callbacks calls what is pending:
\* CONNECTED, then the read callback, then all other events as one bit set.
ConnectedDue(b) == b.st = "open" /\ "connected" \in b.pending
ReadDue(b) == b.st = "open" /\ "read" \in b.pending /\ "connected" \notin b.pending
EventDue(b) == /\ b.st = "open" /\ b.pending # {}
               /\ b.pending \cap {"connected", "read"} = {}
=============================================================================
