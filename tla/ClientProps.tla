---------------------------- MODULE ClientProps ----------------------------
(***************************************************************************)
(* What LightSocks-client promises about its connections, and the          *)
(* inductive invariant behind it.                                          *)
(***************************************************************************)
EXTENDS Client

-----------------------------------------------------------------------------
\* The inductive invariant.

\* The two bufferevents of a connection point to each other, or not at all.
Paired(b, partner, c) == b.arg # NULL =>
    b.arg = c /\ partner.st = "open" /\ partner.arg = c

\* One that lost its partner only writes: it has something to write, nothing to read
\* and no timer, and it is freed by its write callback.
OnlyFlushes(b) == b.st = "open" /\ b.arg = NULL =>
    /\ ~b.reading /\ b.readcb = NULL
    /\ b.writecb = "close_on_finished_write_cb" /\ b.out # <<>>

\* One that has its partner reads, and is not closed by a write.
Relays(b, readcb) == b.st = "open" /\ b.arg # NULL =>
    b.reading /\ b.readcb = readcb /\ b.writecb = NULL

\* A connection's two bufferevents were made together, and a null partner is the
\* trace of one that was freed.
Twins(l, r) ==
    /\ (l.st = "none") <=> (r.st = "none")
    /\ l.st = "open" /\ l.arg = NULL => r.st = "freed"
    /\ r.st = "open" /\ r.arg = NULL => l.st = "freed"

\* What has no object has nothing to write, and no callback argument.
Empty(b) == b.st # "open" => b.arg = NULL /\ b.out = <<>>

\* Nothing stays in an input buffer: a read callback takes all there is.
NothingUnread(b) == b.in = <<>>

\* Nothing has been sent on a connection that was not accepted yet.
NothingYet(c) == local[c].st = "none" =>
    typed[c] = <<>> /\ shown[c] = <<>> /\ uploaded[c] = <<>> /\ downloaded[c] = <<>>

Linked(c, l, r) ==
    /\ Paired(l, r, c) /\ Paired(r, l, c)
    /\ OnlyFlushes(l) /\ OnlyFlushes(r)
    /\ Relays(l, "local_read_cb") /\ Relays(r, "remote_read_cb")
    /\ Empty(l) /\ Empty(r)
    /\ NothingUnread(l) /\ NothingUnread(r)
    /\ ~l.timed
    /\ Twins(l, r)

Holds(c) == Linked(c, local[c], remote[c]) /\ NothingYet(c)

IInv == \A c \in Conn : Holds(c)

-----------------------------------------------------------------------------
\* No callback of client.cpp runs with a null partner where it would dereference
\* it (client.cpp:60-64 and :127-130 drain and go on), and no timeout frees one
\* (client.cpp:114-115).
NeverDown == proc = "up"

Whole(c) ==
    /\ remote[c].st = "open" => uploaded[c] \o remote[c].out = EncryptAll(typed[c])
    /\ local[c].st = "open" => shown[c] \o local[c].out = DecryptAll(downloaded[c])

\* What the server was sent, then what waits for it, is what the application typed,
\* encrypted once, whoever left meanwhile; and the same the other way.
StreamsWhole == \A c \in Conn : Whole(c)

Delivered(c) ==
    /\ remote[c].st = "freed" =>
         uploaded[c] = EncryptAll(typed[c]) \/ gone[c] \cap {"server", "timer"} # {}
    /\ local[c].st = "freed" =>
         shown[c] = DecryptAll(downloaded[c]) \/ gone[c] \cap {"application", "timer"} # {}

\* client.cpp:23-25, "We still have to flush data from the other side, but when
\* that's done, close the other side": one side's leaving never cuts off what it had
\* sent.  What was sent to a peer is missing only if that peer left, or if the read
\* timer of the server's side ran out, which drops what is not written yet.
FlushedBeforeFreed == \A c \in Conn : Delivered(c)

-----------------------------------------------------------------------------
\* The promise: ProxiedConnection, with the application near and the server far.

Relayed == {Plain("data", c, n) : c \in Conn, n \in 1..(MaxUp + MaxDown)}

Ends(c) == {s \in {"near", "far"} : (IF s = "near" THEN local[c] ELSE remote[c]).st = "open"}

Causes(c) ==
    {s \in {"near", "far", "silence"} :
        (IF s = "near" THEN "application" ELSE IF s = "far" THEN "server" ELSE "timer") \in gone[c]}

SentBy(c) == [s \in {"near", "far"} |->
    IF s = "near" THEN typed[c] ELSE DecryptAll(downloaded[c])]

GivenTo(c) == [s \in {"near", "far"} |->
    IF s = "near" THEN shown[c] ELSE DecryptAll(uploaded[c])]

Begun == {c \in Conn : local[c].st # "none"}
Attached == [c \in Conn |-> Ends(c)]
Left == [c \in Conn |-> Causes(c)]
Sent == [c \in Conn |-> SentBy(c)]
Obtained == [c \in Conn |-> GivenTo(c)]

Connection == INSTANCE ProxiedConnection WITH
    Data <- Relayed, begun <- Begun, attached <- Attached, left <- Left,
    sent <- Sent, received <- Obtained

\* The client implements it: every step of its callbacks is one step of the two
\* pipes or none, so what leaves the buffers is what entered them on the other side,
\* and a bufferevent that lost its partner stays exactly as long as it owes something.
ImplementsConnection == Connection!Spec

-----------------------------------------------------------------------------
\* Release.

\* A remote bufferevent without a socket that was told to close when flushed:
\* EV_READ is disabled, so its timer is gone, and it can never write.
Stuck(c) == remote[c].st = "open" /\ remote[c].fd = "none" /\ remote[c].arg = NULL

\* Every connection ends, at the latest by the 15 s read timeout, with both of its
\* bufferevents freed, unless the remote one is stuck.  Data re-arms the timer; the
\* server sends a bounded amount here.
PairReleased == \A c \in Conn :
    local[c].st # "none" ~>
        (local[c].st = "freed" /\ (remote[c].st = "freed" \/ Stuck(c)))
=============================================================================
