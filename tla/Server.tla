------------------------------- MODULE Server -------------------------------
(***************************************************************************)
(* LightSocks-server: server.cpp and socks5.cpp.                           *)
(*                                                                         *)
(* One thread runs libevent's loop.  Each accepted connection c has a      *)
(* bufferevent self[c] for the LightSocks client and, once its request is  *)
(* resolved, a bufferevent remote[c] for the target.  Both carry the       *)
(* address of one heap-allocated Socks5ctx {self, partner}; evdns carries  *)
(* the same address while a lookup is pending.  Every callback is one      *)
(* action.  Both bufferevents are BEV_OPT_DEFER_CALLBACKS: running names   *)
(* the one whose scheduled callbacks are being called, and until they are  *)
(* all done nothing else in the process happens.                           *)
(*                                                                         *)
(* The heap keeps what delete left behind, and an address that was freed   *)
(* is handed out again: a callback that uses a deleted Socks5ctx acts on   *)
(* the stale contents, on the connection that owns the address now, or     *)
(* takes the process down.  ub records that this has happened.  A context  *)
(* deleted a second time is a double free that can go unnoticed, because   *)
(* both deletes come after stores to the context, where the allocator      *)
(* keeps its mark, and its address may be handed out to two connections.   *)
(***************************************************************************)
EXTENDS Bufferevent, Message

CONSTANTS
    Conn,        \* connections listen_cb accepts
    Addr,        \* heap addresses for a Socks5ctx
    Optimistic,  \* connections whose client sends data before the reply
    Greetings,   \* greetings clients use, a subset of AllGreetings
    Requests,    \* requests clients make, a subset of AllRequests
    MaxUp,       \* bound: data messages a client sends
    MaxDown      \* bound: data messages a target sends

ASSUME ServerAssumption ==
    /\ NULL \notin Conn \cup Addr
    /\ Optimistic \subseteq Conn
    /\ Greetings \subseteq AllGreetings
    /\ Requests \subseteq AllRequests
    /\ MaxUp \in Nat /\ MaxDown \in Nat

Messages == MessagesOf(Conn)

ReadCallbacks == {"local_read_cb", "handle_second", "handle_last", "remote_read_cb"}

VARIABLES
    proc,     \* "up" or "down": the process crashed
    heap,     \* Socks5ctx by address; owner: the connection it was allocated for;
              \* free: how often the allocator may still hand the address out
    self,     \* by connection: the bufferevent of the LightSocks client
    remote,   \* by connection: the bufferevent dns_cb made for its lookup
    dns,      \* by connection: the address evdns holds while a lookup is pending
    running,  \* whose deferred callbacks are being run, or NULL
    ub,       \* a deleted object has been used
    sent,     \* by connection: what its client has sent, in plain text
    got,      \* by connection: what its client has received, after decryption
    served,   \* by connection: how many data messages its target has sent
    fetched   \* by connection: what its target has received

network == <<sent, got, served, fetched>>
vars == <<proc, heap, self, remote, dns, running, ub, network>>

Contexts == [live : BOOLEAN, free : Nat, owner : Conn \cup {NULL},
             self : Conn \cup {NULL}, partner : Conn \cup {NULL}]

TypeOK ==
    /\ proc \in {"up", "down"}
    /\ heap \in [Addr -> Contexts]
    /\ self \in [Conn -> Bufferevents(Addr, ReadCallbacks, Messages)]
    /\ remote \in [Conn -> Bufferevents(Addr, ReadCallbacks, Messages)]
    /\ dns \in [Conn -> Addr \cup {NULL}]
    /\ running \in (Conn \X {"self", "remote"}) \cup {NULL}
    /\ ub \in BOOLEAN
    /\ sent \in [Conn -> Seq(Messages)]
    /\ got \in [Conn -> Seq(Messages)]
    /\ served \in [Conn -> Nat]
    /\ fetched \in [Conn -> Seq(Messages)]

Init ==
    /\ proc = "up"
    /\ heap = [a \in Addr |-> [live |-> FALSE, free |-> 1, owner |-> NULL,
                               self |-> NULL, partner |-> NULL]]
    /\ self = [c \in Conn |-> Absent]
    /\ remote = [c \in Conn |-> Absent]
    /\ dns = [c \in Conn |-> NULL]
    /\ running = NULL
    /\ ub = FALSE
    /\ sent = [c \in Conn |-> <<>>]
    /\ got = [c \in Conn |-> <<>>]
    /\ served = [c \in Conn |-> 0]
    /\ fetched = [c \in Conn |-> <<>>]

-----------------------------------------------------------------------------
\* The event loop.

\* Between two callbacks, when libevent polls sockets, timers and evdns.
Polling == proc = "up" /\ running = NULL

\* The deferred callbacks of bufferevent b may run; Settle: b keeps the loop
\* while it still has something scheduled.
MayRun(b) == proc = "up" /\ running \in {NULL, b}
Settle(b, after) == running' = IF after.pending = {} THEN NULL ELSE b

\* The address a still holds the Socks5ctx it was given out for to connection c.
Valid(c, a) == heap[a].live /\ heap[a].owner = c

\* A callback of connection c dereferences address a.  Memory that was deleted
\* and not reused may fault, or still be readable with its last contents.
Deref(c, a) == ub' = (ub \/ ~Valid(c, a))
Fault(c, a) == ~heap[a].live /\ Deref(c, a) /\ proc' = "down"

\* Mutant: the members keep their values when the context is deleted.
Deleted_members_kept(x) == [x EXCEPT !.live = FALSE, !.free = @ + 1]

\* delete context, after its two members were set to nullptr.  Whether it is the
\* first delete or a later one, the allocator may hand the address out once more.
\* It may also put words of its own in place of the members: wild pointers, whose
\* use is the Fault of a callback.
Deleted(x) == [x EXCEPT !.live = FALSE, !.free = @ + 1, !.self = NULL, !.partner = NULL]

-----------------------------------------------------------------------------
\* server::listen_cb: the local timeout {0, 0} means no timeout.  After a double
\* free, new may return the address of a context that is in use.
listen_cb(c) ==
    /\ Polling
    /\ self[c].st = "none"
    /\ \E a \in {x \in Addr : heap[x].free > 0} :
         /\ heap' = [heap EXCEPT ![a] = [live |-> TRUE, free |-> @.free - 1, owner |-> c,
                                         self |-> c, partner |-> NULL]]
         /\ self' = [self EXCEPT ![c] = Opened("connected", a, "local_read_cb", FALSE)]
    /\ UNCHANGED <<proc, remote, dns, running, ub, network>>

\* Mutant: the partner is never stored.
dns_cb_partner_forgotten(c, a) ==
    /\ Deref(c, a)
    /\ remote' = [remote EXCEPT ![c] = Opened("connecting", a, "remote_read_cb", TRUE)]
    /\ UNCHANGED <<proc, heap>>

\* Mutant: no read timeout on the target's bufferevent.
dns_cb_no_timeout(c, a) ==
    /\ Deref(c, a)
    /\ remote' = [remote EXCEPT ![c] = Opened("connecting", a, "remote_read_cb", FALSE)]
    /\ heap' = [heap EXCEPT ![a].partner = c]
    /\ UNCHANGED proc

\* server::dns_cb.  An error is only logged.  Otherwise it makes a bufferevent
\* for the target, with a read timeout, and stores it as the partner unless
\* bufferevent_socket_connect fails at once: then nothing refers to it any more.
dns_cb(c, a) ==
    \/ UNCHANGED <<proc, heap, remote, ub>>
    \/ Fault(c, a) /\ UNCHANGED <<heap, remote>>
    \/ /\ Deref(c, a)
       /\ remote' = [remote EXCEPT ![c] = Opened("connecting", a, "remote_read_cb", TRUE)]
       /\ heap' = [heap EXCEPT ![a].partner = c]
       /\ UNCHANGED proc
    \/ /\ Deref(c, a)
       /\ remote' = [remote EXCEPT ![c] = Opened("none", a, "remote_read_cb", TRUE)]
       /\ UNCHANGED <<proc, heap>>

\* evdns answers a pending lookup.
LookupReturns(c) ==
    /\ Polling
    /\ dns[c] # NULL
    /\ dns_cb(c, dns[c])
    /\ dns' = [dns EXCEPT ![c] = NULL]
    /\ UNCHANGED <<self, running, network>>

-----------------------------------------------------------------------------
\* The read callbacks of self[c], with the context at address a.  They read from
\* s, its context->self, which is c unless the address was handed out twice.  One
\* call reads everything the input buffer holds.

Took(b) == [b EXCEPT !.in = <<>>, !.pending = @ \ {"read"}]
Taken(c, s) == [self EXCEPT ![s].in = <<>>, ![c].pending = @ \ {"read"}]

Said(b, m) == [b EXCEPT !.out = Append(@, Encrypt(m))]

\* What the first message in the input of s is; an empty input is too short.
KindRead(s) == IF self[s].in = <<>> THEN "short" ELSE Decrypt(Head(self[s].in)).kind

\* Mutant: the greeting is answered but the next callback is not installed.
handle_first_callback_kept(c, s) ==
    /\ self' = IF KindRead(s) = "noauth"
                 THEN [Taken(c, s) EXCEPT ![s] = Said(@, Plain("method", s, 0))]
                 ELSE Taken(c, s)
    /\ UNCHANGED <<proc, heap, remote, dns>>

\* socks5::handle_first: only 05 01 00 is answered, anything else is dropped.
handle_first(c, s) ==
    /\ self' = IF KindRead(s) = "noauth"
                 THEN [Taken(c, s) EXCEPT ![s] = Said(@, Plain("method", s, 0)),
                                          ![c].readcb = "handle_second"]
                 ELSE Taken(c, s)
    /\ UNCHANGED <<proc, heap, remote, dns>>

\* socks5::handle_second: a short message, a command other than CONNECT and
\* an address that is neither IPv4 nor a domain are dropped.
Dropped(c, s) ==
    /\ KindRead(s) \notin {"ipv4", "domain"}
    /\ self' = Taken(c, s)
    /\ UNCHANGED <<proc, heap, remote, dns>>

\* The IPv4 branch replies on the bufferevent the callback was called for, and
\* installs handle_last with a null context.
RequestIPv4(c, s) ==
    /\ KindRead(s) = "ipv4"
    /\ self' = [Taken(c, s) EXCEPT ![c] =
         [Said(@, Plain("reply", c, 0)) EXCEPT !.readcb = "handle_last", !.arg = NULL]]
    /\ UNCHANGED <<proc, heap, remote, dns>>

\* Mutant: success is reported when the lookup starts.
RequestDomain_reply_early(c, a, s) ==
    /\ KindRead(s) = "domain"
    /\ self' = [Taken(c, s) EXCEPT ![c] =
         [Said(@, Plain("reply", c, 0)) EXCEPT !.readcb = "handle_last"]]
    /\ dns' = [dns EXCEPT ![c] = a]
    /\ UNCHANGED <<proc, heap, remote>>

\* Mutant: evdns is handed the bufferevent instead of the context.
RequestDomain_wrong_argument(c, a, s) ==
    /\ KindRead(s) = "domain"
    /\ self' = [Taken(c, s) EXCEPT ![c].readcb = "handle_last"]
    /\ dns' = [dns EXCEPT ![c] = s]
    /\ UNCHANGED <<proc, heap, remote>>

\* The domain branch starts a lookup; evdns may call dns_cb before it returns.
RequestDomain(c, a, s) ==
    /\ KindRead(s) = "domain"
    /\ self' = [Taken(c, s) EXCEPT ![c].readcb = "handle_last"]
    /\ \/ dns' = [dns EXCEPT ![c] = a] /\ UNCHANGED <<proc, heap, remote>>
       \/ dns_cb(c, a) /\ UNCHANGED dns

handle_second(c, a, s) == Dropped(c, s) \/ RequestIPv4(c, s) \/ RequestDomain(c, a, s)

\* Mutant: the data is copied to the partner and stays in the input buffer.
handle_last_copied(c, a, s) ==
    /\ heap[a].partner # NULL
    /\ remote' = [remote EXCEPT ![heap[a].partner].out = @ \o DecryptAll(self[s].in)]
    /\ self' = [self EXCEPT ![c].pending = @ \ {"read"}]
    /\ UNCHANGED <<proc, heap, dns>>

\* socks5::handle_last: without a partner it drains the input, otherwise
\* Cipher::decrypt moves all of it to the partner.
handle_last(c, a, s) ==
    LET p == heap[a].partner
    IN  /\ self' = Taken(c, s)
        /\ remote' = [x \in Conn |-> IF x = p
                        THEN [remote[x] EXCEPT !.out = @ \o DecryptAll(self[s].in)]
                        ELSE remote[x]]
        /\ UNCHANGED <<proc, heap, dns>>

\* No context, or one without self: a null pointer is dereferenced.
NullRead == proc' = "down" /\ UNCHANGED <<heap, self, remote, dns>>

SelfRead(c) ==
    LET a == self[c].arg
        s == heap[a].self
    IN  /\ MayRun(<<c, "self">>)
        /\ ReadDue(self[c])
        /\ \/ a = NULL /\ NullRead /\ UNCHANGED ub
           \/ /\ a # NULL
              /\ Deref(c, a)
              /\ \/ s = NULL /\ NullRead
                 \/ /\ s # NULL
                    /\ \/ self[c].readcb = "local_read_cb" /\ handle_first(c, s)
                       \/ self[c].readcb = "handle_second" /\ handle_second(c, a, s)
                       \/ self[c].readcb = "handle_last" /\ handle_last(c, a, s)
        /\ Settle(<<c, "self">>, self'[c])
        /\ UNCHANGED network

-----------------------------------------------------------------------------
\* Mutant: the partner is not freed.
local_event_cb_partner_kept(c, a) ==
    /\ a # NULL /\ heap[a].self = c
    /\ Deref(c, a)
    /\ self' = [self EXCEPT ![c] = Freed]
    /\ heap' = [heap EXCEPT ![a] = Deleted(@)]
    /\ UNCHANGED <<proc, remote>>

\* Mutant: end of file is not handled.
local_event_cb_eof_ignored(c, a) ==
    /\ self' = [self EXCEPT ![c].pending = {}]
    /\ UNCHANGED <<proc, heap, remote, ub>>

\* server::local_event_cb.  Without a context nothing is released.  Otherwise the
\* partner and context->self are freed, unlike remote_event_cb without a look
\* whether there is a self.  A timeout together with EOF or an error would use the
\* context after its deletion.
local_event_cb(c, a) ==
    IF a = NULL
      THEN /\ self' = [self EXCEPT ![c].pending = {}]
           /\ UNCHANGED <<proc, heap, remote, ub>>
      ELSE /\ Deref(c, a)
           /\ self' = [x \in Conn |-> IF x = heap[a].self THEN Freed
                                      ELSE IF x = c THEN [self[x] EXCEPT !.pending = {}]
                                      ELSE self[x]]
           /\ remote' = [x \in Conn |-> IF x = heap[a].partner THEN Freed ELSE remote[x]]
           /\ heap' = [heap EXCEPT ![a] = Deleted(@)]
           /\ proc' = IF \/ heap[a].self = NULL
                         \/ "timeout" \in self[c].pending /\ self[c].pending # {"timeout"}
                        THEN "down" ELSE proc

SelfEvent(c) ==
    /\ MayRun(<<c, "self">>)
    /\ EventDue(self[c])
    /\ local_event_cb(c, self[c].arg)
    /\ Settle(<<c, "self">>, self'[c])
    /\ UNCHANGED <<dns, network>>

-----------------------------------------------------------------------------
\* server::remote_event_cb and server::remote_read_cb run on remote[c] with
\* the context address a = remote[c].arg.

\* CONNECTED: the reply is written to the local bufferevent, if there is one.
RemoteConnected(c) ==
    LET a == remote[c].arg
    IN  /\ MayRun(<<c, "remote">>)
        /\ ConnectedDue(remote[c])
        /\ remote' = [remote EXCEPT ![c].pending = @ \ {"connected"}]
        /\ \/ Fault(c, a) /\ UNCHANGED self
           \/ /\ Deref(c, a)
              /\ self' = [x \in Conn |-> IF x = heap[a].self
                                          THEN Said(self[x], Plain("reply", x, 0))
                                          ELSE self[x]]
              /\ UNCHANGED proc
        /\ Settle(<<c, "remote">>, remote'[c])
        /\ UNCHANGED <<heap, dns, network>>

\* Mutant: the local bufferevent is not freed.
RemoteGone_self_kept(c, a) ==
    /\ Deref(c, a)
    /\ remote' = [remote EXCEPT ![c] = Freed]
    /\ heap' = [heap EXCEPT ![a] = Deleted(@)]
    /\ UNCHANGED <<proc, self>>

\* EOF or an error frees context->self and context->partner; a timeout alone
\* frees context->self and the bufferevent it is reported on.  Both delete the
\* context.  bufferevent_free(nullptr) is a null dereference.
RemoteGone(c, a) ==
    LET what == remote[c].pending
        closed == IF what \cap {"eof", "error"} # {} THEN heap[a].partner ELSE c
    IN  /\ Deref(c, a)
        /\ self' = [x \in Conn |-> IF x = heap[a].self THEN Freed ELSE self[x]]
        /\ remote' = [x \in Conn |-> IF x = closed THEN Freed
                                     ELSE IF x = c THEN [remote[x] EXCEPT !.pending = {}]
                                     ELSE remote[x]]
        /\ heap' = [heap EXCEPT ![a] = Deleted(@)]
        /\ proc' = IF closed = NULL THEN "down" ELSE proc

RemoteEvent(c) ==
    /\ MayRun(<<c, "remote">>)
    /\ EventDue(remote[c])
    /\ \/ Fault(c, remote[c].arg) /\ UNCHANGED <<heap, self, remote>>
       \/ RemoteGone(c, remote[c].arg)
    /\ Settle(<<c, "remote">>, remote'[c])
    /\ UNCHANGED <<dns, network>>

\* Mutant: the data is forwarded in plain text.
Relay_plain(c, a) ==
    /\ heap[a].partner = c /\ heap[a].self # NULL
    /\ Deref(c, a)
    /\ self' = [self EXCEPT ![heap[a].self].out = @ \o remote[c].in]
    /\ remote' = [remote EXCEPT ![c] = Took(@)]
    /\ UNCHANGED proc

\* Data of the target: Cipher::encrypt moves it from context->partner to
\* context->self; with no local bufferevent it is drained.
Relay(c, a) ==
    LET p == heap[a].partner
    IN  /\ p # NULL
        /\ Deref(c, a)
        /\ self' = [x \in Conn |-> IF x = heap[a].self
                       THEN [self[x] EXCEPT !.out = @ \o EncryptAll(remote[p].in)]
                       ELSE self[x]]
        /\ remote' = [remote EXCEPT ![p].in = <<>>, ![c].pending = @ \ {"read"}]
        /\ UNCHANGED proc

RemoteRead(c) ==
    LET a == remote[c].arg
    IN  /\ MayRun(<<c, "remote">>)
        /\ ReadDue(remote[c])
        /\ \/ Fault(c, a) /\ UNCHANGED <<self, remote>>
           \/ Relay(c, a)
           \/ /\ heap[a].partner = NULL
              /\ Deref(c, a)
              /\ proc' = "down"
              /\ UNCHANGED <<self, remote>>
        /\ Settle(<<c, "remote">>, remote'[c])
        /\ UNCHANGED <<heap, dns, network>>

-----------------------------------------------------------------------------
\* The clients.  A client greets, asks once its greeting is answered, and
\* sends data once its request is answered (at once if it is optimistic).

Heard(c, kind) == \E i \in DOMAIN got[c] : got[c][i] = Plain(kind, c, 0)

NextMessages(c) ==
    LET n == Len(sent[c])
    IN  CASE n = 0 -> {Plain(k, c, 0) : k \in Greetings}
          [] n = 1 /\ Heard(c, "method") -> {Plain(k, c, 0) : k \in Requests}
          [] n > 1 /\ n < MaxUp + 2 /\ (Heard(c, "reply") \/ c \in Optimistic)
                -> {Plain("data", c, n - 1)}
          [] OTHER -> {}

\* The client's message m arrives.
SelfReceives(c, m) ==
    /\ Polling
    /\ CanRead(self[c])
    /\ sent' = [sent EXCEPT ![c] = Append(@, m)]
    /\ self' = [self EXCEPT ![c] = Received(@, Encrypt(m))]
    /\ UNCHANGED <<proc, heap, remote, dns, running, ub, got, served, fetched>>

ClientSends(c) == \E m \in NextMessages(c) : SelfReceives(c, m)

ClientReceives(c) ==
    /\ Polling
    /\ CanWrite(self[c])
    /\ got' = [got EXCEPT ![c] = Append(@, Decrypt(Head(self[c].out)))]
    /\ self' = [self EXCEPT ![c] = Flushed(@)]
    /\ UNCHANGED <<proc, heap, remote, dns, running, ub, sent, served, fetched>>

\* The client closes or resets the connection, or writing to it fails.
ClientLeaves(c) ==
    /\ Polling
    /\ \/ CanRead(self[c]) /\ \E e \in {"eof", "error"} :
              self' = [self EXCEPT ![c] = ReadStops(@, e)]
       \/ CanWrite(self[c]) /\ self' = [self EXCEPT ![c] = WriteStops(@)]
    /\ UNCHANGED <<proc, heap, remote, dns, running, ub, network>>

-----------------------------------------------------------------------------
\* The targets.

ConnectEnds(c) ==
    /\ Polling
    /\ remote[c].st = "open" /\ remote[c].fd = "connecting"
    /\ \/ remote' = [remote EXCEPT ![c] = Connected(@)]
       \/ remote' = [remote EXCEPT ![c] = Refused(@)]
    /\ UNCHANGED <<proc, heap, self, dns, running, ub, network>>

TargetSends(c) ==
    /\ Polling
    /\ CanRead(remote[c])
    /\ served[c] < MaxDown
    /\ served' = [served EXCEPT ![c] = @ + 1]
    /\ remote' = [remote EXCEPT ![c] = Received(@, Plain("data", c, served'[c]))]
    /\ UNCHANGED <<proc, heap, self, dns, running, ub, sent, got, fetched>>

TargetReceives(c) ==
    /\ Polling
    /\ CanWrite(remote[c])
    /\ fetched' = [fetched EXCEPT ![c] = Append(@, Head(remote[c].out))]
    /\ remote' = [remote EXCEPT ![c] = Flushed(@)]
    /\ UNCHANGED <<proc, heap, self, dns, running, ub, sent, got, served>>

TargetLeaves(c) ==
    /\ Polling
    /\ \/ CanRead(remote[c]) /\ \E e \in {"eof", "error"} :
              remote' = [remote EXCEPT ![c] = ReadStops(@, e)]
       \/ CanWrite(remote[c]) /\ remote' = [remote EXCEPT ![c] = WriteStops(@)]
    /\ UNCHANGED <<proc, heap, self, dns, running, ub, network>>

\* A read timer runs out.  It also runs while the bufferevent is connecting,
\* and when it never got a socket.
ReadTimeout(c) ==
    /\ Polling
    /\ \E b \in {x \in {self[c], remote[c]} : CanTimeOut(x)} :
         /\ self' = [self EXCEPT ![c] = IF @ = b THEN ReadStops(@, "timeout") ELSE @]
         /\ remote' = [remote EXCEPT ![c] = IF @ = b THEN ReadStops(@, "timeout") ELSE @]
    /\ UNCHANGED <<proc, heap, dns, running, ub, network>>

-----------------------------------------------------------------------------
Callback(c) ==
    \/ SelfRead(c) \/ SelfEvent(c)
    \/ RemoteConnected(c) \/ RemoteRead(c) \/ RemoteEvent(c)

Environment(c) ==
    \/ ClientSends(c) \/ ClientReceives(c) \/ ClientLeaves(c)
    \/ ConnectEnds(c) \/ TargetSends(c) \/ TargetReceives(c) \/ TargetLeaves(c)

Next == \E c \in Conn :
    \/ listen_cb(c) \/ Callback(c) \/ LookupReturns(c) \/ ReadTimeout(c)
    \/ Environment(c)

Spec == Init /\ [][Next]_vars

\* The loop runs what is scheduled, evdns gives up after its own retries, and
\* timers run out.  Nothing is assumed of clients and targets.
Fairness == \A c \in Conn :
    WF_vars(Callback(c)) /\ WF_vars(LookupReturns(c)) /\ WF_vars(ReadTimeout(c))

FairSpec == Spec /\ Fairness
=============================================================================
