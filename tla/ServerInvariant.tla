-------------------------- MODULE ServerInvariant --------------------------
(***************************************************************************)
(* The inductive invariant behind the lifetime properties of ServerProps.  *)
(* It says who may hold the address of a Socks5ctx, and when: the heap     *)
(* cell, the two bufferevents and the pending lookup of one connection     *)
(* agree with each other as long as the local bufferevent exists.  The     *)
(* conjuncts that begin with ~ub are lost by a misuse, when a context may  *)
(* be deleted under one that uses it, or handed out twice.                 *)
(***************************************************************************)
EXTENDS ServerProps

Open(b) == b.st = "open"
Socket(b) == b.st = "open" /\ b.fd # "none"
Asking(b) == b.readcb \in {"local_read_cb", "handle_second"}

\* A live context belongs to an open local bufferevent, which carries it unless
\* the IPv4 branch took it away; a deleted one has no self.
HeapOwned == \A a \in Addr :
    IF heap[a].live
      THEN /\ heap[a].owner \in Conn
           /\ heap[a].self = heap[a].owner
           /\ Open(self[heap[a].owner])
           /\ self[heap[a].owner].arg \in {a, NULL}
      ELSE heap[a].self = NULL

\* Until a deleted context is used no context is deleted twice: the allocator has
\* an address to give out exactly when no context lives there.
FreedOnce == ~ub => \A a \in Addr :
    heap[a].free = IF heap[a].live THEN 0 ELSE 1

\* No connection owns two contexts.
OneContext == \A a, b \in Addr :
    heap[a].live /\ heap[b].live /\ heap[a].owner = heap[b].owner => a = b

\* Until a deleted context is used, the context of an open local bufferevent is
\* the live one of its connection.
SelfValid == ~ub => \A c \in Conn :
    Open(self[c]) /\ self[c].arg # NULL => Valid(c, self[c].arg)

\* A partner is an open bufferevent with a socket that carries the address back.
PartnerBack == \A a \in Addr :
    LET p == heap[a].partner
    IN  p # NULL => Socket(remote[p]) /\ remote[p].arg = a

\* The stages of a connection: no lookup and no target before the request is
\* read, then at most one lookup, and a target only once it has been answered.
Stages == \A c \in Conn :
    /\ self[c].st = "none" => dns[c] = NULL /\ remote[c].st = "none"
    /\ Open(self[c]) /\ Asking(self[c]) =>
         self[c].arg # NULL /\ dns[c] = NULL /\ remote[c].st = "none"
    /\ dns[c] # NULL => remote[c].st = "none"

\* As long as the local bufferevent is open, evdns and the target's bufferevent
\* hold the same address as it does.
SameContext == \A c \in Conn :
    /\ Open(remote[c]) => remote[c].arg \in Addr
    /\ dns[c] # NULL /\ Open(self[c]) => self[c].arg = dns[c]
    /\ Open(remote[c]) /\ Open(self[c]) => self[c].arg = remote[c].arg

\* All that can happen to a bufferevent without a socket is its timeout.
OnlyTimeout == \A c \in Conn :
    Open(remote[c]) /\ remote[c].fd = "none" => remote[c].pending \subseteq {"timeout"}

\* Until a deleted context is used, a target's bufferevent with a socket is the
\* partner in the live context of its connection.
RemoteValid == ~ub => \A c \in Conn :
    Socket(remote[c]) => Valid(c, remote[c].arg) /\ heap[remote[c].arg].partner = c

\* The inductive invariant: who holds which address, in one formula.
IInv ==
    /\ TypeOK
    /\ HeapOwned
    /\ FreedOnce
    /\ OneContext
    /\ SelfValid
    /\ PartnerBack
    /\ Stages
    /\ SameContext
    /\ OnlyTimeout
    /\ RemoteValid
=============================================================================
