---------------------------- MODULE ServerProofs ----------------------------
(***************************************************************************)
(* Proofs about the server.  First its lifetimes: IInv is inductive, and   *)
(* the type invariant, the three lifetime invariants and FirstMisuse       *)
(* follow from it.  Then its streams: StreamInv is inductive, and with it  *)
(* UpstreamComplete, DownstreamInOrder and DomainReplyMeansConnected hold. *)
(***************************************************************************)
EXTENDS ServerStreams, SequenceTheorems, TLAPS

Buffers == Bufferevents(Addr, ReadCallbacks, Messages)

-----------------------------------------------------------------------------
\* What the operators on messages and bufferevents return.

LEMMA MessageTypes ==
    /\ \A m \in Messages : Encrypt(m) \in Messages /\ Decrypt(m) \in Messages
    /\ \A kind \in Kinds, c \in Conn, n \in Nat : Plain(kind, c, n) \in Messages
BY DEF Messages, MessagesOf, Encrypt, Decrypt, Plain

LEMMA StreamTypes ==
    ASSUME NEW s \in Seq(Messages)
    PROVE  EncryptAll(s) \in Seq(Messages) /\ DecryptAll(s) \in Seq(Messages)
<1>1. \A i \in DOMAIN s : s[i] \in Messages
    OBVIOUS
<1>2. /\ \A i \in DOMAIN s : Encrypt(s[i]) \in Messages
      /\ \A i \in DOMAIN s : Decrypt(s[i]) \in Messages
    BY <1>1, MessageTypes
<1>3. DOMAIN s = 1..Len(s) /\ Len(s) \in Nat
    OBVIOUS
<1>. QED
    BY <1>2, <1>3 DEF EncryptAll, DecryptAll

LEMMA SequenceTypes ==
    ASSUME NEW S, NEW s \in Seq(S)
    PROVE  /\ <<>> \in Seq(S)
           /\ \A e \in S : Append(s, e) \in Seq(S)
           /\ s # <<>> => Tail(s) \in Seq(S) /\ Head(s) \in S
           /\ \A t \in Seq(S) : s \o t \in Seq(S)
OBVIOUS

LEMMA BuffereventTypes ==
    ASSUME NEW b \in Buffers
    PROVE  /\ Took(b) \in Buffers
           /\ Freed \in Buffers
           /\ \A m \in Messages : Said(b, m) \in Buffers /\ Received(b, m) \in Buffers
           /\ \A e \in Callbacks : ReadStops(b, e) \in Buffers
           /\ WriteStops(b) \in Buffers
           /\ Connected(b) \in Buffers
           /\ Refused(b) \in Buffers
           /\ b.out # <<>> => Flushed(b) \in Buffers
<1>. USE DEF Buffers, Bufferevents
<1>0. /\ b.in \in Seq(Messages) /\ b.out \in Seq(Messages) /\ <<>> \in Seq(Messages)
      /\ b.pending \subseteq Callbacks
    BY SequenceTypes
<1>1. Took(b) \in Buffers
    BY <1>0 DEF Took
<1>2. Freed \in Buffers
    BY <1>0 DEF Freed, Absent
<1>3. ASSUME NEW m \in Messages
      PROVE  Said(b, m) \in Buffers /\ Received(b, m) \in Buffers
    <2>1. Append(b.out, Encrypt(m)) \in Seq(Messages) /\ Append(b.in, m) \in Seq(Messages)
        BY <1>0, <1>3, MessageTypes, SequenceTypes
    <2>. QED
        BY <1>0, <2>1 DEF Said, Received, Callbacks
<1>4. \A e \in Callbacks : ReadStops(b, e) \in Buffers
    BY DEF ReadStops
<1>5. WriteStops(b) \in Buffers /\ Connected(b) \in Buffers /\ Refused(b) \in Buffers
    BY DEF WriteStops, Connected, Refused, Callbacks
<1>6. b.out # <<>> => Flushed(b) \in Buffers
    BY <1>0, SequenceTypes DEF Flushed
<1>. QED
    BY <1>1, <1>2, <1>3, <1>4, <1>5, <1>6

LEMMA OpenedType ==
    ASSUME NEW fd \in {"none", "connecting", "connected"}, NEW a \in Addr,
           NEW cb \in ReadCallbacks, NEW timed \in BOOLEAN
    PROVE  Opened(fd, a, cb, timed) \in Buffers
<1>. <<>> \in Seq(Messages)
    BY SequenceTypes
<1>. QED
    BY DEF Opened, Absent, Buffers, Bufferevents

-----------------------------------------------------------------------------
\* Replacing one field of a bufferevent by a value of its type.
LEMMA FieldTypes ==
    ASSUME NEW b \in Buffers
    PROVE  /\ \A cb \in ReadCallbacks : [b EXCEPT !.readcb = cb] \in Buffers
           /\ [b EXCEPT !.readcb = "handle_last", !.arg = NULL] \in Buffers
           /\ \A s \in Seq(Messages) : /\ [b EXCEPT !.in = s] \in Buffers
                                       /\ [b EXCEPT !.out = s] \in Buffers
           /\ \A e \in SUBSET Callbacks : [b EXCEPT !.pending = e] \in Buffers
BY DEF Buffers, Bufferevents, ReadCallbacks

\* What a read changes in no bufferevent, whosever input it empties.
ReadKept(b, d) == d.st = b.st /\ d.fd = b.fd /\ d.pending \subseteq b.pending
SamePlace(b, d) == d.arg = b.arg /\ d.readcb = b.readcb

\* c's callback empties the input of s.
LEMMA TakenFields ==
    ASSUME TypeOK, NEW c \in Conn, NEW s \in Conn
    PROVE  /\ Taken(c, s) \in [Conn -> Buffers]
           /\ \A x \in Conn : /\ ReadKept(self[x], Taken(c, s)[x])
                               /\ SamePlace(self[x], Taken(c, s)[x])
           /\ s = c => Taken(c, s) = [self EXCEPT ![c] = Took(self[c])]
<1>. DEFINE f == [self EXCEPT ![s].in = <<>>]
<1>1. self \in [Conn -> Buffers] /\ <<>> \in Seq(Messages)
    BY SequenceTypes DEF TypeOK, Buffers
<1>2. f \in [Conn -> Buffers]
    BY <1>1, FieldTypes
<1>3. \A x \in Conn : ReadKept(self[x], f[x]) /\ SamePlace(self[x], f[x])
    BY <1>1 DEF ReadKept, SamePlace, Buffers, Bufferevents
<1>4. Taken(c, s) = [f EXCEPT ![c].pending = @ \ {"read"}]
    BY DEF Taken
<1>5. f[c] \in Buffers /\ f[c].pending \ {"read"} \in SUBSET Callbacks
    BY <1>2 DEF Buffers, Bufferevents
<1>6. s = c => Taken(c, s) = [self EXCEPT ![c] = Took(self[c])]
    BY <1>1 DEF Taken, Took
<1>. HIDE DEF f
<1>7. [f[c] EXCEPT !.pending = @ \ {"read"}] \in Buffers
    BY <1>5, FieldTypes
<1>8. Taken(c, s) \in [Conn -> Buffers]
    BY <1>2, <1>4, <1>7
<1>9. \A x \in Conn : \/ Taken(c, s)[x] = f[x]
                      \/ Taken(c, s)[x] = [f[x] EXCEPT !.pending = @ \ {"read"}]
    BY <1>2, <1>4
<1>10. ASSUME NEW x \in Conn
       PROVE  ReadKept(f[x], Taken(c, s)[x]) /\ SamePlace(f[x], Taken(c, s)[x])
    <2>1. \A b \in Buffers :
            LET d == [b EXCEPT !.pending = @ \ {"read"}]
            IN  ReadKept(b, b) /\ SamePlace(b, b) /\ ReadKept(b, d) /\ SamePlace(b, d)
        BY DEF ReadKept, SamePlace, Buffers, Bufferevents
    <2>2. f[x] \in Buffers
        BY <1>2
    <2>. QED
        BY <1>9, <2>1, <2>2
<1>. QED
    BY <1>3, <1>6, <1>8, <1>10 DEF ReadKept, SamePlace

\* handle_first may answer on s, and then gives c the next callback.
LEMMA FirstFields ==
    ASSUME TypeOK, NEW c \in Conn, NEW s \in Conn, handle_first(c, s)
    PROVE  /\ self' \in [Conn -> Buffers]
           /\ \A x \in Conn : ReadKept(self[x], self'[x]) /\ self'[x].arg = self[x].arg
           /\ \A x \in Conn \ {c} : self'[x].readcb = self[x].readcb
           /\ self'[c].readcb \in {self[c].readcb, "handle_second"}
<1>. DEFINE T == Taken(c, s)
            m == Plain("method", s, 0)
            f == [T EXCEPT ![s] = Said(T[s], m)]
<1>1. T \in [Conn -> Buffers] /\ \A x \in Conn : ReadKept(self[x], T[x]) /\ SamePlace(self[x], T[x])
    BY TakenFields
<1>2. m \in Messages
    BY MessageTypes DEF Kinds
<1>3. CASE self' = T
    BY <1>1, <1>3 DEF SamePlace
<1>4. CASE self' = [T EXCEPT ![s] = Said(@, m), ![c].readcb = "handle_second"]
    <2>1. self' = [f EXCEPT ![c].readcb = "handle_second"]
        BY <1>4
    <2>2. Said(T[s], m) \in Buffers
        BY <1>1, <1>2, BuffereventTypes
    <2>3. f \in [Conn -> Buffers]
        BY <1>1, <2>2
    <2>4. \A x \in Conn : ReadKept(T[x], f[x]) /\ SamePlace(T[x], f[x])
        BY <1>1 DEF Said, ReadKept, SamePlace, Buffers, Bufferevents
    <2>. HIDE DEF T, f
    <2>5. [f[c] EXCEPT !.readcb = "handle_second"] \in Buffers
        BY <2>3, FieldTypes DEF ReadCallbacks
    <2>6. self' \in [Conn -> Buffers]
        BY <2>1, <2>3, <2>5
    <2>7. /\ \A x \in Conn : ReadKept(f[x], self'[x]) /\ self'[x].arg = f[x].arg
          /\ \A x \in Conn \ {c} : self'[x] = f[x]
          /\ self'[c].readcb = "handle_second"
        BY <2>1, <2>3 DEF ReadKept, Buffers, Bufferevents
    <2>. QED
        BY <1>1, <2>4, <2>6, <2>7 DEF ReadKept, SamePlace
<1>. QED
    BY <1>3, <1>4 DEF handle_first

\* Both branches that serve a request install handle_last; the IPv4 branch
\* answers, and takes the context away.
LEMMA RequestFields ==
    ASSUME TypeOK, NEW c \in Conn, NEW s \in Conn, NEW a,
           RequestIPv4(c, s) \/ RequestDomain(c, a, s)
    PROVE  /\ self' \in [Conn -> Buffers]
           /\ \A x \in Conn : ReadKept(self[x], self'[x])
           /\ \A x \in Conn \ {c} : SamePlace(self[x], self'[x])
           /\ self'[c].readcb = "handle_last"
           /\ IF RequestIPv4(c, s) THEN self'[c].arg = NULL ELSE self'[c].arg = self[c].arg
<1>. DEFINE T == Taken(c, s)
            m == Plain("reply", c, 0)
<1>1. T \in [Conn -> Buffers] /\ \A x \in Conn : ReadKept(self[x], T[x]) /\ SamePlace(self[x], T[x])
    BY TakenFields
<1>2. Said(T[c], m) \in Buffers
    BY <1>1, MessageTypes, BuffereventTypes DEF Kinds
<1>3. CASE RequestIPv4(c, s)
    <2>. DEFINE b == [Said(T[c], m) EXCEPT !.readcb = "handle_last", !.arg = NULL]
    <2>1. self' = [T EXCEPT ![c] = b]
        BY <1>3 DEF RequestIPv4
    <2>2. b \in Buffers
        BY <1>2, FieldTypes
    <2>3. ReadKept(T[c], b) /\ b.readcb = "handle_last" /\ b.arg = NULL
        BY <1>1 DEF Said, ReadKept, Buffers, Bufferevents
    <2>. HIDE DEF T, b
    <2>4. /\ self' \in [Conn -> Buffers] /\ self'[c] = b
          /\ \A x \in Conn \ {c} : self'[x] = T[x]
        BY <1>1, <2>1, <2>2
    <2>. QED
        BY <1>1, <1>3, <2>3, <2>4 DEF ReadKept, SamePlace
<1>4. CASE RequestDomain(c, a, s)
    <2>. DEFINE b == [T[c] EXCEPT !.readcb = "handle_last"]
    <2>1. self' = [T EXCEPT ![c] = b]
        BY <1>4 DEF RequestDomain
    <2>2. b \in Buffers
        BY <1>1, FieldTypes DEF ReadCallbacks
    <2>3. ReadKept(T[c], b) /\ b.readcb = "handle_last" /\ b.arg = T[c].arg
        BY <1>1 DEF ReadKept, Buffers, Bufferevents
    <2>4. ~RequestIPv4(c, s)
        BY <1>4 DEF RequestDomain, RequestIPv4
    <2>. HIDE DEF T, b
    <2>5. /\ self' \in [Conn -> Buffers] /\ self'[c] = b
          /\ \A x \in Conn \ {c} : self'[x] = T[x]
        BY <1>1, <2>1, <2>2
    <2>. QED
        BY <1>1, <2>3, <2>4, <2>5 DEF ReadKept, SamePlace
<1>. QED
    BY <1>3, <1>4

LEMMA DeletedType == \A x \in Contexts : Deleted(x) \in Contexts
<1>. SUFFICES ASSUME NEW x \in Contexts PROVE Deleted(x) \in Contexts
    OBVIOUS
<1>1. x.free + 1 \in Nat
    BY DEF Contexts
<1>2. \A n \in Nat : [x EXCEPT !.live = FALSE, !.free = n, !.self = NULL, !.partner = NULL] \in Contexts
    BY DEF Contexts
<1>. QED
    BY <1>1, <1>2 DEF Deleted

LEMMA InitType == Init => TypeOK
<1>1. Absent \in Buffers
    BY SequenceTypes DEF Absent, Buffers, Bufferevents
<1>2. <<>> \in Seq(Messages)
    BY SequenceTypes
<1>. SUFFICES ASSUME Init PROVE TypeOK
    OBVIOUS
<1>3. self \in [Conn -> Buffers] /\ remote \in [Conn -> Buffers]
    BY <1>1 DEF Init
<1>4. heap \in [Addr -> Contexts] /\ dns \in [Conn -> Addr \cup {NULL}]
    BY DEF Init, Contexts
<1>5. /\ sent \in [Conn -> Seq(Messages)]
      /\ got \in [Conn -> Seq(Messages)]
      /\ fetched \in [Conn -> Seq(Messages)]
    BY <1>2 DEF Init
<1>. QED
    BY <1>3, <1>4, <1>5 DEF Init, TypeOK, Buffers

\* Every callback and every action of the network keeps the variables in their
\* types, for any number of connections, addresses and messages.
LEMMA NextType == IInv /\ [Next]_vars => TypeOK'
<1>. SUFFICES ASSUME TypeOK, Stages, SameContext, [Next]_vars PROVE TypeOK'
    BY DEF IInv
<1>. USE DEF Buffers, network
<1>1. ASSUME NEW c \in Conn, listen_cb(c)
      PROVE  TypeOK'
    <2>1. PICK a \in Addr :
            /\ heap[a].free > 0
            /\ heap' = [heap EXCEPT ![a] = [live |-> TRUE, free |-> @.free - 1, owner |-> c,
                                            self |-> c, partner |-> NULL]]
            /\ self' = [self EXCEPT ![c] = Opened("connected", a, "local_read_cb", FALSE)]
        BY <1>1 DEF listen_cb
    <2>2. Opened("connected", a, "local_read_cb", FALSE) \in Buffers
        BY OpenedType DEF ReadCallbacks
    <2>3. heap[a].free - 1 \in Nat
        BY <2>1 DEF TypeOK, Contexts
    <2>4. [live |-> TRUE, free |-> heap[a].free - 1, owner |-> c, self |-> c, partner |-> NULL]
            \in Contexts
        BY <2>3 DEF Contexts
    <2>5. heap' \in [Addr -> Contexts]
        BY <2>1, <2>4 DEF TypeOK
    <2>. QED
        BY <1>1, <2>1, <2>2, <2>5 DEF listen_cb, TypeOK
<1>2. ASSUME NEW c \in Conn, NEW a \in Addr, dns_cb(c, a)
      PROVE  /\ heap' \in [Addr -> Contexts]
             /\ remote' \in [Conn -> Buffers]
             /\ ub' \in BOOLEAN
             /\ proc' \in {"up", "down"}
    <2>1. /\ Opened("connecting", a, "remote_read_cb", TRUE) \in Buffers
          /\ Opened("none", a, "remote_read_cb", TRUE) \in Buffers
        BY OpenedType DEF ReadCallbacks
    <2>2. Valid(c, a) \in BOOLEAN
        BY DEF Valid, TypeOK, Contexts
    <2>3. /\ remote \in [Conn -> Buffers] /\ heap \in [Addr -> Contexts]
          /\ ub \in BOOLEAN /\ proc \in {"up", "down"}
        BY DEF TypeOK
    <2>4. [heap EXCEPT ![a].partner = c] \in [Addr -> Contexts]
        BY <2>3 DEF Contexts
    <2>. QED
        BY <1>2, <2>1, <2>2, <2>3, <2>4 DEF dns_cb, Deref, Fault
<1>3. ASSUME NEW c \in Conn, LookupReturns(c)
      PROVE  TypeOK'
    <2>1. dns[c] \in Addr
        BY <1>3 DEF LookupReturns, TypeOK
    <2>. QED
        BY <1>2, <1>3, <2>1 DEF LookupReturns, TypeOK
<1>0. ASSUME NEW c \in Conn, NEW a \in Addr
      PROVE  /\ Deref(c, a) => ub' \in BOOLEAN
             /\ Fault(c, a) => ub' \in BOOLEAN /\ proc' \in {"up", "down"}
    <2>1. Valid(c, a) \in BOOLEAN /\ ub \in BOOLEAN
        BY DEF Valid, TypeOK, Contexts
    <2>. QED
        BY <2>1 DEF Deref, Fault
<1>4. ASSUME NEW c \in Conn, SelfRead(c)
      PROVE  TypeOK'
    <2>. DEFINE a == self[c].arg
                s == heap[a].self
    <2>1. self[c] \in Buffers /\ a \in Addr \cup {NULL}
        BY DEF TypeOK, Bufferevents
    <2>2. running' \in (Conn \X {"self", "remote"}) \cup {NULL} /\ UNCHANGED network
        BY <1>4 DEF SelfRead, Settle
    <2>3. CASE NullRead
        <3>1. ub' \in BOOLEAN
            BY <1>0, <1>4, <2>1 DEF SelfRead, TypeOK
        <3>. QED
            BY <2>2, <2>3, <3>1 DEF NullRead, TypeOK
    <2>4. CASE ~NullRead
        <3>1. /\ a # NULL /\ s # NULL /\ Deref(c, a)
              /\ \/ self[c].readcb = "local_read_cb" /\ handle_first(c, s)
                 \/ self[c].readcb = "handle_second" /\ handle_second(c, a, s)
                 \/ self[c].readcb = "handle_last" /\ handle_last(c, a, s)
            BY <1>4, <2>4 DEF SelfRead
        <3>2. a \in Addr /\ s \in Conn /\ ub' \in BOOLEAN
            BY <1>0, <2>1, <3>1 DEF TypeOK, Contexts
        <3>. HIDE DEF a, s
        <3>3. CASE handle_first(c, s)
            BY <2>2, <3>2, <3>3, FirstFields DEF handle_first, TypeOK
        <3>4. CASE Dropped(c, s)
            BY <2>2, <3>2, <3>4, TakenFields DEF Dropped, TypeOK
        <3>5. CASE RequestIPv4(c, s)
            <4>1. self' \in [Conn -> Buffers]
                BY <3>2, <3>5, RequestFields
            <4>. QED
                BY <2>2, <3>2, <3>5, <4>1 DEF RequestIPv4, TypeOK
        <3>6. CASE RequestDomain(c, a, s)
            <4>1. self' \in [Conn -> Buffers]
                BY <3>2, <3>6, RequestFields
            <4>2. CASE dns' = [dns EXCEPT ![c] = a] /\ UNCHANGED <<proc, heap, remote>>
                BY <2>2, <3>2, <4>1, <4>2 DEF TypeOK
            <4>3. CASE dns_cb(c, a) /\ UNCHANGED dns
                BY <1>2, <2>2, <3>2, <4>1, <4>3 DEF TypeOK
            <4>. QED
                BY <3>6, <4>2, <4>3 DEF RequestDomain
        <3>7. CASE handle_last(c, a, s)
            <4>1. self' \in [Conn -> Buffers]
                BY <3>2, <3>7, TakenFields DEF handle_last
            <4>2. \A x \in Conn :
                    [remote[x] EXCEPT !.out = @ \o DecryptAll(self[s].in)] \in Buffers
                <5>1. TAKE x \in Conn
                <5>2. /\ remote[x] \in Buffers /\ remote[x].out \in Seq(Messages)
                      /\ self[s].in \in Seq(Messages)
                    BY <3>2 DEF TypeOK, Bufferevents
                <5>3. remote[x].out \o DecryptAll(self[s].in) \in Seq(Messages)
                    BY <5>2, StreamTypes, SequenceTypes
                <5>. QED
                    BY <5>2, <5>3, FieldTypes
            <4>3. remote' \in [Conn -> Buffers]
                BY <3>7, <4>2 DEF handle_last, TypeOK
            <4>. QED
                BY <2>2, <3>2, <3>7, <4>1, <4>3 DEF handle_last, TypeOK
        <3>. QED
            BY <3>1, <3>3, <3>4, <3>5, <3>6, <3>7 DEF handle_second
    <2>. QED
        BY <2>3, <2>4
<1>5. ASSUME NEW c \in Conn, SelfEvent(c)
      PROVE  TypeOK'
    <2>. DEFINE a == self[c].arg
    <2>1. self[c] \in Buffers /\ a \in Addr \cup {NULL}
        BY DEF TypeOK, Bufferevents
    <2>2. running' \in (Conn \X {"self", "remote"}) \cup {NULL}
        BY <1>5 DEF SelfEvent, Settle
    <2>3. \A x \in Conn : Freed \in Buffers /\ [self[x] EXCEPT !.pending = {}] \in Buffers
        BY BuffereventTypes, FieldTypes DEF TypeOK
    <2>4. CASE a = NULL
        BY <1>5, <2>2, <2>3, <2>4 DEF SelfEvent, local_event_cb, TypeOK
    <2>5. CASE a # NULL
        <3>1. heap' \in [Addr -> Contexts]
            <4>1. heap' = [heap EXCEPT ![a] = Deleted(@)]
                BY <1>5, <2>5 DEF SelfEvent, local_event_cb
            <4>. QED
                BY <2>1, <2>5, <4>1, DeletedType DEF TypeOK
        <3>2. self' \in [Conn -> Buffers]
            <4>1. self' = [x \in Conn |-> IF x = heap[a].self THEN Freed
                                          ELSE IF x = c THEN [self[x] EXCEPT !.pending = {}]
                                          ELSE self[x]]
                BY <1>5, <2>5 DEF SelfEvent, local_event_cb
            <4>2. self \in [Conn -> Buffers]
                BY DEF TypeOK
            <4>. HIDE DEF a
            <4>. QED
                BY <2>3, <4>1, <4>2
        <3>4. remote' \in [Conn -> Buffers]
            <4>1. remote' = [x \in Conn |-> IF x = heap[a].partner THEN Freed ELSE remote[x]]
                BY <1>5, <2>5 DEF SelfEvent, local_event_cb
            <4>. QED
                BY <2>3, <4>1 DEF TypeOK
        <3>3. proc' \in {"up", "down"} /\ ub' \in BOOLEAN
            BY <1>0, <1>5, <2>1, <2>5 DEF SelfEvent, local_event_cb, TypeOK
        <3>. QED
            BY <1>5, <2>2, <3>1, <3>2, <3>3, <3>4 DEF SelfEvent, TypeOK
    <2>. QED
        BY <2>4, <2>5
<1>6. ASSUME NEW c \in Conn, RemoteConnected(c)
      PROVE  TypeOK'
    <2>1. remote[c] \in Buffers /\ remote[c].arg \in Addr
        BY <1>6 DEF RemoteConnected, ConnectedDue, SameContext, Open, TypeOK
    <2>2. running' \in (Conn \X {"self", "remote"}) \cup {NULL}
        BY <1>6 DEF RemoteConnected, Settle
    <2>3. remote[c].pending \ {"connected"} \in SUBSET Callbacks
        BY <2>1 DEF Bufferevents
    <2>4. [remote[c] EXCEPT !.pending = @ \ {"connected"}] \in Buffers
        BY <2>1, <2>3, FieldTypes
    <2>5. remote' \in [Conn -> Buffers]
        BY <1>6, <2>4 DEF RemoteConnected, TypeOK
    <2>6. \A x \in Conn : Said(self[x], Plain("reply", x, 0)) \in Buffers
        BY MessageTypes, BuffereventTypes DEF Kinds, TypeOK
    <2>7. ub' \in BOOLEAN /\ proc' \in {"up", "down"} /\ self' \in [Conn -> Buffers]
        BY <1>6, <1>0, <2>1, <2>6 DEF RemoteConnected, TypeOK
    <2>. QED
        BY <1>6, <2>2, <2>5, <2>7 DEF RemoteConnected, TypeOK
<1>7. ASSUME NEW c \in Conn, RemoteRead(c)
      PROVE  TypeOK'
    <2>. DEFINE a == remote[c].arg
                p == heap[a].partner
    <2>1. remote[c] \in Buffers /\ a \in Addr
        BY <1>7 DEF RemoteRead, ReadDue, SameContext, Open, TypeOK
    <2>2. running' \in (Conn \X {"self", "remote"}) \cup {NULL}
        BY <1>7 DEF RemoteRead, Settle
    <2>3. CASE Fault(c, a) /\ UNCHANGED <<self, remote>>
        BY <1>7, <1>0, <2>1, <2>2, <2>3 DEF RemoteRead, TypeOK
    <2>4. CASE Deref(c, a) /\ proc' = "down" /\ UNCHANGED <<self, remote>>
        BY <1>7, <1>0, <2>1, <2>2, <2>4 DEF RemoteRead, TypeOK
    <2>5. CASE Relay(c, a)
        <3>1. p \in Conn /\ remote[p] \in Buffers /\ remote[p].in \in Seq(Messages)
            BY <2>1, <2>5 DEF Relay, TypeOK, Contexts, Bufferevents
        <3>2. EncryptAll(remote[p].in) \in Seq(Messages)
            BY <3>1, StreamTypes
        <3>3. \A x \in Conn : [self[x] EXCEPT !.out = @ \o EncryptAll(remote[p].in)] \in Buffers
            <4>1. TAKE x \in Conn
            <4>2. self[x] \in Buffers /\ self[x].out \in Seq(Messages)
                BY DEF TypeOK, Bufferevents
            <4>3. self[x].out \o EncryptAll(remote[p].in) \in Seq(Messages)
                BY <3>2, <4>2, SequenceTypes
            <4>. QED
                BY <4>2, <4>3, FieldTypes
        <3>4. self' \in [Conn -> Buffers]
            BY <2>5, <3>3 DEF Relay, TypeOK
        <3>5. [remote EXCEPT ![p].in = <<>>] \in [Conn -> Buffers]
            BY <3>1, SequenceTypes, FieldTypes DEF TypeOK
        <3>6. remote' \in [Conn -> Buffers]
            <4>. DEFINE r == [remote EXCEPT ![p].in = <<>>]
            <4>1. r[c] \in Buffers /\ r[c].pending \ {"read"} \in SUBSET Callbacks
                BY <3>5 DEF Bufferevents
            <4>2. [r[c] EXCEPT !.pending = @ \ {"read"}] \in Buffers
                BY <4>1, FieldTypes
            <4>3. remote' = [r EXCEPT ![c].pending = @ \ {"read"}]
                BY <2>5 DEF Relay
            <4>. HIDE DEF r
            <4>. QED
                BY <3>5, <4>2, <4>3 DEF r
        <3>7. ub' \in BOOLEAN /\ proc' \in {"up", "down"}
            BY <1>0, <2>1, <2>5 DEF Relay, TypeOK
        <3>. QED
            BY <1>7, <2>2, <3>4, <3>6, <3>7 DEF RemoteRead, TypeOK
    <2>. QED
        BY <1>7, <2>3, <2>4, <2>5 DEF RemoteRead
<1>8. ASSUME NEW c \in Conn, RemoteEvent(c)
      PROVE  TypeOK'
    <2>. DEFINE a == remote[c].arg
    <2>1. remote[c] \in Buffers /\ a \in Addr
        BY <1>8 DEF RemoteEvent, EventDue, SameContext, Open, TypeOK
    <2>2. running' \in (Conn \X {"self", "remote"}) \cup {NULL}
        BY <1>8 DEF RemoteEvent, Settle
    <2>3. CASE Fault(c, a) /\ UNCHANGED <<heap, self, remote>>
        BY <1>8, <1>0, <2>1, <2>2, <2>3 DEF RemoteEvent, TypeOK
    <2>4. CASE RemoteGone(c, a)
        <3>1. \A x \in Conn : /\ Freed \in Buffers
                             /\ [remote[x] EXCEPT !.pending = {}] \in Buffers
            BY BuffereventTypes, FieldTypes DEF TypeOK
        <3>2. self' \in [Conn -> Buffers] /\ remote' \in [Conn -> Buffers]
            BY <2>4, <3>1 DEF RemoteGone, TypeOK
        <3>3. heap' \in [Addr -> Contexts]
            <4>1. heap' = [heap EXCEPT ![a] = Deleted(@)]
                BY <2>4 DEF RemoteGone
            <4>. QED
                BY <2>1, <4>1, DeletedType DEF TypeOK
        <3>4. ub' \in BOOLEAN /\ proc' \in {"up", "down"}
            BY <1>0, <2>1, <2>4 DEF RemoteGone, TypeOK
        <3>. QED
            BY <1>8, <2>2, <3>2, <3>3, <3>4 DEF RemoteEvent, TypeOK
    <2>. QED
        BY <1>8, <2>3, <2>4 DEF RemoteEvent
<1>9. ASSUME NEW c \in Conn, ReadTimeout(c)
      PROVE  TypeOK'
    <2>1. /\ self[c] \in Buffers /\ ReadStops(self[c], "timeout") \in Buffers
          /\ remote[c] \in Buffers /\ ReadStops(remote[c], "timeout") \in Buffers
        BY BuffereventTypes DEF TypeOK, Callbacks
    <2>2. self' \in [Conn -> Buffers] /\ remote' \in [Conn -> Buffers]
        BY <1>9, <2>1 DEF ReadTimeout, TypeOK
    <2>. QED
        BY <1>9, <2>2 DEF ReadTimeout, TypeOK
<1>10. ASSUME NEW c \in Conn, Environment(c)
      PROVE  TypeOK'
    <2>1. self[c] \in Buffers /\ remote[c] \in Buffers
        BY DEF TypeOK
    <2>2. /\ \A e \in {"eof", "error"} : /\ ReadStops(self[c], e) \in Buffers
                                       /\ ReadStops(remote[c], e) \in Buffers
          /\ WriteStops(self[c]) \in Buffers /\ WriteStops(remote[c]) \in Buffers
          /\ Connected(remote[c]) \in Buffers /\ Refused(remote[c]) \in Buffers
          /\ CanWrite(self[c]) => Flushed(self[c]) \in Buffers
          /\ CanWrite(remote[c]) => Flushed(remote[c]) \in Buffers
        BY <2>1, BuffereventTypes DEF Callbacks, CanWrite
    <2>3. CASE ClientSends(c)
        <3>1. PICK m \in NextMessages(c) :
                /\ sent' = [sent EXCEPT ![c] = Append(@, m)]
                /\ self' = [self EXCEPT ![c] = Received(@, Encrypt(m))]
            BY <2>3 DEF ClientSends, SelfReceives
        <3>2. m \in Messages
            <4>1. Len(sent[c]) \in Nat
                BY DEF TypeOK
            <4>2. Greetings \subseteq Kinds /\ Requests \subseteq Kinds /\ "data" \in Kinds
                BY ServerAssumption DEF Kinds
            <4>. QED
                BY <4>1, <4>2, MessageTypes DEF NextMessages
        <3>3. Received(self[c], Encrypt(m)) \in Buffers
            BY <2>1, <3>2, MessageTypes, BuffereventTypes
        <3>4. self' \in [Conn -> Buffers] /\ sent' \in [Conn -> Seq(Messages)]
            BY <3>1, <3>2, <3>3, SequenceTypes DEF TypeOK
        <3>. QED
            BY <2>3, <3>4 DEF ClientSends, SelfReceives, TypeOK
    <2>4. CASE ClientReceives(c)
        <3>1. self[c].out \in Seq(Messages) /\ self[c].out # <<>>
            BY <2>1, <2>4 DEF ClientReceives, CanWrite, Bufferevents
        <3>2. Decrypt(Head(self[c].out)) \in Messages
            BY <3>1, SequenceTypes, MessageTypes
        <3>3. self' \in [Conn -> Buffers] /\ got' \in [Conn -> Seq(Messages)]
            BY <2>2, <2>4, <3>2, SequenceTypes DEF ClientReceives, TypeOK
        <3>. QED
            BY <2>4, <3>3 DEF ClientReceives, TypeOK
    <2>5. CASE ClientLeaves(c)
        <3>1. self' \in [Conn -> Buffers]
            BY <2>2, <2>5 DEF ClientLeaves, TypeOK
        <3>. QED
            BY <2>5, <3>1 DEF ClientLeaves, TypeOK
    <2>6. CASE ConnectEnds(c)
        <3>1. remote' \in [Conn -> Buffers]
            BY <2>2, <2>6 DEF ConnectEnds, TypeOK
        <3>. QED
            BY <2>6, <3>1 DEF ConnectEnds, TypeOK
    <2>7. CASE TargetSends(c)
        <3>1. served' \in [Conn -> Nat] /\ served'[c] \in Nat
            BY <2>7 DEF TargetSends, TypeOK
        <3>2. Received(remote[c], Plain("data", c, served'[c])) \in Buffers
            BY <2>1, <3>1, MessageTypes, BuffereventTypes DEF Kinds
        <3>3. remote' \in [Conn -> Buffers]
            BY <2>7, <3>2 DEF TargetSends, TypeOK
        <3>. QED
            BY <2>7, <3>1, <3>3 DEF TargetSends, TypeOK
    <2>8. CASE TargetReceives(c)
        <3>1. remote[c].out \in Seq(Messages) /\ remote[c].out # <<>>
            BY <2>1, <2>8 DEF TargetReceives, CanWrite, Bufferevents
        <3>2. remote' \in [Conn -> Buffers] /\ fetched' \in [Conn -> Seq(Messages)]
            BY <2>2, <2>8, <3>1, SequenceTypes DEF TargetReceives, TypeOK
        <3>. QED
            BY <2>8, <3>2 DEF TargetReceives, TypeOK
    <2>9. CASE TargetLeaves(c)
        <3>1. remote' \in [Conn -> Buffers]
            BY <2>2, <2>9 DEF TargetLeaves, TypeOK
        <3>. QED
            BY <2>9, <3>1 DEF TargetLeaves, TypeOK
    <2>. QED
        BY <1>10, <2>3, <2>4, <2>5, <2>6, <2>7, <2>8, <2>9 DEF Environment
<1>11. CASE UNCHANGED vars
    BY <1>11 DEF vars, TypeOK
<1>. QED
    BY <1>1, <1>3, <1>4, <1>5, <1>6, <1>7, <1>8, <1>9, <1>10, <1>11 DEF Next, Callback

-----------------------------------------------------------------------------
\* Who holds which address: the conjuncts of IInv after its type.
Holders ==
    /\ HeapOwned /\ FreedOnce /\ OneContext /\ SelfValid /\ PartnerBack
    /\ Stages /\ SameContext /\ OnlyTimeout /\ RemoteValid

LEMMA InitHolders == Init => Holders
BY ServerAssumption DEF Init, Holders, HeapOwned, FreedOnce, OneContext, SelfValid, PartnerBack,
   Stages, SameContext, OnlyTimeout, RemoteValid, Absent, Open, Socket, Asking

\* Bufferevent b became d and kept what the invariant says of it: its address,
\* its socket or lack of one, and its place in the handshake.
Kept(b, d) ==
    /\ d.st = b.st /\ d.arg = b.arg
    /\ Asking(d) => Asking(b)
    /\ d.fd = "none" <=> b.fd = "none"
    /\ b.fd = "none" => d.pending \subseteq b.pending \cup {"timeout"}

\* A step that only moves data, schedules callbacks or runs them without
\* touching a context.
Quiet ==
    /\ UNCHANGED <<heap, dns>>
    /\ ub => ub'
    /\ \A c \in Conn : Kept(self[c], self'[c]) /\ Kept(remote[c], remote'[c])

LEMMA QuietKeepsHolders == TypeOK /\ Holders /\ Quiet => Holders'
<1>. SUFFICES ASSUME TypeOK, Holders, Quiet PROVE Holders'
    OBVIOUS
<1>. USE DEF Quiet, Kept, Open, Socket
<1>1. HeapOwned' /\ FreedOnce' /\ OneContext'
    BY DEF Holders, HeapOwned, FreedOnce, OneContext
<1>2. SelfValid' /\ SameContext'
    BY DEF Holders, SelfValid, SameContext, Valid
<1>3. PartnerBack'
    <2>1. \A a \in Addr : heap[a].partner \in Conn \cup {NULL}
        BY DEF TypeOK, Contexts
    <2>. QED
        BY <2>1 DEF Holders, PartnerBack
<1>4. Stages'
    BY DEF Holders, Stages
<1>5. OnlyTimeout'
    BY DEF Holders, OnlyTimeout
<1>6. RemoteValid'
    BY DEF Holders, RemoteValid, Valid
<1>. QED
    BY <1>1, <1>2, <1>3, <1>4, <1>5, <1>6 DEF Holders

LEMMA KeptExcept ==
    ASSUME NEW f \in [Conn -> Buffers], NEW c \in Conn, NEW d, Kept(f[c], d)
    PROVE  \A x \in Conn : Kept(f[x], f[x]) /\ Kept(f[x], [f EXCEPT ![c] = d][x])
<1>1. \A b : Kept(b, b)
    BY DEF Kept
<1>. QED
    BY <1>1

\* What the operators of Bufferevent keep.
LEMMA KeptOperators ==
    ASSUME NEW b \in Buffers
    PROVE  /\ Kept(b, b)
           /\ Kept(b, ReadStops(b, "timeout"))
           /\ \A e : b.fd = "connected" => Kept(b, ReadStops(b, e))
           /\ b.fd = "connected" => Kept(b, WriteStops(b))
           /\ \A m : b.fd = "connected" => Kept(b, Received(b, m))
           /\ b.fd = "connecting" => Kept(b, Connected(b)) /\ Kept(b, Refused(b))
           /\ Kept(b, Flushed(b))
           /\ Kept(b, Took(b))
           /\ \A m : Kept(b, Said(b, m))
<1>. USE DEF Kept, Asking, Buffers, Bufferevents
<1>1. Kept(b, b) /\ Kept(b, Flushed(b)) /\ Kept(b, Took(b)) /\ \A m : Kept(b, Said(b, m))
    BY DEF Flushed, Took, Said
<1>2. /\ Kept(b, ReadStops(b, "timeout"))
      /\ \A e : b.fd = "connected" => Kept(b, ReadStops(b, e))
    BY DEF ReadStops
<1>3. /\ b.fd = "connected" => Kept(b, WriteStops(b))
      /\ \A m : b.fd = "connected" => Kept(b, Received(b, m))
      /\ b.fd = "connecting" => Kept(b, Connected(b)) /\ Kept(b, Refused(b))
    BY DEF WriteStops, Received, Connected, Refused
<1>. QED
    BY <1>1, <1>2, <1>3

\* The timers, and what clients and targets do, are quiet.
LEMMA EnvironmentIsQuiet ==
    ASSUME TypeOK, NEW c \in Conn, Environment(c) \/ ReadTimeout(c)
    PROVE  Quiet
<1>1. UNCHANGED <<heap, dns, ub>>
    BY DEF Environment, ClientSends, SelfReceives, ClientReceives, ClientLeaves, ConnectEnds,
           TargetSends, TargetReceives, TargetLeaves, ReadTimeout
<1>2. self \in [Conn -> Buffers] /\ remote \in [Conn -> Buffers]
    BY DEF TypeOK, Buffers
<1>3. \E d : Kept(self[c], d) /\ self' = [self EXCEPT ![c] = d]
    <2>1. CASE UNCHANGED self
        BY <1>2, <2>1, KeptOperators
    <2>2. CASE ClientSends(c)
        <3>1. PICK m : self' = [self EXCEPT ![c] = Received(self[c], m)]
            BY <2>2 DEF ClientSends, SelfReceives
        <3>. QED
            BY <1>2, <2>2, <3>1, KeptOperators DEF ClientSends, SelfReceives, CanRead
    <2>3. CASE ClientReceives(c)
        BY <1>2, <2>3, KeptOperators DEF ClientReceives
    <2>4. CASE ClientLeaves(c)
        BY <1>2, <2>4, KeptOperators DEF ClientLeaves, CanRead, CanWrite
    <2>5. CASE ReadTimeout(c)
        BY <1>2, <2>5, KeptOperators DEF ReadTimeout
    <2>. QED
        BY <2>1, <2>2, <2>3, <2>4, <2>5
           DEF Environment, ConnectEnds, TargetSends, TargetReceives, TargetLeaves
<1>4. \E d : Kept(remote[c], d) /\ remote' = [remote EXCEPT ![c] = d]
    <2>1. CASE UNCHANGED remote
        BY <1>2, <2>1, KeptOperators
    <2>2. CASE ConnectEnds(c)
        BY <1>2, <2>2, KeptOperators DEF ConnectEnds
    <2>3. CASE TargetSends(c)
        <3>1. PICK m : remote' = [remote EXCEPT ![c] = Received(remote[c], m)]
            BY <2>3 DEF TargetSends
        <3>. QED
            BY <1>2, <2>3, <3>1, KeptOperators DEF TargetSends, CanRead
    <2>4. CASE TargetReceives(c)
        BY <1>2, <2>4, KeptOperators DEF TargetReceives
    <2>5. CASE TargetLeaves(c)
        BY <1>2, <2>5, KeptOperators DEF TargetLeaves, CanRead, CanWrite
    <2>6. CASE ReadTimeout(c)
        BY <1>2, <2>6, KeptOperators DEF ReadTimeout
    <2>. QED
        BY <2>1, <2>2, <2>3, <2>4, <2>5, <2>6
           DEF Environment, ClientSends, SelfReceives, ClientReceives, ClientLeaves
<1>. QED
    BY <1>1, <1>2, <1>3, <1>4, KeptExcept DEF Quiet

\* So are the callbacks that read, short of the two branches that serve a
\* request, and the one that reports the connect.
LEMMA ReadIsQuiet ==
    ASSUME TypeOK, NEW c \in Conn, NEW s \in Conn, NEW a,
           ub => ub',
           \/ self[c].readcb = "local_read_cb" /\ handle_first(c, s)
           \/ Dropped(c, s)
           \/ handle_last(c, a, s)
    PROVE  Quiet
<1>1. UNCHANGED <<heap, dns>>
    BY DEF handle_first, Dropped, handle_last
<1>2. self \in [Conn -> Buffers] /\ remote \in [Conn -> Buffers]
    BY DEF TypeOK, Buffers
<1>3. ASSUME NEW x \in Conn
      PROVE  Kept(self[x], self'[x])
    <2>1. CASE self[c].readcb = "local_read_cb" /\ handle_first(c, s)
        BY <2>1, FirstFields DEF ReadKept, Kept, Asking
    <2>2. CASE Dropped(c, s) \/ handle_last(c, a, s)
        <3>1. self' = Taken(c, s)
            BY <2>2 DEF Dropped, handle_last
        <3>. QED
            BY <3>1, TakenFields DEF ReadKept, SamePlace, Kept, Asking
    <2>. QED
        BY <2>1, <2>2
<1>4. \A b \in Buffers : \A t : Kept(b, [b EXCEPT !.out = t])
    BY DEF Kept, Asking, Buffers, Bufferevents
<1>5. ASSUME NEW x \in Conn
      PROVE  Kept(remote[x], remote'[x])
    <2>1. CASE UNCHANGED remote
        BY <1>2, <2>1, KeptOperators
    <2>2. CASE handle_last(c, a, s)
        <3>1. \/ remote'[x] = remote[x]
              \/ \E t : remote'[x] = [remote[x] EXCEPT !.out = t]
            BY <2>2 DEF handle_last
        <3>2. remote[x] \in Buffers
            BY <1>2
        <3>3. CASE remote'[x] = remote[x]
            BY <3>2, <3>3, KeptOperators
        <3>4. CASE \E t : remote'[x] = [remote[x] EXCEPT !.out = t]
            BY <1>4, <3>2, <3>4
        <3>. QED
            BY <3>1, <3>3, <3>4
    <2>. QED
        BY <2>1, <2>2 DEF handle_first, Dropped
<1>. QED
    BY <1>1, <1>3, <1>5 DEF Quiet

LEMMA RemoteCallbackIsQuiet ==
    ASSUME TypeOK, NEW c \in Conn, RemoteConnected(c) \/ RemoteRead(c)
    PROVE  Quiet
<1>1. UNCHANGED <<heap, dns>> /\ (ub => ub')
    BY DEF RemoteConnected, RemoteRead, Relay, Deref, Fault
<1>2. self \in [Conn -> Buffers] /\ remote \in [Conn -> Buffers]
    BY DEF TypeOK, Buffers
<1>4. ASSUME NEW x \in Conn
      PROVE  Kept(self[x], self'[x])
    <2>1. self[x] \in Buffers
        BY <1>2
    <2>2. CASE RemoteConnected(c)
        <3>1. self'[x] = self[x] \/ self'[x] = Said(self[x], Plain("reply", x, 0))
            BY <2>2 DEF RemoteConnected
        <3>. QED
            BY <2>1, <3>1, KeptOperators
    <2>3. CASE RemoteRead(c)
        <3>1. \/ self'[x] = self[x]
              \/ \E s : self'[x] = [self[x] EXCEPT !.out = s]
            BY <2>3 DEF RemoteRead, Relay
        <3>. QED
            BY <2>1, <3>1 DEF Kept, Asking, Buffers, Bufferevents
    <2>. QED
        BY <2>2, <2>3
<1>5. ASSUME NEW x \in Conn
      PROVE  Kept(remote[x], remote'[x])
    <2>1. remote[x] \in Buffers
        BY <1>2
    <2>2. CASE RemoteConnected(c)
        <3>1. \/ remote'[x] = remote[x]
              \/ \E e : remote'[x] = [remote[x] EXCEPT !.pending = @ \ e]
            BY <1>2, <2>2 DEF RemoteConnected
        <3>. QED
            BY <2>1, <3>1 DEF Kept, Asking, Buffers, Bufferevents
    <2>3. CASE RemoteRead(c)
        <3>1. \/ remote'[x] = remote[x]
              \/ \E s : remote'[x] = [remote[x] EXCEPT !.in = s]
              \/ \E e : remote'[x] = [remote[x] EXCEPT !.pending = @ \ e]
              \/ \E s, e : remote'[x] = [remote[x] EXCEPT !.in = s, !.pending = @ \ e]
            <4>1. CASE UNCHANGED remote
                BY <4>1
            <4>2. CASE Relay(c, remote[c].arg)
                <5>1. PICK p : remote' = [remote EXCEPT ![p].in = <<>>, ![c].pending = @ \ {"read"}]
                    BY <4>2 DEF Relay
                <5>2. CASE x = p /\ x = c
                    BY <1>2, <5>1, <5>2
                <5>3. CASE x = p /\ x # c
                    BY <1>2, <5>1, <5>3
                <5>4. CASE x # p /\ x = c
                    BY <1>2, <5>1, <5>4
                <5>5. CASE x # p /\ x # c
                    BY <1>2, <5>1, <5>5
                <5>. QED
                    BY <5>2, <5>3, <5>4, <5>5
            <4>. QED
                BY <2>3, <4>1, <4>2 DEF RemoteRead
        <3>. QED
            BY <2>1, <3>1 DEF Kept, Asking, Buffers, Bufferevents
    <2>. QED
        BY <2>2, <2>3
<1>. QED
    BY <1>1, <1>4, <1>5 DEF Quiet

-----------------------------------------------------------------------------
\* The steps that change who holds an address.

LEMMA ListenKeepsHolders ==
    ASSUME TypeOK, Holders, NEW c \in Conn, listen_cb(c)
    PROVE  Holders'
<1>1. PICK a \in Addr :
        /\ heap[a].free > 0
        /\ heap' = [heap EXCEPT ![a] = [live |-> TRUE, free |-> @.free - 1, owner |-> c,
                                        self |-> c, partner |-> NULL]]
        /\ self' = [self EXCEPT ![c] = Opened("connected", a, "local_read_cb", FALSE)]
    BY DEF listen_cb
<1>2. self[c].st = "none" /\ UNCHANGED <<remote, dns, ub>>
    BY DEF listen_cb
<1>3. /\ self'[c].st = "open" /\ self'[c].arg = a /\ self'[c].readcb = "local_read_cb"
      /\ \A x \in Conn \ {c} : self'[x] = self[x]
    BY <1>1 DEF Opened, Absent, TypeOK
<1>4. /\ heap'[a] = [live |-> TRUE, free |-> heap[a].free - 1, owner |-> c,
                       self |-> c, partner |-> NULL]
      /\ \A x \in Addr \ {a} : heap'[x] = heap[x]
    BY <1>1 DEF TypeOK
<1>5. a # NULL /\ c # NULL
    BY ServerAssumption
<1>. USE DEF Open, Socket
<1>6. \A x \in Addr : heap[x].live => heap[x].owner # c
    BY <1>2 DEF Holders, HeapOwned
<1>13. ~ub => ~heap[a].live /\ heap[a].free = 1
    BY <1>1 DEF Holders, FreedOnce
<1>14. FreedOnce'
    BY <1>2, <1>4, <1>13 DEF Holders, FreedOnce
<1>7. HeapOwned'
    BY <1>3, <1>4, <1>6 DEF Holders, HeapOwned
<1>8. OneContext'
    BY <1>4, <1>6 DEF Holders, OneContext
<1>9. SelfValid'
    <2>. SUFFICES ASSUME ~ub
                  PROVE  \A x \in Conn : Open(self'[x]) /\ self'[x].arg # NULL =>
                                           Valid(x, self[x].arg)'
        BY <1>2 DEF SelfValid
    <2>1. Valid(c, a)'
        BY <1>4 DEF Valid
    <2>2. ASSUME NEW x \in Conn \ {c}, Open(self[x]), self[x].arg # NULL
          PROVE  Valid(x, self[x].arg)'
        <3>1. self[x].arg \in Addr
            BY <2>2 DEF TypeOK, Bufferevents
        <3>2. Valid(x, self[x].arg)
            BY <2>2 DEF Holders, SelfValid
        <3>. QED
            BY <1>3, <1>4, <1>13, <3>1, <3>2 DEF Valid
    <2>. QED
        BY <1>3, <2>1, <2>2
<1>10. PartnerBack'
    BY <1>2, <1>4 DEF Holders, PartnerBack
<1>11. Stages' /\ SameContext' /\ OnlyTimeout'
    BY <1>2, <1>3, <1>5 DEF Holders, Stages, SameContext, OnlyTimeout
<1>12. RemoteValid'
    <2>. SUFFICES ASSUME ~ub, NEW x \in Conn, Socket(remote[x])
                  PROVE  (Valid(x, remote[x].arg) /\ heap[remote[x].arg].partner = x)'
        BY <1>2 DEF RemoteValid
    <2>1. /\ remote[x].arg \in Addr
          /\ Valid(x, remote[x].arg) /\ heap[remote[x].arg].partner = x
        BY DEF Holders, RemoteValid, SameContext
    <2>. QED
        BY <1>2, <1>4, <1>13, <2>1 DEF Valid
<1>. QED
    BY <1>7, <1>8, <1>9, <1>10, <1>11, <1>12, <1>14 DEF Holders

\* dns_cb on the address that evdns held for connection c.  The local
\* bufferevent, if it is still open, carries that address too.
LEMMA dns_cbKeepsHolders ==
    ASSUME TypeOK, Holders, NEW c \in Conn, NEW a \in Addr, dns_cb(c, a),
           remote[c].st = "none",
           Open(self[c]) => self[c].arg = a,
           self[c].st # "none",
           \A x \in Conn : /\ self'[x].st = self[x].st /\ self'[x].arg = self[x].arg
                           /\ x # c => (Asking(self'[x]) => Asking(self[x])) /\ dns'[x] = dns[x],
           dns'[c] = NULL,
           Open(self'[c]) => ~Asking(self'[c])
    PROVE  Holders'
<1>. USE DEF Open, Socket, Asking
<1>1. /\ ub => ub'
      /\ \A x \in Addr : heap[x].partner \in Conn \cup {NULL}
    BY DEF dns_cb, Fault, Deref, TypeOK, Contexts
<1>2. ASSUME UNCHANGED <<heap, remote>>
      PROVE  Holders'
    <2>1. HeapOwned' /\ FreedOnce' /\ OneContext'
        BY <1>1, <1>2 DEF Holders, HeapOwned, FreedOnce, OneContext
    <2>2. SelfValid' /\ RemoteValid'
        BY <1>1, <1>2 DEF Holders, SelfValid, RemoteValid, Valid
    <2>3. PartnerBack' /\ OnlyTimeout'
        BY <1>1, <1>2 DEF Holders, PartnerBack, OnlyTimeout
    <2>4. Stages' /\ SameContext'
        BY <1>2 DEF Holders, Stages, SameContext
    <2>. QED
        BY <2>1, <2>2, <2>3, <2>4 DEF Holders
<1>3. ASSUME Deref(c, a),
             NEW fd \in {"none", "connecting"},
             remote' = [remote EXCEPT ![c] = Opened(fd, a, "remote_read_cb", TRUE)],
             \/ fd = "none" /\ UNCHANGED heap
             \/ fd # "none" /\ heap' = [heap EXCEPT ![a].partner = c]
      PROVE  Holders'
    <2>1. /\ remote'[c].st = "open" /\ remote'[c].arg = a /\ remote'[c].fd = fd
          /\ remote'[c].pending = {}
          /\ \A x \in Conn \ {c} : remote'[x] = remote[x]
        BY <1>3 DEF Opened, Absent, TypeOK
    <2>2. \A x \in Addr : /\ heap'[x].live = heap[x].live /\ heap'[x].owner = heap[x].owner
                          /\ heap'[x].self = heap[x].self /\ heap'[x].free = heap[x].free
                          /\ heap'[x].partner = IF fd # "none" /\ x = a THEN c ELSE heap[x].partner
        BY <1>3 DEF TypeOK, Contexts
    <2>3. HeapOwned' /\ FreedOnce' /\ OneContext'
        <3>1. HeapOwned /\ FreedOnce /\ OneContext
            BY DEF Holders
        <3>. QED
            BY <1>1, <2>2, <3>1 DEF HeapOwned, FreedOnce, OneContext
    <2>4. SelfValid'
        <3>1. \A x \in Conn : self[x].arg \in Addr \cup {NULL}
            BY DEF TypeOK, Bufferevents
        <3>. QED
            BY <1>1, <2>2, <3>1 DEF Holders, SelfValid, Valid
    <2>5. PartnerBack'
        BY <1>1, <2>1, <2>2 DEF Holders, PartnerBack
    <2>6. Stages'
        BY <2>1 DEF Holders, Stages
    <2>7. SameContext' /\ OnlyTimeout'
        BY <2>1 DEF Holders, SameContext, OnlyTimeout
    <2>8. RemoteValid'
        <3>1. ~ub' => ~ub /\ Valid(c, a)
            BY <1>3 DEF Deref
        <3>2. \A x \in Conn : Open(remote[x]) => remote[x].arg \in Addr
            BY DEF Holders, SameContext
        <3>. SUFFICES ASSUME ~ub', NEW x \in Conn, Socket(remote'[x])
                      PROVE  (Valid(x, remote[x].arg) /\ heap[remote[x].arg].partner = x)'
            BY DEF RemoteValid
        <3>3. CASE x = c
            BY <2>1, <2>2, <3>1, <3>3 DEF Valid
        <3>4. CASE x # c
            <4>1. Valid(x, remote[x].arg) /\ heap[remote[x].arg].partner = x
                BY <2>1, <3>1, <3>4 DEF Holders, RemoteValid
            <4>2. remote[x].arg \in Addr /\ remote[x].arg # a
                BY <2>1, <3>1, <3>2, <3>4, <4>1 DEF Valid
            <4>. QED
                BY <2>1, <2>2, <3>4, <4>1, <4>2 DEF Valid
        <3>. QED
            BY <3>3, <3>4
    <2>. QED
        BY <2>3, <2>4, <2>5, <2>6, <2>7, <2>8 DEF Holders
<1>4. CASE UNCHANGED <<heap, remote>>
    BY <1>2, <1>4
<1>5. CASE /\ Deref(c, a)
           /\ remote' = [remote EXCEPT ![c] = Opened("connecting", a, "remote_read_cb", TRUE)]
           /\ heap' = [heap EXCEPT ![a].partner = c]
    BY <1>3, <1>5
<1>6. CASE /\ Deref(c, a)
           /\ remote' = [remote EXCEPT ![c] = Opened("none", a, "remote_read_cb", TRUE)]
           /\ UNCHANGED heap
    BY <1>3, <1>6
<1>. QED
    BY <1>4, <1>5, <1>6 DEF dns_cb


LEMMA LookupKeepsHolders ==
    ASSUME TypeOK, Holders, NEW c \in Conn, LookupReturns(c)
    PROVE  Holders'
<1>1. dns[c] \in Addr /\ dns[c] # NULL /\ dns_cb(c, dns[c]) /\ UNCHANGED self
    BY DEF LookupReturns, TypeOK
<1>2. dns'[c] = NULL /\ \A x \in Conn \ {c} : dns'[x] = dns[x]
    BY DEF LookupReturns, TypeOK
<1>3. /\ remote[c].st = "none" /\ self[c].st # "none"
      /\ Open(self[c]) => self[c].arg = dns[c] /\ ~Asking(self[c])
    BY <1>1 DEF Holders, Stages, SameContext
<1>. QED
    BY <1>1, <1>2, <1>3, dns_cbKeepsHolders

\* Serving a request: the domain branch hands the address on, to evdns or to the
\* target's bufferevent; the IPv4 branch takes it from the local bufferevent.
LEMMA RequestKeepsHolders ==
    ASSUME TypeOK, Holders, NEW c \in Conn, NEW s \in Conn, Open(self[c]),
           self[c].readcb = "handle_second",
           ub => ub',
           RequestIPv4(c, s) \/ RequestDomain(c, self[c].arg, s)
    PROVE  Holders'
<1>. DEFINE a == self[c].arg
<1>1. /\ a \in Addr /\ a # NULL /\ dns[c] = NULL /\ remote[c].st = "none"
    BY DEF Holders, Stages, Asking, TypeOK, Bufferevents
<1>2. /\ \A x \in Conn : self'[x].st = self[x].st
      /\ \A x \in Conn \ {c} : self'[x].arg = self[x].arg /\ self'[x].readcb = self[x].readcb
      /\ self'[c].readcb = "handle_last"
      /\ IF RequestIPv4(c, s) THEN self'[c].arg = NULL ELSE self'[c].arg = a
    BY RequestFields DEF ReadKept, SamePlace
<1>3. CASE RequestIPv4(c, s)
    <2>1. self'[c].arg = NULL /\ UNCHANGED <<heap, remote, dns>>
        BY <1>2, <1>3 DEF RequestIPv4
    <2>. USE DEF Open, Socket, Asking
    <2>2. HeapOwned'
        BY <1>2, <2>1 DEF Holders, HeapOwned
    <2>3. FreedOnce' /\ OneContext' /\ OnlyTimeout'
        BY <2>1 DEF Holders, FreedOnce, OneContext, OnlyTimeout
    <2>4. SelfValid' /\ RemoteValid'
        BY <1>2, <2>1 DEF Holders, SelfValid, RemoteValid, Valid
    <2>5. PartnerBack'
        BY <2>1 DEF Holders, PartnerBack
    <2>6. Stages' /\ SameContext'
        BY <1>1, <1>2, <2>1 DEF Holders, Stages, SameContext
    <2>. QED
        BY <2>2, <2>3, <2>4, <2>5, <2>6 DEF Holders
<1>4. CASE RequestDomain(c, a, s)
    <2>0. ~RequestIPv4(c, s)
        BY <1>4 DEF RequestIPv4, RequestDomain
    <2>1. /\ \A x \in Conn : self'[x].st = self[x].st /\ self'[x].arg = self[x].arg
          /\ \A x \in Conn \ {c} : self'[x].readcb = self[x].readcb
          /\ self'[c].readcb = "handle_last"
        BY <1>2, <2>0
    <2>2. CASE dns_cb(c, a) /\ UNCHANGED dns
        BY <1>1, <2>1, <2>2, dns_cbKeepsHolders DEF Open, Asking
    <2>3. CASE dns' = [dns EXCEPT ![c] = a] /\ UNCHANGED <<proc, heap, remote>>
        <3>. USE DEF Open, Socket, Asking
        <3>1. dns'[c] = a /\ \A x \in Conn \ {c} : dns'[x] = dns[x]
            BY <2>3 DEF TypeOK
        <3>2. HeapOwned'
            BY <2>1, <2>3 DEF Holders, HeapOwned
        <3>3. FreedOnce' /\ OneContext' /\ OnlyTimeout'
            BY <2>3 DEF Holders, FreedOnce, OneContext, OnlyTimeout
        <3>4. SelfValid' /\ RemoteValid'
            BY <2>1, <2>3 DEF Holders, SelfValid, RemoteValid, Valid
        <3>5. PartnerBack'
            BY <2>3 DEF Holders, PartnerBack
        <3>6. Stages' /\ SameContext'
            BY <1>1, <2>1, <2>3, <3>1 DEF Holders, Stages, SameContext
        <3>. QED
            BY <3>2, <3>3, <3>4, <3>5, <3>6 DEF Holders
    <2>. QED
        BY <1>4, <2>2, <2>3 DEF RequestDomain
<1>. QED
    BY <1>3, <1>4

-----------------------------------------------------------------------------
\* The steps that release.

\* Deleting the context at address a together with the bufferevents that carry a.
\* A deleted context is only deleted again by a misuse.
LEMMA ReleaseKeepsHolders ==
    ASSUME TypeOK, Holders, NEW a \in Addr,
           heap' = [heap EXCEPT ![a] = Deleted(@)],
           UNCHANGED dns,
           ub => ub',
           ~ub' => heap[a].live,
           \A x \in Conn : IF x = heap[a].self THEN self'[x].st = "freed"
                           ELSE Kept(self[x], self'[x]),
           \A x \in Conn : \/ Kept(remote[x], remote'[x])
                           \/ Open(remote[x]) /\ remote[x].arg = a /\ remote'[x].st = "freed",
           ~ub' => \A x \in Conn :
                     Socket(remote[x]) /\ remote[x].arg = a => remote'[x].st = "freed"
    PROVE  Holders'
<1>1. /\ ~heap'[a].live /\ heap'[a].self = NULL /\ heap'[a].partner = NULL
      /\ heap'[a].free = heap[a].free + 1
      /\ \A x \in Addr \ {a} : heap'[x] = heap[x]
    BY DEF Deleted, TypeOK, Contexts
<1>2. \A x \in Conn : x # NULL
    BY ServerAssumption
<1>. USE DEF Kept, Open, Socket, Asking
<1>3. HeapOwned'
    <2>. SUFFICES ASSUME NEW x \in Addr, x # a, heap[x].live
                  PROVE  /\ heap[x].owner \in Conn /\ heap[x].self = heap[x].owner
                         /\ (self[heap[x].owner].st = "open")'
                         /\ (self[heap[x].owner].arg \in {x, NULL})'
        BY <1>1 DEF Holders, HeapOwned
    <2>1. /\ heap[x].owner \in Conn /\ heap[x].self = heap[x].owner
          /\ self[heap[x].owner].st = "open" /\ self[heap[x].owner].arg \in {x, NULL}
        BY DEF Holders, HeapOwned
    <2>2. heap[x].owner # heap[a].self
        BY <1>2, <2>1 DEF Holders, HeapOwned, OneContext
    <2>. QED
        BY <1>1, <2>1, <2>2
<1>4. FreedOnce'
    BY <1>1 DEF Holders, FreedOnce
<1>5. OneContext'
    BY <1>1 DEF Holders, OneContext
<1>6. SelfValid'
    <2>. SUFFICES ASSUME ~ub', NEW x \in Conn, Open(self'[x]), self'[x].arg # NULL
                  PROVE  (Valid(x, self[x].arg))'
        BY DEF SelfValid
    <2>1. x # heap[a].self /\ Open(self[x]) /\ self'[x].arg = self[x].arg
        OBVIOUS
    <2>2. self[x].arg \in Addr /\ Valid(x, self[x].arg)
        BY <2>1 DEF Holders, SelfValid, TypeOK, Bufferevents
    <2>3. self[x].arg # a
        BY <2>1, <2>2 DEF Holders, HeapOwned, Valid
    <2>. QED
        BY <1>1, <2>1, <2>2, <2>3 DEF Valid
<1>7. PartnerBack'
    <2>. SUFFICES ASSUME NEW x \in Addr, heap'[x].partner # NULL
                  PROVE  (Socket(remote[heap[x].partner]) /\ remote[heap[x].partner].arg = x)'
        BY DEF PartnerBack
    <2>1. x # a /\ heap'[x] = heap[x]
        BY <1>1
    <2>2. /\ heap[x].partner \in Conn
          /\ Socket(remote[heap[x].partner]) /\ remote[heap[x].partner].arg = x
        BY <2>1 DEF Holders, PartnerBack, TypeOK, Contexts
    <2>. QED
        BY <2>1, <2>2
<1>8. Stages'
    <2>1. \A x \in Conn : \/ self'[x].st = "freed" /\ (x = heap[a].self => Open(self[x]))
                          \/ Kept(self[x], self'[x])
        BY <1>2 DEF Holders, HeapOwned
    <2>. QED
        BY <2>1 DEF Holders, Stages
<1>9. SameContext' /\ OnlyTimeout'
    BY DEF Holders, SameContext, OnlyTimeout
<1>10. RemoteValid'
    <2>. SUFFICES ASSUME ~ub', NEW x \in Conn, Socket(remote'[x])
                  PROVE  (Valid(x, remote[x].arg) /\ heap[remote[x].arg].partner = x)'
        BY DEF RemoteValid
    <2>1. Socket(remote[x]) /\ remote'[x].arg = remote[x].arg /\ remote[x].arg # a
        OBVIOUS
    <2>2. Valid(x, remote[x].arg) /\ heap[remote[x].arg].partner = x /\ remote[x].arg \in Addr
        BY <2>1 DEF Holders, RemoteValid, SameContext
    <2>. QED
        BY <1>1, <2>1, <2>2 DEF Valid
<1>. QED
    BY <1>3, <1>4, <1>5, <1>6, <1>7, <1>8, <1>9, <1>10 DEF Holders

LEMMA SelfEventKeepsHolders ==
    ASSUME TypeOK, Holders, NEW c \in Conn, SelfEvent(c)
    PROVE  Holders'
<1>. DEFINE a == self[c].arg
<1>1. /\ Open(self[c]) /\ a \in Addr \cup {NULL} /\ UNCHANGED dns
      /\ self \in [Conn -> Buffers] /\ remote \in [Conn -> Buffers]
    BY DEF SelfEvent, EventDue, Open, TypeOK, Buffers, Bufferevents
<1>2. \A b \in Buffers : Kept(b, b) /\ Kept(b, [b EXCEPT !.pending = {}])
    BY DEF Kept, Asking, Buffers, Bufferevents
<1>3. CASE a = NULL
    <2>1. UNCHANGED <<heap, remote, ub>> /\ self' = [self EXCEPT ![c].pending = {}]
        BY <1>3 DEF SelfEvent, local_event_cb
    <2>2. \A x \in Conn : Kept(self[x], self'[x]) /\ Kept(remote[x], remote'[x])
        BY <1>1, <1>2, <2>1
    <2>. QED
        BY <1>1, <2>1, <2>2, QuietKeepsHolders DEF Quiet
<1>4. CASE a # NULL
    <2>1. /\ self' = [x \in Conn |-> IF x = heap[a].self THEN Freed
                                     ELSE IF x = c THEN [self[x] EXCEPT !.pending = {}]
                                     ELSE self[x]]
          /\ remote' = [x \in Conn |-> IF x = heap[a].partner THEN Freed ELSE remote[x]]
          /\ heap' = [heap EXCEPT ![a] = Deleted(@)]
          /\ Deref(c, a)
        BY <1>4 DEF SelfEvent, local_event_cb
    <2>2. a \in Addr /\ (ub => ub') /\ (~ub' => ~ub /\ heap[a].live)
        BY <1>1, <1>4, <2>1 DEF Deref, Valid
    <2>3. \A x \in Conn : IF x = heap[a].self THEN self'[x].st = "freed"
                          ELSE Kept(self[x], self'[x])
        BY <1>1, <1>2, <2>1 DEF Freed, Absent
    <2>4. \A x \in Conn : \/ Kept(remote[x], remote'[x])
                          \/ Open(remote[x]) /\ remote[x].arg = a /\ remote'[x].st = "freed"
        <3>1. TAKE x \in Conn
        <3>2. CASE x = heap[a].partner
            BY <2>1, <2>2, <3>2, ServerAssumption DEF Holders, PartnerBack, Socket, Open, Freed, Absent
        <3>3. CASE x # heap[a].partner
            BY <1>1, <1>2, <2>1, <3>3
        <3>. QED
            BY <3>2, <3>3
    <2>5. ~ub' => \A x \in Conn :
                    Socket(remote[x]) /\ remote[x].arg = a => remote'[x].st = "freed"
        BY <2>1, <2>2 DEF Holders, RemoteValid, Freed, Absent
    <2>. QED
        BY <1>1, <2>1, <2>2, <2>3, <2>4, <2>5, ReleaseKeepsHolders
<1>. QED
    BY <1>3, <1>4

LEMMA RemoteEventKeepsHolders ==
    ASSUME TypeOK, Holders, NEW c \in Conn, RemoteEvent(c)
    PROVE  Holders'
<1>. DEFINE a == remote[c].arg
            closed == IF remote[c].pending \cap {"eof", "error"} # {} THEN heap[a].partner ELSE c
<1>1. /\ Open(remote[c]) /\ a \in Addr /\ UNCHANGED dns
      /\ self \in [Conn -> Buffers] /\ remote \in [Conn -> Buffers]
    BY DEF RemoteEvent, EventDue, Open, Holders, SameContext, TypeOK, Buffers
<1>2. \A b \in Buffers : Kept(b, b) /\ Kept(b, [b EXCEPT !.pending = {}])
    BY DEF Kept, Asking, Buffers, Bufferevents
<1>3. CASE Fault(c, a) /\ UNCHANGED <<heap, self, remote>>
    BY <1>1, <1>3, QuietKeepsHolders DEF Fault, Deref, Quiet, Kept
<1>4. CASE RemoteGone(c, a)
    <2>1. /\ self' = [x \in Conn |-> IF x = heap[a].self THEN Freed ELSE self[x]]
          /\ remote' = [x \in Conn |-> IF x = closed THEN Freed
                                       ELSE IF x = c THEN [remote[x] EXCEPT !.pending = {}]
                                       ELSE remote[x]]
          /\ heap' = [heap EXCEPT ![a] = Deleted(@)]
          /\ Deref(c, a)
        BY <1>4 DEF RemoteGone
    <2>2. (ub => ub') /\ (~ub' => ~ub /\ Valid(c, a) /\ heap[a].live)
        BY <2>1 DEF Deref, Valid
    <2>3. \A x \in Conn : IF x = heap[a].self THEN self'[x].st = "freed"
                          ELSE Kept(self[x], self'[x])
        BY <1>1, <1>2, <2>1 DEF Freed, Absent
    <2>4. \A x \in Conn : IF x = closed THEN remote'[x].st = "freed"
                          ELSE Kept(remote[x], remote'[x])
        BY <1>1, <1>2, <2>1 DEF Freed, Absent
    <2>5. \A x \in Conn : x = closed => Open(remote[x]) /\ remote[x].arg = a
        BY <1>1, ServerAssumption DEF Holders, PartnerBack, Socket, Open
    <2>6. ASSUME ~ub', NEW x \in Conn, Socket(remote[x]), remote[x].arg = a
          PROVE  remote'[x].st = "freed"
        <3>1. Valid(x, a) /\ heap[a].partner = x
            BY <2>2, <2>6 DEF Holders, RemoteValid
        <3>2. x = c
            BY <2>2, <2>6, <3>1 DEF Valid
        <3>. QED
            BY <2>4, <3>1, <3>2
    <2>. HIDE DEF closed
    <2>7. \A x \in Conn : \/ Kept(remote[x], remote'[x])
                          \/ Open(remote[x]) /\ remote[x].arg = a /\ remote'[x].st = "freed"
        BY <2>4, <2>5
    <2>8. ~ub' => \A x \in Conn :
                    Socket(remote[x]) /\ remote[x].arg = a => remote'[x].st = "freed"
        BY <2>6
    <2>. HIDE DEF a
    <2>. QED
        BY <1>1, <2>1, <2>2, <2>3, <2>7, <2>8, ReleaseKeepsHolders
<1>. QED
    BY <1>3, <1>4 DEF RemoteEvent

-----------------------------------------------------------------------------
LEMMA NextHolders == IInv /\ [Next]_vars => Holders'
<1>. SUFFICES ASSUME TypeOK, Holders, [Next]_vars PROVE Holders'
    BY DEF IInv, Holders
<1>1. ASSUME NEW c \in Conn, listen_cb(c)
      PROVE  Holders'
    BY <1>1, ListenKeepsHolders
<1>2. ASSUME NEW c \in Conn, LookupReturns(c)
      PROVE  Holders'
    BY <1>2, LookupKeepsHolders
<1>3. ASSUME NEW c \in Conn, SelfRead(c)
      PROVE  Holders'
    <2>. DEFINE a == self[c].arg
                s == heap[a].self
    <2>1. CASE NullRead
        <3>1. UNCHANGED <<heap, dns, self, remote>>
            BY <2>1 DEF NullRead
        <3>2. UNCHANGED ub \/ Deref(c, a)
            BY <1>3 DEF SelfRead
        <3>3. ub => ub'
            BY <3>2 DEF Deref
        <3>. QED
            BY <3>1, <3>3, QuietKeepsHolders DEF Quiet, Kept
    <2>2. CASE ~NullRead
        <3>1. /\ a # NULL /\ s # NULL /\ Deref(c, a) /\ Open(self[c])
              /\ \/ self[c].readcb = "local_read_cb" /\ handle_first(c, s)
                 \/ self[c].readcb = "handle_second" /\ handle_second(c, a, s)
                 \/ self[c].readcb = "handle_last" /\ handle_last(c, a, s)
            BY <1>3, <2>2 DEF SelfRead, ReadDue, Open
        <3>2. s \in Conn /\ (ub => ub')
            BY <3>1 DEF Deref, TypeOK, Contexts, Bufferevents
        <3>. HIDE DEF s
        <3>3. CASE \/ self[c].readcb = "local_read_cb" /\ handle_first(c, s)
                   \/ Dropped(c, s) \/ handle_last(c, a, s)
            BY <3>2, <3>3, ReadIsQuiet, QuietKeepsHolders
        <3>4. CASE self[c].readcb = "handle_second" /\ (RequestIPv4(c, s) \/ RequestDomain(c, a, s))
            BY <3>1, <3>2, <3>4, RequestKeepsHolders
        <3>. QED
            BY <3>1, <3>3, <3>4 DEF handle_second
    <2>. QED
        BY <2>1, <2>2
<1>4. ASSUME NEW c \in Conn, SelfEvent(c)
      PROVE  Holders'
    BY <1>4, SelfEventKeepsHolders
<1>5. ASSUME NEW c \in Conn, RemoteConnected(c) \/ RemoteRead(c)
      PROVE  Holders'
    BY <1>5, RemoteCallbackIsQuiet, QuietKeepsHolders
<1>6. ASSUME NEW c \in Conn, RemoteEvent(c)
      PROVE  Holders'
    BY <1>6, RemoteEventKeepsHolders
<1>7. ASSUME NEW c \in Conn, Environment(c) \/ ReadTimeout(c)
      PROVE  Holders'
    BY <1>7, EnvironmentIsQuiet, QuietKeepsHolders
<1>8. CASE UNCHANGED vars
    BY <1>8 DEF vars, Holders, HeapOwned, FreedOnce, OneContext, SelfValid, PartnerBack, Stages,
        SameContext, OnlyTimeout, RemoteValid, Valid
<1>. QED
    BY <1>1, <1>2, <1>3, <1>4, <1>5, <1>6, <1>7, <1>8 DEF Next, Callback

-----------------------------------------------------------------------------
\* The addresses of contexts are held as IInv says in every reachable state of
\* the server, for any number of connections, heap cells and messages.
THEOREM Inductive == Spec => []IInv
<1>1. Init => IInv
    BY InitType, InitHolders DEF IInv, Holders
<1>2. IInv /\ [Next]_vars => IInv'
    BY NextType, NextHolders DEF IInv, Holders
<1>. QED
    BY <1>1, <1>2, PTL DEF Spec

\* Every callback leaves the server's variables in their types.
THEOREM TypeCorrect == Spec => []TypeOK
<1>1. IInv => TypeOK
    BY DEF IInv
<1>. QED
    BY <1>1, Inductive, PTL

\* Until a remote callback or dns_cb uses a deleted context, local_read_cb,
\* handle_second, handle_last and local_event_cb never find their Socks5ctx deleted
\* or handed to another connection.
THEOREM LocalContextsLive == Spec => []LocalContextLive
<1>1. IInv => LocalContextLive
    BY DEF IInv, SelfValid, HeapOwned, LocalContextLive, Valid, Open, TypeOK, Bufferevents
<1>. QED
    BY <1>1, Inductive, PTL

\* No callback finds in context->partner a bufferevent that was freed.
THEOREM PartnersOpen == Spec => []PartnerOpen
<1>1. IInv => PartnerOpen
    BY DEF IInv, PartnerBack, PartnerOpen, Socket
<1>. QED
    BY <1>1, Inductive, PTL

\* Until a deleted context is used, a target's bufferevent with a socket exists
\* together with its context and its client's bufferevent.
THEOREM RemoteContextsLive == Spec => []RemoteContextLive
<1>1. IInv => RemoteContextLive
    <2>. SUFFICES ASSUME IInv, ~ub, NEW c \in Conn, Socket(remote[c])
                  PROVE  /\ Valid(c, remote[c].arg)
                         /\ heap[remote[c].arg].partner = c
                         /\ self[c].st = "open"
        BY DEF RemoteContextLive, Socket
    <2>1. Valid(c, remote[c].arg) /\ heap[remote[c].arg].partner = c
        BY DEF IInv, RemoteValid
    <2>2. remote[c].arg \in Addr
        BY DEF IInv, SameContext, Socket, Open
    <2>. QED
        BY <2>1, <2>2 DEF IInv, HeapOwned, Valid, Open
<1>. QED
    BY <1>1, Inductive, PTL

-----------------------------------------------------------------------------
LEMMA MisuseOfDeleted ==
    ASSUME NEW c \in Conn, NEW a, Deref(c, a) \/ Fault(c, a), ~ub, ub'
    PROVE  ~Valid(c, a)
BY DEF Deref, Fault

\* A remote callback that is the first to use a deleted context is the timeout
\* of a bufferevent without a socket, after its client has gone.
LEMMA RemoteMisuse ==
    ASSUME IInv, NEW c \in Conn, Open(remote[c]), remote[c].pending # {},
           ~ub, ~Valid(c, remote[c].arg)
    PROVE  remote[c].fd = "none" /\ remote[c].pending = {"timeout"} /\ self[c].st = "freed"
<1>1. remote[c].fd = "none"
    BY DEF IInv, RemoteValid, Socket, Open
<1>2. remote[c].pending = {"timeout"}
    BY <1>1 DEF IInv, OnlyTimeout
<1>3. remote[c].arg \in Addr /\ remote[c].arg # NULL
    BY ServerAssumption DEF IInv, SameContext
<1>4. self[c].st \in {"none", "open", "freed"}
    BY DEF IInv, TypeOK, Bufferevents
<1>5. self[c].st # "none" /\ ~Open(self[c])
    BY <1>3 DEF IInv, Stages, SameContext, SelfValid, Open
<1>. QED
    BY <1>1, <1>2, <1>4, <1>5 DEF Open

\* The only callbacks that can be the first to use a deleted Socks5ctx are dns_cb
\* for a client that has left, and the read timeout of a target's bufferevent
\* whose connect failed at once and whose client has left.
THEOREM FirstMisuseIsLate == Spec => FirstMisuse
<1>. DEFINE Late(c) ==
        /\ self[c].st = "freed"
        /\ \/ dns[c] # NULL /\ dns'[c] = NULL
           \/ remote[c].st = "open" /\ remote[c].fd = "none" /\ "timeout" \in remote[c].pending
<1>1. ASSUME IInv, Next, ~ub, ub'
      PROVE  \E c \in Conn : Late(c)
    <2>1. ASSUME NEW c \in Conn, LookupReturns(c)
          PROVE  Late(c)
        <3>1. dns[c] \in Addr /\ dns[c] # NULL /\ dns'[c] = NULL
            BY <1>1, <2>1 DEF LookupReturns, IInv, TypeOK
        <3>2. ~Valid(c, dns[c])
            BY <1>1, <2>1, <3>1, MisuseOfDeleted DEF LookupReturns, dns_cb
        <3>3. self[c].st # "none" /\ self[c].st # "open"
            BY <1>1, <3>1, <3>2 DEF IInv, Stages, SameContext, SelfValid, Open
        <3>. QED
            BY <1>1, <3>1, <3>3 DEF IInv, TypeOK, Bufferevents
    <2>2. ASSUME NEW c \in Conn, SelfRead(c)
          PROVE  FALSE
        <3>1. self[c].arg # NULL => Valid(c, self[c].arg)
            BY <1>1, <2>2 DEF SelfRead, ReadDue, IInv, SelfValid, Open
        <3>. QED
            BY <1>1, <2>2, <3>1 DEF SelfRead, Deref
    <2>3. ASSUME NEW c \in Conn, RemoteConnected(c) \/ RemoteRead(c) \/ RemoteEvent(c)
          PROVE  Late(c)
        <3>1. Deref(c, remote[c].arg) \/ Fault(c, remote[c].arg)
            BY <2>3 DEF RemoteConnected, RemoteRead, RemoteEvent, Relay, RemoteGone
        <3>2. Open(remote[c]) /\ remote[c].pending # {}
            BY <2>3 DEF RemoteConnected, RemoteRead, RemoteEvent, ConnectedDue, ReadDue,
                EventDue, Open
        <3>. QED
            BY <1>1, <3>1, <3>2, MisuseOfDeleted, RemoteMisuse DEF Open
    <2>5. ASSUME NEW c \in Conn, SelfEvent(c)
          PROVE  FALSE
        <3>1. self[c].arg # NULL => Valid(c, self[c].arg)
            BY <1>1, <2>5 DEF SelfEvent, EventDue, IInv, SelfValid, Open
        <3>. QED
            BY <1>1, <2>5, <3>1 DEF SelfEvent, local_event_cb, Deref
    <2>4. ASSUME NEW c \in Conn, listen_cb(c) \/ Environment(c) \/ ReadTimeout(c)
          PROVE  FALSE
        BY <1>1, <2>4 DEF listen_cb, ReadTimeout, Environment, ClientSends, SelfReceives,
            ClientReceives, ClientLeaves, ConnectEnds, TargetSends, TargetReceives, TargetLeaves
    <2>. QED
        BY <1>1, <2>1, <2>2, <2>3, <2>4, <2>5 DEF Next, Callback
<1>2. IInv /\ [Next]_vars => [~ub /\ ub' => \E c \in Conn : Late(c)]_vars
    BY <1>1
<1>. QED
    BY <1>2, Inductive, PTL DEF Spec, FirstMisuse

-----------------------------------------------------------------------------
\* Streams of messages and their conversions.

LEMMA MessageInverse ==
    ASSUME NEW m \in Messages
    PROVE  Encrypt(Decrypt(m)) = m /\ Decrypt(Encrypt(m)) = m
<1>1. /\ m = [kind |-> m.kind, conn |-> m.conn, n |-> m.n, layer |-> m.layer]
      /\ m.layer \in Int
    BY DEF Messages, MessagesOf
<1>2. m.layer + 1 - 1 = m.layer /\ m.layer - 1 + 1 = m.layer
    BY <1>1
<1>3. \A e \in Messages :
        /\ Encrypt(e) = [kind |-> e.kind, conn |-> e.conn, n |-> e.n, layer |-> e.layer + 1]
        /\ Decrypt(e) = [kind |-> e.kind, conn |-> e.conn, n |-> e.n, layer |-> e.layer - 1]
    BY DEF Encrypt, Decrypt, Messages, MessagesOf
<1>4. Encrypt(m) \in Messages /\ Decrypt(m) \in Messages
    BY MessageTypes
<1>. QED
    BY <1>1, <1>2, <1>3, <1>4

\* A conversion keeps the length and goes message by message.
LEMMA Conversions ==
    ASSUME NEW s \in Seq(Messages)
    PROVE  /\ EncryptAll(s) \in Seq(Messages) /\ DecryptAll(s) \in Seq(Messages)
           /\ Len(EncryptAll(s)) = Len(s) /\ Len(DecryptAll(s)) = Len(s) /\ Len(s) \in Nat
           /\ \A i \in 1..Len(s) : /\ s[i] \in Messages
                                   /\ EncryptAll(s)[i] = Encrypt(s[i])
                                   /\ DecryptAll(s)[i] = Decrypt(s[i])
<1>1. \A i \in DOMAIN s : s[i] \in Messages
    OBVIOUS
<1>2. DOMAIN s = 1..Len(s) /\ Len(s) \in Nat
    OBVIOUS
<1>3. EncryptAll(s) \in Seq(Messages) /\ DecryptAll(s) \in Seq(Messages)
    BY StreamTypes
<1>. QED
    BY <1>1, <1>2, <1>3 DEF EncryptAll, DecryptAll

LEMMA DecryptEmpty == DecryptAll(<<>>) = <<>>
<1>1. <<>> \in Seq(Messages)
    OBVIOUS
<1>. QED
    BY <1>1, Conversions, EmptySeq

LEMMA Concatenation ==
    ASSUME NEW s \in Seq(Messages), NEW t \in Seq(Messages)
    PROVE  /\ s \o t \in Seq(Messages) /\ Len(s \o t) = Len(s) + Len(t)
           /\ \A i \in 1..(Len(s) + Len(t)) :
                (s \o t)[i] = IF i <= Len(s) THEN s[i] ELSE t[i - Len(s)]
<1>1. Len(s) \in Nat /\ Len(t) \in Nat
    OBVIOUS
<1>. QED
    BY <1>1, ConcatProperties

LEMMA ConcatBeginning ==
    ASSUME NEW s \in Seq(Messages), NEW t \in Seq(Messages), NEW i \in 1..Len(s)
    PROVE  (s \o t)[i] = s[i]
<1>1. Len(s) \in Nat /\ Len(t) \in Nat
    OBVIOUS
<1>2. i \in 1..(Len(s) + Len(t)) /\ i <= Len(s)
    BY <1>1
<1>. QED
    BY <1>2, Concatenation

\* Decrypting a stream that another one, encrypted, was appended to.
LEMMA DecryptConcat ==
    ASSUME NEW s \in Seq(Messages), NEW t \in Seq(Messages)
    PROVE  DecryptAll(s \o EncryptAll(t)) = DecryptAll(s) \o t
<1>. DEFINE e == EncryptAll(t)
            d == DecryptAll(s)
<1>1. /\ e \in Seq(Messages) /\ Len(e) = Len(t) /\ Len(t) \in Nat
      /\ d \in Seq(Messages) /\ Len(d) = Len(s) /\ Len(s) \in Nat
    BY Conversions
<1>2. /\ s \o e \in Seq(Messages) /\ Len(s \o e) = Len(s) + Len(t)
      /\ d \o t \in Seq(Messages) /\ Len(d \o t) = Len(s) + Len(t)
      /\ \A i \in 1..(Len(s) + Len(t)) :
           /\ (s \o e)[i] = IF i <= Len(s) THEN s[i] ELSE e[i - Len(s)]
           /\ (d \o t)[i] = IF i <= Len(s) THEN d[i] ELSE t[i - Len(s)]
    <2>. HIDE DEF e, d
    <2>1. /\ s \o e \in Seq(Messages) /\ Len(s \o e) = Len(s) + Len(e)
          /\ \A i \in 1..(Len(s) + Len(e)) :
               (s \o e)[i] = IF i <= Len(s) THEN s[i] ELSE e[i - Len(s)]
        BY <1>1, Concatenation
    <2>2. /\ d \o t \in Seq(Messages) /\ Len(d \o t) = Len(d) + Len(t)
          /\ \A i \in 1..(Len(d) + Len(t)) :
               (d \o t)[i] = IF i <= Len(d) THEN d[i] ELSE t[i - Len(d)]
        BY <1>1, Concatenation
    <2>. QED
        BY <1>1, <2>1, <2>2
<1>3. ASSUME NEW i \in 1..(Len(s) + Len(t))
      PROVE  DecryptAll(s \o e)[i] = (d \o t)[i]
    <2>1. DecryptAll(s \o e)[i] = Decrypt((s \o e)[i])
        BY <1>2, Conversions
    <2>2. CASE i <= Len(s)
        <3>1. i \in 1..Len(s)
            BY <1>1, <2>2
        <3>2. d[i] = Decrypt(s[i])
            BY <3>1, Conversions
        <3>. QED
            BY <1>2, <2>1, <2>2, <3>2
    <2>3. CASE ~(i <= Len(s))
        <3>1. i - Len(s) \in 1..Len(t)
            BY <1>1, <2>3
        <3>2. e[i - Len(s)] = Encrypt(t[i - Len(s)]) /\ t[i - Len(s)] \in Messages
            BY <3>1, Conversions
        <3>3. Decrypt(e[i - Len(s)]) = t[i - Len(s)]
            BY <3>2, MessageInverse
        <3>. QED
            BY <1>2, <2>1, <2>3, <3>3
    <2>. QED
        BY <2>2, <2>3
<1>4. DecryptAll(s \o e) \in Seq(Messages) /\ Len(DecryptAll(s \o e)) = Len(s) + Len(t)
    BY <1>2, Conversions
<1>. QED
    BY <1>2, <1>3, <1>4, SeqEqual

\* One more encrypted message.
LEMMA DecryptAppend ==
    ASSUME NEW s \in Seq(Messages), NEW m \in Messages
    PROVE  DecryptAll(Append(s, Encrypt(m))) = Append(DecryptAll(s), m)
<1>1. <<m>> \in Seq(Messages) /\ Len(<<m>>) = 1 /\ <<m>>[1] = m /\ Encrypt(m) \in Messages
    BY MessageTypes
<1>2. /\ EncryptAll(<<m>>) \in Seq(Messages) /\ Len(EncryptAll(<<m>>)) = 1
      /\ EncryptAll(<<m>>)[1] = Encrypt(m)
    <2>. DEFINE u == <<m>>
    <2>1. u \in Seq(Messages) /\ Len(u) = 1 /\ u[1] = m /\ 1 \in 1..1
        BY <1>1
    <2>. HIDE DEF u
    <2>2. /\ EncryptAll(u) \in Seq(Messages) /\ Len(EncryptAll(u)) = 1
          /\ EncryptAll(u)[1] = Encrypt(m)
        BY <2>1, Conversions
    <2>. QED
        BY <2>2 DEF u
<1>3. EncryptAll(<<m>>) = <<Encrypt(m)>>
    <2>. DEFINE v == EncryptAll(<<m>>)
    <2>1. v \in Seq(Messages) /\ Len(v) = 1 /\ v[1] = Encrypt(m)
        BY <1>2
    <2>. HIDE DEF v
    <2>2. v = <<Encrypt(m)>>
        BY <2>1
    <2>. QED
        BY <2>2 DEF v
<1>4. DecryptAll(s) \in Seq(Messages)
    BY Conversions
<1>5. /\ Append(s, Encrypt(m)) = s \o <<Encrypt(m)>>
      /\ Append(DecryptAll(s), m) = DecryptAll(s) \o <<m>>
    BY <1>1, <1>4, AppendIsConcat
<1>. QED
    BY <1>1, <1>3, <1>5, DecryptConcat

\* The first message of one stream is moved to the end of another.
LEMMA Moved ==
    ASSUME NEW s \in Seq(Messages), NEW t \in Seq(Messages), t # <<>>
    PROVE  Append(s, Head(t)) \o Tail(t) = s \o t
<1>1. Head(t) \in Messages /\ Tail(t) \in Seq(Messages) /\ <<Head(t)>> \in Seq(Messages)
    OBVIOUS
<1>2. t = <<Head(t)>> \o Tail(t) /\ Append(s, Head(t)) = s \o <<Head(t)>>
    BY <1>1
<1>3. (s \o <<Head(t)>>) \o Tail(t) = s \o (<<Head(t)>> \o Tail(t))
    BY <1>1, ConcatAssociative
<1>. QED
    BY <1>2, <1>3

\* Decrypting a stream without its first message.
LEMMA DecryptTail ==
    ASSUME NEW s \in Seq(Messages), s # <<>>
    PROVE  /\ DecryptAll(s) # <<>>
           /\ Head(DecryptAll(s)) = Decrypt(Head(s))
           /\ Tail(DecryptAll(s)) = DecryptAll(Tail(s))
<1>1. /\ Len(s) \in Nat \ {0} /\ Head(s) = s[1]
      /\ Tail(s) \in Seq(Messages) /\ Len(Tail(s)) = Len(s) - 1
      /\ \A i \in 1..(Len(s) - 1) : Tail(s)[i] = s[i + 1]
    BY EmptySeq
<1>2. /\ DecryptAll(s) \in Seq(Messages) /\ Len(DecryptAll(s)) = Len(s)
      /\ \A i \in 1..Len(s) : DecryptAll(s)[i] = Decrypt(s[i])
    BY Conversions
<1>3. DecryptAll(s) # <<>> /\ Head(DecryptAll(s)) = Decrypt(Head(s))
    BY <1>1, <1>2
<1>4. /\ Tail(DecryptAll(s)) \in Seq(Messages) /\ Len(Tail(DecryptAll(s))) = Len(s) - 1
      /\ \A i \in 1..(Len(s) - 1) : Tail(DecryptAll(s))[i] = DecryptAll(s)[i + 1]
    BY <1>1, <1>2, <1>3
<1>5. /\ DecryptAll(Tail(s)) \in Seq(Messages) /\ Len(DecryptAll(Tail(s))) = Len(s) - 1
      /\ \A i \in 1..(Len(s) - 1) : DecryptAll(Tail(s))[i] = Decrypt(Tail(s)[i])
    BY <1>1, Conversions
<1>6. \A i \in 1..(Len(s) - 1) : i + 1 \in 1..Len(s)
    BY <1>1
<1>7. \A i \in 1..(Len(s) - 1) : Tail(DecryptAll(s))[i] = DecryptAll(Tail(s))[i]
    BY <1>1, <1>2, <1>4, <1>5, <1>6
<1>. QED
    BY <1>3, <1>4, <1>5, <1>7, SeqEqual

LEMMA AppendConcat ==
    ASSUME NEW s \in Seq(Messages), NEW t \in Seq(Messages), NEW m \in Messages
    PROVE  s \o Append(t, m) = Append(s \o t, m)
<1>1. <<m>> \in Seq(Messages) /\ s \o t \in Seq(Messages)
    OBVIOUS
<1>2. Append(t, m) = t \o <<m>> /\ Append(s \o t, m) = (s \o t) \o <<m>>
    BY <1>1, AppendIsConcat
<1>. QED
    BY <1>1, <1>2, ConcatAssociative

\* What has been written to a client: g has arrived and o, encrypted, is under
\* way.  One more message is written; a stream is written; a message arrives.
LEMMA WrittenAppend ==
    ASSUME NEW g \in Seq(Messages), NEW o \in Seq(Messages), NEW m \in Messages
    PROVE  g \o DecryptAll(Append(o, Encrypt(m))) = Append(g \o DecryptAll(o), m)
<1>. DEFINE d == DecryptAll(o)
<1>1. d \in Seq(Messages)
    BY Conversions
<1>2. DecryptAll(Append(o, Encrypt(m))) = Append(d, m)
    BY DecryptAppend
<1>. HIDE DEF d
<1>3. g \o Append(d, m) = Append(g \o d, m)
    BY <1>1, AppendConcat
<1>. QED
    BY <1>2, <1>3 DEF d

LEMMA WrittenConcat ==
    ASSUME NEW g \in Seq(Messages), NEW o \in Seq(Messages), NEW t \in Seq(Messages)
    PROVE  g \o DecryptAll(o \o EncryptAll(t)) = (g \o DecryptAll(o)) \o t
<1>1. DecryptAll(o \o EncryptAll(t)) = DecryptAll(o) \o t
    BY DecryptConcat
<1>. DEFINE d == DecryptAll(o)
<1>2. d \in Seq(Messages)
    BY Conversions
<1>. HIDE DEF d
<1>3. g \o (d \o t) = (g \o d) \o t
    BY <1>2, ConcatAssociative, SMTT(40)
<1>. QED
    BY <1>1, <1>3 DEF d

LEMMA WrittenSteps ==
    ASSUME NEW g \in Seq(Messages), NEW o \in Seq(Messages)
    PROVE  /\ o # <<>> => /\ Decrypt(Head(o)) \in Messages
                          /\ Append(g, Decrypt(Head(o))) \o DecryptAll(Tail(o)) = g \o DecryptAll(o)
           /\ g \o DecryptAll(o) \in Seq(Messages)
           /\ Len(g \o DecryptAll(o)) = Len(g) + Len(o)
           /\ g \o DecryptAll(<<>>) = g
<1>1. DecryptAll(o) \in Seq(Messages) /\ Len(DecryptAll(o)) = Len(o)
    BY Conversions
<1>2. ASSUME o # <<>>
      PROVE  /\ Decrypt(Head(o)) \in Messages
             /\ Append(g, Decrypt(Head(o))) \o DecryptAll(Tail(o)) = g \o DecryptAll(o)
    <2>1. Head(o) \in Messages
        BY <1>2
    <2>. QED
        BY <1>1, <1>2, <2>1, DecryptTail, Moved, MessageTypes
<1>3. g \o DecryptAll(o) \in Seq(Messages) /\ Len(g \o DecryptAll(o)) = Len(g) + Len(o)
    BY <1>1, Concatenation
<1>4. g \o DecryptAll(<<>>) = g
    BY DecryptEmpty, ConcatEmptySeq
<1>. QED
    BY <1>2, <1>3, <1>4

\* What is on the way to a target: f has arrived, o is in the output buffer, and
\* i, still encrypted, in the input buffer of the other bufferevent.  One more
\* message is sent; the input buffer is forwarded; a message arrives.
LEMMA FlowAppend ==
    ASSUME NEW f \in Seq(Messages), NEW o \in Seq(Messages), NEW i \in Seq(Messages),
           NEW m \in Messages
    PROVE  f \o o \o DecryptAll(Append(i, Encrypt(m))) = Append(f \o o \o DecryptAll(i), m)
<1>. DEFINE d == DecryptAll(i)
            e == f \o o
<1>1. d \in Seq(Messages) /\ e \in Seq(Messages)
    BY Conversions
<1>2. DecryptAll(Append(i, Encrypt(m))) = Append(d, m)
    BY DecryptAppend
<1>. HIDE DEF d, e
<1>3. e \o Append(d, m) = Append(e \o d, m)
    BY <1>1, AppendConcat
<1>. QED
    BY <1>2, <1>3 DEF d, e

LEMMA FlowSteps ==
    ASSUME NEW f \in Seq(Messages), NEW o \in Seq(Messages), NEW i \in Seq(Messages)
    PROVE  /\ f \o (o \o DecryptAll(i)) \o DecryptAll(<<>>) = f \o o \o DecryptAll(i)
           /\ o # <<>> =>
                Append(f, Head(o)) \o Tail(o) \o DecryptAll(i) = f \o o \o DecryptAll(i)
           /\ f \o o \o DecryptAll(i) \in Seq(Messages)
           /\ Len(f \o o \o DecryptAll(i)) = Len(f) + Len(o) + Len(i)
<1>1. DecryptAll(i) \in Seq(Messages) /\ Len(DecryptAll(i)) = Len(i) /\ f \o o \in Seq(Messages)
    BY Conversions
<1>2. f \o (o \o DecryptAll(i)) \o DecryptAll(<<>>) = f \o o \o DecryptAll(i)
    <2>1. f \o (o \o DecryptAll(i)) = f \o o \o DecryptAll(i)
        BY <1>1, ConcatAssociative, SMTT(40)
    <2>2. f \o o \o DecryptAll(i) \in Seq(Messages)
        BY <1>1, Concatenation
    <2>. QED
        BY <2>1, <2>2, DecryptEmpty, ConcatEmptySeq
<1>3. o # <<>> => Append(f, Head(o)) \o Tail(o) \o DecryptAll(i) = f \o o \o DecryptAll(i)
    BY Moved
<1>4. /\ f \o o \o DecryptAll(i) \in Seq(Messages)
      /\ Len(f \o o) = Len(f) + Len(o)
      /\ Len(f \o o \o DecryptAll(i)) = Len(f \o o) + Len(i)
    <2>. DEFINE d == DecryptAll(i)
                e == f \o o
    <2>1. Len(e) = Len(f) + Len(o)
        BY Concatenation
    <2>2. d \in Seq(Messages) /\ Len(d) = Len(i) /\ e \in Seq(Messages)
        BY <1>1
    <2>. HIDE DEF d, e
    <2>3. e \o d \in Seq(Messages) /\ Len(e \o d) = Len(e) + Len(d)
        BY <2>2, Concatenation
    <2>. QED
        BY <2>1, <2>2, <2>3 DEF d, e
<1>. QED
    BY <1>2, <1>3, <1>4

-----------------------------------------------------------------------------
\* The numbered messages of a connection.

LEMMA Numbered ==
    ASSUME NEW c \in Conn
    PROVE  /\ \A n \in Nat : Plain("data", c, n) \in Messages
           /\ \A k \in Kinds : Plain(k, c, 0) \in Messages
           /\ \A i \in Nat \ {0} : Answer(c, i) \in Messages
<1>1. \A kind \in Kinds, n \in Nat : Plain(kind, c, n) \in Messages
    BY MessageTypes
<1>2. {"method", "reply", "data"} \subseteq Kinds
    BY DEF Kinds
<1>3. \A i \in Nat \ {0} : i # 1 /\ i # 2 => i - 2 \in Nat
    OBVIOUS
<1>. QED
    BY <1>1, <1>2, <1>3 DEF Answer

\* The end of 1..n grows by message n + 1.
LEMMA LastOfAppend ==
    ASSUME NEW c \in Conn, NEW s \in Seq(Messages), NEW n \in Nat, LastOf(c, s, n)
    PROVE  LastOf(c, Append(s, Plain("data", c, n + 1)), n + 1)
<1>. DEFINE m == Plain("data", c, n + 1)
            t == Append(s, m)
<1>1. m \in Messages /\ Len(s) \in Nat
    BY Numbered
<1>2. /\ Len(t) = Len(s) + 1
      /\ \A i \in 1..Len(s) : t[i] = s[i]
      /\ t[Len(s) + 1] = m
    BY <1>1
<1>3. \A i \in 1..(Len(s) + 1) :
        /\ i \in 1..Len(s) => n - Len(s) + i = n + 1 - (Len(s) + 1) + i
        /\ i \notin 1..Len(s) => i = Len(s) + 1 /\ n + 1 - (Len(s) + 1) + i = n + 1
    BY <1>1
<1>. HIDE DEF t
<1>4. ASSUME NEW i \in 1..(Len(s) + 1)
      PROVE  t[i] = Plain("data", c, n + 1 - (Len(s) + 1) + i)
    BY <1>2, <1>3 DEF LastOf
<1>5. Len(s) <= n => Len(s) + 1 <= n + 1
    BY <1>1
<1>. QED
    BY <1>2, <1>4, <1>5 DEF LastOf, t

LEMMA LastOfEmpty == \A c \in Conn, n \in Nat : LastOf(c, <<>>, n)
BY DEF LastOf

\* The answers grow by the next answer.
LEMMA OrderedAppend ==
    ASSUME NEW c \in Conn, NEW s \in Seq(Messages), Ordered(c, s)
    PROVE  Ordered(c, Append(s, Answer(c, Len(s) + 1)))
<1>1. Len(s) + 1 \in Nat \ {0} /\ Answer(c, Len(s) + 1) \in Messages
    BY Numbered
<1>2. /\ Len(Append(s, Answer(c, Len(s) + 1))) = Len(s) + 1
      /\ \A i \in 1..Len(s) : Append(s, Answer(c, Len(s) + 1))[i] = s[i]
      /\ Append(s, Answer(c, Len(s) + 1))[Len(s) + 1] = Answer(c, Len(s) + 1)
      /\ \A i \in 1..(Len(s) + 1) : i \in 1..Len(s) \/ i = Len(s) + 1
    BY <1>1
<1>. QED
    BY <1>2 DEF Ordered

\* The answers grow by data messages that follow on.
LEMMA OrderedConcat ==
    ASSUME NEW c \in Conn, NEW s \in Seq(Messages), NEW t \in Seq(Messages), NEW n \in Nat,
           Ordered(c, s), LastOf(c, t, n), Len(s) + Len(t) = n + 2
    PROVE  Ordered(c, s \o t)
<1>1. /\ Len(s) \in Nat /\ Len(t) \in Nat /\ Len(t) <= n
      /\ s \o t \in Seq(Messages) /\ Len(s \o t) = Len(s) + Len(t)
      /\ \A i \in 1..(Len(s) + Len(t)) :
           (s \o t)[i] = IF i <= Len(s) THEN s[i] ELSE t[i - Len(s)]
    BY Concatenation DEF LastOf
<1>2. ASSUME NEW i \in 1..(Len(s) + Len(t))
      PROVE  (s \o t)[i] = Answer(c, i)
    <2>1. CASE i <= Len(s)
        BY <1>1, <2>1 DEF Ordered
    <2>2. CASE ~(i <= Len(s))
        <3>1. /\ i - Len(s) \in 1..Len(t) /\ i # 1 /\ i # 2
              /\ n - Len(t) + (i - Len(s)) = i - 2
            <4>1. \A a, b, k, m \in Nat :
                    k \in 1..(a + b) /\ ~(k <= a) /\ b <= m /\ a + b = m + 2 =>
                       k - a \in 1..b /\ k # 1 /\ k # 2 /\ m - b + (k - a) = k - 2
                OBVIOUS
            <4>. QED
                BY <1>1, <2>2, <4>1, SMTT(40)
        <3>2. t[i - Len(s)] = Plain("data", c, n - Len(t) + (i - Len(s)))
            BY <3>1 DEF LastOf
        <3>. QED
            BY <1>1, <2>2, <3>1, <3>2 DEF Answer
    <2>. QED
        BY <2>1, <2>2
<1>. QED
    BY <1>1, <1>2 DEF Ordered

-----------------------------------------------------------------------------
\* IsPrefix and IsSuffix, message by message.

LEMMA PrefixByMessage ==
    ASSUME NEW s \in Seq(Messages), NEW t \in Seq(Messages), Len(s) <= Len(t),
           \A i \in 1..Len(s) : s[i] = t[i]
    PROVE  IsPrefix(s, t)
<1>1. /\ SubSeq(t, 1, Len(s)) \in Seq(Messages) /\ Len(SubSeq(t, 1, Len(s))) = Len(s)
      /\ \A i \in 1..Len(s) : SubSeq(t, 1, Len(s))[i] = t[i]
    BY SubSeqProperties
<1>2. SubSeq(t, 1, Len(s)) = s
    BY <1>1, SeqEqual
<1>3. SubSeq(s, 1, Len(s)) = s
    OBVIOUS
<1>. QED
    BY <1>2, <1>3 DEF IsPrefix

LEMMA ReverseByMessage ==
    ASSUME NEW s \in Seq(Messages)
    PROVE  /\ Reverse(s) \in Seq(Messages) /\ Len(Reverse(s)) = Len(s)
           /\ \A i \in 1..Len(s) : Reverse(s)[i] = s[Len(s) - i + 1]
<1>1. Len(s) \in Nat /\ \A i \in 1..Len(s) : Len(s) - i + 1 \in 1..Len(s)
    OBVIOUS
<1>2. \A i \in 1..Len(s) : s[Len(s) - i + 1] \in Messages
    BY <1>1
<1>. QED
    BY <1>1, <1>2 DEF Reverse

LEMMA SuffixByMessage ==
    ASSUME NEW s \in Seq(Messages), NEW t \in Seq(Messages), Len(s) <= Len(t),
           \A i \in 1..Len(s) : s[i] = t[Len(t) - Len(s) + i]
    PROVE  IsSuffix(s, t)
<1>. DEFINE r == Reverse(s)
            q == Reverse(t)
<1>1. /\ r \in Seq(Messages) /\ Len(r) = Len(s)
      /\ \A i \in 1..Len(s) : r[i] = s[Len(s) - i + 1]
      /\ q \in Seq(Messages) /\ Len(q) = Len(t)
      /\ \A i \in 1..Len(t) : q[i] = t[Len(t) - i + 1]
    BY ReverseByMessage
<1>. HIDE DEF r, q
<1>2. \A k, m \in Nat : k <= m => \A i \in 1..k :
        i \in 1..m /\ k - i + 1 \in 1..k /\ m - k + (k - i + 1) = m - i + 1
    OBVIOUS
<1>3. Len(s) \in Nat /\ Len(t) \in Nat
    OBVIOUS
<1>4. \A i \in 1..Len(s) : r[i] = q[i]
    <2>. TAKE i \in 1..Len(s)
    <2>1. /\ i \in 1..Len(t) /\ Len(s) - i + 1 \in 1..Len(s)
          /\ Len(t) - Len(s) + (Len(s) - i + 1) = Len(t) - i + 1
        BY <1>2, <1>3
    <2>2. s[Len(s) - i + 1] = t[Len(t) - Len(s) + (Len(s) - i + 1)]
        BY <2>1
    <2>. QED
        BY <1>1, <2>1, <2>2
<1>5. IsPrefix(r, q)
    BY <1>1, <1>4, PrefixByMessage
<1>. QED
    BY <1>5 DEF IsSuffix, r, q

LEMMA DataByMessage ==
    ASSUME NEW c \in Conn, NEW n \in Nat
    PROVE  /\ Data(c, n) \in Seq(Messages) /\ Len(Data(c, n)) = n
           /\ \A i \in 1..n : Data(c, n)[i] = Plain("data", c, i)
<1>1. \A i \in 1..n : Plain("data", c, i) \in Messages
    BY Numbered
<1>. QED
    BY <1>1 DEF Data

\* The end of 1..n, as the properties say it.
LEMMA LastOfIsSuffix ==
    ASSUME NEW c \in Conn, NEW s \in Seq(Messages), NEW n \in Nat, LastOf(c, s, n)
    PROVE  IsSuffix(s, Data(c, n)) /\ (Len(s) = n => s = Data(c, n))
<1>1. /\ Data(c, n) \in Seq(Messages) /\ Len(Data(c, n)) = n
      /\ \A i \in 1..n : Data(c, n)[i] = Plain("data", c, i)
    BY DataByMessage
<1>2. Len(s) \in Nat /\ Len(s) <= n
    BY DEF LastOf
<1>3. \A k \in Nat : k <= n => \A i \in 1..k : n - k + i \in 1..n
    OBVIOUS
<1>4. ASSUME NEW i \in 1..Len(s)
      PROVE  s[i] = Data(c, n)[n - Len(s) + i]
    <2>1. n - Len(s) + i \in 1..n
        BY <1>2, <1>3
    <2>. QED
        BY <1>1, <2>1 DEF LastOf
<1>5. IsSuffix(s, Data(c, n))
    BY <1>1, <1>2, <1>4, SuffixByMessage
<1>6. ASSUME Len(s) = n
      PROVE  s = Data(c, n)
    <2>1. \A i \in 1..n : n - n + i = i
        OBVIOUS
    <2>. QED
        BY <1>1, <1>4, <1>6, <2>1, SeqEqual
<1>. QED
    BY <1>5, <1>6

\* All that a client is to receive when its target has sent n messages.
LEMMA AllAnswers ==
    ASSUME NEW c \in Conn, NEW n \in Nat, NEW all,
           all = <<Plain("method", c, 0), Plain("reply", c, 0)>> \o Data(c, n)
    PROVE  /\ all \in Seq(Messages) /\ Len(all) = n + 2
           /\ \A i \in 1..(n + 2) : all[i] = Answer(c, i)
<1>. DEFINE h == <<Plain("method", c, 0), Plain("reply", c, 0)>>
            d == Data(c, n)
<1>1. Plain("method", c, 0) \in Messages /\ Plain("reply", c, 0) \in Messages
    BY Numbered DEF Kinds
<1>2. /\ h \in Seq(Messages) /\ Len(h) = 2
      /\ h[1] = Plain("method", c, 0) /\ h[2] = Plain("reply", c, 0)
    BY <1>1
<1>3. /\ d \in Seq(Messages) /\ Len(d) = n
      /\ \A i \in 1..n : d[i] = Plain("data", c, i)
    BY DataByMessage
<1>4. all = h \o d
    OBVIOUS
<1>. HIDE DEF h, d
<1>5. /\ h \o d \in Seq(Messages) /\ Len(h \o d) = Len(h) + Len(d)
      /\ \A i \in 1..(Len(h) + Len(d)) :
           (h \o d)[i] = IF i <= Len(h) THEN h[i] ELSE d[i - Len(h)]
    BY <1>2, <1>3, Concatenation
<1>6. ASSUME NEW i \in 1..(n + 2)
      PROVE  all[i] = Answer(c, i)
    <2>1. (h \o d)[i] = IF i <= 2 THEN h[i] ELSE d[i - 2]
        BY <1>2, <1>3, <1>5
    <2>2. CASE i <= 2
        <3>1. i = 1 \/ i = 2
            BY <2>2
        <3>. QED
            BY <1>2, <1>4, <2>1, <3>1 DEF Answer
    <2>3. CASE ~(i <= 2)
        <3>1. i - 2 \in 1..n /\ i # 1 /\ i # 2
            BY <2>3
        <3>. QED
            BY <1>3, <1>4, <2>1, <2>3, <3>1 DEF Answer
    <2>. QED
        BY <2>2, <2>3
<1>7. 2 + n = n + 2
    OBVIOUS
<1>. QED
    BY <1>2, <1>3, <1>4, <1>5, <1>6, <1>7

-----------------------------------------------------------------------------
\* What the two invariants say of one connection while no context was misused.

\* A target's bufferevent with a socket comes with the open local one, which
\* carries the same address.
LEMMA Paired ==
    ASSUME IInv, ~ub, NEW c \in Conn, Socket(remote[c])
    PROVE  /\ Open(self[c]) /\ self[c].arg = remote[c].arg /\ remote[c].arg \in Addr
           /\ remote[c].arg # NULL
           /\ Valid(c, remote[c].arg)
           /\ heap[remote[c].arg].self = c /\ heap[remote[c].arg].partner = c
<1>1. Valid(c, remote[c].arg) /\ heap[remote[c].arg].partner = c
    BY DEF IInv, RemoteValid
<1>2. remote[c].arg \in Addr /\ remote[c].arg # NULL
    BY ServerAssumption DEF IInv, SameContext, Socket, Open
<1>3. Open(self[c]) /\ heap[remote[c].arg].self = c
    BY <1>1, <1>2 DEF IInv, HeapOwned, Valid, Open
<1>. QED
    BY <1>1, <1>2, <1>3 DEF IInv, SameContext, Socket, Open

\* Whoever holds a valid address finds the local bufferevent of its connection,
\* and its target's if that has a socket, and no other.
LEMMA Found ==
    ASSUME IInv, ~ub, NEW c \in Conn, NEW a \in Addr, Valid(c, a)
    PROVE  /\ heap[a].self = c /\ Open(self[c]) /\ self[c].arg \in {a, NULL}
           /\ heap[a].partner \in {c, NULL}
           /\ heap[a].partner = c => Socket(remote[c]) /\ remote[c].arg = a
           /\ heap[a].partner = NULL => ~Socket(remote[c])
<1>1. heap[a].self = c /\ Open(self[c]) /\ self[c].arg \in {a, NULL}
    BY DEF IInv, HeapOwned, Valid
<1>2. heap[a].partner \in Conn \cup {NULL}
    BY DEF IInv, TypeOK, Contexts
<1>3. ASSUME heap[a].partner # NULL
      PROVE  heap[a].partner = c /\ Socket(remote[c]) /\ remote[c].arg = a
    <2>1. Socket(remote[heap[a].partner]) /\ remote[heap[a].partner].arg = a
        BY <1>3 DEF IInv, PartnerBack
    <2>2. Valid(heap[a].partner, a)
        BY <1>2, <1>3, <2>1 DEF IInv, RemoteValid
    <2>. QED
        BY <2>1, <2>2 DEF Valid
<1>4. Socket(remote[c]) => heap[a].partner = c
    <2>. SUFFICES ASSUME Socket(remote[c]) PROVE heap[a].partner = c
        OBVIOUS
    <2>1. Valid(c, remote[c].arg) /\ heap[remote[c].arg].partner = c /\ remote[c].arg \in Addr
        BY Paired
    <2>2. remote[c].arg = a
        BY <2>1 DEF IInv, OneContext, Valid
    <2>. QED
        BY <2>1, <2>2
<1>5. c # NULL
    BY ServerAssumption
<1>. QED
    BY <1>1, <1>2, <1>3, <1>4, <1>5

LEMMA TypesAt ==
    ASSUME TypeOK, NEW c \in Conn
    PROVE  /\ self[c] \in Buffers /\ remote[c] \in Buffers
           /\ self[c].in \in Seq(Messages) /\ self[c].out \in Seq(Messages)
           /\ remote[c].in \in Seq(Messages) /\ remote[c].out \in Seq(Messages)
           /\ sent[c] \in Seq(Messages) /\ got[c] \in Seq(Messages)
           /\ fetched[c] \in Seq(Messages)
           /\ served[c] \in Nat /\ Len(sent[c]) \in Nat /\ Len(got[c]) \in Nat
           /\ DataCount(c) \in Nat
           /\ Written(c) \in Seq(Messages) /\ Len(Written(c)) = Len(got[c]) + Len(self[c].out)
           /\ Len(Written(c)) \in Nat /\ Len(remote[c].in) \in Nat /\ Len(self[c].in) \in Nat
           /\ Flow(c) \in Seq(Messages) /\ Len(Flow(c)) \in Nat
           /\ Len(Flow(c)) = Len(fetched[c]) + Len(remote[c].out) + Len(self[c].in)
<1>1. self[c] \in Buffers /\ remote[c] \in Buffers
    BY DEF TypeOK, Buffers
<1>2. /\ self[c].in \in Seq(Messages) /\ self[c].out \in Seq(Messages)
      /\ remote[c].in \in Seq(Messages) /\ remote[c].out \in Seq(Messages)
    BY <1>1 DEF Buffers, Bufferevents
<1>3. /\ sent[c] \in Seq(Messages) /\ got[c] \in Seq(Messages)
      /\ fetched[c] \in Seq(Messages) /\ served[c] \in Nat
    BY DEF TypeOK
<1>4. Len(sent[c]) \in Nat /\ Len(got[c]) \in Nat
    BY <1>3
<1>5. DataCount(c) \in Nat
    BY <1>4 DEF DataCount
<1>6. Written(c) \in Seq(Messages) /\ Len(Written(c)) = Len(got[c]) + Len(self[c].out)
    BY <1>2, <1>3, WrittenSteps DEF Written
<1>7. /\ Flow(c) \in Seq(Messages)
      /\ Len(Flow(c)) = Len(fetched[c]) + Len(remote[c].out) + Len(self[c].in)
    <2>. DEFINE f == fetched[c]
                o == remote[c].out
                i == self[c].in
    <2>1. f \in Seq(Messages) /\ o \in Seq(Messages) /\ i \in Seq(Messages)
        BY <1>2, <1>3
    <2>. HIDE DEF f, o, i
    <2>2. /\ f \o o \o DecryptAll(i) \in Seq(Messages)
          /\ Len(f \o o \o DecryptAll(i)) = Len(f) + Len(o) + Len(i)
        BY <2>1, FlowSteps
    <2>. QED
        BY <2>2 DEF Flow, f, o, i
<1>8. \A s \in Seq(Messages) : Len(s) \in Nat
    OBVIOUS
<1>9. /\ Len(Written(c)) \in Nat /\ Len(remote[c].in) \in Nat /\ Len(self[c].in) \in Nat
      /\ Len(Flow(c)) \in Nat
    BY <1>2, <1>6, <1>7, <1>8
<1>. QED
    BY <1>1, <1>2, <1>3, <1>4, <1>5, <1>6, <1>7, <1>9

\* A connection with a target is relaying, or it has been released.
LEMMA WithTarget ==
    ASSUME StreamInv, ~ub, NEW c \in Conn, Socket(remote[c])
    PROVE  Open(self[c]) /\ Relaying(c)
<1>1. Open(self[c]) /\ self[c].arg # NULL
    BY Paired DEF StreamInv
<1>2. ~Asking(self[c])
    BY <1>1 DEF StreamInv, IInv, Stages, Socket
<1>3. InPhase(c)
    BY DEF StreamInv, Streams, Intact
<1>. QED
    BY <1>1, <1>2, <1>3 DEF InPhase, Greeting, Requesting, Stranded, Asking

LEMMA Upstream == StreamInv => UpstreamComplete
<1>. SUFFICES ASSUME StreamInv, ~ub, NEW c \in Conn, Socket(remote[c])
              PROVE  IF c \in Optimistic THEN IsSuffix(Flow(c), DataSent(c))
                     ELSE Flow(c) = DataSent(c)
    BY DEF UpstreamComplete, Socket, Flow
<1>1. Relaying(c)
    BY WithTarget
<1>2. Flow(c) \in Seq(Messages) /\ DataCount(c) \in Nat
    BY TypesAt DEF StreamInv, IInv
<1>3. DataSent(c) = Data(c, DataCount(c))
    BY DEF DataSent, DataCount
<1>4. IsSuffix(Flow(c), Data(c, DataCount(c)))
    BY <1>1, <1>2, LastOfIsSuffix DEF Relaying
<1>5. c \notin Optimistic => Flow(c) = Data(c, DataCount(c))
    BY <1>1, <1>2, LastOfIsSuffix DEF Relaying
<1>. QED
    BY <1>3, <1>4, <1>5

\* How much was written to a client, by what exists of its target.
LEMMA Amounts ==
    ASSUME StreamInv, ~ub, NEW c \in Conn
    PROVE  /\ Len(Written(c)) <= served[c] + 2
           /\ Open(remote[c]) /\ Len(Written(c)) > 1 =>
                /\ LastOf(c, remote[c].in, served[c])
                /\ Len(Written(c)) + Len(remote[c].in) = served[c] + 2
           /\ Len(Written(c)) > 1 /\ ~Asked(c, "ipv4") =>
                remote[c].fd = "connected" \/ remote[c].st = "freed"
<1>1. Intact(c) /\ IInv /\ TypeOK
    BY DEF StreamInv, Streams, IInv
<1>. DEFINE w == Len(Written(c))
            k == Len(remote[c].in)
            n == served[c]
<1>. SUFFICES /\ w <= n + 2
              /\ Open(remote[c]) /\ w > 1 => LastOf(c, remote[c].in, n) /\ w + k = n + 2
              /\ w > 1 /\ ~Asked(c, "ipv4") => remote[c].fd = "connected" \/ remote[c].st = "freed"
    OBVIOUS
<1>2. w \in Nat /\ k \in Nat /\ n \in Nat /\ Written(c) \in Seq(Messages)
    BY <1>1, TypesAt
<1>3. /\ w <= 1 => w <= n + 2 /\ ~(w > 1)
      /\ w = 2 => w <= n + 2
      /\ w + k = n + 2 => w <= n + 2
    <2>. HIDE DEF w, k, n
    <2>. QED
        BY <1>2
<1>4. 0 <= 1 /\ 1 <= 1
    OBVIOUS
<1>5. CASE ~Open(self[c])
    <2>1. NotThere(c) /\ (self[c].out = <<>> => Written(c) = got[c])
        BY <1>1, <1>5, TypesAt, WrittenSteps DEF Intact, InPhase, Written
    <2>2. w <= n + 2 /\ (remote[c].st # "freed" => w <= 1)
        BY <2>1 DEF NotThere
    <2>. HIDE DEF w, k, n
    <2>. QED
        BY <1>3, <2>2 DEF Open
<1>6. CASE Open(self[c])
    <2>1. remote[c].st # "freed" /\ (Greeting(c) \/ Requesting(c) \/ Stranded(c) \/ Relaying(c))
        BY <1>1, <1>6 DEF Intact, InPhase
    <2>2. CASE Greeting(c) \/ Requesting(c)
        <3>1. w <= 1
            BY <1>4, <2>2 DEF Greeting, Requesting
        <3>. HIDE DEF w, k, n
        <3>. QED
            BY <1>3, <3>1
    <2>3. CASE Stranded(c)
        <3>1. ~Open(remote[c])
            BY <1>1, <1>6, <2>3, ServerAssumption DEF Stranded, IInv, SameContext
        <3>2. w = 2 /\ Asked(c, "ipv4")
            BY <2>3 DEF Stranded
        <3>. HIDE DEF w, k, n
        <3>. QED
            BY <1>3, <3>1, <3>2
    <2>4. CASE Relaying(c)
        <3>1. /\ Waiting(c) => w <= 1
              /\ ~Waiting(c) => /\ w + k = n + 2 /\ remote[c].fd = "connected"
                               /\ LastOf(c, remote[c].in, n)
            BY <1>4, <2>4 DEF Relaying, Waiting
        <3>. HIDE DEF w, k, n
        <3>. QED
            BY <1>3, <3>1
    <2>. QED
        BY <2>1, <2>2, <2>3, <2>4
<1>. QED
    BY <1>5, <1>6

LEMMA Downstream == StreamInv => DownstreamInOrder
<1>. SUFFICES ASSUME StreamInv, ~ub, NEW c \in Conn, NEW all,
                     all = <<Plain("method", c, 0), Plain("reply", c, 0)>> \o Data(c, served[c])
              PROVE  /\ IsPrefix(Written(c), all)
                     /\ Open(remote[c]) /\ Len(Written(c)) > 1 => Written(c) \o remote[c].in = all
    BY DEF DownstreamInOrder, Open
<1>1. /\ Written(c) \in Seq(Messages) /\ served[c] \in Nat /\ remote[c].in \in Seq(Messages)
      /\ Len(Written(c)) \in Nat
    BY TypesAt DEF StreamInv, IInv
<1>2. /\ all \in Seq(Messages) /\ Len(all) = served[c] + 2
      /\ \A i \in 1..(served[c] + 2) : all[i] = Answer(c, i)
    BY <1>1, AllAnswers, ZenonT(40)
<1>3. Ordered(c, Written(c))
    BY DEF StreamInv, Streams, Intact, InOrder
<1>4. Len(Written(c)) <= served[c] + 2
    BY Amounts
<1>5. \A i \in 1..Len(Written(c)) : Written(c)[i] = all[i]
    BY <1>1, <1>2, <1>3, <1>4 DEF Ordered
<1>6. IsPrefix(Written(c), all)
    BY <1>1, <1>2, <1>4, <1>5, PrefixByMessage
<1>7. ASSUME Open(remote[c]), Len(Written(c)) > 1
      PROVE  Written(c) \o remote[c].in = all
    <2>1. /\ LastOf(c, remote[c].in, served[c])
          /\ Len(Written(c)) + Len(remote[c].in) = served[c] + 2
        BY <1>7, Amounts
    <2>2. Ordered(c, Written(c) \o remote[c].in)
        BY <1>1, <1>3, <2>1, OrderedConcat
    <2>3. /\ Written(c) \o remote[c].in \in Seq(Messages)
          /\ Len(Written(c) \o remote[c].in) = served[c] + 2
        BY <1>1, <2>1, Concatenation
    <2>4. \A i \in 1..(served[c] + 2) : (Written(c) \o remote[c].in)[i] = all[i]
        BY <1>2, <2>2, <2>3 DEF Ordered
    <2>. QED
        BY <1>2, <2>3, <2>4, SeqEqual
<1>. QED
    BY <1>6, <1>7

LEMMA DomainReply == StreamInv => DomainReplyMeansConnected
<1>. SUFFICES ASSUME StreamInv, ~ub, NEW c \in Conn, Asked(c, "domain"), Announced(c)
              PROVE  remote[c].fd = "connected" \/ remote[c].st = "freed"
    BY DEF DomainReplyMeansConnected
<1>1. ~Asked(c, "ipv4")
    BY DEF Asked
<1>2. Written(c) \in Seq(Messages) /\ Len(Written(c)) \in Nat
    BY TypesAt DEF StreamInv, IInv
<1>3. PICK i \in 1..Len(Written(c)) : Written(c)[i] = Plain("reply", c, 0)
    BY <1>2 DEF Announced
<1>4. Written(c)[i] = Answer(c, i)
    BY DEF StreamInv, Streams, Intact, InOrder, Ordered
<1>5. i # 1
    BY <1>3, <1>4 DEF Answer, Plain
<1>6. Len(Written(c)) > 1
    BY <1>2, <1>5
<1>. QED
    BY <1>1, <1>6, Amounts

-----------------------------------------------------------------------------
\* What a step that misuses nothing amounts to for the connection it is about.

Rest(c) ==
    /\ sent'[c] = sent[c] /\ got'[c] = got[c]
    /\ served'[c] = served[c] /\ fetched'[c] = fetched[c]

Same(c) == self'[c] = self[c] /\ remote'[c] = remote[c] /\ Rest(c)

Local(c, b) == Open(self[c]) /\ self'[c] = b /\ remote'[c] = remote[c] /\ Rest(c)

Accepted(c) ==
    /\ self[c].st = "none"
    /\ \E a \in Addr : self'[c] = Opened("connected", a, "local_read_cb", FALSE)
    /\ remote'[c] = remote[c] /\ Rest(c)

Answered(c) ==
    /\ self[c].readcb = "local_read_cb"
    /\ Local(c, [Said(Took(self[c]), Plain("method", c, 0)) EXCEPT !.readcb = "handle_second"])

Drained(c) ==
    /\ self[c].readcb = "handle_last" => ~Socket(remote[c])
    /\ Local(c, Took(self[c]))

Requested(c, kind) ==
    /\ self[c].readcb = "handle_second" /\ "read" \in self[c].pending
    /\ Decrypt(Head(self[c].in)).kind = kind

Gave4(c) ==
    /\ Requested(c, "ipv4")
    /\ Local(c, [Said(Took(self[c]), Plain("reply", c, 0))
                   EXCEPT !.readcb = "handle_last", !.arg = NULL])

Target(c) == \E fd \in {"connecting", "none"}, a \in Addr :
    remote'[c] = Opened(fd, a, "remote_read_cb", TRUE)

Sought(c) ==
    /\ Requested(c, "domain") /\ Open(self[c])
    /\ remote[c].st = "none" /\ self[c].arg # NULL
    /\ self'[c] = [Took(self[c]) EXCEPT !.readcb = "handle_last"]
    /\ remote'[c] = remote[c] \/ Target(c)
    /\ Rest(c)

Resolved(c) ==
    /\ Open(self[c]) /\ ~Asking(self[c]) /\ self[c].arg # NULL
    /\ remote[c].st = "none"
    /\ self'[c] = self[c] /\ Target(c) /\ Rest(c)

Forwarded(c) ==
    /\ Socket(remote[c]) /\ Open(self[c]) /\ self[c].readcb = "handle_last"
    /\ self'[c] = Took(self[c])
    /\ remote'[c] = [remote[c] EXCEPT !.out = @ \o DecryptAll(self[c].in)]
    /\ Rest(c)

Released(c) ==
    /\ Open(self[c]) /\ self[c].arg # NULL
    /\ self'[c] = Freed
    /\ remote'[c] \in {remote[c], Freed}
    /\ Socket(remote[c]) => remote'[c] = Freed
    /\ Rest(c)

\* Callbacks are scheduled or run, or a connect fails; no data moves.
Stirs(b, d) ==
    /\ d.st = b.st /\ d.arg = b.arg /\ d.readcb = b.readcb
    /\ d.in = b.in /\ d.out = b.out
    /\ \/ d.fd = b.fd
       \/ b.fd = "connecting" /\ d.fd = "failed"
    /\ "read" \in d.pending => "read" \in b.pending
    /\ "connected" \in d.pending <=> "connected" \in b.pending
    /\ b.st # "open" => d = b

Stirred(c) == Stirs(self[c], self'[c]) /\ Stirs(remote[c], remote'[c]) /\ Rest(c)

Replied(c) ==
    /\ Open(self[c]) /\ Open(remote[c]) /\ "connected" \in remote[c].pending
    /\ self'[c] = Said(self[c], Plain("reply", c, 0))
    /\ remote'[c] = [remote[c] EXCEPT !.pending = @ \ {"connected"}]
    /\ Rest(c)

Relayed(c) ==
    /\ Open(self[c]) /\ ReadDue(remote[c])
    /\ self'[c] = [self[c] EXCEPT !.out = @ \o EncryptAll(remote[c].in)]
    /\ remote'[c] = [remote[c] EXCEPT !.in = <<>>, !.pending = @ \ {"read"}]
    /\ Rest(c)

Spoke(c) == \E m \in NextMessages(c) :
    /\ Open(self[c])
    /\ self'[c] = Received(self[c], Encrypt(m)) /\ sent'[c] = Append(sent[c], m)
    /\ UNCHANGED <<remote, got, served, fetched>>

Listened(c) ==
    /\ Open(self[c]) /\ self[c].out # <<>>
    /\ self'[c] = Flushed(self[c]) /\ got'[c] = Append(got[c], Decrypt(Head(self[c].out)))
    /\ UNCHANGED <<remote, sent, served, fetched>>

Joined(c) ==
    /\ Open(remote[c]) /\ remote[c].fd = "connecting"
    /\ remote'[c] = Connected(remote[c])
    /\ self'[c] = self[c] /\ Rest(c)

Served(c) ==
    /\ CanRead(remote[c])
    /\ served'[c] = served[c] + 1
    /\ remote'[c] = Received(remote[c], Plain("data", c, served[c] + 1))
    /\ UNCHANGED <<self, sent, got, fetched>>

Fetched(c) ==
    /\ CanWrite(remote[c])
    /\ fetched'[c] = Append(fetched[c], Head(remote[c].out))
    /\ remote'[c] = Flushed(remote[c])
    /\ UNCHANGED <<self, sent, got, served>>

Effect(c) ==
    \/ Same(c) \/ Accepted(c) \/ Answered(c) \/ Drained(c) \/ Gave4(c) \/ Sought(c)
    \/ Resolved(c) \/ Forwarded(c) \/ Released(c) \/ Stirred(c) \/ Replied(c) \/ Relayed(c)
    \/ Spoke(c) \/ Listened(c) \/ Joined(c) \/ Served(c) \/ Fetched(c)

Apart(c) == \A x \in Conn \ {c} : Same(x)

-----------------------------------------------------------------------------
\* Every step has one of these effects on its own connection and none on others.

LEMMA ListenEffect ==
    ASSUME TypeOK, NEW c \in Conn, listen_cb(c)
    PROVE  Effect(c) /\ Apart(c)
<1>1. PICK a \in Addr : self' = [self EXCEPT ![c] = Opened("connected", a, "local_read_cb", FALSE)]
    BY DEF listen_cb
<1>2. Accepted(c)
    BY <1>1 DEF listen_cb, TypeOK, Accepted, Rest, network
<1>3. Apart(c)
    BY <1>1 DEF listen_cb, TypeOK, Apart, Same, Rest, network
<1>. QED
    BY <1>2, <1>3 DEF Effect

\* dns_cb makes a bufferevent for the target of its connection, or nothing.
LEMMA dns_cbEffect ==
    ASSUME TypeOK, NEW c \in Conn, NEW a \in Addr, dns_cb(c, a), ~ub'
    PROVE  /\ remote'[c] = remote[c] \/ (Target(c) /\ Valid(c, a))
           /\ \A x \in Conn \ {c} : remote'[x] = remote[x]
BY DEF dns_cb, Fault, Deref, Valid, TypeOK, Target

LEMMA LookupEffect ==
    ASSUME IInv, ~ub, ~ub', NEW c \in Conn, LookupReturns(c)
    PROVE  Effect(c) /\ Apart(c)
<1>1. dns[c] \in Addr /\ dns[c] # NULL /\ dns_cb(c, dns[c]) /\ UNCHANGED <<self, network>> /\ TypeOK
    BY DEF LookupReturns, TypeOK, IInv
<1>2. /\ remote'[c] = remote[c] \/ (Target(c) /\ Valid(c, dns[c]))
      /\ \A x \in Conn \ {c} : remote'[x] = remote[x]
    BY <1>1, dns_cbEffect
<1>3. Apart(c)
    BY <1>1, <1>2 DEF Apart, Same, Rest, network
<1>4. CASE remote'[c] = remote[c]
    BY <1>1, <1>3, <1>4 DEF Effect, Same, Rest, network
<1>5. CASE Target(c) /\ Valid(c, dns[c])
    <2>1. Open(self[c])
        BY <1>1, <1>5, Found
    <2>2. remote[c].st = "none" /\ ~Asking(self[c]) /\ self[c].arg # NULL
        BY <1>1, <2>1 DEF IInv, Stages, SameContext
    <2>. QED
        BY <1>1, <1>3, <1>5, <2>1, <2>2 DEF Effect, Resolved, Rest, network
<1>. QED
    BY <1>2, <1>3, <1>4, <1>5

\* The read callbacks of a local bufferevent.
LEMMA SelfReadEffect ==
    ASSUME IInv, ~ub, ~ub', NEW c \in Conn, SelfRead(c)
    PROVE  Effect(c) /\ Apart(c)
<1>1. /\ Open(self[c]) /\ "read" \in self[c].pending
      /\ self[c].arg \in Addr \cup {NULL}
      /\ self \in [Conn -> Buffers] /\ remote \in [Conn -> Buffers] /\ TypeOK
    BY TypesAt DEF SelfRead, ReadDue, Open, IInv, TypeOK, Buffers, Bufferevents
<1>. DEFINE a == self[c].arg
            T == [self EXCEPT ![c] = Took(self[c])]
<1>2. UNCHANGED network
    BY DEF SelfRead
<1>3. CASE a = NULL
    <2>1. UNCHANGED <<self, remote>>
        BY <1>3 DEF SelfRead, NullRead
    <2>. QED
        BY <1>2, <2>1 DEF Effect, Apart, Same, Rest, network
<1>4. CASE a # NULL
    <2>1. /\ a \in Addr /\ heap[a].self = c /\ c # NULL
          /\ heap[a].partner \in {c, NULL}
          /\ heap[a].partner = c => Socket(remote[c])
          /\ heap[a].partner = NULL => ~Socket(remote[c])
        BY <1>1, <1>4, Found, ServerAssumption DEF IInv, SelfValid
    <2>2. Taken(c, c) = T /\ T[c] = Took(self[c]) /\ \A x \in Conn \ {c} : T[x] = self[x]
        BY <1>1, TakenFields
    <2>3. \/ self[c].readcb = "local_read_cb" /\ handle_first(c, c)
          \/ self[c].readcb = "handle_second" /\ handle_second(c, a, c)
          \/ self[c].readcb = "handle_last" /\ handle_last(c, a, c)
        BY <1>4, <2>1 DEF SelfRead
    <2>. HIDE DEF T
    <2>4. CASE self[c].readcb = "local_read_cb" /\ handle_first(c, c)
        <3>1. \/ self' = T
              \/ self' = [T EXCEPT ![c] = Said(@, Plain("method", c, 0)), ![c].readcb = "handle_second"]
            BY <2>2, <2>4 DEF handle_first
        <3>2. /\ \A x \in Conn \ {c} : self'[x] = self[x]
              /\ \/ self'[c] = Took(self[c])
                 \/ self'[c] = [Said(Took(self[c]), Plain("method", c, 0))
                                  EXCEPT !.readcb = "handle_second"]
            BY <1>1, <2>2, <3>1 DEF T
        <3>3. UNCHANGED remote
            BY <2>4 DEF handle_first
        <3>. QED
            BY <1>1, <1>2, <2>4, <3>2, <3>3
               DEF Effect, Drained, Answered, Local, Apart, Same, Rest, network
    <2>5. CASE self[c].readcb = "handle_second" /\ handle_second(c, a, c)
        <3>1. CASE Dropped(c, c)
            BY <1>1, <1>2, <2>2, <2>5, <3>1
               DEF Dropped, Effect, Drained, Local, Apart, Same, Rest, network
        <3>2. CASE RequestIPv4(c, c)
            <4>1. UNCHANGED remote /\ KindRead(c) = "ipv4"
                BY <3>2 DEF RequestIPv4
            <4>2. self' = [T EXCEPT ![c] = [Said(@, Plain("reply", c, 0))
                                              EXCEPT !.readcb = "handle_last", !.arg = NULL]]
                BY <2>2, <3>2 DEF RequestIPv4
            <4>3. /\ \A x \in Conn \ {c} : self'[x] = self[x]
                  /\ self'[c] = [Said(Took(self[c]), Plain("reply", c, 0))
                                   EXCEPT !.readcb = "handle_last", !.arg = NULL]
                BY <1>1, <2>2, <4>2 DEF T
            <4>4. Apart(c)
                BY <1>2, <4>1, <4>3 DEF Apart, Same, Rest, network
            <4>5. Decrypt(Head(self[c].in)).kind = "ipv4"
                BY <4>1 DEF KindRead
            <4>6. Gave4(c)
                BY <1>1, <1>2, <2>5, <4>1, <4>3, <4>5 DEF Gave4, Requested, Local, Rest, network
            <4>. QED
                BY <4>4, <4>6 DEF Effect
        <3>3. CASE RequestDomain(c, a, c)
            <4>1. remote[c].st = "none"
                BY <1>1, <2>5 DEF IInv, Stages, Asking
            <4>2. /\ remote'[c] = remote[c] \/ Target(c)
                  /\ \A x \in Conn \ {c} : remote'[x] = remote[x]
                BY <1>1, <2>1, <3>3, dns_cbEffect DEF RequestDomain
            <4>3. self' = [T EXCEPT ![c].readcb = "handle_last"] /\ KindRead(c) = "domain"
                BY <2>2, <3>3 DEF RequestDomain
            <4>4. /\ self'[c] = [Took(self[c]) EXCEPT !.readcb = "handle_last"]
                  /\ \A x \in Conn \ {c} : self'[x] = self[x]
                BY <1>1, <2>2, <4>3 DEF T
            <4>5. Apart(c)
                BY <1>2, <4>2, <4>4 DEF Apart, Same, Rest, network
            <4>6. Decrypt(Head(self[c].in)).kind = "domain"
                BY <4>3 DEF KindRead
            <4>7. Sought(c)
                BY <1>1, <1>2, <1>4, <2>5, <4>1, <4>2, <4>4, <4>6
                   DEF Sought, Requested, Rest, network
            <4>. QED
                BY <4>5, <4>7 DEF Effect
        <3>. QED
            BY <2>5, <3>1, <3>2, <3>3 DEF handle_second
    <2>6. CASE self[c].readcb = "handle_last" /\ handle_last(c, a, c)
        <3>1. /\ self'[c] = Took(self[c]) /\ \A x \in Conn \ {c} : self'[x] = self[x]
              /\ remote' = [x \in Conn |-> IF x = heap[a].partner
                              THEN [remote[x] EXCEPT !.out = @ \o DecryptAll(self[c].in)]
                              ELSE remote[x]]
            BY <2>2, <2>6 DEF handle_last
        <3>2. \A x \in Conn : x # NULL
            BY ServerAssumption
        <3>3. Apart(c)
            BY <1>2, <2>1, <3>1, <3>2 DEF Apart, Same, Rest, network
        <3>4. CASE heap[a].partner = NULL
            BY <1>1, <1>2, <2>1, <3>1, <3>2, <3>3, <3>4 DEF Effect, Drained, Local, Rest, network
        <3>5. CASE heap[a].partner = c
            <4>1. Forwarded(c)
                BY <1>1, <1>2, <2>1, <2>6, <3>1, <3>5 DEF Forwarded, Rest, network
            <4>. QED
                BY <3>3, <4>1 DEF Effect
        <3>. QED
            BY <2>1, <3>4, <3>5
    <2>. QED
        BY <2>3, <2>4, <2>5, <2>6
<1>. QED
    BY <1>3, <1>4

\* The event callback of a local bufferevent.
LEMMA SelfEventEffect ==
    ASSUME IInv, ~ub, NEW c \in Conn, SelfEvent(c)
    PROVE  Effect(c) /\ Apart(c)
<1>. DEFINE a == self[c].arg
<1>1. /\ Open(self[c]) /\ a \in Addr \cup {NULL} /\ UNCHANGED network
      /\ "read" \notin self[c].pending /\ "connected" \notin self[c].pending
      /\ self \in [Conn -> Buffers] /\ remote \in [Conn -> Buffers]
    BY DEF SelfEvent, EventDue, Open, IInv, TypeOK, Buffers, Bufferevents
<1>2. CASE a = NULL
    <2>1. self' = [self EXCEPT ![c].pending = {}] /\ UNCHANGED remote
        BY <1>2 DEF SelfEvent, local_event_cb
    <2>2. Apart(c)
        BY <1>1, <2>1 DEF Apart, Same, Rest, network
    <2>3. self'[c] = [self[c] EXCEPT !.pending = {}]
        BY <1>1, <2>1
    <2>4. Stirs(self[c], self'[c]) /\ Stirs(remote[c], remote'[c])
        BY <1>1, <2>1, <2>3 DEF Stirs, Open, Buffers, Bufferevents
    <2>. QED
        BY <1>1, <2>1, <2>2, <2>4 DEF Effect, Stirred, Rest, network
<1>3. CASE a # NULL
    <2>2. /\ heap[a].partner \in {c, NULL} /\ (heap[a].partner = NULL => ~Socket(remote[c]))
          /\ heap[a].self = c
        BY <1>1, <1>3, Found DEF IInv, SelfValid
    <2>1. /\ self'[c] = Freed /\ \A x \in Conn \ {c} : self'[x] = self[x]
          /\ remote' = [x \in Conn |-> IF x = heap[a].partner THEN Freed ELSE remote[x]]
        BY <1>3, <2>2 DEF SelfEvent, local_event_cb
    <2>3. \A x \in Conn : x # NULL
        BY ServerAssumption
    <2>4. Apart(c)
        BY <1>1, <2>1, <2>2, <2>3 DEF Apart, Same, Rest, network
    <2>5. Released(c)
        BY <1>1, <1>3, <2>1, <2>2, <2>3 DEF Released, Rest, network
    <2>. QED
        BY <2>4, <2>5 DEF Effect
<1>. QED
    BY <1>2, <1>3

\* The event and read callbacks of a target's bufferevent.  A clean one finds its
\* own context.
LEMMA RemoteContext ==
    ASSUME IInv, ~ub, NEW c \in Conn, Open(remote[c]), Valid(c, remote[c].arg)
    PROVE  /\ remote[c].arg \in Addr /\ heap[remote[c].arg].self = c
           /\ Open(self[c]) /\ self[c].arg # NULL
           /\ heap[remote[c].arg].partner \in {c, NULL}
           /\ heap[remote[c].arg].partner = NULL <=> ~Socket(remote[c])
           /\ heap[remote[c].arg].live
<1>1. remote[c].arg \in Addr /\ remote[c].arg # NULL /\ c # NULL
    BY ServerAssumption DEF IInv, SameContext
<1>2. /\ heap[remote[c].arg].self = c /\ Open(self[c])
      /\ heap[remote[c].arg].partner \in {c, NULL}
      /\ heap[remote[c].arg].partner = c => Socket(remote[c])
      /\ heap[remote[c].arg].partner = NULL => ~Socket(remote[c])
    BY <1>1, Found
<1>3. self[c].arg # NULL
    BY <1>1, <1>2 DEF IInv, SameContext
<1>. QED
    BY <1>1, <1>2, <1>3 DEF Valid

LEMMA RemoteConnectedEffect ==
    ASSUME IInv, ~ub, ~ub', NEW c \in Conn, RemoteConnected(c)
    PROVE  Effect(c) /\ Apart(c)
<1>. DEFINE a == remote[c].arg
<1>1. /\ Open(remote[c]) /\ "connected" \in remote[c].pending /\ UNCHANGED network
      /\ self \in [Conn -> Buffers] /\ remote \in [Conn -> Buffers]
    BY DEF RemoteConnected, ConnectedDue, Open, IInv, TypeOK, Buffers
<1>2. Valid(c, a)
    BY DEF RemoteConnected, Fault, Deref
<1>3. /\ heap[a].live /\ heap[a].self = c /\ Open(self[c])
    BY <1>1, <1>2, RemoteContext
<1>4. /\ remote' = [remote EXCEPT ![c].pending = @ \ {"connected"}]
      /\ self' = [x \in Conn |-> IF x = c THEN Said(self[x], Plain("reply", x, 0)) ELSE self[x]]
    BY <1>3 DEF RemoteConnected, Fault
<1>5. Apart(c)
    BY <1>1, <1>4 DEF Apart, Same, Rest, network
<1>6. Replied(c)
    BY <1>1, <1>3, <1>4 DEF Replied, Rest, network
<1>. QED
    BY <1>5, <1>6 DEF Effect

LEMMA RemoteReadEffect ==
    ASSUME IInv, ~ub, ~ub', Streams, NEW c \in Conn, RemoteRead(c)
    PROVE  Effect(c) /\ Apart(c)
<1>. DEFINE a == remote[c].arg
<1>1. /\ Open(remote[c]) /\ ReadDue(remote[c]) /\ UNCHANGED network
      /\ self \in [Conn -> Buffers] /\ remote \in [Conn -> Buffers]
    BY DEF RemoteRead, ReadDue, Open, IInv, TypeOK, Buffers
<1>2. Valid(c, a)
    BY DEF RemoteRead, Relay, Fault, Deref
<1>3. Scheduled(c)
    BY DEF Streams, Intact
<1>4. Socket(remote[c])
    BY <1>1, <1>3 DEF Scheduled, ReadDue, Socket
<1>5. /\ heap[a].live /\ heap[a].self = c /\ Open(self[c]) /\ heap[a].partner = c /\ c # NULL
    BY <1>1, <1>2, <1>4, RemoteContext, ServerAssumption
<1>6. Relay(c, a)
    BY <1>5 DEF RemoteRead, Fault
<1>7. /\ self' = [x \in Conn |-> IF x = c
                    THEN [self[x] EXCEPT !.out = @ \o EncryptAll(remote[c].in)] ELSE self[x]]
      /\ remote' = [remote EXCEPT ![c].in = <<>>, ![c].pending = @ \ {"read"}]
    BY <1>5, <1>6 DEF Relay
<1>8. Apart(c)
    BY <1>1, <1>7 DEF Apart, Same, Rest, network
<1>9. Relayed(c)
    BY <1>1, <1>5, <1>7 DEF Relayed, Rest, network
<1>. QED
    BY <1>8, <1>9 DEF Effect

LEMMA RemoteEventEffect ==
    ASSUME IInv, ~ub, ~ub', NEW c \in Conn, RemoteEvent(c)
    PROVE  Effect(c) /\ Apart(c)
<1>. DEFINE a == remote[c].arg
<1>1. /\ Open(remote[c]) /\ UNCHANGED network
      /\ self \in [Conn -> Buffers] /\ remote \in [Conn -> Buffers]
    BY DEF RemoteEvent, EventDue, Open, IInv, TypeOK, Buffers
<1>2. Valid(c, a)
    BY DEF RemoteEvent, RemoteGone, Fault, Deref
<1>3. /\ heap[a].live /\ heap[a].self = c /\ Open(self[c]) /\ self[c].arg # NULL
      /\ heap[a].partner \in {c, NULL}
      /\ heap[a].partner = NULL <=> ~Socket(remote[c])
    BY <1>1, <1>2, RemoteContext
<1>4. RemoteGone(c, a)
    BY <1>3 DEF RemoteEvent, Fault
<1>5. (IF remote[c].pending \cap {"eof", "error"} # {} THEN heap[a].partner ELSE c) = c
    <2>1. remote[c].pending \cap {"eof", "error"} # {} => remote[c].fd # "none"
        BY <1>1 DEF IInv, OnlyTimeout
    <2>. QED
        BY <1>1, <1>3, <2>1 DEF Socket, Open
<1>6. /\ self' = [x \in Conn |-> IF x = c THEN Freed ELSE self[x]]
      /\ remote' = [x \in Conn |-> IF x = c THEN Freed ELSE remote[x]]
    BY <1>3, <1>4, <1>5 DEF RemoteGone
<1>7. Apart(c)
    BY <1>1, <1>6 DEF Apart, Same, Rest, network
<1>8. Released(c)
    BY <1>1, <1>3, <1>6 DEF Released, Rest, network
<1>. QED
    BY <1>7, <1>8 DEF Effect

LEMMA StirsOperators ==
    ASSUME NEW b \in Buffers
    PROVE  /\ Stirs(b, b)
           /\ \A e \in {"eof", "error", "timeout"} : b.st = "open" => Stirs(b, ReadStops(b, e))
           /\ b.st = "open" => Stirs(b, WriteStops(b))
           /\ b.st = "open" /\ b.fd = "connecting" => Stirs(b, Refused(b))
<1>. USE DEF Stirs, Buffers, Bufferevents
<1>1. Stirs(b, b)
    OBVIOUS
<1>2. \A e \in {"eof", "error", "timeout"} : b.st = "open" => Stirs(b, ReadStops(b, e))
    BY DEF ReadStops
<1>3. b.st = "open" => Stirs(b, WriteStops(b))
    BY DEF WriteStops
<1>4. b.st = "open" /\ b.fd = "connecting" => Stirs(b, Refused(b))
    BY DEF Refused
<1>. QED
    BY <1>1, <1>2, <1>3, <1>4

\* Clients, targets and timers.
LEMMA StirringEffect ==
    ASSUME TypeOK, NEW c \in Conn, ClientLeaves(c) \/ TargetLeaves(c) \/ ReadTimeout(c)
    PROVE  Effect(c) /\ Apart(c)
<1>1. /\ self \in [Conn -> Buffers] /\ remote \in [Conn -> Buffers]
      /\ self[c] \in Buffers /\ remote[c] \in Buffers /\ UNCHANGED network
    BY DEF TypeOK, Buffers, ClientLeaves, TargetLeaves, ReadTimeout
<1>2. Apart(c)
    BY <1>1 DEF ClientLeaves, TargetLeaves, ReadTimeout, Apart, Same, Rest, network
<1>3. Stirs(self[c], self'[c]) /\ Stirs(remote[c], remote'[c])
    <2>1. CASE ClientLeaves(c)
        BY <1>1, <2>1, StirsOperators DEF ClientLeaves, CanRead, CanWrite
    <2>2. CASE TargetLeaves(c)
        BY <1>1, <2>2, StirsOperators DEF TargetLeaves, CanRead, CanWrite
    <2>3. CASE ReadTimeout(c)
        <3>1. PICK b \in {self[c], remote[c]} :
                /\ CanTimeOut(b)
                /\ self' = [self EXCEPT ![c] = IF @ = b THEN ReadStops(@, "timeout") ELSE @]
                /\ remote' = [remote EXCEPT ![c] = IF @ = b THEN ReadStops(@, "timeout") ELSE @]
            BY <2>3 DEF ReadTimeout
        <3>2. /\ self'[c] = self[c] \/ (self[c].st = "open" /\ self'[c] = ReadStops(self[c], "timeout"))
              /\ remote'[c] = remote[c]
                   \/ (remote[c].st = "open" /\ remote'[c] = ReadStops(remote[c], "timeout"))
            BY <1>1, <3>1 DEF CanTimeOut
        <3>. QED
            BY <1>1, <3>2, StirsOperators
    <2>. QED
        BY <2>1, <2>2, <2>3
<1>. QED
    BY <1>1, <1>2, <1>3 DEF Effect, Stirred, Rest, network

LEMMA MovingEffect ==
    ASSUME TypeOK, NEW c \in Conn,
           ClientSends(c) \/ ClientReceives(c) \/ ConnectEnds(c) \/ TargetSends(c) \/ TargetReceives(c)
    PROVE  Effect(c) /\ Apart(c)
<1>1. /\ self \in [Conn -> Buffers] /\ remote \in [Conn -> Buffers] /\ remote[c] \in Buffers
      /\ self[c] \in Buffers
      /\ sent \in [Conn -> Seq(Messages)] /\ got \in [Conn -> Seq(Messages)]
      /\ fetched \in [Conn -> Seq(Messages)] /\ served \in [Conn -> Nat]
    BY DEF TypeOK, Buffers
<1>2. CASE ClientSends(c)
    <2>1. PICK m \in NextMessages(c) : SelfReceives(c, m)
        BY <1>2 DEF ClientSends
    <2>2. Apart(c)
        BY <1>1, <2>1 DEF SelfReceives, Apart, Same, Rest
    <2>3. Spoke(c)
        BY <1>1, <2>1 DEF SelfReceives, CanRead, Spoke, Open
    <2>. QED
        BY <2>2, <2>3 DEF Effect
<1>3. CASE ClientReceives(c)
    <2>1. Apart(c)
        BY <1>1, <1>3 DEF ClientReceives, Apart, Same, Rest
    <2>2. Listened(c)
        BY <1>1, <1>3 DEF ClientReceives, CanWrite, Listened, Open
    <2>. QED
        BY <2>1, <2>2 DEF Effect
<1>4. CASE ConnectEnds(c)
    <2>1. Apart(c)
        BY <1>1, <1>4 DEF ConnectEnds, Apart, Same, Rest, network
    <2>2. CASE remote' = [remote EXCEPT ![c] = Connected(@)]
        <3>1. Joined(c)
            BY <1>1, <1>4, <2>2 DEF ConnectEnds, Joined, Open, Rest, network
        <3>. QED
            BY <2>1, <3>1 DEF Effect
    <2>3. CASE remote' = [remote EXCEPT ![c] = Refused(@)]
        <3>1. Stirs(self[c], self'[c]) /\ Stirs(remote[c], remote'[c])
            BY <1>1, <1>4, <2>3, StirsOperators DEF ConnectEnds
        <3>. QED
            BY <1>4, <2>1, <3>1 DEF Effect, Stirred, Rest, network, ConnectEnds
    <2>. QED
        BY <1>4, <2>2, <2>3 DEF ConnectEnds
<1>5. CASE TargetSends(c)
    <2>1. Apart(c)
        BY <1>1, <1>5 DEF TargetSends, Apart, Same, Rest
    <2>2. served'[c] = served[c] + 1
        BY <1>1, <1>5 DEF TargetSends
    <2>3. Served(c)
        BY <1>1, <1>5, <2>2 DEF TargetSends, Served
    <2>. QED
        BY <2>1, <2>3 DEF Effect
<1>6. CASE TargetReceives(c)
    <2>1. Apart(c)
        BY <1>1, <1>6 DEF TargetReceives, Apart, Same, Rest
    <2>2. Fetched(c)
        BY <1>1, <1>6 DEF TargetReceives, Fetched
    <2>. QED
        BY <2>1, <2>2 DEF Effect
<1>. QED
    BY <1>2, <1>3, <1>4, <1>5, <1>6

LEMMA NextEffect ==
    ASSUME IInv, Streams, ~ub, ~ub', Next
    PROVE  \E c \in Conn : Effect(c) /\ Apart(c)
<1>1. TypeOK
    BY DEF IInv
<1>. QED
    BY <1>1, ListenEffect, LookupEffect, SelfReadEffect, SelfEventEffect, RemoteConnectedEffect,
       RemoteReadEffect, RemoteEventEffect, StirringEffect, MovingEffect
       DEF Next, Callback, Environment

-----------------------------------------------------------------------------
\* Every effect leaves the connection intact.

LEMMA SameKeeps ==
    ASSUME NEW c \in Conn, Intact(c), Same(c)
    PROVE  Intact(c)'
<1>1. /\ self'[c] = self[c] /\ remote'[c] = remote[c]
      /\ sent'[c] = sent[c] /\ got'[c] = got[c]
      /\ served'[c] = served[c] /\ fetched'[c] = fetched[c]
    BY DEF Same, Rest
<1>2. Written(c)' = Written(c) /\ Flow(c)' = Flow(c) /\ DataCount(c)' = DataCount(c)
    BY <1>1 DEF Written, Flow, DataCount
<1>3. InProtocol(c)' /\ Unread(c)' /\ Scheduled(c)' /\ NoTarget(c)'
    BY <1>1 DEF Intact, InProtocol, Unread, Scheduled, NoTarget
<1>4. InOrder(c)'
    BY <1>2 DEF Intact, InOrder, Ordered
<1>5. /\ Greeting(c) => Greeting(c)'
      /\ Requesting(c) => Requesting(c)'
      /\ Stranded(c) => Stranded(c)'
    BY <1>1, <1>2 DEF Greeting, Requesting, Stranded, Asked
<1>6. Relaying(c) => Relaying(c)'
    <2>1. /\ Waiting(c)' <=> Waiting(c)
          /\ Asked(c, "domain") => Asked(c, "domain")'
          /\ LastOf(c, Flow(c), DataCount(c)) => LastOf(c, Flow(c), DataCount(c))'
          /\ LastOf(c, remote[c].in, served[c]) => LastOf(c, remote[c].in, served[c])'
        BY <1>1, <1>2 DEF Waiting, Asked, LastOf
    <2>. QED
        BY <1>1, <1>2, <2>1 DEF Relaying
<1>7. NotThere(c) => NotThere(c)'
    BY <1>1 DEF NotThere
<1>8. InPhase(c)'
    BY <1>1, <1>5, <1>6, <1>7 DEF Intact, InPhase, Open
<1>. QED
    BY <1>3, <1>4, <1>8 DEF Intact

LEMMA AcceptedKeeps ==
    ASSUME IInv, NEW c \in Conn, Intact(c), Accepted(c)
    PROVE  Intact(c)'
<1>1. /\ sent'[c] = sent[c] /\ got'[c] = got[c] /\ remote'[c] = remote[c]
      /\ served'[c] = served[c] /\ fetched'[c] = fetched[c]
      /\ Open(self'[c]) /\ self'[c].readcb = "local_read_cb"
      /\ self'[c].in = <<>> /\ self'[c].out = <<>> /\ self'[c].pending = {}
    BY DEF Accepted, Rest, Opened, Absent, Open
<1>2. self[c].st = "none" /\ NotThere(c) /\ remote[c].st = "none"
    BY DEF Accepted, Intact, InPhase, Open, IInv, Stages
<1>3. sent[c] = <<>> /\ got[c] = <<>>
    BY <1>2 DEF NotThere
<1>4. Written(c)' = <<>>
    <2>1. <<>> \in Seq(Messages)
        OBVIOUS
    <2>. QED
        BY <1>1, <1>3, <2>1, WrittenSteps DEF Written
<1>5. InProtocol(c)' /\ Unread(c)' /\ Scheduled(c)' /\ NoTarget(c)'
    BY <1>1, <1>3 DEF Intact, InProtocol, Unread, Scheduled, NoTarget
<1>6. InOrder(c)'
    BY <1>4 DEF InOrder, Ordered
<1>7. Greeting(c)'
    BY <1>1, <1>3, <1>4 DEF Greeting
<1>. QED
    BY <1>1, <1>2, <1>5, <1>6, <1>7 DEF Intact, InPhase

\* What is known of an open connection whose local bufferevent does something.
LEMMA AtOpen ==
    ASSUME TypeOK, NEW c \in Conn, Intact(c), Open(self[c])
    PROVE  /\ remote[c].st # "freed"
           /\ self[c].readcb = "local_read_cb" => Greeting(c)
           /\ self[c].readcb = "handle_second" => Requesting(c)
           /\ self[c].readcb = "handle_last" /\ self[c].arg = NULL => Stranded(c)
           /\ self[c].readcb = "handle_last" /\ self[c].arg # NULL => Relaying(c)
           /\ self[c].readcb \in {"local_read_cb", "handle_second", "handle_last"}
           /\ ~Asking(self[c]) => self[c].readcb = "handle_last"
BY DEF Intact, InPhase, Greeting, Requesting, Stranded, Relaying, Asking

\* Reading all input leaves the conjuncts about what was sent and what is scheduled.
LEMMA ReadKeeps ==
    ASSUME TypeOK, NEW c \in Conn, Intact(c), Rest(c),
           self'[c].in = <<>>, "read" \notin self'[c].pending
    PROVE  /\ InProtocol(c)' /\ Unread(c)'
           /\ remote'[c] = remote[c] => Scheduled(c)' /\ NoTarget(c)'
<1>1. Len(sent[c]) \in Nat
    BY TypesAt
<1>. QED
    BY <1>1 DEF Rest, Intact, InProtocol, Unread, Scheduled, NoTarget

LEMMA TookFields ==
    ASSUME NEW b \in Buffers
    PROVE  /\ Took(b).in = <<>> /\ "read" \notin Took(b).pending
           /\ Took(b).st = b.st /\ Took(b).arg = b.arg /\ Took(b).readcb = b.readcb
           /\ Took(b).out = b.out /\ Took(b).fd = b.fd
           /\ \A cb : LET d == [Took(b) EXCEPT !.readcb = cb]
                      IN  /\ d.in = <<>> /\ "read" \notin d.pending
                          /\ d.st = b.st /\ d.arg = b.arg /\ d.readcb = cb /\ d.out = b.out
           /\ \A m, cb : LET d == [Said(Took(b), m) EXCEPT !.readcb = cb]
                         IN  /\ d.in = <<>> /\ "read" \notin d.pending
                             /\ d.st = b.st /\ d.arg = b.arg /\ d.readcb = cb
                             /\ d.out = Append(b.out, Encrypt(m))
           /\ \A m, cb : LET d == [Said(Took(b), m) EXCEPT !.readcb = cb, !.arg = NULL]
                         IN  /\ d.in = <<>> /\ "read" \notin d.pending
                             /\ d.st = b.st /\ d.arg = NULL /\ d.readcb = cb
                             /\ d.out = Append(b.out, Encrypt(m))
BY DEF Took, Said, Buffers, Bufferevents

\* One more message, the next answer, is written to the client.
LEMMA WroteNext ==
    ASSUME TypeOK, NEW c \in Conn, InOrder(c), NEW m \in Messages,
           got'[c] = got[c], self'[c].out = Append(self[c].out, Encrypt(m)),
           m = Answer(c, Len(Written(c)) + 1)
    PROVE  InOrder(c)' /\ Len(Written(c))' = Len(Written(c)) + 1
<1>1. got[c] \in Seq(Messages) /\ self[c].out \in Seq(Messages) /\ Written(c) \in Seq(Messages)
    BY TypesAt
<1>2. Written(c)' = Append(Written(c), m)
    <2>. DEFINE g == got[c]
                o == self[c].out
    <2>1. Written(c) = g \o DecryptAll(o) /\ Written(c)' = g \o DecryptAll(Append(o, Encrypt(m)))
        BY DEF Written
    <2>2. g \in Seq(Messages) /\ o \in Seq(Messages)
        BY <1>1
    <2>3. g \o DecryptAll(Append(o, Encrypt(m))) = Append(g \o DecryptAll(o), m)
        <3>. HIDE DEF g, o
        <3>. QED
            BY <2>2, WrittenAppend
    <2>. QED
        BY <2>1, <2>3
<1>3. Ordered(c, Append(Written(c), m))
    BY <1>1, OrderedAppend DEF InOrder
<1>. QED
    BY <1>1, <1>2, <1>3 DEF InOrder, Ordered

LEMMA AnsweredKeeps ==
    ASSUME TypeOK, NEW c \in Conn, Intact(c), Answered(c)
    PROVE  Intact(c)'
<1>1. self[c] \in Buffers /\ Open(self[c]) /\ self[c].readcb = "local_read_cb"
      /\ remote'[c] = remote[c] /\ Rest(c)
    BY TypesAt DEF Answered, Local
<1>2. /\ self'[c].in = <<>> /\ "read" \notin self'[c].pending
      /\ Open(self'[c]) /\ self'[c].readcb = "handle_second"
      /\ self'[c].out = Append(self[c].out, Encrypt(Plain("method", c, 0)))
    BY <1>1, TookFields DEF Answered, Local, Open
<1>3. Greeting(c) /\ remote[c].st # "freed"
    BY <1>1, AtOpen
<1>4. InProtocol(c)' /\ Unread(c)' /\ Scheduled(c)' /\ NoTarget(c)'
    BY <1>1, <1>2, ReadKeeps
<1>5. Plain("method", c, 0) = Answer(c, Len(Written(c)) + 1) /\ Plain("method", c, 0) \in Messages
    BY <1>3, Numbered DEF Greeting, Answer, Kinds
<1>6. InOrder(c)' /\ Len(Written(c))' = Len(Written(c)) + 1
    BY <1>1, <1>2, <1>5, WroteNext DEF Rest, Intact
<1>7. Requesting(c)'
    <2>1. Len(sent[c]) \in Nat
        BY TypesAt
    <2>. QED
        BY <1>1, <1>2, <1>3, <1>6, <2>1 DEF Greeting, Requesting, Rest
<1>. QED
    BY <1>1, <1>2, <1>3, <1>4, <1>6, <1>7 DEF Intact, InPhase

LEMMA WrittenKept ==
    ASSUME NEW c \in Conn, got'[c] = got[c], self'[c].out = self[c].out
    PROVE  Written(c)' = Written(c) /\ (InOrder(c) => InOrder(c)')
BY DEF Written, InOrder, Ordered

LEMMA DrainedKeeps ==
    ASSUME TypeOK, NEW c \in Conn, Intact(c), Drained(c)
    PROVE  Intact(c)'
<1>1. self[c] \in Buffers /\ Open(self[c]) /\ self'[c] = Took(self[c])
      /\ remote'[c] = remote[c] /\ Rest(c) /\ got'[c] = got[c]
    BY TypesAt DEF Drained, Local, Rest
<1>2. /\ self'[c].in = <<>> /\ "read" \notin self'[c].pending
      /\ Open(self'[c]) /\ self'[c].readcb = self[c].readcb /\ self'[c].arg = self[c].arg
      /\ self'[c].out = self[c].out
    BY <1>1, TookFields DEF Open
<1>3. InProtocol(c)' /\ Unread(c)' /\ Scheduled(c)' /\ NoTarget(c)'
    BY <1>1, <1>2, ReadKeeps
<1>4. Written(c)' = Written(c) /\ InOrder(c)'
    BY <1>1, <1>2, WrittenKept DEF Intact
<1>5. /\ Greeting(c) => Greeting(c)'
      /\ Requesting(c) => Requesting(c)'
      /\ Stranded(c) => Stranded(c)'
    BY <1>1, <1>2, <1>4 DEF Rest, Greeting, Requesting, Stranded, Asked
<1>6. ASSUME Relaying(c)
      PROVE  Relaying(c)'
    <2>1. remote[c].fd = "none" /\ remote[c].st # "freed" /\ NoTarget(c)
        <3>1. remote[c].st # "freed" /\ ~Socket(remote[c]) /\ NoTarget(c)
            BY <1>1, <1>6, AtOpen DEF Drained, Relaying, Intact
        <3>2. remote[c].st \in {"none", "open", "freed"}
            BY TypesAt DEF Buffers, Bufferevents
        <3>. QED
            BY <3>1, <3>2 DEF Socket, NoTarget, Absent
    <2>2. Flow(c)' = <<>>
        <3>1. fetched'[c] = <<>> /\ remote'[c].out = <<>> /\ self'[c].in = <<>>
            BY <1>1, <1>2, <2>1 DEF NoTarget, Rest
        <3>2. <<>> \o <<>> = <<>>
            OBVIOUS
        <3>. QED
            BY <3>1, <3>2, DecryptEmpty DEF Flow
    <2>3. DataCount(c)' = DataCount(c) /\ DataCount(c) \in Nat
        BY <1>1, TypesAt DEF DataCount, Rest
    <2>4. Waiting(c) /\ Waiting(c)'
        BY <1>1, <2>1 DEF Waiting
    <2>5. c \notin Optimistic => DataCount(c) = 0
        BY <1>6, <2>4 DEF Relaying, DataCount
    <2>6. /\ LastOf(c, Flow(c), DataCount(c))'
          /\ c \notin Optimistic => Len(Flow(c)') = DataCount(c)'
        BY <2>2, <2>3, <2>5, LastOfEmpty DEF LastOf
    <2>. QED
        BY <1>1, <1>2, <1>4, <1>6, <2>4, <2>6 DEF Relaying, Rest, Asked, LastOf
<1>7. remote'[c].st # "freed" /\ (Greeting(c) \/ Requesting(c) \/ Stranded(c) \/ Relaying(c))
    BY <1>1, AtOpen
<1>. QED
    BY <1>2, <1>3, <1>4, <1>5, <1>6, <1>7 DEF Intact, InPhase

\* A request that handle_second reads is the one the client made.
LEMMA RequestRead ==
    ASSUME TypeOK, NEW c \in Conn, Intact(c), NEW kind \in {"domain", "ipv4"}, Requested(c, kind)
    PROVE  Asked(c, kind)
<1>. DEFINE s == sent[c]
            t == self[c].in
            k == Len(s) - Len(t)
<1>1. /\ s \in Seq(Messages) /\ t \in Seq(Messages) /\ Len(s) \in Nat /\ Len(t) \in Nat
      /\ t # <<>> /\ k >= 0
      /\ \A i \in 1..Len(t) : t[i] = Encrypt(s[k + i])
      /\ Decrypt(Head(t)).kind = kind
      /\ \A i \in 1..Len(s) : /\ i = 1 => s[i].kind \in AllGreetings
                              /\ i > 2 => s[i] = Plain("data", c, i - 2)
    BY TypesAt DEF Intact, Unread, InProtocol, Requested, Scheduled
<1>2. Asked(c, kind) <=> Len(s) > 1 /\ s[2].kind = kind
    BY DEF Asked
<1>. HIDE DEF s, t
<1>3. Len(t) > 0 /\ Head(t) = t[1] /\ t[1] = Encrypt(s[k + 1]) /\ k + 1 \in 1..Len(s)
    BY <1>1, EmptySeq
<1>4. s[k + 1] \in Messages
    BY <1>1, <1>3
<1>5. s[k + 1].kind = kind
    BY <1>1, <1>3, <1>4, MessageInverse
<1>6. k + 1 # 1
    BY <1>1, <1>3, <1>5 DEF AllGreetings
<1>7. ~(k + 1 > 2)
    <2>1. k + 1 > 2 => s[k + 1] = Plain("data", c, k + 1 - 2)
        BY <1>1, <1>3
    <2>. QED
        BY <1>5, <2>1 DEF Plain
<1>8. k + 1 = 2 /\ Len(s) > 1
    BY <1>1, <1>3, <1>6, <1>7
<1>. QED
    BY <1>2, <1>5, <1>8

LEMMA Gave4Keeps ==
    ASSUME TypeOK, NEW c \in Conn, Intact(c), Gave4(c)
    PROVE  Intact(c)'
<1>1. self[c] \in Buffers /\ Open(self[c]) /\ self[c].readcb = "handle_second"
      /\ remote'[c] = remote[c] /\ Rest(c)
    BY TypesAt DEF Gave4, Local, Requested
<1>2. /\ self'[c].in = <<>> /\ "read" \notin self'[c].pending
      /\ Open(self'[c]) /\ self'[c].readcb = "handle_last" /\ self'[c].arg = NULL
      /\ self'[c].out = Append(self[c].out, Encrypt(Plain("reply", c, 0)))
    BY <1>1, TookFields DEF Gave4, Local, Open
<1>3. Requesting(c) /\ remote[c].st # "freed"
    BY <1>1, AtOpen
<1>4. InProtocol(c)' /\ Unread(c)' /\ Scheduled(c)' /\ NoTarget(c)'
    BY <1>1, <1>2, ReadKeeps
<1>5. Plain("reply", c, 0) = Answer(c, Len(Written(c)) + 1) /\ Plain("reply", c, 0) \in Messages
    BY <1>3, Numbered DEF Requesting, Answer, Kinds
<1>6. InOrder(c)' /\ Len(Written(c))' = Len(Written(c)) + 1
    BY <1>1, <1>2, <1>5, WroteNext DEF Rest, Intact
<1>7. Asked(c, "ipv4")
    BY RequestRead DEF Gave4
<1>8. Stranded(c)'
    BY <1>1, <1>2, <1>3, <1>6, <1>7 DEF Requesting, Stranded, Rest, Asked
<1>. QED
    BY <1>1, <1>2, <1>3, <1>4, <1>6, <1>8 DEF Intact, InPhase

LEMMA TargetFields ==
    ASSUME NEW c \in Conn, Target(c)
    PROVE  /\ Open(remote'[c]) /\ remote'[c].fd \in {"connecting", "none"}
           /\ remote'[c].in = <<>> /\ remote'[c].out = <<>> /\ remote'[c].pending = {}
BY DEF Target, Opened, Absent, Open

\* A target's bufferevent is made, or not, where there was none.
LEMMA TargetKeeps ==
    ASSUME NEW c \in Conn, NoTarget(c), remote[c].st = "none",
           remote'[c] = remote[c] \/ Target(c), Rest(c)
    PROVE  /\ NoTarget(c)' /\ remote'[c].st # "freed"
           /\ remote'[c].in = <<>> /\ remote'[c].out = <<>> /\ fetched[c] = <<>>
           /\ remote[c].in = <<>> /\ remote[c].out = <<>> /\ served[c] = 0
           /\ Waiting(c) /\ Waiting(c)'
           /\ remote'[c].pending = {}
<1>1. /\ remote[c] = Absent /\ served[c] = 0 /\ fetched[c] = <<>>
      /\ Absent.st = "none" /\ Absent.fd = "none" /\ Absent.in = <<>> /\ Absent.out = <<>>
      /\ Absent.pending = {}
    BY DEF NoTarget, Absent
<1>2. /\ remote'[c].st # "freed" /\ remote'[c].fd \in {"connecting", "none"}
      /\ remote'[c].in = <<>> /\ remote'[c].out = <<>> /\ remote'[c].pending = {}
      /\ remote'[c].st = "none" => remote'[c] = Absent
    BY <1>1, TargetFields DEF Open
<1>. QED
    BY <1>1, <1>2 DEF NoTarget, Waiting, Rest

LEMMA SoughtKeeps ==
    ASSUME TypeOK, NEW c \in Conn, Intact(c), Sought(c)
    PROVE  Intact(c)'
<1>1. self[c] \in Buffers /\ Open(self[c]) /\ self[c].readcb = "handle_second"
      /\ self[c].arg # NULL /\ remote[c].st = "none" /\ Rest(c) /\ got'[c] = got[c]
    BY TypesAt DEF Sought, Requested, Rest
<1>2. /\ self'[c].in = <<>> /\ "read" \notin self'[c].pending
      /\ Open(self'[c]) /\ self'[c].readcb = "handle_last" /\ self'[c].arg # NULL
      /\ self'[c].out = self[c].out
    BY <1>1, TookFields DEF Sought, Open
<1>3. Requesting(c)
    BY <1>1, AtOpen
<1>4. /\ NoTarget(c)' /\ remote'[c].st # "freed"
      /\ remote'[c].in = <<>> /\ remote'[c].out = <<>> /\ fetched[c] = <<>>
      /\ served[c] = 0 /\ Waiting(c)' /\ remote'[c].pending = {}
    BY <1>1, TargetKeeps DEF Sought, Intact
<1>5. InProtocol(c)' /\ Unread(c)'
    BY <1>1, <1>2, ReadKeeps
<1>6. Scheduled(c)'
    BY <1>2, <1>4 DEF Scheduled
<1>7. Written(c)' = Written(c) /\ InOrder(c)'
    BY <1>1, <1>2, WrittenKept DEF Intact
<1>8. Asked(c, "domain") /\ Asked(c, "domain")'
    <2>1. Asked(c, "domain")
        BY RequestRead DEF Sought
    <2>. QED
        BY <1>1, <2>1 DEF Asked, Rest
<1>9. Flow(c)' = <<>>
    <2>1. <<>> \o <<>> = <<>> /\ fetched'[c] = <<>>
        BY <1>1, <1>4 DEF Rest
    <2>. QED
        BY <1>2, <1>4, <2>1, DecryptEmpty DEF Flow
<1>10. DataCount(c)' = DataCount(c) /\ DataCount(c) \in Nat
    BY <1>1, TypesAt DEF DataCount, Rest
<1>11. c \notin Optimistic => Len(sent'[c]) = 2 /\ DataCount(c) = 0
    <2>1. Len(sent[c]) \in Nat /\ Len(sent[c]) > 1 /\ sent'[c] = sent[c]
        BY <1>1, <1>8, TypesAt DEF Asked, Rest
    <2>2. c \notin Optimistic => Len(sent[c]) <= 2
        BY <1>3 DEF Requesting
    <2>3. \A n \in Nat : n > 1 /\ n <= 2 => n = 2
        OBVIOUS
    <2>4. c \notin Optimistic => Len(sent[c]) = 2
        BY <2>1, <2>2, <2>3
    <2>. QED
        BY <2>1, <2>4 DEF DataCount
<1>12. /\ LastOf(c, Flow(c), DataCount(c))'
       /\ c \notin Optimistic => Len(Flow(c)') = DataCount(c)'
       /\ LastOf(c, remote[c].in, served[c])' /\ Len(remote'[c].in) = served'[c]
    <2>1. Len(<<>>) = 0 /\ LastOf(c, <<>>, DataCount(c)) /\ LastOf(c, <<>>, 0) /\ served'[c] = 0
        BY <1>1, <1>4, <1>10, LastOfEmpty DEF Rest
    <2>. QED
        BY <1>4, <1>9, <1>10, <1>11, <2>1 DEF LastOf
<1>13. Relaying(c)'
    BY <1>2, <1>3, <1>4, <1>7, <1>8, <1>11, <1>12 DEF Relaying, Requesting
<1>. QED
    BY <1>2, <1>4, <1>5, <1>6, <1>7, <1>13 DEF Intact, InPhase

LEMMA ResolvedKeeps ==
    ASSUME TypeOK, NEW c \in Conn, Intact(c), Resolved(c)
    PROVE  Intact(c)'
<1>1. /\ Open(self[c]) /\ self'[c] = self[c] /\ self[c].arg # NULL /\ remote[c].st = "none"
      /\ Rest(c) /\ sent'[c] = sent[c] /\ got'[c] = got[c] /\ Target(c)
    BY DEF Resolved, Rest
<1>2. self[c].readcb = "handle_last" /\ Relaying(c)
    BY <1>1, AtOpen DEF Resolved
<1>3. /\ NoTarget(c)' /\ remote'[c].st # "freed"
      /\ remote'[c].in = <<>> /\ remote'[c].out = <<>>
      /\ remote[c].in = <<>> /\ remote[c].out = <<>>
      /\ Waiting(c) /\ Waiting(c)' /\ remote'[c].pending = {}
    BY <1>1, TargetKeeps DEF Intact
<1>4. InProtocol(c)' /\ Unread(c)' /\ Scheduled(c)'
    BY <1>1, <1>3 DEF Intact, InProtocol, Unread, Scheduled
<1>5. Written(c)' = Written(c) /\ InOrder(c)'
    BY <1>1, WrittenKept DEF Intact
<1>6. Flow(c)' = Flow(c) /\ DataCount(c)' = DataCount(c)
    BY <1>1, <1>3 DEF Flow, DataCount, Rest
<1>7. Relaying(c)'
    <2>1. LastOf(c, Flow(c), DataCount(c))' /\ LastOf(c, remote[c].in, served[c])'
        BY <1>1, <1>2, <1>3, <1>6 DEF Relaying, LastOf, Rest
    <2>. QED
        BY <1>1, <1>2, <1>3, <1>5, <1>6, <2>1 DEF Relaying, Rest, Asked
<1>. QED
    BY <1>1, <1>3, <1>4, <1>5, <1>7 DEF Intact, InPhase

LEMMA ForwardedKeeps ==
    ASSUME TypeOK, NEW c \in Conn, Intact(c), Forwarded(c)
    PROVE  Intact(c)'
<1>1. /\ self[c] \in Buffers /\ remote[c] \in Buffers
      /\ Open(self[c]) /\ self'[c] = Took(self[c]) /\ Socket(remote[c])
      /\ Rest(c) /\ sent'[c] = sent[c] /\ got'[c] = got[c]
      /\ self[c].readcb = "handle_last"
    BY TypesAt DEF Forwarded, Rest
<1>2. /\ self'[c].in = <<>> /\ "read" \notin self'[c].pending
      /\ Open(self'[c]) /\ self'[c].readcb = self[c].readcb /\ self'[c].arg = self[c].arg
      /\ self'[c].out = self[c].out
    BY <1>1, TookFields DEF Open
<1>3. /\ remote'[c].st = remote[c].st /\ remote'[c].fd = remote[c].fd
      /\ remote'[c].in = remote[c].in /\ remote'[c].pending = remote[c].pending
      /\ remote'[c].out = remote[c].out \o DecryptAll(self[c].in)
    BY <1>1 DEF Forwarded, Buffers, Bufferevents
<1>4. InProtocol(c)' /\ Unread(c)'
    BY <1>1, <1>2, ReadKeeps
<1>5. Scheduled(c)' /\ NoTarget(c)'
    BY <1>1, <1>2, <1>3 DEF Intact, Scheduled, NoTarget, Socket
<1>6. Written(c)' = Written(c) /\ InOrder(c)'
    BY <1>1, <1>2, WrittenKept DEF Intact
<1>7. Flow(c)' = Flow(c) /\ DataCount(c)' = DataCount(c)
    <2>1. /\ fetched[c] \in Seq(Messages) /\ remote[c].out \in Seq(Messages)
          /\ self[c].in \in Seq(Messages)
        BY TypesAt
    <2>2. fetched[c] \o (remote[c].out \o DecryptAll(self[c].in)) \o DecryptAll(<<>>)
            = fetched[c] \o remote[c].out \o DecryptAll(self[c].in)
        BY <2>1, FlowSteps
    <2>. QED
        BY <1>1, <1>2, <1>3, <2>2 DEF Flow, DataCount, Rest
<1>8. Stranded(c) => Stranded(c)'
    BY <1>1, <1>2, <1>6 DEF Stranded, Asked
<1>9. Relaying(c) => Relaying(c)'
    <2>1. LastOf(c, Flow(c), DataCount(c)) => LastOf(c, Flow(c), DataCount(c))'
        BY <1>7 DEF LastOf
    <2>2. LastOf(c, remote[c].in, served[c]) => LastOf(c, remote[c].in, served[c])'
        BY <1>1, <1>3 DEF LastOf, Rest
    <2>3. Waiting(c) <=> Waiting(c)'
        BY <1>3 DEF Waiting
    <2>. QED
        BY <1>1, <1>2, <1>3, <1>6, <1>7, <2>1, <2>2, <2>3 DEF Relaying, Rest, Asked
<1>10. remote'[c].st # "freed" /\ (Stranded(c) \/ Relaying(c))
    BY <1>1, <1>3, AtOpen
<1>. QED
    BY <1>2, <1>4, <1>5, <1>6, <1>8, <1>9, <1>10 DEF Intact, InPhase

LEMMA ReleasedKeeps ==
    ASSUME StreamInv, ~ub, NEW c \in Conn, Released(c)
    PROVE  Intact(c)'
<1>1. /\ TypeOK /\ Intact(c) /\ Open(self[c]) /\ self'[c] = Freed /\ Rest(c)
      /\ self[c].arg # NULL /\ sent'[c] = sent[c] /\ got'[c] = got[c]
      /\ fetched'[c] = fetched[c] /\ served'[c] = served[c]
      /\ remote'[c] \in {remote[c], Freed} /\ (Socket(remote[c]) => remote'[c] = Freed)
    BY DEF StreamInv, IInv, Streams, Intact, Released, Rest
<1>2. /\ Freed.st = "freed" /\ Freed.fd = "none" /\ Freed.in = <<>> /\ Freed.out = <<>>
      /\ Freed.pending = {}
    BY DEF Freed, Absent
<1>3. InProtocol(c)' /\ Unread(c)'
    BY <1>1, <1>2, ReadKeeps
<1>4. Scheduled(c)' /\ NoTarget(c)'
    BY <1>1, <1>2 DEF Intact, Scheduled, NoTarget
<1>5. /\ got[c] \in Seq(Messages) /\ self[c].out \in Seq(Messages) /\ Len(got[c]) \in Nat
      /\ Len(Written(c)) = Len(got[c]) + Len(self[c].out) /\ served[c] \in Nat
      /\ Len(Written(c)) \in Nat /\ Written(c) \in Seq(Messages)
    BY <1>1, TypesAt
<1>6. Len(got[c]) <= Len(Written(c))
    <2>1. Len(self[c].out) \in Nat
        BY <1>5
    <2>2. \A k, n \in Nat : k <= k + n
        OBVIOUS
    <2>. QED
        BY <1>5, <2>1, <2>2
<1>7. InOrder(c)'
    <2>1. Written(c)' = got[c]
        BY <1>1, <1>2, <1>5, WrittenSteps DEF Written
    <2>2. ASSUME NEW i \in 1..Len(got[c])
          PROVE  got[c][i] = Answer(c, i)
        <3>1. Written(c)[i] = got[c][i]
            <4>. DEFINE g == got[c]
                        d == DecryptAll(self[c].out)
            <4>1. g \in Seq(Messages) /\ d \in Seq(Messages) /\ i \in 1..Len(g)
                BY <1>5, Conversions
            <4>. HIDE DEF g, d
            <4>2. (g \o d)[i] = g[i]
                BY <4>1, ConcatBeginning
            <4>. QED
                BY <4>2 DEF Written, g, d
        <3>2. i \in 1..Len(Written(c))
            <4>1. \A k, n \in Nat : k <= n => 1..k \subseteq 1..n
                OBVIOUS
            <4>. QED
                BY <1>5, <1>6, <4>1
        <3>. QED
            BY <1>1, <3>1, <3>2 DEF Intact, InOrder, Ordered
    <2>. QED
        BY <2>1, <2>2 DEF InOrder, Ordered
<1>8. remote'[c].st # "freed" => Len(Written(c)) <= 1
    <2>. SUFFICES ASSUME remote'[c].st # "freed" PROVE Len(Written(c)) <= 1
        OBVIOUS
    <2>1. remote[c].fd # "connected" /\ remote[c].st # "freed"
        <3>1. remote'[c] = remote[c] /\ ~Socket(remote[c]) /\ remote[c].st # "freed"
            BY <1>1, <1>2, AtOpen
        <3>2. remote[c].st \in {"none", "open", "freed"}
            BY <1>1, TypesAt DEF Buffers, Bufferevents
        <3>. QED
            BY <1>1, <3>1, <3>2 DEF Socket, Intact, NoTarget, Absent
    <2>2. Greeting(c) \/ Requesting(c) \/ Relaying(c)
        BY <1>1, AtOpen
    <2>3. Waiting(c)
        BY <2>1 DEF Waiting
    <2>4. 0 <= 1 /\ 1 <= 1
        OBVIOUS
    <2>5. Len(Written(c)) = 0 \/ Len(Written(c)) = 1
        BY <2>2, <2>3 DEF Greeting, Requesting, Relaying
    <2>. QED
        BY <2>4, <2>5
<1>9. Len(Written(c)) <= served[c] + 2
    BY Amounts
<1>10. Len(got[c]) <= served[c] + 2 /\ (remote'[c].st # "freed" => Len(got[c]) <= 1)
    <2>. DEFINE w == Len(Written(c))
                g == Len(got[c])
    <2>. HIDE DEF w, g
    <2>1. w \in Nat /\ g \in Nat /\ g <= w /\ w <= served[c] + 2 /\ served[c] \in Nat
          /\ (remote'[c].st # "freed" => w <= 1)
        BY <1>5, <1>6, <1>8, <1>9 DEF w, g
    <2>2. g <= served[c] + 2 /\ (remote'[c].st # "freed" => g <= 1)
        BY <2>1
    <2>. QED
        BY <2>2 DEF g
<1>11. NotThere(c)'
    BY <1>1, <1>2, <1>10 DEF NotThere
<1>. QED
    BY <1>1, <1>2, <1>3, <1>4, <1>7, <1>11 DEF Intact, InPhase, Open

\* A phase is kept by what keeps its streams and the local callback.
LEMMA PhaseKept ==
    ASSUME NEW c \in Conn, sent'[c] = sent[c], Written(c)' = Written(c),
           self'[c].readcb = self[c].readcb, self'[c].arg = self[c].arg
    PROVE  /\ Greeting(c) => Greeting(c)'
           /\ Requesting(c) => Requesting(c)'
           /\ Stranded(c) => Stranded(c)'
           /\ /\ served'[c] = served[c] /\ Flow(c)' = Flow(c)
              /\ remote'[c].in = remote[c].in /\ (Waiting(c)' <=> Waiting(c))
              => (Relaying(c) => Relaying(c)')
<1>1. /\ Greeting(c) => Greeting(c)'
      /\ Requesting(c) => Requesting(c)'
      /\ Stranded(c) => Stranded(c)'
    BY DEF Greeting, Requesting, Stranded, Asked
<1>2. ASSUME served'[c] = served[c], Flow(c)' = Flow(c), remote'[c].in = remote[c].in,
             Waiting(c)' <=> Waiting(c), Relaying(c)
      PROVE  Relaying(c)'
    <2>1. DataCount(c)' = DataCount(c)
        BY DEF DataCount
    <2>2. LastOf(c, Flow(c), DataCount(c))' /\ LastOf(c, remote[c].in, served[c])'
        BY <1>2, <2>1 DEF Relaying, LastOf
    <2>. QED
        BY <1>2, <2>1, <2>2 DEF Relaying, Asked
<1>. QED
    BY <1>1, <1>2

\* What the client and the buffers hold is untouched.
LEMMA StreamsKept ==
    ASSUME NEW c \in Conn, Rest(c), self'[c].in = self[c].in, self'[c].out = self[c].out,
           remote'[c].out = remote[c].out
    PROVE  /\ InProtocol(c) => InProtocol(c)'
           /\ Unread(c) => Unread(c)'
           /\ Written(c)' = Written(c) /\ (InOrder(c) => InOrder(c)')
           /\ Flow(c)' = Flow(c) /\ sent'[c] = sent[c] /\ served'[c] = served[c]
           /\ got'[c] = got[c] /\ fetched'[c] = fetched[c]
BY DEF Rest, InProtocol, Unread, Written, InOrder, Ordered, Flow

LEMMA StirredKeeps ==
    ASSUME TypeOK, NEW c \in Conn, Intact(c), Stirred(c)
    PROVE  Intact(c)'
<1>1. Stirs(self[c], self'[c]) /\ Stirs(remote[c], remote'[c]) /\ Rest(c)
    BY DEF Stirred
<1>2. /\ InProtocol(c)' /\ Unread(c)' /\ InOrder(c)'
      /\ Written(c)' = Written(c) /\ Flow(c)' = Flow(c)
      /\ sent'[c] = sent[c] /\ served'[c] = served[c]
      /\ got'[c] = got[c] /\ fetched'[c] = fetched[c]
    BY <1>1, StreamsKept DEF Stirs, Intact
<1>3. Scheduled(c)' /\ NoTarget(c)'
    BY <1>1, <1>2 DEF Stirs, Intact, Scheduled, NoTarget
<1>4. Waiting(c)' <=> Waiting(c)
    BY <1>1 DEF Stirs, Waiting
<1>5. /\ Greeting(c) => Greeting(c)'
      /\ Requesting(c) => Requesting(c)'
      /\ Stranded(c) => Stranded(c)'
      /\ Relaying(c) => Relaying(c)'
    BY <1>1, <1>2, <1>4, PhaseKept DEF Stirs
<1>6. NotThere(c) => NotThere(c)'
    BY <1>1, <1>2 DEF Stirs, NotThere
<1>7. InPhase(c)'
    BY <1>1, <1>5, <1>6 DEF Stirs, Intact, InPhase, Open
<1>. QED
    BY <1>2, <1>3, <1>7 DEF Intact

\* What is known of a connection whose target's bufferevent does something.
LEMMA AtTarget ==
    ASSUME StreamInv, ~ub, NEW c \in Conn, Open(remote[c]),
           \/ remote[c].fd # "none"
           \/ remote[c].pending \cap {"connected", "read"} # {}
    PROVE  /\ Open(self[c]) /\ Relaying(c) /\ Intact(c) /\ TypeOK
           /\ self[c] \in Buffers /\ remote[c] \in Buffers
           /\ remote[c].pending \cap {"connected", "read"} # {} => remote[c].fd = "connected"
<1>1. Intact(c) /\ TypeOK
    BY DEF StreamInv, Streams, IInv
<1>2. remote[c].pending \cap {"connected", "read"} # {} => remote[c].fd = "connected"
    BY <1>1 DEF Intact, Scheduled
<1>3. Socket(remote[c])
    BY <1>2 DEF Socket, Open
<1>. QED
    BY <1>1, <1>2, <1>3, WithTarget, TypesAt

LEMMA RepliedKeeps ==
    ASSUME StreamInv, ~ub, NEW c \in Conn, Replied(c)
    PROVE  Intact(c)'
<1>1. Open(self[c]) /\ Open(remote[c]) /\ "connected" \in remote[c].pending /\ Rest(c)
    BY DEF Replied
<1>2. /\ Relaying(c) /\ Intact(c) /\ TypeOK /\ self[c] \in Buffers /\ remote[c] \in Buffers
      /\ remote[c].fd = "connected"
    BY <1>1, AtTarget
<1>3. /\ self'[c].in = self[c].in /\ self'[c].st = self[c].st /\ self'[c].arg = self[c].arg
      /\ self'[c].readcb = self[c].readcb /\ self'[c].pending = self[c].pending
      /\ self'[c].out = Append(self[c].out, Encrypt(Plain("reply", c, 0)))
    BY <1>2 DEF Replied, Said, Buffers, Bufferevents
<1>4. /\ remote'[c].in = remote[c].in /\ remote'[c].out = remote[c].out
      /\ remote'[c].st = remote[c].st /\ remote'[c].fd = "connected"
      /\ "connected" \notin remote'[c].pending
      /\ "read" \in remote'[c].pending => "read" \in remote[c].pending
    BY <1>2 DEF Replied, Buffers, Bufferevents
<1>5. /\ sent'[c] = sent[c] /\ got'[c] = got[c]
      /\ served'[c] = served[c] /\ fetched'[c] = fetched[c]
    BY <1>1 DEF Rest
<1>6. InProtocol(c)' /\ Unread(c)' /\ Scheduled(c)' /\ NoTarget(c)'
    BY <1>1, <1>2, <1>3, <1>4, <1>5 DEF Intact, InProtocol, Unread, Scheduled, NoTarget, Open
<1>7. Waiting(c) /\ ~Waiting(c)' /\ Len(Written(c)) = 1 /\ Len(remote[c].in) = served[c]
    BY <1>1, <1>2, <1>4 DEF Waiting, Relaying
<1>8. InOrder(c)' /\ Len(Written(c))' = Len(Written(c)) + 1
    <2>1. Plain("reply", c, 0) = Answer(c, Len(Written(c)) + 1) /\ Plain("reply", c, 0) \in Messages
        BY <1>7, Numbered DEF Answer, Kinds
    <2>. QED
        BY <1>2, <1>3, <1>5, <2>1, WroteNext DEF Intact
<1>9. Len(Written(c)') + Len(remote'[c].in) = served'[c] + 2
    <2>1. Len(Written(c)') = 2 /\ Len(remote'[c].in) = served'[c] /\ served'[c] \in Nat
        BY <1>2, <1>4, <1>5, <1>7, <1>8, TypesAt
    <2>2. \A n \in Nat : 2 + n = n + 2
        OBVIOUS
    <2>. QED
        BY <2>1, <2>2
<1>10. /\ LastOf(c, Flow(c), DataCount(c))' /\ LastOf(c, remote[c].in, served[c])'
       /\ c \notin Optimistic => Len(Flow(c)') = DataCount(c)'
    <2>1. Flow(c)' = Flow(c) /\ DataCount(c)' = DataCount(c)
        BY <1>3, <1>4, <1>5 DEF Flow, DataCount
    <2>. QED
        BY <1>2, <1>4, <1>5, <2>1 DEF Relaying, LastOf
<1>11. Relaying(c)'
    BY <1>2, <1>3, <1>5, <1>7, <1>9, <1>10 DEF Relaying, Asked
<1>. QED
    BY <1>1, <1>3, <1>4, <1>6, <1>8, <1>11 DEF Intact, InPhase, Open

LEMMA RelayedKeeps ==
    ASSUME StreamInv, ~ub, NEW c \in Conn, Relayed(c)
    PROVE  Intact(c)'
<1>1. /\ Open(self[c]) /\ Open(remote[c]) /\ Rest(c)
      /\ "read" \in remote[c].pending /\ "connected" \notin remote[c].pending
    BY DEF Relayed, ReadDue, Open
<1>2. /\ Relaying(c) /\ Intact(c) /\ TypeOK /\ self[c] \in Buffers /\ remote[c] \in Buffers
      /\ remote[c].fd = "connected"
    BY <1>1, AtTarget
<1>3. /\ self'[c].in = self[c].in /\ self'[c].st = self[c].st /\ self'[c].arg = self[c].arg
      /\ self'[c].readcb = self[c].readcb /\ self'[c].pending = self[c].pending
      /\ self'[c].out = self[c].out \o EncryptAll(remote[c].in)
    BY <1>2 DEF Relayed, Buffers, Bufferevents
<1>4. /\ remote'[c].in = <<>> /\ remote'[c].out = remote[c].out
      /\ remote'[c].st = remote[c].st /\ remote'[c].fd = "connected"
      /\ remote'[c].pending = remote[c].pending \ {"read"}
    BY <1>2 DEF Relayed, Buffers, Bufferevents
<1>5. /\ sent'[c] = sent[c] /\ got'[c] = got[c]
      /\ served'[c] = served[c] /\ fetched'[c] = fetched[c]
    BY <1>1 DEF Rest
<1>6. InProtocol(c)' /\ Unread(c)' /\ Scheduled(c)' /\ NoTarget(c)'
    BY <1>1, <1>2, <1>3, <1>4, <1>5 DEF Intact, InProtocol, Unread, Scheduled, NoTarget, Open
<1>7. /\ ~Waiting(c) /\ ~Waiting(c)'
      /\ LastOf(c, remote[c].in, served[c])
      /\ Len(Written(c)) + Len(remote[c].in) = served[c] + 2
    BY <1>1, <1>2, <1>4 DEF Waiting, Relaying
<1>8. /\ got[c] \in Seq(Messages) /\ self[c].out \in Seq(Messages) /\ served[c] \in Nat
      /\ remote[c].in \in Seq(Messages) /\ Written(c) \in Seq(Messages)
    BY <1>2, TypesAt
<1>9. Written(c)' = Written(c) \o remote[c].in
    <2>. DEFINE g == got[c]
                o == self[c].out
                t == remote[c].in
    <2>1. Written(c) = g \o DecryptAll(o) /\ Written(c)' = g \o DecryptAll(o \o EncryptAll(t))
        BY <1>3, <1>5 DEF Written
    <2>2. g \o DecryptAll(o \o EncryptAll(t)) = (g \o DecryptAll(o)) \o t
        <3>. HIDE DEF g, o, t
        <3>. QED
            BY <1>8, WrittenConcat DEF g, o, t
    <2>. QED
        BY <2>1, <2>2
<1>10. InOrder(c)'
    <2>1. Ordered(c, Written(c) \o remote[c].in)
        BY <1>2, <1>7, <1>8, OrderedConcat DEF Intact, InOrder
    <2>. QED
        BY <1>9, <2>1 DEF InOrder, Ordered
<1>11. Len(Written(c)') + Len(remote'[c].in) = served'[c] + 2
    <2>1. Len(Written(c)') = served[c] + 2
        BY <1>7, <1>8, <1>9, Concatenation
    <2>2. Len(remote'[c].in) = 0
        BY <1>4
    <2>3. \A n \in Nat : n + 2 + 0 = n + 2
        OBVIOUS
    <2>. QED
        BY <1>5, <1>8, <2>1, <2>2, <2>3
<1>12. /\ LastOf(c, Flow(c), DataCount(c))' /\ LastOf(c, remote[c].in, served[c])'
       /\ c \notin Optimistic => Len(Flow(c)') = DataCount(c)'
    <2>1. Flow(c)' = Flow(c) /\ DataCount(c)' = DataCount(c)
        BY <1>3, <1>4, <1>5 DEF Flow, DataCount
    <2>2. LastOf(c, <<>>, served[c])
        BY <1>8, LastOfEmpty
    <2>. QED
        BY <1>2, <1>4, <1>5, <2>1, <2>2 DEF Relaying, LastOf
<1>13. Relaying(c)'
    BY <1>2, <1>3, <1>5, <1>7, <1>11, <1>12 DEF Relaying, Asked
<1>. QED
    BY <1>1, <1>3, <1>4, <1>6, <1>10, <1>13 DEF Intact, InPhase, Open

LEMMA JoinedKeeps ==
    ASSUME TypeOK, NEW c \in Conn, Intact(c), Joined(c)
    PROVE  Intact(c)'
<1>1. /\ Open(remote[c]) /\ remote[c].fd = "connecting" /\ remote'[c] = Connected(remote[c])
      /\ self'[c] = self[c] /\ Rest(c) /\ remote[c] \in Buffers
    BY TypesAt DEF Joined
<1>2. /\ remote'[c].st = remote[c].st /\ remote'[c].fd = "connected"
      /\ remote'[c].in = remote[c].in /\ remote'[c].out = remote[c].out
      /\ "connected" \in remote'[c].pending
    BY <1>1 DEF Connected, Buffers, Bufferevents
<1>3. /\ InProtocol(c)' /\ Unread(c)' /\ InOrder(c)'
      /\ Written(c)' = Written(c) /\ Flow(c)' = Flow(c)
      /\ sent'[c] = sent[c] /\ served'[c] = served[c]
      /\ got'[c] = got[c] /\ fetched'[c] = fetched[c]
    BY <1>1, <1>2, StreamsKept DEF Intact
<1>4. Scheduled(c)' /\ NoTarget(c)'
    BY <1>1, <1>2 DEF Intact, Scheduled, NoTarget, Open
<1>5. Waiting(c)' /\ Waiting(c)
    BY <1>1, <1>2 DEF Waiting
<1>6. /\ Greeting(c) => Greeting(c)'
      /\ Requesting(c) => Requesting(c)'
      /\ Stranded(c) => Stranded(c)'
      /\ Relaying(c) => Relaying(c)'
    BY <1>1, <1>2, <1>3, <1>5, PhaseKept
<1>7. NotThere(c) => NotThere(c)'
    BY <1>1, <1>2, <1>3 DEF NotThere, Open
<1>8. InPhase(c)'
    BY <1>1, <1>2, <1>6, <1>7 DEF Intact, InPhase, Open
<1>. QED
    BY <1>3, <1>4, <1>8 DEF Intact

LEMMA FetchedKeeps ==
    ASSUME StreamInv, ~ub, NEW c \in Conn, Fetched(c)
    PROVE  Intact(c)'
<1>1. /\ Open(remote[c]) /\ remote[c].fd = "connected" /\ remote[c].out # <<>>
      /\ remote'[c] = Flushed(remote[c])
      /\ self'[c] = self[c] /\ sent'[c] = sent[c] /\ got'[c] = got[c] /\ served'[c] = served[c]
      /\ fetched'[c] = Append(fetched[c], Head(remote[c].out))
    BY DEF Fetched, CanWrite, Open
<1>2. Relaying(c) /\ Intact(c) /\ TypeOK /\ Open(self[c]) /\ remote[c] \in Buffers
    BY <1>1, AtTarget
<1>3. /\ remote'[c].st = remote[c].st /\ remote'[c].fd = remote[c].fd
      /\ remote'[c].in = remote[c].in /\ remote'[c].out = Tail(remote[c].out)
      /\ remote'[c].pending = remote[c].pending
    BY <1>1, <1>2 DEF Flushed, Buffers, Bufferevents
<1>4. /\ InProtocol(c)' /\ Unread(c)' /\ Scheduled(c)' /\ NoTarget(c)'
    BY <1>1, <1>2, <1>3 DEF Intact, InProtocol, Unread, Scheduled, NoTarget, Open
<1>5. Written(c)' = Written(c) /\ InOrder(c)'
    BY <1>1, <1>2, WrittenKept DEF Intact
<1>6. Flow(c)' = Flow(c)
    <2>. DEFINE f == fetched[c]
                o == remote[c].out
                i == self[c].in
    <2>1. f \in Seq(Messages) /\ o \in Seq(Messages) /\ i \in Seq(Messages) /\ o # <<>>
        BY <1>1, <1>2, TypesAt
    <2>2. /\ Flow(c) = f \o o \o DecryptAll(i)
          /\ Flow(c)' = Append(f, Head(o)) \o Tail(o) \o DecryptAll(i)
        BY <1>1, <1>3 DEF Flow
    <2>. HIDE DEF f, o, i
    <2>. QED
        BY <2>1, <2>2, FlowSteps
<1>7. Waiting(c)' <=> Waiting(c)
    BY <1>3 DEF Waiting
<1>8. Relaying(c)'
    BY <1>1, <1>2, <1>3, <1>5, <1>6, <1>7, PhaseKept
<1>. QED
    BY <1>1, <1>2, <1>3, <1>4, <1>5, <1>8 DEF Intact, InPhase, Open

LEMMA ServedKeeps ==
    ASSUME StreamInv, ~ub, NEW c \in Conn, Served(c)
    PROVE  Intact(c)'
<1>. DEFINE m == Plain("data", c, served[c] + 1)
<1>1. /\ Open(remote[c]) /\ remote[c].fd = "connected"
      /\ remote'[c] = Received(remote[c], m)
      /\ self'[c] = self[c] /\ sent'[c] = sent[c] /\ got'[c] = got[c]
      /\ fetched'[c] = fetched[c] /\ served'[c] = served[c] + 1
    BY DEF Served, CanRead, Open
<1>2. Relaying(c) /\ Intact(c) /\ TypeOK /\ Open(self[c]) /\ remote[c] \in Buffers
    BY <1>1, AtTarget
<1>3. /\ remote'[c].st = remote[c].st /\ remote'[c].fd = remote[c].fd
      /\ remote'[c].in = Append(remote[c].in, m) /\ remote'[c].out = remote[c].out
      /\ remote'[c].pending = remote[c].pending \cup {"read"}
    BY <1>1, <1>2 DEF Received, Buffers, Bufferevents
<1>4. /\ InProtocol(c)' /\ Unread(c)' /\ Scheduled(c)' /\ NoTarget(c)'
    BY <1>1, <1>2, <1>3 DEF Intact, InProtocol, Unread, Scheduled, NoTarget, Open
<1>5. Written(c)' = Written(c) /\ InOrder(c)'
    BY <1>1, <1>2, WrittenKept DEF Intact
<1>6. /\ served[c] \in Nat /\ remote[c].in \in Seq(Messages)
      /\ Len(remote[c].in) \in Nat /\ Len(Written(c)) \in Nat
    BY <1>2, TypesAt
<1>7. /\ LastOf(c, Flow(c), DataCount(c))'
      /\ c \notin Optimistic => Len(Flow(c)') = DataCount(c)'
    <2>1. Flow(c)' = Flow(c) /\ DataCount(c)' = DataCount(c)
        BY <1>1, <1>3 DEF Flow, DataCount
    <2>. QED
        BY <1>2, <2>1 DEF Relaying, LastOf
<1>8. LastOf(c, remote[c].in, served[c])'
    <2>1. LastOf(c, Append(remote[c].in, m), served[c] + 1)
        BY <1>2, <1>6, LastOfAppend DEF Relaying
    <2>. QED
        BY <1>1, <1>3, <2>1 DEF LastOf
<1>9. Waiting(c)' <=> Waiting(c)
    BY <1>3 DEF Waiting
<1>10. /\ Len(remote[c].in) = served[c] => Len(remote'[c].in) = served'[c]
       /\ Len(Written(c)) + Len(remote[c].in) = served[c] + 2
            => Len(Written(c)') + Len(remote'[c].in) = served'[c] + 2
    <2>1. Len(remote'[c].in) = Len(remote[c].in) + 1
        <3>1. m \in Messages
            BY <1>6, Numbered
        <3>. QED
            BY <1>3, <1>6, <3>1
    <2>. DEFINE w == Len(Written(c))
                k == Len(remote[c].in)
                n == served[c]
    <2>2. w + k = n + 2 => w + (k + 1) = n + 1 + 2
        <3>1. w \in Nat /\ k \in Nat /\ n \in Nat
            BY <1>6
        <3>. HIDE DEF w, k, n
        <3>. QED
            BY <3>1
    <2>3. /\ Len(remote'[c].in) = k + 1 /\ served'[c] = n + 1
          /\ Len(Written(c)') = w
        BY <1>1, <1>5, <2>1
    <2>. HIDE DEF w, k, n
    <2>4. /\ k = n => Len(remote'[c].in) = served'[c]
          /\ w + k = n + 2 => Len(Written(c)') + Len(remote'[c].in) = served'[c] + 2
        BY <2>2, <2>3
    <2>. QED
        BY <2>4 DEF w, k, n
<1>11. Relaying(c)'
    BY <1>1, <1>2, <1>5, <1>7, <1>8, <1>9, <1>10 DEF Relaying, Asked
<1>. QED
    BY <1>1, <1>2, <1>3, <1>4, <1>5, <1>11 DEF Intact, InPhase, Open

LEMMA ListenedKeeps ==
    ASSUME TypeOK, NEW c \in Conn, Intact(c), Listened(c)
    PROVE  Intact(c)'
<1>1. /\ Open(self[c]) /\ self[c].out # <<>> /\ self[c] \in Buffers
      /\ self'[c] = Flushed(self[c]) /\ got'[c] = Append(got[c], Decrypt(Head(self[c].out)))
      /\ remote'[c] = remote[c] /\ sent'[c] = sent[c]
      /\ served'[c] = served[c] /\ fetched'[c] = fetched[c]
    BY TypesAt DEF Listened
<1>2. /\ self'[c].st = self[c].st /\ self'[c].arg = self[c].arg
      /\ self'[c].readcb = self[c].readcb /\ self'[c].pending = self[c].pending
      /\ self'[c].in = self[c].in /\ self'[c].out = Tail(self[c].out)
    BY <1>1 DEF Flushed, Buffers, Bufferevents
<1>3. InProtocol(c)' /\ Unread(c)' /\ Scheduled(c)' /\ NoTarget(c)'
    BY <1>1, <1>2 DEF Intact, InProtocol, Unread, Scheduled, NoTarget
<1>4. Written(c)' = Written(c)
    <2>. DEFINE g == got[c]
                o == self[c].out
    <2>1. g \in Seq(Messages) /\ o \in Seq(Messages) /\ o # <<>>
        BY <1>1, TypesAt
    <2>2. /\ Written(c) = g \o DecryptAll(o)
          /\ Written(c)' = Append(g, Decrypt(Head(o))) \o DecryptAll(Tail(o))
        BY <1>1, <1>2 DEF Written
    <2>. HIDE DEF g, o
    <2>. QED
        BY <2>1, <2>2, WrittenSteps
<1>5. InOrder(c)'
    BY <1>4 DEF Intact, InOrder, Ordered
<1>6. Flow(c)' = Flow(c) /\ (Waiting(c)' <=> Waiting(c))
    BY <1>1, <1>2 DEF Flow, Waiting
<1>7. /\ Greeting(c) => Greeting(c)'
      /\ Requesting(c) => Requesting(c)'
      /\ Stranded(c) => Stranded(c)'
      /\ Relaying(c) => Relaying(c)'
    BY <1>1, <1>2, <1>4, <1>6, PhaseKept
<1>8. InPhase(c)'
    BY <1>1, <1>2, <1>7 DEF Intact, InPhase, Open
<1>. QED
    BY <1>3, <1>5, <1>8 DEF Intact

\* A client has heard only what was written to it.
LEMMA HeardIsWritten ==
    ASSUME TypeOK, NEW c \in Conn, InOrder(c)
    PROVE  /\ Heard(c, "method") => Len(Written(c)) # 0
           /\ Heard(c, "reply") => Len(Written(c)) # 0 /\ Len(Written(c)) # 1
<1>1. /\ got[c] \in Seq(Messages) /\ DecryptAll(self[c].out) \in Seq(Messages)
      /\ Len(got[c]) \in Nat /\ Len(self[c].out) \in Nat
      /\ Len(Written(c)) = Len(got[c]) + Len(self[c].out)
    BY TypesAt, Conversions
<1>2. ASSUME NEW i \in DOMAIN got[c]
      PROVE  /\ got[c][i] = Answer(c, i) /\ Len(Written(c)) # 0
             /\ i # 1 => Len(Written(c)) # 1
    <2>1. i \in 1..Len(got[c])
        BY <1>1
    <2>2. \A k, n \in Nat : \A j \in 1..k :
            j \in 1..(k + n) /\ k + n # 0 /\ (j # 1 => k + n # 1)
        OBVIOUS
    <2>3. /\ i \in 1..Len(Written(c)) /\ Len(Written(c)) # 0
          /\ i # 1 => Len(Written(c)) # 1
        BY <1>1, <2>1, <2>2
    <2>4. Written(c)[i] = got[c][i]
        <3>. DEFINE g == got[c]
                    d == DecryptAll(self[c].out)
        <3>1. g \in Seq(Messages) /\ d \in Seq(Messages) /\ i \in 1..Len(g)
            BY <1>1, <2>1
        <3>. HIDE DEF g, d
        <3>2. (g \o d)[i] = g[i]
            BY <3>1, ConcatBeginning
        <3>. QED
            BY <3>2 DEF Written, g, d
    <2>. QED
        BY <2>3, <2>4 DEF InOrder, Ordered
<1>3. Answer(c, 1) # Plain("reply", c, 0)
    BY DEF Answer, Plain
<1>. QED
    BY <1>2, <1>3 DEF Heard

\* The messages a client may send next, by how many it has sent.
LEMMA NextSent ==
    ASSUME TypeOK, NEW c \in Conn, NEW m \in NextMessages(c)
    PROVE  /\ m \in Messages
           /\ Len(sent[c]) = 0 => m.kind \in AllGreetings
           /\ Len(sent[c]) = 1 => m.kind \in AllRequests /\ Heard(c, "method")
           /\ Len(sent[c]) > 1 => /\ m = Plain("data", c, Len(sent[c]) - 1)
                                  /\ Heard(c, "reply") \/ c \in Optimistic
<1>. DEFINE n == Len(sent[c])
<1>1. n \in Nat
    BY TypesAt
<1>2. \/ n = 0 /\ \E k \in Greetings : m = Plain(k, c, 0)
      \/ n = 1 /\ Heard(c, "method") /\ \E k \in Requests : m = Plain(k, c, 0)
      \/ /\ n > 1 /\ m = Plain("data", c, n - 1)
         /\ Heard(c, "reply") \/ c \in Optimistic
    <2>1. CASE n = 0
        BY <2>1 DEF NextMessages
    <2>2. CASE n = 1
        BY <2>2 DEF NextMessages
    <2>3. CASE n # 0 /\ n # 1
        <3>1. n > 1
            <4>1. \A k \in Nat : k # 0 /\ k # 1 => k > 1
                OBVIOUS
            <4>. QED
                BY <1>1, <2>3, <4>1
        <3>. QED
            BY <2>3, <3>1 DEF NextMessages
    <2>. QED
        BY <2>1, <2>2, <2>3
<1>3. \A k \in Kinds : Plain(k, c, 0) \in Messages /\ Plain(k, c, 0).kind = k
    BY Numbered DEF Plain
<1>4. n > 1 => Plain("data", c, n - 1) \in Messages
    <2>1. n > 1 => n - 1 \in Nat
        BY <1>1
    <2>. QED
        BY <2>1, Numbered
<1>5. AllGreetings \subseteq Kinds /\ AllRequests \subseteq Kinds
    BY DEF Kinds
<1>6. 0 # 1 /\ ~(0 > 1) /\ ~(1 > 1)
    OBVIOUS
<1>. HIDE DEF n
<1>7. /\ m \in Messages
      /\ n = 0 => m.kind \in AllGreetings
      /\ n = 1 => m.kind \in AllRequests /\ Heard(c, "method")
      /\ n > 1 => /\ m = Plain("data", c, n - 1)
                  /\ Heard(c, "reply") \/ c \in Optimistic
    BY <1>2, <1>3, <1>4, <1>5, <1>6, ServerAssumption
<1>. QED
    BY <1>7 DEF n

\* Sending the next message keeps to the protocol and to the end of what was sent.
LEMMA SpokeInProtocol ==
    ASSUME TypeOK, NEW c \in Conn, InProtocol(c), Unread(c), NEW m \in NextMessages(c),
           self'[c].in = Append(self[c].in, Encrypt(m)), sent'[c] = Append(sent[c], m)
    PROVE  InProtocol(c)' /\ Unread(c)'
<1>. DEFINE s == sent[c]
            t == self[c].in
            n == Len(s)
            l == Len(t)
            z == Append(s, m)
            y == Append(t, Encrypt(m))
<1>1. /\ s \in Seq(Messages) /\ t \in Seq(Messages) /\ n \in Nat /\ l \in Nat
      /\ m \in Messages /\ Encrypt(m) \in Messages
    BY TypesAt, NextSent, MessageTypes
<1>2. /\ Len(z) = n + 1 /\ (\A i \in 1..n : z[i] = s[i]) /\ z[n + 1] = m
      /\ Len(y) = l + 1 /\ (\A i \in 1..l : y[i] = t[i]) /\ y[l + 1] = Encrypt(m)
    BY <1>1
<1>3. \A i \in 1..n : /\ i = 1 => s[i].kind \in AllGreetings
                      /\ i = 2 => s[i].kind \in AllRequests
                      /\ i > 2 => s[i] = Plain("data", c, i - 2)
    BY DEF InProtocol
<1>4. /\ n = 0 => m.kind \in AllGreetings
      /\ n = 1 => m.kind \in AllRequests
      /\ n > 1 => m = Plain("data", c, n - 1)
    BY NextSent
<1>5. n - l >= 0 /\ \A i \in 1..l : t[i] = Encrypt(s[n - l + i])
    BY DEF Unread
<1>6. /\ InProtocol(c)' <=>
           \A i \in 1..Len(z) : /\ i = 1 => z[i].kind \in AllGreetings
                                /\ i = 2 => z[i].kind \in AllRequests
                                /\ i > 2 => z[i] = Plain("data", c, i - 2)
      /\ Unread(c)' <=>
           Len(z) - Len(y) >= 0 /\ \A i \in 1..Len(y) : y[i] = Encrypt(z[Len(z) - Len(y) + i])
    BY DEF InProtocol, Unread
<1>. HIDE DEF s, t, n, l, z, y
<1>7. ASSUME NEW i \in 1..(n + 1)
      PROVE  /\ i = 1 => z[i].kind \in AllGreetings
             /\ i = 2 => z[i].kind \in AllRequests
             /\ i > 2 => z[i] = Plain("data", c, i - 2)
    <2>1. CASE i \in 1..n
        BY <1>2, <1>3, <2>1
    <2>2. CASE i \notin 1..n
        <3>1. i = n + 1
            BY <1>1, <2>2
        <3>2. /\ i = 1 => n = 0
              /\ i = 2 => n = 1
              /\ i > 2 => n > 1 /\ n - 1 = i - 2
            BY <1>1, <3>1
        <3>. QED
            BY <1>2, <1>4, <3>1, <3>2
    <2>. QED
        BY <2>1, <2>2
<1>8. ASSUME NEW i \in 1..(l + 1)
      PROVE  y[i] = Encrypt(z[n + 1 - (l + 1) + i])
    <2>1. CASE i \in 1..l
        <3>1. n + 1 - (l + 1) + i = n - l + i /\ n - l + i \in 1..n
            BY <1>1, <1>5, <2>1
        <3>. QED
            BY <1>2, <1>5, <2>1, <3>1
    <2>2. CASE i \notin 1..l
        <3>1. i = l + 1 /\ n + 1 - (l + 1) + i = n + 1
            BY <1>1, <2>2
        <3>. QED
            BY <1>2, <3>1
    <2>. QED
        BY <2>1, <2>2
<1>9. n + 1 - (l + 1) >= 0
    BY <1>1, <1>5
<1>10. Len(z) = n + 1 /\ Len(y) = l + 1
    BY <1>2
<1>11. InProtocol(c)'
    BY <1>6, <1>7, <1>10
<1>12. Unread(c)'
    <2>1. ASSUME NEW i \in 1..Len(y)
          PROVE  y[i] = Encrypt(z[Len(z) - Len(y) + i])
        <3>1. i \in 1..(l + 1)
            BY <1>10
        <3>2. Len(z) - Len(y) + i = n + 1 - (l + 1) + i
            BY <1>1, <1>10
        <3>3. y[i] = Encrypt(z[n + 1 - (l + 1) + i])
            BY <1>8, <3>1
        <3>. QED
            BY <3>2, <3>3, Zenon
    <2>2. Len(z) - Len(y) >= 0
        BY <1>1, <1>9, <1>10
    <2>. QED
        BY <1>6, <2>1, <2>2
<1>. QED
    BY <1>11, <1>12

\* A relayed connection's client sends its next data message.
LEMMA SpokeRelaying ==
    ASSUME TypeOK, NEW c \in Conn, Intact(c), Relaying(c), NEW m \in NextMessages(c),
           self'[c].in = Append(self[c].in, Encrypt(m)), sent'[c] = Append(sent[c], m),
           self'[c].readcb = self[c].readcb, self'[c].arg = self[c].arg,
           Written(c)' = Written(c), remote'[c] = remote[c],
           served'[c] = served[c], fetched'[c] = fetched[c]
    PROVE  Relaying(c)'
<1>. DEFINE n == Len(sent[c])
<1>1. /\ sent[c] \in Seq(Messages) /\ n \in Nat /\ m \in Messages
      /\ n > 1 /\ sent[c][2].kind = "domain" /\ m = Plain("data", c, n - 1)
      /\ Heard(c, "reply") \/ c \in Optimistic
    BY TypesAt, NextSent DEF Relaying, Asked
<1>2. Len(sent'[c]) = n + 1 /\ sent'[c][2] = sent[c][2] /\ n + 1 > 1
    BY <1>1
<1>3. DataCount(c)' = DataCount(c) + 1 /\ m = Plain("data", c, DataCount(c) + 1)
    <2>1. DataCount(c) = n - 2
        <3>1. ~(n > 2) => n - 2 = 0
            <4>1. \A k \in Nat : k > 1 /\ ~(k > 2) => k - 2 = 0
                OBVIOUS
            <4>. QED
                BY <1>1, <4>1
        <3>. QED
            BY <3>1 DEF DataCount
    <2>2. DataCount(c)' = n + 1 - 2
        <3>1. n + 1 > 2
            BY <1>1
        <3>. QED
            BY <1>2, <3>1 DEF DataCount
    <2>3. n + 1 - 2 = n - 2 + 1 /\ n - 1 = n - 2 + 1
        BY <1>1
    <2>. QED
        BY <1>1, <2>1, <2>2, <2>3
<1>4. Flow(c)' = Append(Flow(c), m)
    <2>. DEFINE f == fetched[c]
                o == remote[c].out
                i == self[c].in
    <2>1. f \in Seq(Messages) /\ o \in Seq(Messages) /\ i \in Seq(Messages)
        BY TypesAt
    <2>2. /\ Flow(c) = f \o o \o DecryptAll(i)
          /\ Flow(c)' = f \o o \o DecryptAll(Append(i, Encrypt(m)))
        BY DEF Flow
    <2>. HIDE DEF f, o, i
    <2>3. f \o o \o DecryptAll(Append(i, Encrypt(m))) = Append(f \o o \o DecryptAll(i), m)
        BY <1>1, <2>1, FlowAppend, SMTT(40)
    <2>. QED
        BY <2>2, <2>3
<1>5. Flow(c) \in Seq(Messages) /\ DataCount(c) \in Nat
    BY TypesAt
<1>6. LastOf(c, Flow(c), DataCount(c))'
    <2>1. LastOf(c, Append(Flow(c), m), DataCount(c) + 1)
        BY <1>3, <1>5, LastOfAppend DEF Relaying
    <2>. QED
        BY <1>3, <1>4, <2>1 DEF LastOf
<1>7. c \notin Optimistic => Len(Flow(c)') = DataCount(c)'
    <2>1. Len(Append(Flow(c), m)) = Len(Flow(c)) + 1
        BY <1>1, <1>5
    <2>. QED
        BY <1>3, <1>4, <2>1 DEF Relaying
<1>8. Waiting(c)' <=> Waiting(c)
    BY DEF Waiting
<1>9. Waiting(c) => c \in Optimistic
    BY <1>1, HeardIsWritten DEF Relaying, Intact
<1>10. Asked(c, "domain")'
    BY <1>1, <1>2 DEF Asked
<1>11. LastOf(c, remote[c].in, served[c])'
    BY DEF Relaying, LastOf
<1>. QED
    BY <1>6, <1>7, <1>8, <1>9, <1>10, <1>11 DEF Relaying

LEMMA SpokeKeeps ==
    ASSUME TypeOK, NEW c \in Conn, Intact(c), Spoke(c)
    PROVE  Intact(c)'
<1>1. PICK m \in NextMessages(c) :
        self'[c] = Received(self[c], Encrypt(m)) /\ sent'[c] = Append(sent[c], m)
    BY DEF Spoke
<1>2. /\ Open(self[c]) /\ self[c] \in Buffers /\ remote'[c] = remote[c]
      /\ got'[c] = got[c] /\ served'[c] = served[c] /\ fetched'[c] = fetched[c]
    BY TypesAt DEF Spoke
<1>3. /\ self'[c].st = self[c].st /\ self'[c].arg = self[c].arg
      /\ self'[c].readcb = self[c].readcb /\ self'[c].out = self[c].out
      /\ self'[c].in = Append(self[c].in, Encrypt(m))
    BY <1>1, <1>2 DEF Received, Buffers, Bufferevents
<1>4. /\ sent[c] \in Seq(Messages) /\ self[c].in \in Seq(Messages)
      /\ Len(sent[c]) \in Nat /\ m \in Messages /\ Encrypt(m) \in Messages
    BY TypesAt, NextSent, MessageTypes
<1>5. Len(sent'[c]) = Len(sent[c]) + 1 /\ self'[c].in # <<>>
    BY <1>1, <1>3, <1>4
<1>6. InProtocol(c)' /\ Unread(c)'
    BY <1>1, <1>3, SpokeInProtocol DEF Intact
<1>7. Scheduled(c)' /\ NoTarget(c)'
    BY <1>2, <1>5 DEF Intact, Scheduled, NoTarget
<1>8. Written(c)' = Written(c) /\ InOrder(c)'
    BY <1>2, <1>3, WrittenKept DEF Intact
<1>9. /\ Len(Written(c)) = 0 => ~Heard(c, "method")
      /\ Len(Written(c)) = 1 => ~Heard(c, "reply")
    BY HeardIsWritten DEF Intact
<1>10. Greeting(c) => Greeting(c)'
    <2>. SUFFICES ASSUME Greeting(c) PROVE Greeting(c)'
        OBVIOUS
    <2>1. Len(sent[c]) <= 1 /\ Len(sent[c]) # 1
        BY <1>9, NextSent DEF Greeting
    <2>2. \A n \in Nat : n <= 1 /\ n # 1 => n + 1 <= 1
        OBVIOUS
    <2>. QED
        BY <1>3, <1>4, <1>5, <1>8, <2>1, <2>2 DEF Greeting
<1>11. Requesting(c) => Requesting(c)'
    <2>. SUFFICES ASSUME Requesting(c) PROVE Requesting(c)'
        OBVIOUS
    <2>1. c \notin Optimistic => ~(Len(sent[c]) > 1)
        BY <1>9, NextSent DEF Requesting
    <2>2. \A n \in Nat : ~(n > 1) => n + 1 <= 2
        OBVIOUS
    <2>. QED
        BY <1>3, <1>4, <1>5, <1>8, <2>1, <2>2 DEF Requesting
<1>12. Stranded(c) => Stranded(c)'
    <2>1. ASSUME Asked(c, "ipv4")
          PROVE  Asked(c, "ipv4")'
        <3>1. Len(sent[c]) > 1 /\ sent[c][2].kind = "ipv4"
            BY <2>1 DEF Asked
        <3>2. Len(sent[c]) + 1 > 1 /\ sent'[c][2] = sent[c][2]
            BY <1>1, <1>4, <3>1
        <3>. QED
            BY <1>5, <3>1, <3>2 DEF Asked
    <2>. QED
        BY <1>3, <1>8, <2>1 DEF Stranded
<1>13. Relaying(c) => Relaying(c)'
    BY <1>1, <1>2, <1>3, <1>8, SpokeRelaying
<1>14. InPhase(c)'
    BY <1>2, <1>3, <1>10, <1>11, <1>12, <1>13 DEF Intact, InPhase, Open
<1>. QED
    BY <1>6, <1>7, <1>8, <1>14 DEF Intact

-----------------------------------------------------------------------------
\* The induction.

LEMMA EffectKeeps ==
    ASSUME StreamInv, ~ub, NEW c \in Conn, Effect(c)
    PROVE  Intact(c)'
<1>1. IInv /\ TypeOK /\ Intact(c)
    BY DEF StreamInv, Streams, IInv
<1>. QED
    BY <1>1, SameKeeps, AcceptedKeeps, AnsweredKeeps, DrainedKeeps, Gave4Keeps, SoughtKeeps,
       ResolvedKeeps, ForwardedKeeps, ReleasedKeeps, StirredKeeps, RepliedKeeps, RelayedKeeps,
       SpokeKeeps, ListenedKeeps, JoinedKeeps, ServedKeeps, FetchedKeeps DEF Effect

\* Once a deleted object has been used, that stays so.
LEMMA MisuseStays == ub /\ [Next]_vars => ub'
<1>. SUFFICES ASSUME ub, Next PROVE ub'
    BY DEF vars
<1>1. \A c \in Conn : \A a : dns_cb(c, a) => ub'
    BY DEF dns_cb, Deref, Fault
<1>2. \A c \in Conn : listen_cb(c) \/ LookupReturns(c) \/ ReadTimeout(c) => ub'
    BY <1>1 DEF listen_cb, LookupReturns, ReadTimeout
<1>3. \A c \in Conn : SelfRead(c) \/ SelfEvent(c) => ub'
    BY DEF SelfRead, SelfEvent, local_event_cb, Deref
<1>4. \A c \in Conn : RemoteConnected(c) \/ RemoteRead(c) \/ RemoteEvent(c) => ub'
    BY DEF RemoteConnected, RemoteRead, Relay, RemoteEvent, RemoteGone, Deref, Fault
<1>5. \A c \in Conn : Environment(c) => ub'
    BY DEF Environment, ClientSends, SelfReceives, ClientReceives, ClientLeaves, ConnectEnds,
       TargetSends, TargetReceives, TargetLeaves
<1>. QED
    BY <1>2, <1>3, <1>4, <1>5 DEF Next, Callback

LEMMA InitStreams == Init => Streams
<1>. SUFFICES ASSUME Init, NEW c \in Conn PROVE Intact(c)
    BY DEF Streams
<1>1. /\ self[c] = Absent /\ remote[c] = Absent /\ sent[c] = <<>> /\ got[c] = <<>>
      /\ served[c] = 0 /\ fetched[c] = <<>>
      /\ Absent.st = "none" /\ Absent.in = <<>> /\ Absent.out = <<>> /\ Absent.pending = {}
    BY DEF Init, Absent
<1>2. Written(c) = <<>>
    <2>1. <<>> \in Seq(Messages)
        OBVIOUS
    <2>. QED
        BY <1>1, <2>1, WrittenSteps DEF Written
<1>3. InProtocol(c) /\ Unread(c) /\ Scheduled(c) /\ InOrder(c) /\ NoTarget(c)
    BY <1>1, <1>2 DEF InProtocol, Unread, Scheduled, InOrder, Ordered, NoTarget
<1>4. InPhase(c)
    BY <1>1 DEF InPhase, NotThere, Open
<1>. QED
    BY <1>3, <1>4 DEF Intact

LEMMA NextStreams == StreamInv /\ [Next]_vars => Streams'
<1>. SUFFICES ASSUME StreamInv, [Next]_vars, ~ub', NEW x \in Conn PROVE Intact(x)'
    BY DEF Streams
<1>1. ~ub /\ IInv /\ Streams /\ Intact(x)
    BY MisuseStays DEF StreamInv, Streams
<1>2. CASE Next
    <2>1. PICK c \in Conn : Effect(c) /\ Apart(c)
        BY <1>1, <1>2, NextEffect
    <2>2. CASE x = c
        BY <1>1, <2>1, <2>2, EffectKeeps
    <2>3. CASE x # c
        BY <1>1, <2>1, <2>3, SameKeeps DEF Apart
    <2>. QED
        BY <2>2, <2>3
<1>3. CASE UNCHANGED vars
    BY <1>1, <1>3, SameKeeps DEF vars, network, Same, Rest
<1>. QED
    BY <1>2, <1>3

LEMMA NextInvariant == StreamInv /\ [Next]_vars => StreamInv'
BY NextType, NextHolders, NextStreams DEF IInv, Holders, StreamInv

LEMMA InitInvariant == Init => StreamInv
BY InitType, InitHolders, InitStreams DEF IInv, Holders, StreamInv

\* The lifetimes and the streams of every connection stay where its phase puts
\* them, whatever its callbacks, its client and its target do.
THEOREM StreamsInductive == Spec => []StreamInv
BY InitInvariant, NextInvariant, PTL DEF Spec

\* Between a client and its target handle_last loses, duplicates, reorders and
\* mixes nothing, and decrypts everything once.
THEOREM UpstreamStaysComplete == Spec => []UpstreamComplete
BY StreamsInductive, Upstream, PTL

\* A client gets the method, then success, then the data of its own target in
\* order and encrypted once, whatever order the callbacks run in.
THEOREM DownstreamStaysInOrder == Spec => []DownstreamInOrder
BY StreamsInductive, Downstream, PTL

\* For a domain, remote_event_cb writes success only after the connect to the
\* client's own target has completed.
THEOREM DomainRepliesMeanConnected == Spec => []DomainReplyMeansConnected
BY StreamsInductive, DomainReply, PTL
=============================================================================
