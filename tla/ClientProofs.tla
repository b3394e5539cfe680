---------------------------- MODULE ClientProofs ----------------------------
(***************************************************************************)
(* Proofs about the client.  TypeOK and IInv are inductive together; with  *)
(* them the streams are whole, nothing that was sent before its sender     *)
(* left is dropped, no callback takes the process down, and every step is  *)
(* a step of ProxiedConnection or a stutter.                               *)
(***************************************************************************)
EXTENDS ClientProps, SequenceTheorems, TLAPS

-----------------------------------------------------------------------------
\* What the operators on messages and sequences return.

LEMMA MessageTypes ==
    /\ \A m \in Messages : Encrypt(m) \in Messages /\ Decrypt(m) \in Messages
    /\ \A kind \in Kinds, c \in Conn, n \in Nat : Plain(kind, c, n) \in Messages
BY DEF Messages, MessagesOf, Encrypt, Decrypt, Plain

LEMMA MessageInverse ==
    ASSUME NEW m \in Messages
    PROVE  Encrypt(Decrypt(m)) = m /\ Decrypt(Encrypt(m)) = m
<1>1. /\ m = [kind |-> m.kind, conn |-> m.conn, n |-> m.n, layer |-> m.layer]
      /\ m.layer \in Int
    BY DEF Messages, MessagesOf
<1>2. m.layer + 1 - 1 = m.layer /\ m.layer - 1 + 1 = m.layer
    BY <1>1
<1>3. /\ Encrypt(m) = [kind |-> m.kind, conn |-> m.conn, n |-> m.n, layer |-> m.layer + 1]
      /\ Decrypt(m) = [kind |-> m.kind, conn |-> m.conn, n |-> m.n, layer |-> m.layer - 1]
    BY <1>1 DEF Encrypt, Decrypt
<1>4. Encrypt(m) \in Messages /\ Decrypt(m) \in Messages
    BY MessageTypes
<1>5. ASSUME NEW e \in Messages
      PROVE  /\ Encrypt(e) = [kind |-> e.kind, conn |-> e.conn, n |-> e.n, layer |-> e.layer + 1]
             /\ Decrypt(e) = [kind |-> e.kind, conn |-> e.conn, n |-> e.n, layer |-> e.layer - 1]
    BY DEF Encrypt, Decrypt, Messages, MessagesOf
<1>. QED
    BY <1>1, <1>2, <1>3, <1>4, <1>5

\* A conversion keeps the length and goes message by message.
LEMMA StreamTypes ==
    ASSUME NEW s \in Seq(Messages)
    PROVE  /\ EncryptAll(s) \in Seq(Messages) /\ DecryptAll(s) \in Seq(Messages)
           /\ Len(EncryptAll(s)) = Len(s) /\ Len(DecryptAll(s)) = Len(s)
           /\ \A i \in 1..Len(s) : /\ s[i] \in Messages
                                   /\ EncryptAll(s)[i] = Encrypt(s[i])
                                   /\ DecryptAll(s)[i] = Decrypt(s[i])
<1>1. \A i \in DOMAIN s : s[i] \in Messages
    OBVIOUS
<1>2. /\ \A i \in DOMAIN s : Encrypt(s[i]) \in Messages
      /\ \A i \in DOMAIN s : Decrypt(s[i]) \in Messages
    BY <1>1, MessageTypes
<1>3. DOMAIN s = 1..Len(s) /\ Len(s) \in Nat
    OBVIOUS
<1>. QED
    BY <1>1, <1>2, <1>3 DEF EncryptAll, DecryptAll

LEMMA SequenceTypes ==
    ASSUME NEW S, NEW s \in Seq(S)
    PROVE  /\ <<>> \in Seq(S)
           /\ \A e \in S : Append(s, e) \in Seq(S) /\ <<e>> \in Seq(S)
           /\ s # <<>> => Tail(s) \in Seq(S) /\ Head(s) \in S
           /\ \A t \in Seq(S) : s \o t \in Seq(S)
           /\ s \o <<>> = s
OBVIOUS

\* Converting the stream so far and then one more message.
LEMMA StreamAppend ==
    ASSUME NEW s \in Seq(Messages), NEW m \in Messages
    PROVE  /\ EncryptAll(Append(s, m)) = Append(EncryptAll(s), Encrypt(m))
           /\ DecryptAll(Append(s, m)) = Append(DecryptAll(s), Decrypt(m))
<1>1. /\ Append(s, m) \in Seq(Messages) /\ Len(Append(s, m)) = Len(s) + 1 /\ Len(s) \in Nat
      /\ \A i \in 1..Len(s) : Append(s, m)[i] = s[i]
      /\ Append(s, m)[Len(s) + 1] = m
    OBVIOUS
<1>2. Encrypt(m) \in Messages /\ Decrypt(m) \in Messages
    BY MessageTypes
<1>3. /\ EncryptAll(s) \in Seq(Messages) /\ Len(EncryptAll(s)) = Len(s)
      /\ DecryptAll(s) \in Seq(Messages) /\ Len(DecryptAll(s)) = Len(s)
    BY StreamTypes
<1>4. /\ EncryptAll(Append(s, m)) \in Seq(Messages)
      /\ Len(EncryptAll(Append(s, m))) = Len(s) + 1
      /\ DecryptAll(Append(s, m)) \in Seq(Messages)
      /\ Len(DecryptAll(Append(s, m))) = Len(s) + 1
    BY <1>1, StreamTypes
<1>5. /\ Append(EncryptAll(s), Encrypt(m)) \in Seq(Messages)
      /\ Len(Append(EncryptAll(s), Encrypt(m))) = Len(s) + 1
      /\ Append(DecryptAll(s), Decrypt(m)) \in Seq(Messages)
      /\ Len(Append(DecryptAll(s), Decrypt(m))) = Len(s) + 1
    BY <1>2, <1>3
<1>6. ASSUME NEW i \in 1..(Len(s) + 1)
      PROVE  /\ EncryptAll(Append(s, m))[i] = Append(EncryptAll(s), Encrypt(m))[i]
             /\ DecryptAll(Append(s, m))[i] = Append(DecryptAll(s), Decrypt(m))[i]
    <2>1. /\ EncryptAll(Append(s, m))[i] = Encrypt(Append(s, m)[i])
          /\ DecryptAll(Append(s, m))[i] = Decrypt(Append(s, m)[i])
        BY <1>1, StreamTypes
    <2>2. CASE i = Len(s) + 1
        BY <1>1, <1>2, <1>3, <2>1, <2>2
    <2>3. CASE i \in 1..Len(s)
        <3>1. Append(s, m)[i] = s[i]
            BY <1>1, <2>3
        <3>2. EncryptAll(s)[i] = Encrypt(s[i]) /\ DecryptAll(s)[i] = Decrypt(s[i])
            BY <2>3, StreamTypes
        <3>. QED
            BY <1>2, <1>3, <2>1, <2>3, <3>1, <3>2
    <2>4. i = Len(s) + 1 \/ i \in 1..Len(s)
        BY <1>1
    <2>. QED
        BY <2>2, <2>3, <2>4
<1>. QED
    BY <1>4, <1>5, <1>6, SeqEqual

\* The empty stream and a stream of one message.
LEMMA ShortStreams ==
    /\ EncryptAll(<<>>) = <<>> /\ DecryptAll(<<>>) = <<>>
    /\ \A m \in Messages : /\ EncryptAll(<<m>>) = <<Encrypt(m)>>
                           /\ DecryptAll(<<m>>) = <<Decrypt(m)>>
<1>1. <<>> \in Seq(Messages)
    OBVIOUS
<1>2. EncryptAll(<<>>) = <<>> /\ DecryptAll(<<>>) = <<>>
    BY <1>1, StreamTypes, EmptySeq
<1>3. ASSUME NEW m \in Messages
      PROVE  EncryptAll(<<m>>) = <<Encrypt(m)>> /\ DecryptAll(<<m>>) = <<Decrypt(m)>>
    <2>1. Append(<<>>, m) = <<m>>
        OBVIOUS
    <2>2. /\ Append(<<>>, Encrypt(m)) = <<Encrypt(m)>>
          /\ Append(<<>>, Decrypt(m)) = <<Decrypt(m)>>
        OBVIOUS
    <2>. QED
        BY <1>1, <1>2, <2>1, <2>2, StreamAppend
<1>. QED
    BY <1>2, <1>3

\* The two conversions undo each other.
LEMMA StreamInverse ==
    ASSUME NEW s \in Seq(Messages)
    PROVE  DecryptAll(EncryptAll(s)) = s /\ EncryptAll(DecryptAll(s)) = s
<1>1. /\ EncryptAll(s) \in Seq(Messages) /\ DecryptAll(s) \in Seq(Messages)
      /\ Len(EncryptAll(s)) = Len(s) /\ Len(DecryptAll(s)) = Len(s)
    BY StreamTypes
<1>2. /\ DecryptAll(EncryptAll(s)) \in Seq(Messages) /\ EncryptAll(DecryptAll(s)) \in Seq(Messages)
      /\ Len(DecryptAll(EncryptAll(s))) = Len(s) /\ Len(EncryptAll(DecryptAll(s))) = Len(s)
    BY <1>1, StreamTypes
<1>3. \A i \in 1..Len(s) : /\ DecryptAll(EncryptAll(s))[i] = s[i]
                           /\ EncryptAll(DecryptAll(s))[i] = s[i]
    BY <1>1, StreamTypes, MessageInverse
<1>. QED
    BY <1>2, <1>3, SeqEqual

\* One message leaves a buffer and is seen at the other end.
LEMMA Moved ==
    ASSUME NEW S, NEW s \in Seq(S), NEW t \in Seq(S), t # <<>>
    PROVE  /\ Append(s, Head(t)) \o Tail(t) = s \o t
           /\ Len(t) = 1 => Append(s, Head(t)) = s \o t
           /\ (Len(t) = 1) <=> (Tail(t) = <<>>)
<1>1. /\ Head(t) \in S /\ Tail(t) \in Seq(S)
      /\ Len(Tail(t)) = Len(t) - 1 /\ Len(t) \in Nat \ {0}
    OBVIOUS
<1>2. t = <<Head(t)>> \o Tail(t)
    BY <1>1
<1>3. Append(s, Head(t)) = s \o <<Head(t)>> /\ <<Head(t)>> \in Seq(S)
    BY <1>1
<1>4. (s \o <<Head(t)>>) \o Tail(t) = s \o (<<Head(t)>> \o Tail(t))
    BY <1>1, <1>3, ConcatAssociative
<1>5. (Len(t) = 1) <=> (Tail(t) = <<>>)
    BY <1>1, EmptySeq
<1>6. Tail(t) = <<>> => <<Head(t)>> \o Tail(t) = <<Head(t)>>
    BY <1>3, ConcatEmptySeq
<1>. QED
    BY <1>2, <1>3, <1>4, <1>5, <1>6

-----------------------------------------------------------------------------
\* What the operators on bufferevents return.

LEMMA PipeTypes ==
    ASSUME NEW b \in Pipes
    PROVE  /\ b.in \in Seq(Messages) /\ b.out \in Seq(Messages)
           /\ Freed \in Pipes /\ Closing(b) \in Pipes
           /\ [b EXCEPT !.fd = "connected"] \in Pipes
           /\ \A s \in Seq(Messages) : [b EXCEPT !.out = s] \in Pipes
           /\ b.out # <<>> => Flushed(b) \in Pipes /\ Written(b) \in Pipes
<1>. USE DEF Pipes, Bufferevents
<1>1. b.in \in Seq(Messages) /\ b.out \in Seq(Messages) /\ <<>> \in Seq(Messages)
    BY SequenceTypes
<1>2. Freed \in Pipes
    BY <1>1 DEF Freed, Absent
<1>3. Closing(b) \in Pipes
    BY DEF Closing, ClientCallbacks
<1>4. [b EXCEPT !.fd = "connected"] \in Pipes
    OBVIOUS
<1>5. \A s \in Seq(Messages) : [b EXCEPT !.out = s] \in Pipes
    OBVIOUS
<1>6. b.out # <<>> => Flushed(b) \in Pipes
    BY <1>1, <1>5, SequenceTypes DEF Flushed
<1>7. b.out # <<>> => Written(b) \in Pipes
    BY <1>2, <1>6 DEF Written
<1>. QED
    BY <1>1, <1>2, <1>3, <1>4, <1>5, <1>6, <1>7

LEMMA OpenedType ==
    ASSUME NEW fd \in {"none", "connecting", "connected"}, NEW c \in Conn,
           NEW cb \in ClientCallbacks, NEW timed \in BOOLEAN
    PROVE  Opened(fd, c, cb, timed) \in Pipes
<1>. <<>> \in Seq(Messages)
    BY SequenceTypes
<1>. QED
    BY DEF Opened, Absent, Pipes, Bufferevents

-----------------------------------------------------------------------------
\* What a step amounts to when the invariant holds: the callbacks find the partner
\* that belongs to their connection, or none, and touch only these two.

Pair(c, l, r) == local' = [local EXCEPT ![c] = l] /\ remote' = [remote EXCEPT ![c] = r]

Accepted(c) ==
    /\ local[c].st = "none" /\ remote[c].st = "none"
    /\ \E fd \in {"connecting", "none"} :
         Pair(c, Opened("connected", c, "local_read_cb", FALSE),
                 Opened(fd, c, "remote_read_cb", TRUE))
    /\ UNCHANGED <<proc, peers>>

BothOpen(c) ==
    /\ local[c].st = "open" /\ local[c].arg = c
    /\ remote[c].st = "open" /\ remote[c].arg = c

More(b, m) == [b EXCEPT !.out = Append(b.out, m)]

TakesUp(c, m) ==
    /\ BothOpen(c)
    /\ typed' = [typed EXCEPT ![c] = Append(typed[c], m)]
    /\ Pair(c, local[c], More(remote[c], Encrypt(m)))
    /\ UNCHANGED <<proc, shown, uploaded, downloaded, gone>>

TakesDown(c, m) ==
    /\ BothOpen(c)
    /\ downloaded' = [downloaded EXCEPT ![c] = Append(downloaded[c], m)]
    /\ Pair(c, More(local[c], Decrypt(m)), remote[c])
    /\ UNCHANGED <<proc, typed, shown, uploaded, gone>>

\* Whatever the application or the server sends; the actions of Client send data.
TookUp(c) == \E m \in Messages : TakesUp(c, m)
TookDown(c) == \E m \in Messages : TakesDown(c, m)
SentUp(c) == \E n \in 1..MaxUp : TakesUp(c, Plain("data", c, n))
SentDown(c) == \E n \in 1..MaxDown : TakesDown(c, Encrypt(Plain("data", c, n)))

Survivor(b) == IF b.st = "open" /\ b.out # <<>> THEN Closing(b) ELSE Freed

NearEnded(c) ==
    /\ local[c].st = "open" /\ remote[c].st # "none"
    /\ Pair(c, Freed, IF remote[c].st = "open" THEN Survivor(remote[c]) ELSE remote[c])
    /\ gone' = [gone EXCEPT ![c] = @ \cup {"application"}]
    /\ UNCHANGED <<proc, streams>>

FarEnded(c) ==
    /\ remote[c].st = "open" /\ local[c].st # "none"
    /\ Pair(c, IF local[c].st = "open" THEN Survivor(local[c]) ELSE local[c], Freed)
    /\ gone' = [gone EXCEPT ![c] = @ \cup {"server"}]
    /\ UNCHANGED <<proc, streams>>

Silenced(c) ==
    /\ BothOpen(c)
    /\ Pair(c, Freed, Freed)
    /\ gone' = [gone EXCEPT ![c] = @ \cup {"timer"}]
    /\ UNCHANGED <<proc, streams>>

GaveNear(c) ==
    /\ local[c].st = "open" /\ local[c].out # <<>>
    /\ shown' = [shown EXCEPT ![c] = Append(shown[c], Head(local[c].out))]
    /\ Pair(c, Written(local[c]), remote[c])
    /\ UNCHANGED <<proc, typed, uploaded, downloaded, gone>>

GaveFar(c) ==
    /\ remote[c].st = "open" /\ remote[c].out # <<>>
    /\ uploaded' = [uploaded EXCEPT ![c] = Append(uploaded[c], Head(remote[c].out))]
    /\ Pair(c, local[c], Written(remote[c]))
    /\ UNCHANGED <<proc, typed, shown, downloaded, gone>>

Joined(c) ==
    /\ remote[c].st = "open"
    /\ Pair(c, local[c], [remote[c] EXCEPT !.fd = "connected"])
    /\ UNCHANGED <<proc, peers>>

Other(c) ==
    \/ Accepted(c) \/ NearEnded(c) \/ FarEnded(c) \/ Silenced(c)
    \/ GaveNear(c) \/ GaveFar(c) \/ Joined(c)

Amounts(c) == TookUp(c) \/ TookDown(c) \/ Other(c)

\* What the invariant says of one connection.
LEMMA Partners ==
    ASSUME TypeOK, IInv, NEW c \in Conn
    PROVE  /\ local[c] \in Pipes /\ remote[c] \in Pipes
           /\ local[c].in = <<>> /\ remote[c].in = <<>>
           /\ local[c].st # "open" => local[c].arg = NULL
           /\ remote[c].st # "open" => remote[c].arg = NULL
           /\ local[c].arg # NULL => BothOpen(c)
           /\ remote[c].arg # NULL => BothOpen(c)
           /\ local[c].st = "open" /\ local[c].arg = NULL => remote[c].st = "freed"
           /\ remote[c].st = "open" /\ remote[c].arg = NULL => local[c].st = "freed"
           /\ CanRead(local[c]) => BothOpen(c) /\ local[c].readcb = "local_read_cb"
           /\ CanRead(remote[c]) => BothOpen(c) /\ remote[c].readcb = "remote_read_cb"
           /\ CanTimeOut(remote[c]) => BothOpen(c)
           /\ (local[c].st = "none") <=> (remote[c].st = "none")
<1>1. local[c] \in Pipes /\ remote[c] \in Pipes
    BY DEF TypeOK
<1>2. Holds(c) /\ NULL # c
    BY ClientAssumption DEF IInv
<1>3. /\ local[c].arg # NULL => BothOpen(c)
      /\ remote[c].arg # NULL => BothOpen(c)
    BY <1>2 DEF Holds, Linked, Paired, Empty, BothOpen
<1>4. /\ CanRead(local[c]) => BothOpen(c) /\ local[c].readcb = "local_read_cb"
      /\ CanRead(remote[c]) => BothOpen(c) /\ remote[c].readcb = "remote_read_cb"
      /\ CanTimeOut(remote[c]) => BothOpen(c)
    BY <1>2, <1>3 DEF Holds, Linked, OnlyFlushes, Relays, CanRead, CanTimeOut
<1>. QED
    BY <1>1, <1>2, <1>3, <1>4 DEF Holds, Linked, NothingUnread, Empty, Twins

\* The partner of one that ended, whether it is the argument of the callback or not.
LEMMA Behind ==
    ASSUME NEW f \in [Conn -> Pipes], NEW c \in Conn, NEW a \in {c, NULL},
           a = NULL => f[c].st # "open", a = c => f[c].st = "open",
           NEW g, g = [x \in Conn |-> g[x]],
           \A x \in Conn : g[x] = IF x = a THEN LeftBehind(f[x], <<>>) ELSE f[x]
    PROVE  g = [f EXCEPT ![c] = IF f[c].st = "open" THEN Survivor(f[c]) ELSE f[c]]
<1>1. f[c] \in Pipes /\ f[c].out \in Seq(Messages)
    BY PipeTypes
<1>2. f[c].out \o <<>> = f[c].out
    BY <1>1, ConcatEmptySeq
<1>3. Given(f[c], <<>>) = f[c]
    BY <1>1, <1>2 DEF Given, Pipes, Bufferevents
<1>4. f[c].st = "open" => LeftBehind(f[c], <<>>) = Survivor(f[c])
    BY <1>3 DEF LeftBehind, Survivor
<1>5. \A x \in Conn : x # NULL
    BY ClientAssumption
<1>6. ASSUME NEW x \in Conn
      PROVE  g[x] = [f EXCEPT ![c] = IF f[c].st = "open" THEN Survivor(f[c]) ELSE f[c]][x]
    BY <1>4, <1>5
<1>. QED
    BY <1>6

LEMMA AcceptedForm == ASSUME TypeOK, IInv, NEW c \in Conn, listen_cb(c) PROVE Accepted(c)
BY Partners DEF listen_cb, Accepted, Pair

LEMMA DataTypes ==
    ASSUME NEW c \in Conn, NEW n \in Nat
    PROVE  /\ Plain("data", c, n) \in Messages /\ Encrypt(Plain("data", c, n)) \in Messages
           /\ Decrypt(Encrypt(Plain("data", c, n))) = Plain("data", c, n)
<1>1. Plain("data", c, n) \in Messages
    BY MessageTypes DEF Kinds
<1>. QED
    BY <1>1, MessageTypes, MessageInverse

LEMMA TakesUpForm ==
    ASSUME TypeOK, IInv, NEW c \in Conn, NEW m \in Messages, LocalReads(c, m)
    PROVE  TakesUp(c, m)
<1>1. CanRead(local[c])
    BY DEF LocalReads
<1>2. /\ BothOpen(c) /\ local[c].readcb # NULL /\ local[c].arg = c /\ c # NULL
      /\ local[c].in = <<>>
    BY <1>1, Partners, ClientAssumption DEF BothOpen, ClientCallbacks
<1>3. Append(local[c].in, m) = <<m>>
    BY <1>2
<1>4. local_read_cb(c, <<m>>)
    BY <1>2, <1>3 DEF LocalReads
<1>5. EncryptAll(<<m>>) = <<Encrypt(m)>>
    BY ShortStreams
<1>6. /\ remote' = [remote EXCEPT ![c] = Given(remote[c], <<Encrypt(m)>>)]
      /\ local' = [local EXCEPT ![c].in = <<>>]
      /\ proc' = proc
    BY <1>2, <1>4, <1>5 DEF local_read_cb
<1>7. remote[c].out \o <<Encrypt(m)>> = Append(remote[c].out, Encrypt(m))
    BY MessageTypes, PipeTypes, AppendIsConcat DEF TypeOK
<1>8. Given(remote[c], <<Encrypt(m)>>) = More(remote[c], Encrypt(m))
    BY <1>7 DEF Given, More
<1>9. local' = [local EXCEPT ![c] = local[c]]
    <2>1. local \in [Conn -> Pipes]
        BY DEF TypeOK
    <2>2. [local[c] EXCEPT !.in = <<>>] = local[c]
        BY <1>2, <2>1 DEF Pipes, Bufferevents
    <2>. QED
        BY <1>6, <2>1, <2>2
<1>10. /\ typed' = [typed EXCEPT ![c] = Append(typed[c], m)]
       /\ UNCHANGED <<shown, uploaded, downloaded, gone>>
    BY DEF LocalReads
<1>. QED
    BY <1>2, <1>6, <1>8, <1>9, <1>10 DEF TakesUp, Pair

LEMMA TakesDownForm ==
    ASSUME TypeOK, IInv, NEW c \in Conn, NEW m \in Messages, RemoteReads(c, m)
    PROVE  TakesDown(c, m)
<1>1. CanRead(remote[c])
    BY DEF RemoteReads
<1>2. /\ BothOpen(c) /\ remote[c].readcb # NULL /\ remote[c].arg = c /\ c # NULL
      /\ remote[c].in = <<>>
    BY <1>1, Partners, ClientAssumption DEF BothOpen, ClientCallbacks
<1>3. Append(remote[c].in, m) = <<m>>
    BY <1>2
<1>4. remote_read_cb(c, <<m>>)
    BY <1>2, <1>3 DEF RemoteReads
<1>5. DecryptAll(<<m>>) = <<Decrypt(m)>>
    BY ShortStreams
<1>6. /\ local' = [local EXCEPT ![c] = Given(local[c], <<Decrypt(m)>>)]
      /\ remote' = [remote EXCEPT ![c].in = <<>>]
      /\ proc' = proc
    BY <1>2, <1>4, <1>5 DEF remote_read_cb
<1>7. local[c].out \o <<Decrypt(m)>> = Append(local[c].out, Decrypt(m))
    BY MessageTypes, PipeTypes, AppendIsConcat DEF TypeOK
<1>8. Given(local[c], <<Decrypt(m)>>) = More(local[c], Decrypt(m))
    BY <1>7 DEF Given, More
<1>9. remote' = [remote EXCEPT ![c] = remote[c]]
    <2>1. remote \in [Conn -> Pipes]
        BY DEF TypeOK
    <2>2. [remote[c] EXCEPT !.in = <<>>] = remote[c]
        BY <1>2, <2>1 DEF Pipes, Bufferevents
    <2>. QED
        BY <1>6, <2>1, <2>2
<1>10. /\ downloaded' = [downloaded EXCEPT ![c] = Append(downloaded[c], m)]
       /\ UNCHANGED <<typed, shown, uploaded, gone>>
    BY DEF RemoteReads
<1>. QED
    BY <1>2, <1>6, <1>8, <1>9, <1>10 DEF TakesDown, Pair

LEMMA SentUpForm == ASSUME TypeOK, IInv, NEW c \in Conn, AppSends(c) PROVE SentUp(c)
<1>1. Len(typed[c]) + 1 \in 1..MaxUp /\ Len(typed[c]) + 1 \in Nat
    BY ClientAssumption DEF AppSends, TypeOK
<1>2. Plain("data", c, Len(typed[c]) + 1) \in Messages
    BY <1>1, DataTypes
<1>3. TakesUp(c, Plain("data", c, Len(typed[c]) + 1))
    BY <1>2, TakesUpForm DEF AppSends
<1>. QED
    BY <1>1, <1>3 DEF SentUp

LEMMA SentDownForm == ASSUME TypeOK, IInv, NEW c \in Conn, ServerSends(c) PROVE SentDown(c)
<1>1. Len(downloaded[c]) + 1 \in 1..MaxDown /\ Len(downloaded[c]) + 1 \in Nat
    BY ClientAssumption DEF ServerSends, TypeOK
<1>2. Encrypt(Plain("data", c, Len(downloaded[c]) + 1)) \in Messages
    BY <1>1, DataTypes
<1>3. TakesDown(c, Encrypt(Plain("data", c, Len(downloaded[c]) + 1)))
    BY <1>2, TakesDownForm DEF ServerSends
<1>. QED
    BY <1>1, <1>3 DEF SentDown

LEMMA SentTook ==
    ASSUME NEW c \in Conn
    PROVE  (SentUp(c) => TookUp(c)) /\ (SentDown(c) => TookDown(c))
<1>1. \A n \in 1..MaxUp : Plain("data", c, n) \in Messages
    BY DataTypes, ClientAssumption
<1>2. \A n \in 1..MaxDown : Encrypt(Plain("data", c, n)) \in Messages
    BY DataTypes, ClientAssumption
<1>. QED
    BY <1>1, <1>2 DEF SentUp, SentDown, TookUp, TookDown

LEMMA NearEndedForm == ASSUME TypeOK, IInv, NEW c \in Conn, LocalEnds(c) PROVE NearEnded(c)
<1>1. local[c].st = "open" /\ local_event_cb(c) /\ Leaves(c, "application")
    BY DEF LocalEnds, CanRead, CanWrite
<1>2. /\ local[c].in = <<>> /\ remote[c].st # "none"
      /\ local[c].arg = NULL => remote[c].st # "open"
      /\ local[c].arg # NULL => local[c].arg = c /\ remote[c].st = "open"
    BY <1>1, Partners DEF BothOpen
<1>3. EncryptAll(local[c].in) = <<>>
    BY <1>2, ShortStreams
<1>4. /\ remote' = [x \in Conn |-> remote'[x]]
      /\ \A x \in Conn : remote'[x] = IF x = local[c].arg THEN LeftBehind(remote[x], <<>>) ELSE remote[x]
    BY <1>1, <1>3 DEF local_event_cb
<1>5. remote' = [remote EXCEPT ![c] = IF remote[c].st = "open" THEN Survivor(remote[c])
                                                               ELSE remote[c]]
    <2>1. remote \in [Conn -> Pipes] /\ local[c].arg \in {c, NULL} /\ c # NULL
        BY <1>2, ClientAssumption DEF TypeOK
    <2>. QED
        BY <1>2, <1>4, <2>1, Behind
<1>. QED
    BY <1>1, <1>2, <1>5 DEF NearEnded, Pair, local_event_cb, Leaves

LEMMA FarEndedForm ==
    ASSUME TypeOK, IInv, NEW c \in Conn, RemoteEnds(c) \/ RemoteRefused(c) PROVE FarEnded(c)
<1>1. remote[c].st = "open" /\ remote_event_cb(c) /\ Leaves(c, "server")
    BY DEF RemoteEnds, RemoteRefused, CanRead, CanWrite
<1>2. /\ remote[c].in = <<>> /\ local[c].st # "none"
      /\ remote[c].arg = NULL => local[c].st # "open"
      /\ remote[c].arg # NULL => remote[c].arg = c /\ local[c].st = "open"
    BY <1>1, Partners DEF BothOpen
<1>3. DecryptAll(remote[c].in) = <<>>
    BY <1>2, ShortStreams
<1>4. /\ local' = [x \in Conn |-> local'[x]]
      /\ \A x \in Conn : local'[x] = IF x = remote[c].arg THEN LeftBehind(local[x], <<>>) ELSE local[x]
    BY <1>1, <1>3 DEF remote_event_cb
<1>5. local' = [local EXCEPT ![c] = IF local[c].st = "open" THEN Survivor(local[c])
                                                            ELSE local[c]]
    <2>1. local \in [Conn -> Pipes] /\ remote[c].arg \in {c, NULL} /\ c # NULL
        BY <1>2, ClientAssumption DEF TypeOK
    <2>. QED
        BY <1>2, <1>4, <2>1, Behind
<1>. QED
    BY <1>1, <1>2, <1>5 DEF FarEnded, Pair, remote_event_cb, Leaves

LEMMA SilencedForm == ASSUME TypeOK, IInv, NEW c \in Conn, RemoteTimesOut(c) PROVE Silenced(c)
<1>1. BothOpen(c) /\ c # NULL
    BY Partners, ClientAssumption DEF RemoteTimesOut
<1>2. [x \in Conn |-> IF x = remote[c].arg THEN Freed ELSE local[x]] = [local EXCEPT ![c] = Freed]
    BY <1>1 DEF TypeOK, BothOpen
<1>. QED
    BY <1>1, <1>2 DEF RemoteTimesOut, Silenced, Pair, Leaves, BothOpen

LEMMA GaveNearForm == ASSUME TypeOK, IInv, NEW c \in Conn, LocalWrites(c) PROVE GaveNear(c)
BY DEF TypeOK, LocalWrites, GaveNear, Pair, CanWrite

LEMMA GaveFarForm == ASSUME TypeOK, IInv, NEW c \in Conn, RemoteWrites(c) PROVE GaveFar(c)
BY DEF TypeOK, RemoteWrites, GaveFar, Pair, CanWrite

LEMMA JoinedForm == ASSUME TypeOK, IInv, NEW c \in Conn, RemoteConnects(c) PROVE Joined(c)
BY DEF TypeOK, RemoteConnects, Joined, Pair

\* Every step is one of these.
LEMMA Forms ==
    ASSUME TypeOK, IInv, Next
    PROVE  \E c \in Conn : Amounts(c) /\ (SentUp(c) \/ SentDown(c) \/ Other(c))
BY AcceptedForm, SentUpForm, SentDownForm, SentTook, NearEndedForm, FarEndedForm, SilencedForm,
   GaveNearForm, GaveFarForm, JoinedForm DEF Next, Connects, Amounts, Other

-----------------------------------------------------------------------------
\* The type invariant and IInv are inductive.

LEMMA InitType == Init => TypeOK
<1>1. Absent \in Pipes /\ <<>> \in Seq(Messages)
    BY SequenceTypes DEF Absent, Pipes, Bufferevents
<1>. QED
    BY <1>1 DEF Init, TypeOK

LEMMA AmountsType == ASSUME TypeOK, NEW c \in Conn, Amounts(c) PROVE TypeOK'
<1>1. /\ local \in [Conn -> Pipes] /\ local[c] \in Pipes
      /\ remote \in [Conn -> Pipes] /\ remote[c] \in Pipes
    BY DEF TypeOK
<1>2. ASSUME NEW l \in Pipes, NEW r \in Pipes, Pair(c, l, r)
      PROVE  local' \in [Conn -> Pipes] /\ remote' \in [Conn -> Pipes]
    BY <1>1, <1>2 DEF Pair
<1>3. Freed \in Pipes /\ Survivor(local[c]) \in Pipes /\ Survivor(remote[c]) \in Pipes
    BY <1>1, PipeTypes DEF Survivor
<1>4. CASE Accepted(c)
    <2>1. PICK fd \in {"connecting", "none"} :
            Pair(c, Opened("connected", c, "local_read_cb", FALSE),
                    Opened(fd, c, "remote_read_cb", TRUE))
        BY <1>4 DEF Accepted
    <2>2. /\ Opened("connected", c, "local_read_cb", FALSE) \in Pipes
          /\ Opened(fd, c, "remote_read_cb", TRUE) \in Pipes
        BY OpenedType DEF ClientCallbacks
    <2>3. local' \in [Conn -> Pipes] /\ remote' \in [Conn -> Pipes]
        BY <1>2, <2>1, <2>2
    <2>. QED
        BY <1>4, <2>3 DEF Accepted, TypeOK, peers, streams
<1>5. CASE TookUp(c)
    <2>1. PICK m \in Messages : TakesUp(c, m)
        BY <1>5 DEF TookUp
    <2>2. Append(typed[c], m) \in Seq(Messages) /\ Append(remote[c].out, Encrypt(m)) \in Seq(Messages)
        <3>1. typed[c] \in Seq(Messages) /\ remote[c].out \in Seq(Messages)
            BY <1>1, PipeTypes DEF TypeOK
        <3>. QED
            BY <3>1, MessageTypes, SequenceTypes
    <2>3. More(remote[c], Encrypt(m)) \in Pipes
        BY <1>1, <2>2, PipeTypes DEF More
    <2>4. local' \in [Conn -> Pipes] /\ remote' \in [Conn -> Pipes]
        BY <1>1, <1>2, <2>1, <2>3 DEF TakesUp
    <2>5. typed' \in [Conn -> Seq(Messages)]
        BY <2>1, <2>2 DEF TypeOK, TakesUp
    <2>. QED
        BY <2>1, <2>4, <2>5 DEF TakesUp, TypeOK
<1>6. CASE TookDown(c)
    <2>1. PICK m \in Messages : TakesDown(c, m)
        BY <1>6 DEF TookDown
    <2>2. Append(downloaded[c], m) \in Seq(Messages) /\ Append(local[c].out, Decrypt(m)) \in Seq(Messages)
        <3>1. downloaded[c] \in Seq(Messages) /\ local[c].out \in Seq(Messages)
            BY <1>1, PipeTypes DEF TypeOK
        <3>. QED
            BY <3>1, MessageTypes, SequenceTypes
    <2>3. More(local[c], Decrypt(m)) \in Pipes
        BY <1>1, <2>2, PipeTypes DEF More
    <2>4. local' \in [Conn -> Pipes] /\ remote' \in [Conn -> Pipes]
        BY <1>1, <1>2, <2>1, <2>3 DEF TakesDown
    <2>5. downloaded' \in [Conn -> Seq(Messages)]
        BY <2>1, <2>2 DEF TypeOK, TakesDown
    <2>. QED
        BY <2>1, <2>4, <2>5 DEF TakesDown, TypeOK
<1>7. CASE NearEnded(c)
    <2>1. local' \in [Conn -> Pipes] /\ remote' \in [Conn -> Pipes]
        BY <1>1, <1>2, <1>3, <1>7 DEF NearEnded
    <2>. QED
        BY <1>7, <2>1 DEF NearEnded, TypeOK, streams
<1>8. CASE FarEnded(c)
    <2>1. local' \in [Conn -> Pipes] /\ remote' \in [Conn -> Pipes]
        BY <1>1, <1>2, <1>3, <1>8 DEF FarEnded
    <2>. QED
        BY <1>8, <2>1 DEF FarEnded, TypeOK, streams
<1>9. CASE Silenced(c)
    <2>1. local' \in [Conn -> Pipes] /\ remote' \in [Conn -> Pipes]
        BY <1>2, <1>3, <1>9 DEF Silenced
    <2>. QED
        BY <1>9, <2>1 DEF Silenced, TypeOK, streams
<1>10. CASE GaveNear(c)
    <2>1. Written(local[c]) \in Pipes /\ Head(local[c].out) \in Messages
        BY <1>1, <1>10, PipeTypes, SequenceTypes DEF GaveNear
    <2>2. local' \in [Conn -> Pipes] /\ remote' \in [Conn -> Pipes]
        BY <1>1, <1>2, <1>10, <2>1 DEF GaveNear
    <2>3. Append(shown[c], Head(local[c].out)) \in Seq(Messages)
        BY <2>1, SequenceTypes DEF TypeOK
    <2>. QED
        BY <1>10, <2>2, <2>3 DEF GaveNear, TypeOK
<1>11. CASE GaveFar(c)
    <2>1. Written(remote[c]) \in Pipes /\ Head(remote[c].out) \in Messages
        BY <1>1, <1>11, PipeTypes, SequenceTypes DEF GaveFar
    <2>2. local' \in [Conn -> Pipes] /\ remote' \in [Conn -> Pipes]
        BY <1>1, <1>2, <1>11, <2>1 DEF GaveFar
    <2>3. Append(uploaded[c], Head(remote[c].out)) \in Seq(Messages)
        BY <2>1, SequenceTypes DEF TypeOK
    <2>. QED
        BY <1>11, <2>2, <2>3 DEF GaveFar, TypeOK
<1>12. CASE Joined(c)
    <2>1. [remote[c] EXCEPT !.fd = "connected"] \in Pipes
        BY <1>1, PipeTypes
    <2>2. local' \in [Conn -> Pipes] /\ remote' \in [Conn -> Pipes]
        BY <1>1, <1>2, <1>12, <2>1 DEF Joined
    <2>. QED
        BY <1>12, <2>2 DEF Joined, TypeOK, peers, streams
<1>. QED
    BY <1>4, <1>5, <1>6, <1>7, <1>8, <1>9, <1>10, <1>11, <1>12 DEF Amounts, Other

-----------------------------------------------------------------------------
\* The links between the two bufferevents of a connection.

\* A write frees the bufferevent exactly when it lost its partner and owes no more.
LEMMA WrittenForm ==
    ASSUME NEW b \in Pipes, NEW cb \in {"local_read_cb", "remote_read_cb"},
           b.st = "open", b.out # <<>>, Relays(b, cb), OnlyFlushes(b)
    PROVE  /\ b.arg # NULL => Written(b) = Flushed(b)
           /\ b.arg = NULL /\ Len(b.out) = 1 => Written(b) = Freed
           /\ b.arg = NULL /\ Len(b.out) # 1 => Written(b) = Flushed(b) /\ Tail(b.out) # <<>>
<1>1. b.arg # NULL => b.writecb # "close_on_finished_write_cb"
    BY ClientAssumption DEF Relays, ClientCallbacks
<1>2. b.arg = NULL => b.writecb = "close_on_finished_write_cb"
    BY DEF OnlyFlushes
<1>3. (Len(b.out) = 1) <=> (Tail(b.out) = <<>>)
    BY PipeTypes, Moved
<1>. QED
    BY <1>1, <1>2, <1>3 DEF Written

\* Each kind of step keeps them.
LEMMA LinkedOpened ==
    ASSUME NEW c \in Conn, NEW fd \in {"connecting", "none"}
    PROVE  Linked(c, Opened("connected", c, "local_read_cb", FALSE),
                     Opened(fd, c, "remote_read_cb", TRUE))
<1>. c # NULL
    BY ClientAssumption
<1>. QED
    BY DEF Linked, Paired, OnlyFlushes, Relays, Empty, NothingUnread, Twins, Opened, Absent

LEMMA LinkedFreed ==
    ASSUME NEW c \in Conn, NEW l \in Pipes, NEW r \in Pipes, Linked(c, l, r)
    PROVE  /\ l.st = "open" => Linked(c, Freed, IF r.st = "open" THEN Survivor(r) ELSE r)
           /\ r.st = "open" => Linked(c, IF l.st = "open" THEN Survivor(l) ELSE l, Freed)
           /\ Linked(c, Freed, Freed)
<1>. USE DEF Paired, OnlyFlushes, Relays, Empty, NothingUnread, Twins
<1>. DEFINE near == IF r.st = "open" THEN Survivor(r) ELSE r
            far == IF l.st = "open" THEN Survivor(l) ELSE l
<1>1. /\ Freed.st = "freed" /\ Freed.arg = NULL /\ Freed.out = <<>> /\ Freed.in = <<>>
      /\ ~Freed.timed
    BY DEF Freed, Absent
<1>2. ASSUME NEW b \in Pipes
      PROVE  /\ Closing(b).st = b.st /\ Closing(b).arg = NULL /\ Closing(b).out = b.out
             /\ Closing(b).in = b.in /\ Closing(b).timed = b.timed
             /\ Closing(b).readcb = NULL /\ ~Closing(b).reading
             /\ Closing(b).writecb = "close_on_finished_write_cb"
    BY DEF Closing, Pipes, Bufferevents
<1>3. Linked(c, Freed, Freed)
    BY <1>1 DEF Linked
<1>4. ASSUME l.st = "open" PROVE Linked(c, Freed, near)
    <2>1. CASE r.st = "open" /\ r.out # <<>>
        <3>1. near = Closing(r)
            BY <2>1 DEF Survivor
        <3>. QED
            BY <1>1, <1>2, <2>1, <3>1 DEF Linked
    <2>2. CASE r.st = "open" /\ r.out = <<>>
        BY <1>3, <2>2 DEF Survivor
    <2>3. CASE r.st # "open"
        <3>1. near = r /\ r.st = "freed" /\ r.arg = NULL
            BY <1>4, <2>3 DEF Linked, Pipes, Bufferevents
        <3>. QED
            BY <1>1, <3>1 DEF Linked
    <2>. QED
        BY <2>1, <2>2, <2>3
<1>5. ASSUME r.st = "open" PROVE Linked(c, far, Freed)
    <2>1. CASE l.st = "open" /\ l.out # <<>>
        <3>1. far = Closing(l)
            BY <2>1 DEF Survivor
        <3>. QED
            BY <1>1, <1>2, <2>1, <3>1 DEF Linked
    <2>2. CASE l.st = "open" /\ l.out = <<>>
        BY <1>3, <2>2 DEF Survivor
    <2>3. CASE l.st # "open"
        <3>1. far = l /\ l.st = "freed" /\ l.arg = NULL
            BY <1>5, <2>3 DEF Linked, Pipes, Bufferevents
        <3>. QED
            BY <1>1, <3>1 DEF Linked
    <2>. QED
        BY <2>1, <2>2, <2>3
<1>. QED
    BY <1>3, <1>4, <1>5

\* A buffer that gets more, or a socket that is connected.
LEMMA LinkedMore ==
    ASSUME NEW c \in Conn, NEW l \in Pipes, NEW r \in Pipes, Linked(c, l, r)
    PROVE  /\ \A m \in Messages : l.st = "open" => Linked(c, More(l, m), r)
           /\ \A m \in Messages : r.st = "open" => Linked(c, l, More(r, m))
           /\ r.st = "open" => Linked(c, l, [r EXCEPT !.fd = "connected"])
<1>. USE DEF Paired, OnlyFlushes, Relays, Empty, NothingUnread, Twins
<1>1. ASSUME NEW b \in Pipes, NEW m \in Messages
      PROVE  /\ More(b, m).out = Append(b.out, m) /\ More(b, m).out # <<>>
             /\ More(b, m).st = b.st /\ More(b, m).arg = b.arg
             /\ More(b, m).in = b.in /\ More(b, m).timed = b.timed
             /\ More(b, m).readcb = b.readcb /\ More(b, m).reading = b.reading
             /\ More(b, m).writecb = b.writecb
    <2>1. Append(b.out, m) # <<>>
        BY PipeTypes, AppendProperties
    <2>. QED
        BY <2>1 DEF More, Pipes, Bufferevents
<1>2. ASSUME NEW m \in Messages, l.st = "open" PROVE Linked(c, More(l, m), r)
    BY <1>1, <1>2 DEF Linked
<1>3. ASSUME NEW m \in Messages, r.st = "open" PROVE Linked(c, l, More(r, m))
    BY <1>1, <1>3 DEF Linked
<1>4. ASSUME r.st = "open" PROVE Linked(c, l, [r EXCEPT !.fd = "connected"])
    BY <1>4 DEF Linked, Pipes, Bufferevents
<1>. QED
    BY <1>2, <1>3, <1>4

\* A write.
LEMMA LinkedWritten ==
    ASSUME NEW c \in Conn, NEW l \in Pipes, NEW r \in Pipes, Linked(c, l, r)
    PROVE  /\ l.st = "open" /\ l.out # <<>> => Linked(c, Written(l), r)
           /\ r.st = "open" /\ r.out # <<>> => Linked(c, l, Written(r))
<1>. USE DEF Paired, OnlyFlushes, Relays, Empty, NothingUnread, Twins
<1>1. /\ Freed.st = "freed" /\ Freed.arg = NULL /\ Freed.out = <<>> /\ Freed.in = <<>>
      /\ ~Freed.timed
    BY DEF Freed, Absent
<1>2. ASSUME NEW b \in Pipes
      PROVE  /\ Flushed(b).out = Tail(b.out)
             /\ Flushed(b).st = b.st /\ Flushed(b).arg = b.arg
             /\ Flushed(b).in = b.in /\ Flushed(b).timed = b.timed
             /\ Flushed(b).readcb = b.readcb /\ Flushed(b).reading = b.reading
             /\ Flushed(b).writecb = b.writecb
    BY DEF Flushed, Pipes, Bufferevents
<1>3. ASSUME l.st = "open", l.out # <<>> PROVE Linked(c, Written(l), r)
    <2>1. /\ l.arg # NULL => Written(l) = Flushed(l)
          /\ l.arg = NULL /\ Len(l.out) = 1 => Written(l) = Freed
          /\ l.arg = NULL /\ Len(l.out) # 1 => Written(l) = Flushed(l) /\ Tail(l.out) # <<>>
        BY <1>3, WrittenForm DEF Linked
    <2>2. CASE Written(l) = Flushed(l) /\ (l.arg = NULL => Tail(l.out) # <<>>)
        BY <1>2, <1>3, <2>2, ZenonT(40) DEF Linked
    <2>3. CASE Written(l) = Freed /\ l.arg = NULL
        BY <1>1, <1>3, <2>3 DEF Linked
    <2>. QED
        BY <2>1, <2>2, <2>3
<1>4. ASSUME r.st = "open", r.out # <<>> PROVE Linked(c, l, Written(r))
    <2>1. /\ r.arg # NULL => Written(r) = Flushed(r)
          /\ r.arg = NULL /\ Len(r.out) = 1 => Written(r) = Freed
          /\ r.arg = NULL /\ Len(r.out) # 1 => Written(r) = Flushed(r) /\ Tail(r.out) # <<>>
        BY <1>4, WrittenForm DEF Linked
    <2>2. CASE Written(r) = Flushed(r) /\ (r.arg = NULL => Tail(r.out) # <<>>)
        BY <1>2, <1>4, <2>2, ZenonT(40) DEF Linked
    <2>3. CASE Written(r) = Freed /\ r.arg = NULL
        BY <1>1, <1>4, <2>3 DEF Linked
    <2>. QED
        BY <2>1, <2>2, <2>3
<1>. QED
    BY <1>3, <1>4

\* What no step of c touches.
Untouched(x) ==
    /\ local'[x] = local[x] /\ remote'[x] = remote[x]
    /\ typed'[x] = typed[x] /\ shown'[x] = shown[x]
    /\ uploaded'[x] = uploaded[x] /\ downloaded'[x] = downloaded[x]
    /\ gone'[x] = gone[x]

LEMMA Locality ==
    ASSUME TypeOK, NEW c \in Conn, Amounts(c), NEW x \in Conn, x # c
    PROVE  Untouched(x)
<1>1. ASSUME NEW l, NEW r, Pair(c, l, r) PROVE local'[x] = local[x] /\ remote'[x] = remote[x]
    BY <1>1 DEF Pair, TypeOK
<1>2. CASE Accepted(c)
    BY <1>1, <1>2 DEF Accepted, Untouched, peers, streams
<1>3. CASE TookUp(c)
    BY <1>1, <1>3 DEF TookUp, TakesUp, Untouched, TypeOK
<1>4. CASE TookDown(c)
    BY <1>1, <1>4 DEF TookDown, TakesDown, Untouched, TypeOK
<1>5. CASE NearEnded(c) \/ FarEnded(c) \/ Silenced(c)
    BY <1>1, <1>5 DEF NearEnded, FarEnded, Silenced, Untouched, TypeOK, streams
<1>6. CASE GaveNear(c) \/ GaveFar(c)
    BY <1>1, <1>6 DEF GaveNear, GaveFar, Untouched, TypeOK
<1>7. CASE Joined(c)
    BY <1>1, <1>7 DEF Joined, Untouched, TypeOK, peers, streams
<1>. QED
    BY <1>2, <1>3, <1>4, <1>5, <1>6, <1>7 DEF Amounts, Other

LEMMA AmountsHold == ASSUME TypeOK, IInv, NEW c \in Conn, Amounts(c) PROVE IInv'
<1>1. ASSUME NEW x \in Conn, x # c PROVE Holds(x)'
    <2>1. Untouched(x) /\ Holds(x)
        BY <1>1, Locality DEF IInv
    <2>2. Linked(x, local[x], remote[x])'
        BY <2>1 DEF Untouched, Holds, Linked, Paired, OnlyFlushes, Relays, Empty,
                    NothingUnread, Twins
    <2>3. NothingYet(x)'
        BY <2>1 DEF Untouched, Holds, NothingYet
    <2>. QED
        BY <2>2, <2>3 DEF Holds
<1>2. /\ local[c] \in Pipes /\ remote[c] \in Pipes /\ Linked(c, local[c], remote[c])
      /\ local \in [Conn -> Pipes] /\ remote \in [Conn -> Pipes]
    BY DEF TypeOK, IInv, Holds
<1>3. ASSUME NEW l, NEW r, Pair(c, l, r), Linked(c, l, r), l.st # "none"
      PROVE  IInv'
    <2>1. local'[c] = l /\ remote'[c] = r
        BY <1>2, <1>3 DEF Pair
    <2>2. Linked(c, local[c], remote[c])'
        BY <1>3, <2>1 DEF Linked, Paired, OnlyFlushes, Relays, Empty, NothingUnread, Twins
    <2>3. Holds(c)'
        BY <1>3, <2>1, <2>2 DEF Holds, NothingYet
    <2>. QED
        BY <1>1, <2>3 DEF IInv
<1>4. (local[c].st = "none") <=> (remote[c].st = "none")
    BY Partners
<1>5. Freed.st = "freed" /\ Survivor(local[c]).st \in {"open", "freed"}
    BY <1>2 DEF Freed, Absent, Survivor, Closing, Pipes, Bufferevents
<1>6. CASE Accepted(c)
    <2>1. PICK fd \in {"connecting", "none"} :
            Pair(c, Opened("connected", c, "local_read_cb", FALSE),
                    Opened(fd, c, "remote_read_cb", TRUE))
        BY <1>6 DEF Accepted
    <2>2. Opened("connected", c, "local_read_cb", FALSE).st # "none"
        BY DEF Opened, Absent
    <2>. QED
        BY <1>3, <2>1, <2>2, LinkedOpened
<1>7. CASE TookUp(c)
    <2>1. PICK m \in Messages : TakesUp(c, m)
        BY <1>7 DEF TookUp
    <2>2. local[c].st = "open" /\ remote[c].st = "open"
        BY <2>1 DEF TakesUp, BothOpen
    <2>3. Linked(c, local[c], More(remote[c], Encrypt(m)))
        BY <1>2, <2>2, LinkedMore, MessageTypes
    <2>. QED
        BY <1>3, <2>1, <2>2, <2>3 DEF TakesUp
<1>8. CASE TookDown(c)
    <2>1. PICK m \in Messages : TakesDown(c, m)
        BY <1>8 DEF TookDown
    <2>2. local[c].st = "open"
        BY <2>1 DEF TakesDown, BothOpen
    <2>3. Linked(c, More(local[c], Decrypt(m)), remote[c])
        BY <1>2, <2>2, LinkedMore, MessageTypes
    <2>4. More(local[c], Decrypt(m)).st = "open"
        BY <1>2, <2>2 DEF More, Pipes, Bufferevents
    <2>. QED
        BY <1>3, <2>1, <2>3, <2>4 DEF TakesDown
<1>9. CASE NearEnded(c)
    BY <1>2, <1>3, <1>5, <1>9, LinkedFreed DEF NearEnded
<1>10. CASE FarEnded(c)
    BY <1>2, <1>3, <1>4, <1>5, <1>10, LinkedFreed DEF FarEnded
<1>11. CASE Silenced(c)
    BY <1>2, <1>3, <1>5, <1>11, LinkedFreed DEF Silenced
<1>12. CASE GaveNear(c)
    <2>1. Written(local[c]).st # "none"
        BY <1>2, <1>5, <1>12 DEF GaveNear, Written, Flushed, Pipes, Bufferevents
    <2>. QED
        BY <1>2, <1>3, <1>12, <2>1, LinkedWritten DEF GaveNear
<1>13. CASE GaveFar(c)
    BY <1>2, <1>3, <1>4, <1>13, LinkedWritten DEF GaveFar
<1>14. CASE Joined(c)
    BY <1>2, <1>3, <1>4, <1>14, LinkedMore DEF Joined
<1>. QED
    BY <1>6, <1>7, <1>8, <1>9, <1>10, <1>11, <1>12, <1>13, <1>14 DEF Amounts, Other

LEMMA InitHolds == Init => IInv
BY DEF Init, IInv, Holds, Linked, Paired, OnlyFlushes, Relays, Empty, NothingUnread, Twins,
       NothingYet, Absent

LEMMA NextInvariant == TypeOK /\ IInv /\ [Next]_vars => (TypeOK /\ IInv)'
<1>1. ASSUME TypeOK, IInv, Next PROVE (TypeOK /\ IInv)'
    BY <1>1, Forms, AmountsType, AmountsHold
<1>2. ASSUME TypeOK, IInv, UNCHANGED vars PROVE (TypeOK /\ IInv)'
    <2>1. TypeOK'
        BY <1>2 DEF vars, peers, streams, TypeOK
    <2>2. IInv'
        BY <1>2 DEF vars, peers, streams, IInv, Holds, Linked, Paired, OnlyFlushes, Relays,
                    Empty, NothingUnread, Twins, NothingYet
    <2>. QED
        BY <2>1, <2>2
<1>. QED
    BY <1>1, <1>2

-----------------------------------------------------------------------------
\* The two streams of a connection.

\* A write leaves the stream as it was: what was written and what waits for it.
LEMMA WriteKeeps ==
    ASSUME NEW b \in Pipes, b.out # <<>>, NEW s \in Seq(Messages), NEW whole,
           s \o b.out = whole
    PROVE  /\ Written(b).st = "open" => Append(s, Head(b.out)) \o Written(b).out = whole
           /\ Written(b).st = "freed" /\ b.st = "open" => Append(s, Head(b.out)) = whole
<1>1. b.out \in Seq(Messages)
    BY PipeTypes
<1>2. /\ Append(s, Head(b.out)) \o Tail(b.out) = whole
      /\ Len(b.out) = 1 => Append(s, Head(b.out)) = whole
    BY <1>1, Moved
<1>3. /\ Flushed(b).out = Tail(b.out) /\ Flushed(b).st = b.st
      /\ Freed.st = "freed"
    BY DEF Flushed, Freed, Absent, Pipes, Bufferevents
<1>4. Written(b) = Flushed(b) \/ (Written(b) = Freed /\ Len(b.out) = 1)
    BY DEF Written
<1>. QED
    BY <1>2, <1>3, <1>4

\* What is left of one that lost its partner has the same to write.
LEMMA SurvivorKeeps ==
    ASSUME NEW b \in Pipes
    PROVE  /\ Survivor(b).st = "open" => b.st = "open" /\ Survivor(b).out = b.out
           /\ Survivor(b).st = "freed" => ~(b.st = "open" /\ b.out # <<>>)
           /\ Survivor(b).st # "none"
BY DEF Survivor, Closing, Freed, Absent, Pipes, Bufferevents

LEMMA AppendKeeps ==
    ASSUME NEW s \in Seq(Messages), NEW out \in Seq(Messages), NEW m \in Messages
    PROVE  s \o Append(out, m) = Append(s \o out, m)
<1>1. /\ s \o out \in Seq(Messages) /\ <<m>> \in Seq(Messages)
      /\ Append(out, m) = out \o <<m>>
      /\ Append(s \o out, m) = (s \o out) \o <<m>>
    BY AppendIsConcat, ConcatProperties
<1>. QED
    BY <1>1, ConcatAssociative

LEMMA AmountsWhole ==
    ASSUME TypeOK, IInv, StreamsWhole, NEW c \in Conn, Amounts(c)
    PROVE  StreamsWhole'
<1>1. ASSUME NEW x \in Conn, x # c PROVE Whole(x)'
    BY <1>1, Locality DEF StreamsWhole, Whole, Untouched
<1>. SUFFICES Whole(c)'
    BY <1>1 DEF StreamsWhole
<1>2. /\ local[c] \in Pipes /\ remote[c] \in Pipes /\ Whole(c)
      /\ local \in [Conn -> Pipes] /\ remote \in [Conn -> Pipes]
      /\ typed \in [Conn -> Seq(Messages)] /\ shown \in [Conn -> Seq(Messages)]
      /\ uploaded \in [Conn -> Seq(Messages)] /\ downloaded \in [Conn -> Seq(Messages)]
    BY DEF TypeOK, StreamsWhole
<1>3. local[c].out \in Seq(Messages) /\ remote[c].out \in Seq(Messages)
    BY <1>2, PipeTypes
<1>4. ASSUME NEW l, NEW r, Pair(c, l, r)
      PROVE  local'[c] = l /\ remote'[c] = r
    BY <1>2, <1>4 DEF Pair
<1>5. Freed.st = "freed"
    BY DEF Freed, Absent
<1>6. CASE Accepted(c)
    <2>1. PICK fd \in {"connecting", "none"} :
            /\ local'[c] = Opened("connected", c, "local_read_cb", FALSE)
            /\ remote'[c] = Opened(fd, c, "remote_read_cb", TRUE)
        BY <1>4, <1>6 DEF Accepted
    <2>2. local'[c].out = <<>> /\ remote'[c].out = <<>>
        BY <2>1 DEF Opened, Absent
    <2>3. /\ typed'[c] = <<>> /\ shown'[c] = <<>>
          /\ uploaded'[c] = <<>> /\ downloaded'[c] = <<>>
        BY <1>6 DEF Accepted, peers, streams, IInv, Holds, NothingYet
    <2>4. <<>> \o <<>> = <<>>
        OBVIOUS
    <2>. QED
        BY <2>2, <2>3, <2>4, ShortStreams DEF Whole
<1>7. CASE TookUp(c)
    <2>1. PICK m \in Messages : TakesUp(c, m)
        BY <1>7 DEF TookUp
    <2>2. Encrypt(m) \in Messages /\ uploaded[c] \in Seq(Messages) /\ typed[c] \in Seq(Messages)
        BY <1>2, MessageTypes
    <2>3. /\ local'[c] = local[c] /\ remote'[c] = More(remote[c], Encrypt(m))
          /\ typed'[c] = Append(typed[c], m)
          /\ shown' = shown /\ uploaded' = uploaded /\ downloaded' = downloaded
          /\ remote[c].st = "open"
        BY <1>2, <1>4, <2>1 DEF TakesUp, BothOpen
    <2>4. remote'[c].out = Append(remote[c].out, Encrypt(m))
        BY <1>2, <2>3 DEF More, Pipes, Bufferevents
    <2>5. uploaded[c] \o Append(remote[c].out, Encrypt(m)) =
            Append(uploaded[c] \o remote[c].out, Encrypt(m))
        BY <1>3, <2>2, AppendKeeps
    <2>6. EncryptAll(Append(typed[c], m)) = Append(EncryptAll(typed[c]), Encrypt(m))
        BY <2>2, StreamAppend
    <2>. QED
        BY <1>2, <2>3, <2>4, <2>5, <2>6 DEF Whole
<1>8. CASE TookDown(c)
    <2>1. PICK m \in Messages : TakesDown(c, m)
        BY <1>8 DEF TookDown
    <2>2. Decrypt(m) \in Messages /\ shown[c] \in Seq(Messages) /\ downloaded[c] \in Seq(Messages)
        BY <1>2, MessageTypes
    <2>3. /\ remote'[c] = remote[c] /\ local'[c] = More(local[c], Decrypt(m))
          /\ downloaded'[c] = Append(downloaded[c], m)
          /\ shown' = shown /\ uploaded' = uploaded /\ typed' = typed
          /\ local[c].st = "open"
        BY <1>2, <1>4, <2>1 DEF TakesDown, BothOpen
    <2>4. local'[c].out = Append(local[c].out, Decrypt(m))
        BY <1>2, <2>3 DEF More, Pipes, Bufferevents
    <2>5. shown[c] \o Append(local[c].out, Decrypt(m)) = Append(shown[c] \o local[c].out, Decrypt(m))
        BY <1>3, <2>2, AppendKeeps
    <2>6. DecryptAll(Append(downloaded[c], m)) = Append(DecryptAll(downloaded[c]), Decrypt(m))
        BY <2>2, StreamAppend
    <2>. QED
        BY <1>2, <2>3, <2>4, <2>5, <2>6 DEF Whole
<1>9. CASE NearEnded(c) \/ FarEnded(c) \/ Silenced(c)
    <2>1. UNCHANGED streams
        BY <1>9 DEF NearEnded, FarEnded, Silenced
    <2>2. /\ local'[c].st = "open" => local[c].st = "open" /\ local'[c].out = local[c].out
          /\ remote'[c].st = "open" => remote[c].st = "open" /\ remote'[c].out = remote[c].out
        <3>1. CASE NearEnded(c)
            BY <1>2, <1>4, <1>5, <3>1, SurvivorKeeps DEF NearEnded
        <3>2. CASE FarEnded(c)
            BY <1>2, <1>4, <1>5, <3>2, SurvivorKeeps DEF FarEnded
        <3>3. CASE Silenced(c)
            BY <1>4, <1>5, <3>3 DEF Silenced
        <3>. QED
            BY <1>9, <3>1, <3>2, <3>3
    <2>. QED
        BY <1>2, <2>1, <2>2 DEF Whole, streams
<1>10. CASE GaveNear(c)
    <2>1. /\ local'[c] = Written(local[c]) /\ remote'[c] = remote[c]
          /\ shown'[c] = Append(shown[c], Head(local[c].out))
          /\ typed' = typed /\ uploaded' = uploaded /\ downloaded' = downloaded
          /\ local[c].st = "open" /\ local[c].out # <<>> /\ shown[c] \in Seq(Messages)
        BY <1>2, <1>4, <1>10 DEF GaveNear
    <2>2. Written(local[c]).st = "open" =>
            Append(shown[c], Head(local[c].out)) \o Written(local[c]).out =
              DecryptAll(downloaded[c])
        BY <1>2, <2>1, WriteKeeps DEF Whole
    <2>. QED
        BY <1>2, <2>1, <2>2 DEF Whole
<1>11. CASE GaveFar(c)
    <2>1. /\ remote'[c] = Written(remote[c]) /\ local'[c] = local[c]
          /\ uploaded'[c] = Append(uploaded[c], Head(remote[c].out))
          /\ typed' = typed /\ shown' = shown /\ downloaded' = downloaded
          /\ remote[c].st = "open" /\ remote[c].out # <<>> /\ uploaded[c] \in Seq(Messages)
        BY <1>2, <1>4, <1>11 DEF GaveFar
    <2>2. Written(remote[c]).st = "open" =>
            Append(uploaded[c], Head(remote[c].out)) \o Written(remote[c]).out =
              EncryptAll(typed[c])
        BY <1>2, <2>1, WriteKeeps DEF Whole
    <2>. QED
        BY <1>2, <2>1, <2>2 DEF Whole
<1>12. CASE Joined(c)
    BY <1>2, <1>4, <1>12 DEF Joined, Whole, peers, streams, Pipes, Bufferevents
<1>. QED
    BY <1>6, <1>7, <1>8, <1>9, <1>10, <1>11, <1>12 DEF Amounts, Other

LEMMA AmountsDelivered ==
    ASSUME TypeOK, IInv, StreamsWhole, FlushedBeforeFreed, NEW c \in Conn, Amounts(c)
    PROVE  FlushedBeforeFreed'
<1>1. ASSUME NEW x \in Conn, x # c PROVE Delivered(x)'
    BY <1>1, Locality DEF FlushedBeforeFreed, Delivered, Untouched
<1>. SUFFICES Delivered(c)'
    BY <1>1 DEF FlushedBeforeFreed
<1>2. /\ local[c] \in Pipes /\ remote[c] \in Pipes /\ Whole(c) /\ Delivered(c)
      /\ local \in [Conn -> Pipes] /\ remote \in [Conn -> Pipes]
      /\ uploaded \in [Conn -> Seq(Messages)] /\ shown \in [Conn -> Seq(Messages)]
      /\ gone \in [Conn -> SUBSET {"application", "server", "timer"}]
    BY DEF TypeOK, StreamsWhole, FlushedBeforeFreed
<1>3. ASSUME NEW l, NEW r, Pair(c, l, r)
      PROVE  local'[c] = l /\ remote'[c] = r
    BY <1>2, <1>3 DEF Pair
<1>4. CASE Accepted(c) \/ TookUp(c) \/ TookDown(c)
    <2>1. local'[c].st = "open" /\ remote'[c].st = "open"
        <3>1. CASE Accepted(c)
            <4>1. PICK fd \in {"connecting", "none"} :
                    /\ local'[c] = Opened("connected", c, "local_read_cb", FALSE)
                    /\ remote'[c] = Opened(fd, c, "remote_read_cb", TRUE)
                BY <1>3, <3>1 DEF Accepted
            <4>. QED
                BY <4>1 DEF Opened, Absent
        <3>2. CASE TookUp(c)
            BY <1>2, <1>3, <3>2 DEF TookUp, TakesUp, BothOpen, More, Pipes, Bufferevents
        <3>3. CASE TookDown(c)
            BY <1>2, <1>3, <3>3 DEF TookDown, TakesDown, BothOpen, More, Pipes, Bufferevents
        <3>. QED
            BY <1>4, <3>1, <3>2, <3>3
    <2>. QED
        BY <2>1 DEF Delivered
<1>5. CASE NearEnded(c)
    <2>1. /\ "application" \in gone'[c] /\ gone[c] \subseteq gone'[c] /\ UNCHANGED streams
          /\ remote'[c] = IF remote[c].st = "open" THEN Survivor(remote[c]) ELSE remote[c]
        BY <1>2, <1>3, <1>5 DEF NearEnded
    <2>2. remote[c].st = "open" /\ remote[c].out = <<>> => uploaded[c] = EncryptAll(typed[c])
        <3>1. uploaded[c] \in Seq(Messages)
            BY <1>2
        <3>2. uploaded[c] \o <<>> = uploaded[c]
            BY <3>1, ConcatEmptySeq
        <3>. QED
            BY <1>2, <3>2 DEF Whole
    <2>3. remote'[c].st = "freed" => remote[c].st = "freed"
                                      \/ (remote[c].st = "open" /\ remote[c].out = <<>>)
        BY <1>2, <2>1, SurvivorKeeps
    <2>. QED
        BY <1>2, <2>1, <2>2, <2>3 DEF Delivered, streams
<1>6. CASE FarEnded(c)
    <2>1. /\ "server" \in gone'[c] /\ gone[c] \subseteq gone'[c] /\ UNCHANGED streams
          /\ local'[c] = IF local[c].st = "open" THEN Survivor(local[c]) ELSE local[c]
        BY <1>2, <1>3, <1>6 DEF FarEnded
    <2>2. local[c].st = "open" /\ local[c].out = <<>> => shown[c] = DecryptAll(downloaded[c])
        <3>1. shown[c] \in Seq(Messages)
            BY <1>2
        <3>2. shown[c] \o <<>> = shown[c]
            BY <3>1, ConcatEmptySeq
        <3>. QED
            BY <1>2, <3>2 DEF Whole
    <2>3. local'[c].st = "freed" => local[c].st = "freed"
                                     \/ (local[c].st = "open" /\ local[c].out = <<>>)
        BY <1>2, <2>1, SurvivorKeeps
    <2>. QED
        BY <1>2, <2>1, <2>2, <2>3 DEF Delivered, streams
<1>7. CASE Silenced(c)
    BY <1>2, <1>7 DEF Silenced, Delivered
<1>8. CASE GaveNear(c)
    <2>1. /\ local'[c] = Written(local[c]) /\ remote'[c] = remote[c]
          /\ shown'[c] = Append(shown[c], Head(local[c].out))
          /\ typed' = typed /\ uploaded' = uploaded /\ downloaded' = downloaded /\ gone' = gone
          /\ local[c].st = "open" /\ local[c].out # <<>> /\ shown[c] \in Seq(Messages)
        BY <1>2, <1>3, <1>8 DEF GaveNear
    <2>2. Written(local[c]).st = "freed" =>
            Append(shown[c], Head(local[c].out)) = DecryptAll(downloaded[c])
        BY <1>2, <2>1, WriteKeeps DEF Whole
    <2>. QED
        BY <1>2, <2>1, <2>2 DEF Delivered
<1>9. CASE GaveFar(c)
    <2>1. /\ remote'[c] = Written(remote[c]) /\ local'[c] = local[c]
          /\ uploaded'[c] = Append(uploaded[c], Head(remote[c].out))
          /\ typed' = typed /\ shown' = shown /\ downloaded' = downloaded /\ gone' = gone
          /\ remote[c].st = "open" /\ remote[c].out # <<>> /\ uploaded[c] \in Seq(Messages)
        BY <1>2, <1>3, <1>9 DEF GaveFar
    <2>2. Written(remote[c]).st = "freed" =>
            Append(uploaded[c], Head(remote[c].out)) = EncryptAll(typed[c])
        BY <1>2, <2>1, WriteKeeps DEF Whole
    <2>. QED
        BY <1>2, <2>1, <2>2 DEF Delivered
<1>10. CASE Joined(c)
    BY <1>2, <1>3, <1>10 DEF Joined, Delivered, peers, streams, Pipes, Bufferevents
<1>. QED
    BY <1>4, <1>5, <1>6, <1>7, <1>8, <1>9, <1>10 DEF Amounts, Other

LEMMA InitStreams == Init => StreamsWhole /\ FlushedBeforeFreed
BY DEF Init, StreamsWhole, Whole, FlushedBeforeFreed, Delivered, Absent

LEMMA NextStreams ==
    TypeOK /\ IInv /\ StreamsWhole /\ FlushedBeforeFreed /\ [Next]_vars =>
        (StreamsWhole /\ FlushedBeforeFreed)'
<1>1. ASSUME TypeOK, IInv, StreamsWhole, FlushedBeforeFreed, Next
      PROVE  (StreamsWhole /\ FlushedBeforeFreed)'
    BY <1>1, Forms, AmountsWhole, AmountsDelivered
<1>2. ASSUME StreamsWhole, FlushedBeforeFreed, UNCHANGED vars
      PROVE  (StreamsWhole /\ FlushedBeforeFreed)'
    BY <1>2 DEF vars, peers, streams, StreamsWhole, Whole, FlushedBeforeFreed, Delivered
<1>. QED
    BY <1>1, <1>2

-----------------------------------------------------------------------------
\* The theorems.

\* Every variable keeps its type through every callback of client.cpp, for any number
\* of connections and any bounds on the messages.
THEOREM TypeCorrect == Spec => []TypeOK
<1>. QED
    BY InitType, InitHolds, NextInvariant, PTL DEF Spec

\* The two bufferevents of a connection name each other or have lost each other, and
\* one that lost its partner (client.cpp:26-28) can only write and then go.
THEOREM Inductive == Spec => []IInv
<1>. QED
    BY InitType, InitHolds, NextInvariant, PTL DEF Spec

\* No read callback and no timeout finds a null partner (client.cpp:60, :114, :127).
THEOREM NeverDereferencesNull == Spec => []NeverDown
<1>1. Init => NeverDown
    BY DEF Init, NeverDown
<1>2. TypeOK /\ IInv /\ NeverDown /\ [Next]_vars => NeverDown'
    <2>1. ASSUME NEW c \in Conn, Amounts(c) PROVE proc' = proc
        BY <2>1 DEF Amounts, Other, Accepted, TookUp, TakesUp, TookDown, TakesDown, NearEnded, FarEnded, Silenced,
                    GaveNear, GaveFar, Joined
    <2>2. ASSUME UNCHANGED vars PROVE proc' = proc
        BY <2>2 DEF vars
    <2>. QED
        BY <2>1, <2>2, Forms DEF NeverDown
<1>. QED
    BY <1>1, <1>2, InitType, InitHolds, NextInvariant, PTL DEF Spec

\* Both streams of every connection arrive whole, in order and converted once, through
\* every interleaving of reads, writes and ends (client.cpp:57-75 and :124-139).
THEOREM StreamsStayWhole == Spec => []StreamsWhole
<1>. QED
    BY InitType, InitHolds, InitStreams, NextInvariant, NextStreams, PTL DEF Spec

\* What one side had sent before it left is delivered to the other, unless that one
\* leaves too or the read timer runs out (client.cpp:23-31 and :81-89).
THEOREM NothingCutOff == Spec => []FlushedBeforeFreed
<1>. QED
    BY InitType, InitHolds, InitStreams, NextInvariant, NextStreams, PTL DEF Spec

-----------------------------------------------------------------------------
\* The client implements ProxiedConnection: with the invariants above, each kind of step
\* is one step of the two pipes of its connection, or none.

\* Only the connection that took the step is mapped to something new.
LEMMA MappedAt ==
    ASSUME TypeOK, NEW c \in Conn, Amounts(c)
    PROVE  /\ Attached' = [Attached EXCEPT ![c] = Ends(c)']
           /\ Left' = [Left EXCEPT ![c] = Causes(c)']
           /\ Sent' = [Sent EXCEPT ![c] = SentBy(c)']
           /\ Obtained' = [Obtained EXCEPT ![c] = GivenTo(c)']
           /\ local[c].st # "none" /\ local'[c].st # "none" => Begun' = Begun
<1>1. ASSUME NEW x \in Conn, x # c
      PROVE  /\ Ends(x)' = Ends(x) /\ Causes(x)' = Causes(x)
             /\ SentBy(x)' = SentBy(x) /\ GivenTo(x)' = GivenTo(x)
             /\ local'[x].st = local[x].st
    <2>1. Untouched(x)
        BY <1>1, Locality
    <2>. QED
        BY <2>1 DEF Untouched, Ends, Causes, SentBy, GivenTo
<1>2. Attached' = [x \in Conn |-> Ends(x)'] /\ Left' = [x \in Conn |-> Causes(x)']
    BY DEF Attached, Left
<1>3. Sent' = [x \in Conn |-> SentBy(x)'] /\ Obtained' = [x \in Conn |-> GivenTo(x)']
    BY DEF Sent, Obtained
<1>4. Attached' = [Attached EXCEPT ![c] = Ends(c)'] /\ Left' = [Left EXCEPT ![c] = Causes(c)']
    BY <1>1, <1>2 DEF Attached, Left
<1>5. /\ Sent' = [Sent EXCEPT ![c] = SentBy(c)']
      /\ Obtained' = [Obtained EXCEPT ![c] = GivenTo(c)']
    BY <1>1, <1>3 DEF Sent, Obtained
<1>6. local[c].st # "none" /\ local'[c].st # "none" => Begun' = Begun
    BY <1>1 DEF Begun
<1>. QED
    BY <1>4, <1>5, <1>6

\* What the two sides are still owed is what their bufferevents have to write, and the
\* next piece is the one at its head.
LEMMA OwedIsOut ==
    ASSUME TypeOK, NEW c \in Conn, Whole(c)
    PROVE  /\ local[c].st = "open" =>
                /\ Connection!Owed(c, "near") = Len(local[c].out)
                /\ local[c].out # <<>> =>
                     DecryptAll(downloaded[c])[Len(shown[c]) + 1] = Head(local[c].out)
           /\ remote[c].st = "open" =>
                /\ Connection!Owed(c, "far") = Len(remote[c].out)
                /\ remote[c].out # <<>> =>
                     typed[c][Len(DecryptAll(uploaded[c])) + 1] = Decrypt(Head(remote[c].out))
<1>1. /\ typed[c] \in Seq(Messages) /\ shown[c] \in Seq(Messages)
      /\ uploaded[c] \in Seq(Messages) /\ downloaded[c] \in Seq(Messages)
      /\ local[c].out \in Seq(Messages) /\ remote[c].out \in Seq(Messages)
    BY PipeTypes DEF TypeOK
<1>2. /\ Len(DecryptAll(uploaded[c])) = Len(uploaded[c])
      /\ Len(EncryptAll(typed[c])) = Len(typed[c])
    BY <1>1, StreamTypes
<1>3. ASSUME NEW s \in Seq(Messages), NEW t \in Seq(Messages)
      PROVE  /\ Len(s \o t) = Len(s) + Len(t)
             /\ t # <<>> => (s \o t)[Len(s) + 1] = Head(t)
    <2>1. /\ Len(s \o t) = Len(s) + Len(t)
          /\ \A i \in 1..(Len(s) + Len(t)) :
                (s \o t)[i] = IF i <= Len(s) THEN s[i] ELSE t[i - Len(s)]
        BY ConcatProperties
    <2>2. /\ Len(s) \in Nat /\ Len(t) \in Nat
          /\ t # <<>> => Len(t) > 0 /\ Head(t) = t[1]
        OBVIOUS
    <2>3. ASSUME t # <<>> PROVE (s \o t)[Len(s) + 1] = t[1]
        <3>1. Len(s) + 1 \in 1..(Len(s) + Len(t)) /\ Len(s) + 1 - Len(s) = 1
            BY <2>2, <2>3
        <3>2. ~(Len(s) + 1 <= Len(s))
            BY <2>2
        <3>. QED
            BY <2>1, <3>1, <3>2
    <2>. QED
        BY <2>1, <2>2, <2>3
<1>4. /\ Connection!Owed(c, "near") = Len(DecryptAll(downloaded[c])) - Len(shown[c])
      /\ Connection!Owed(c, "far") = Len(typed[c]) - Len(DecryptAll(uploaded[c]))
    BY DEF Connection!Owed, Connection!Other, Sent, SentBy, Obtained, GivenTo
<1>5. ASSUME local[c].st = "open"
      PROVE  /\ Connection!Owed(c, "near") = Len(local[c].out)
             /\ local[c].out # <<>> =>
                  DecryptAll(downloaded[c])[Len(shown[c]) + 1] = Head(local[c].out)
    <2>1. DecryptAll(downloaded[c]) = shown[c] \o local[c].out
        BY <1>5 DEF Whole
    <2>2. Len(DecryptAll(downloaded[c])) = Len(shown[c]) + Len(local[c].out)
        BY <1>1, <1>3, <2>1
    <2>3. Len(shown[c]) \in Nat /\ Len(local[c].out) \in Nat
        BY <1>1
    <2>4. Connection!Owed(c, "near") = Len(local[c].out)
        BY <1>4, <2>2, <2>3
    <2>. QED
        BY <1>1, <1>3, <2>1, <2>4
<1>6. ASSUME remote[c].st = "open"
      PROVE  /\ Connection!Owed(c, "far") = Len(remote[c].out)
             /\ remote[c].out # <<>> =>
                  typed[c][Len(DecryptAll(uploaded[c])) + 1] = Decrypt(Head(remote[c].out))
    <2>1. EncryptAll(typed[c]) = uploaded[c] \o remote[c].out
        BY <1>6 DEF Whole
    <2>2. Len(typed[c]) = Len(uploaded[c]) + Len(remote[c].out)
        <3>1. Len(uploaded[c] \o remote[c].out) = Len(uploaded[c]) + Len(remote[c].out)
            BY <1>1, <1>3
        <3>. QED
            BY <1>2, <2>1, <3>1
    <2>3. Len(uploaded[c]) \in Nat /\ Len(remote[c].out) \in Nat
        BY <1>1
    <2>4. Connection!Owed(c, "far") = Len(remote[c].out)
        BY <1>2, <1>4, <2>2, <2>3
    <2>5. ASSUME remote[c].out # <<>>
          PROVE  typed[c][Len(uploaded[c]) + 1] = Decrypt(Head(remote[c].out))
        <3>1. EncryptAll(typed[c])[Len(uploaded[c]) + 1] = Head(remote[c].out)
            BY <1>1, <1>3, <2>1, <2>5
        <3>2. Len(uploaded[c]) + 1 \in 1..Len(typed[c])
            <4>1. Len(remote[c].out) \in Nat \ {0}
                BY <1>1, <2>5, EmptySeq
            <4>2. \A i \in Nat, j \in Nat \ {0} : i + 1 \in 1..(i + j)
                OBVIOUS
            <4>. QED
                BY <2>2, <2>3, <4>1, <4>2
        <3>3. /\ typed[c][Len(uploaded[c]) + 1] \in Messages
              /\ EncryptAll(typed[c])[Len(uploaded[c]) + 1] =
                   Encrypt(typed[c][Len(uploaded[c]) + 1])
            BY <1>1, <3>2, StreamTypes
        <3>. QED
            BY <3>1, <3>3, MessageInverse
    <2>. QED
        BY <1>2, <2>4, <2>5
<1>. QED
    BY <1>5, <1>6

-----------------------------------------------------------------------------
\* Each kind of step, as a step of ProxiedConnection.

\* What is attached, by the states of the two bufferevents.
LEMMA EndsForm ==
    ASSUME NEW c \in Conn
    PROVE  /\ ("near" \in Ends(c)) <=> (local[c].st = "open")
           /\ ("far" \in Ends(c)) <=> (remote[c].st = "open")
           /\ Ends(c) \subseteq {"near", "far"}
           /\ Attached[c] = Ends(c)
BY DEF Ends, Attached

LEMMA BeginStep ==
    ASSUME TypeOK, IInv, NEW c \in Conn, Accepted(c)
    PROVE  Connection!Begin(c)
<1>1. Amounts(c)
    BY DEF Amounts, Other
<1>2. PICK fd \in {"connecting", "none"} :
        /\ local' = [local EXCEPT ![c] = Opened("connected", c, "local_read_cb", FALSE)]
        /\ remote' = [remote EXCEPT ![c] = Opened(fd, c, "remote_read_cb", TRUE)]
    BY DEF Accepted, Pair
<1>3. local'[c].st = "open" /\ remote'[c].st = "open"
    BY <1>2 DEF Opened, Absent, TypeOK
<1>4. Ends(c)' = {"near", "far"}
    BY <1>3 DEF Ends
<1>5. c \notin Begun /\ Begun' = Begun \cup {c}
    <2>1. \A x \in Conn : x # c => local'[x] = local[x]
        BY <1>2 DEF TypeOK
    <2>. QED
        BY <1>3, <2>1 DEF Accepted, Begun
<1>6. UNCHANGED <<Left, Sent, Obtained>>
    BY DEF Accepted, peers, streams, Left, Causes, Sent, SentBy, Obtained, GivenTo
<1>. QED
    BY <1>1, <1>4, <1>5, <1>6, MappedAt DEF Connection!Begin, Connection!Sides

LEMMA SendStep ==
    ASSUME TypeOK, IInv, NEW c \in Conn, SentUp(c) \/ SentDown(c)
    PROVE  Connection!Send(c, "near") \/ Connection!Send(c, "far")
<1>1. Amounts(c)
    BY SentTook DEF Amounts
<1>2. /\ local[c] \in Pipes /\ remote[c] \in Pipes /\ local[c].st = "open" /\ remote[c].st = "open"
      /\ local \in [Conn -> Pipes] /\ remote \in [Conn -> Pipes]
      /\ typed \in [Conn -> Seq(Messages)] /\ downloaded \in [Conn -> Seq(Messages)]
    BY DEF TypeOK, SentUp, SentDown, TakesUp, TakesDown, BothOpen
<1>3. Attached[c] = Connection!Sides
    BY <1>2 DEF Attached, Ends, Connection!Sides
<1>4. local'[c].st = "open" /\ remote'[c].st = "open"
    BY <1>2 DEF SentUp, SentDown, TakesUp, TakesDown, Pair, More, Pipes, Bufferevents
<1>5. Ends(c)' = Ends(c) /\ Causes(c)' = Causes(c) /\ GivenTo(c)' = GivenTo(c)
    BY <1>2, <1>4 DEF Ends, Causes, GivenTo, SentUp, SentDown, TakesUp, TakesDown
<1>6. /\ Attached' = Attached /\ Left' = Left /\ Obtained' = Obtained /\ Begun' = Begun
      /\ Sent' = [Sent EXCEPT ![c] = SentBy(c)']
    BY <1>1, <1>2, <1>4, <1>5, MappedAt DEF Attached, Left, Obtained
<1>7. CASE SentUp(c)
    <2>1. PICK n \in 1..MaxUp : typed' = [typed EXCEPT ![c] = Append(typed[c], Plain("data", c, n))]
        BY <1>7 DEF SentUp, TakesUp
    <2>2. Plain("data", c, n) \in Relayed
        BY ClientAssumption DEF Relayed
    <2>3. SentBy(c)' = [SentBy(c) EXCEPT !["near"] = Append(SentBy(c)["near"], Plain("data", c, n))]
        BY <1>2, <1>7, <2>1 DEF SentBy, SentUp, TakesUp
    <2>4. Sent' = [Sent EXCEPT ![c]["near"] = Append(Sent[c]["near"], Plain("data", c, n))]
        BY <1>6, <2>3 DEF Sent
    <2>. QED
        BY <1>3, <1>6, <2>2, <2>4 DEF Connection!Send
<1>8. CASE SentDown(c)
    <2>1. PICK n \in 1..MaxDown :
            downloaded' = [downloaded EXCEPT ![c] = Append(downloaded[c], Encrypt(Plain("data", c, n)))]
        BY <1>8 DEF SentDown, TakesDown
    <2>2. Plain("data", c, n) \in Relayed
        BY ClientAssumption DEF Relayed
    <2>3. DecryptAll(downloaded'[c]) = Append(DecryptAll(downloaded[c]), Plain("data", c, n))
        <3>1. downloaded[c] \in Seq(Messages) /\ n \in Nat
            BY <1>2, ClientAssumption
        <3>2. downloaded'[c] = Append(downloaded[c], Encrypt(Plain("data", c, n)))
            BY <1>2, <2>1
        <3>. QED
            BY <3>1, <3>2, DataTypes, StreamAppend
    <2>4. SentBy(c)' = [SentBy(c) EXCEPT !["far"] = Append(SentBy(c)["far"], Plain("data", c, n))]
        BY <1>8, <2>3 DEF SentBy, SentDown, TakesDown
    <2>5. Sent' = [Sent EXCEPT ![c]["far"] = Append(Sent[c]["far"], Plain("data", c, n))]
        BY <1>6, <2>4 DEF Sent
    <2>. QED
        BY <1>3, <1>6, <2>2, <2>5 DEF Connection!Send
<1>. QED
    BY <1>7, <1>8

LEMMA LeaveStep ==
    ASSUME TypeOK, IInv, StreamsWhole, NEW c \in Conn, NearEnded(c) \/ FarEnded(c)
    PROVE  Connection!Leave(c, "near") \/ Connection!Leave(c, "far")
<1>1. Amounts(c)
    BY DEF Amounts, Other
<1>2. /\ local[c] \in Pipes /\ remote[c] \in Pipes
      /\ local[c].st # "none" /\ remote[c].st # "none"
      /\ local \in [Conn -> Pipes] /\ remote \in [Conn -> Pipes]
      /\ gone \in [Conn -> SUBSET {"application", "server", "timer"}]
    BY DEF TypeOK, NearEnded, FarEnded
<1>3. UNCHANGED <<Sent, Obtained>>
    BY DEF NearEnded, FarEnded, streams, Sent, SentBy, Obtained, GivenTo
<1>4. /\ local[c].st = "open" => Connection!Owed(c, "near") = Len(local[c].out)
      /\ remote[c].st = "open" => Connection!Owed(c, "far") = Len(remote[c].out)
    BY OwedIsOut DEF StreamsWhole
<1>5. \A b \in Pipes : (Len(b.out) > 0) <=> (b.out # <<>>)
    BY EmptySeq, PipeTypes
<1>6. Freed.st = "freed"
    BY DEF Freed, Absent
<1>7. \A b \in Pipes : (Survivor(b).st = "open") <=> (b.st = "open" /\ b.out # <<>>)
    BY DEF Survivor, Closing, Freed, Absent, Pipes, Bufferevents
<1>8. CASE NearEnded(c)
    <2>1. /\ local'[c] = Freed
          /\ remote'[c] = IF remote[c].st = "open" THEN Survivor(remote[c]) ELSE remote[c]
          /\ gone'[c] = gone[c] \cup {"application"} /\ local[c].st = "open"
        BY <1>2, <1>8 DEF NearEnded, Pair
    <2>2. (remote'[c].st = "open") <=> (remote[c].st = "open" /\ remote[c].out # <<>>)
        BY <1>2, <1>7, <2>1
    <2>3. local'[c].st # "open" /\ local'[c].st # "none"
        BY <1>6, <2>1
    <2>4. Ends(c)' = {o \in Ends(c) \ {"near"} : Connection!Owed(c, o) > 0}
        <3>1. Ends(c)' = IF remote'[c].st = "open" THEN {"far"} ELSE {}
            BY <2>3 DEF Ends
        <3>2. Ends(c) \ {"near"} = IF remote[c].st = "open" THEN {"far"} ELSE {}
            BY DEF Ends
        <3>3. remote[c].st = "open" =>
                ((Connection!Owed(c, "far") > 0) <=> (remote[c].out # <<>>))
            BY <1>2, <1>4, <1>5
        <3>. QED
            BY <2>2, <3>1, <3>2, <3>3
    <2>5. Causes(c)' = Causes(c) \cup {"near"}
        BY <2>1 DEF Causes
    <2>6. /\ Attached' = [Attached EXCEPT ![c] =
                            {o \in Attached[c] \ {"near"} : Connection!Owed(c, o) > 0}]
          /\ Left' = [Left EXCEPT ![c] = Left[c] \cup {"near"}]
          /\ Begun' = Begun
        BY <1>1, <1>2, <2>3, <2>4, <2>5, MappedAt DEF Attached, Left
    <2>7. "near" \in Attached[c]
        BY <2>1, EndsForm
    <2>. QED
        BY <1>3, <2>6, <2>7 DEF Connection!Leave
<1>9. CASE FarEnded(c)
    <2>1. /\ remote'[c] = Freed
          /\ local'[c] = IF local[c].st = "open" THEN Survivor(local[c]) ELSE local[c]
          /\ gone'[c] = gone[c] \cup {"server"} /\ remote[c].st = "open"
        BY <1>2, <1>9 DEF FarEnded, Pair
    <2>2. (local'[c].st = "open") <=> (local[c].st = "open" /\ local[c].out # <<>>)
        BY <1>2, <1>7, <2>1
    <2>3. remote'[c].st # "open" /\ local'[c].st # "none"
        BY <1>2, <1>6, <2>1, SurvivorKeeps
    <2>4. Ends(c)' = {o \in Ends(c) \ {"far"} : Connection!Owed(c, o) > 0}
        <3>1. Ends(c)' = IF local'[c].st = "open" THEN {"near"} ELSE {}
            BY <2>3 DEF Ends
        <3>2. Ends(c) \ {"far"} = IF local[c].st = "open" THEN {"near"} ELSE {}
            BY DEF Ends
        <3>3. local[c].st = "open" =>
                ((Connection!Owed(c, "near") > 0) <=> (local[c].out # <<>>))
            BY <1>2, <1>4, <1>5
        <3>. QED
            BY <2>2, <3>1, <3>2, <3>3
    <2>5. Causes(c)' = Causes(c) \cup {"far"}
        BY <2>1 DEF Causes
    <2>6. /\ Attached' = [Attached EXCEPT ![c] =
                            {o \in Attached[c] \ {"far"} : Connection!Owed(c, o) > 0}]
          /\ Left' = [Left EXCEPT ![c] = Left[c] \cup {"far"}]
          /\ Begun' = Begun
        BY <1>1, <1>2, <2>3, <2>4, <2>5, MappedAt DEF Attached, Left
    <2>7. "far" \in Attached[c]
        BY <2>1, EndsForm
    <2>. QED
        BY <1>3, <2>6, <2>7 DEF Connection!Leave
<1>. QED
    BY <1>8, <1>9

LEMMA TimeOutStep ==
    ASSUME TypeOK, IInv, NEW c \in Conn, Silenced(c)
    PROVE  Connection!TimeOut(c)
<1>1. Amounts(c)
    BY DEF Amounts, Other
<1>2. /\ local'[c] = Freed /\ remote'[c] = Freed
      /\ local[c].st = "open" /\ remote[c].st = "open"
      /\ gone'[c] = gone[c] \cup {"timer"}
    BY DEF TypeOK, Silenced, Pair, BothOpen
<1>3. Freed.st = "freed"
    BY DEF Freed, Absent
<1>4. Attached[c] = Connection!Sides
    BY <1>2 DEF Attached, Ends, Connection!Sides
<1>5. Ends(c)' = {} /\ Causes(c)' = Causes(c) \cup {"silence"}
    BY <1>2, <1>3 DEF Ends, Causes
<1>6. UNCHANGED <<Sent, Obtained>>
    BY DEF Silenced, streams, Sent, SentBy, Obtained, GivenTo
<1>7. /\ Attached' = [Attached EXCEPT ![c] = {}]
      /\ Left' = [Left EXCEPT ![c] = Left[c] \cup {"silence"}]
      /\ Begun' = Begun
    BY <1>1, <1>2, <1>3, <1>5, MappedAt DEF Left
<1>. QED
    BY <1>4, <1>6, <1>7 DEF Connection!TimeOut

LEMMA DeliverStep ==
    ASSUME TypeOK, IInv, StreamsWhole, NEW c \in Conn, GaveNear(c) \/ GaveFar(c)
    PROVE  Connection!Deliver(c, "near") \/ Connection!Deliver(c, "far")
<1>1. Amounts(c)
    BY DEF Amounts, Other
<1>2. /\ local[c] \in Pipes /\ remote[c] \in Pipes /\ Linked(c, local[c], remote[c])
      /\ local \in [Conn -> Pipes] /\ remote \in [Conn -> Pipes]
      /\ shown \in [Conn -> Seq(Messages)] /\ uploaded \in [Conn -> Seq(Messages)]
    BY DEF TypeOK, IInv, Holds
<1>3. /\ local[c].st = "open" =>
            /\ Connection!Owed(c, "near") = Len(local[c].out)
            /\ local[c].out # <<>> =>
                 DecryptAll(downloaded[c])[Len(shown[c]) + 1] = Head(local[c].out)
      /\ remote[c].st = "open" =>
            /\ Connection!Owed(c, "far") = Len(remote[c].out)
            /\ remote[c].out # <<>> =>
                 typed[c][Len(DecryptAll(uploaded[c])) + 1] = Decrypt(Head(remote[c].out))
    BY OwedIsOut DEF StreamsWhole
<1>4. /\ \A b \in Pipes : (Len(b.out) > 0) <=> (b.out # <<>>)
      /\ \A b \in Pipes : Flushed(b).st = b.st
      /\ Freed.st = "freed"
    BY EmptySeq, PipeTypes DEF Flushed, Freed, Absent, Pipes, Bufferevents
<1>5. /\ local[c].st = "open" => ((local[c].arg = NULL) <=> (remote[c].st # "open"))
      /\ remote[c].st = "open" => ((remote[c].arg = NULL) <=> (local[c].st # "open"))
      /\ (local[c].st = "none") <=> (remote[c].st = "none")
    BY <1>2, Partners DEF BothOpen
<1>6. CASE GaveNear(c)
    <2>1. /\ local'[c] = Written(local[c]) /\ remote'[c] = remote[c]
          /\ shown'[c] = Append(shown[c], Head(local[c].out))
          /\ typed' = typed /\ uploaded' = uploaded /\ downloaded' = downloaded /\ gone' = gone
          /\ local[c].st = "open" /\ local[c].out # <<>>
        BY <1>2, <1>6 DEF GaveNear, Pair
    <2>2. /\ local[c].arg # NULL => Written(local[c]) = Flushed(local[c])
          /\ local[c].arg = NULL /\ Len(local[c].out) = 1 => Written(local[c]) = Freed
          /\ local[c].arg = NULL /\ Len(local[c].out) # 1 => Written(local[c]) = Flushed(local[c])
        BY <1>2, <2>1, WrittenForm DEF Linked
    <2>3. (local'[c].st = "open") <=> ~(remote[c].st # "open" /\ Len(local[c].out) = 1)
        BY <1>2, <1>4, <1>5, <2>1, <2>2
    <2>4. local'[c].st # "none"
        BY <1>2, <1>4, <2>1, <2>2
    <2>5. Ends(c)' = IF Ends(c) = {"near"} /\ Connection!Owed(c, "near") = 1 THEN {} ELSE Ends(c)
        <3>1. (Ends(c) = {"near"}) <=> (remote[c].st # "open")
            <4>1. "near" \in Ends(c) /\ Ends(c) \subseteq {"near", "far"}
                BY <2>1, EndsForm
            <4>2. (Ends(c) = {"near"}) <=> ("far" \notin Ends(c))
                BY <4>1
            <4>. QED
                BY <4>2, EndsForm
        <3>2. Connection!Owed(c, "near") = Len(local[c].out)
            BY <1>3, <2>1
        <3>3. CASE remote[c].st # "open" /\ Len(local[c].out) = 1
            BY <2>1, <2>3, <3>1, <3>2, <3>3 DEF Ends
        <3>4. CASE ~(remote[c].st # "open" /\ Len(local[c].out) = 1)
            <4>1. Ends(c)' = Ends(c)
                BY <2>1, <2>3, <3>4 DEF Ends
            <4>. QED
                BY <3>1, <3>2, <3>4, <4>1
        <3>. QED
            BY <3>3, <3>4
    <2>6. GivenTo(c)' = [GivenTo(c) EXCEPT !["near"] =
                           Append(GivenTo(c)["near"], SentBy(c)["far"][Len(GivenTo(c)["near"]) + 1])]
        BY <1>3, <2>1 DEF GivenTo, SentBy
    <2>7. Left' = Left /\ Sent' = Sent /\ Begun' = Begun
        BY <1>1, <2>1, <2>4, MappedAt DEF Left, Causes, Sent, SentBy
    <2>8. Obtained' = [Obtained EXCEPT ![c]["near"] =
                         Append(Obtained[c]["near"], Sent[c]["far"][Len(Obtained[c]["near"]) + 1])]
        BY <1>1, <2>6, MappedAt DEF Obtained, Sent
    <2>9. Attached' = [Attached EXCEPT ![c] =
                         IF Attached[c] = {"near"} /\ Connection!Owed(c, "near") = 1
                           THEN {} ELSE Attached[c]]
        BY <1>1, <2>5, MappedAt DEF Attached
    <2>10. "near" \in Attached[c] /\ Connection!Owed(c, "near") > 0
        BY <1>2, <1>3, <1>4, <2>1, EndsForm
    <2>. QED
        BY <2>7, <2>8, <2>9, <2>10 DEF Connection!Deliver, Connection!Other
<1>7. CASE GaveFar(c)
    <2>1. /\ remote'[c] = Written(remote[c]) /\ local'[c] = local[c]
          /\ uploaded'[c] = Append(uploaded[c], Head(remote[c].out))
          /\ typed' = typed /\ shown' = shown /\ downloaded' = downloaded /\ gone' = gone
          /\ remote[c].st = "open" /\ remote[c].out # <<>>
        BY <1>2, <1>7 DEF GaveFar, Pair
    <2>2. /\ remote[c].arg # NULL => Written(remote[c]) = Flushed(remote[c])
          /\ remote[c].arg = NULL /\ Len(remote[c].out) = 1 => Written(remote[c]) = Freed
          /\ remote[c].arg = NULL /\ Len(remote[c].out) # 1 => Written(remote[c]) = Flushed(remote[c])
        BY <1>2, <2>1, WrittenForm DEF Linked
    <2>3. (remote'[c].st = "open") <=> ~(local[c].st # "open" /\ Len(remote[c].out) = 1)
        BY <1>2, <1>4, <1>5, <2>1, <2>2
    <2>4. local[c].st # "none" /\ local'[c].st # "none"
        BY <1>5, <2>1
    <2>5. Ends(c)' = IF Ends(c) = {"far"} /\ Connection!Owed(c, "far") = 1 THEN {} ELSE Ends(c)
        <3>1. (Ends(c) = {"far"}) <=> (local[c].st # "open")
            <4>1. "far" \in Ends(c) /\ Ends(c) \subseteq {"near", "far"}
                BY <2>1, EndsForm
            <4>2. (Ends(c) = {"far"}) <=> ("near" \notin Ends(c))
                BY <4>1
            <4>. QED
                BY <4>2, EndsForm
        <3>2. Connection!Owed(c, "far") = Len(remote[c].out)
            BY <1>3, <2>1
        <3>3. CASE local[c].st # "open" /\ Len(remote[c].out) = 1
            BY <2>1, <2>3, <3>1, <3>2, <3>3 DEF Ends
        <3>4. CASE ~(local[c].st # "open" /\ Len(remote[c].out) = 1)
            <4>1. Ends(c)' = Ends(c)
                BY <2>1, <2>3, <3>4 DEF Ends
            <4>. QED
                BY <3>1, <3>2, <3>4, <4>1
        <3>. QED
            BY <3>3, <3>4
    <2>6. DecryptAll(uploaded'[c]) = Append(DecryptAll(uploaded[c]), Decrypt(Head(remote[c].out)))
        <3>1. uploaded[c] \in Seq(Messages) /\ remote[c].out \in Seq(Messages)
            BY <1>2, PipeTypes
        <3>2. Head(remote[c].out) \in Messages
            BY <2>1, <3>1, SequenceTypes
        <3>. QED
            BY <2>1, <3>1, <3>2, StreamAppend
    <2>7. GivenTo(c)' = [GivenTo(c) EXCEPT !["far"] =
                           Append(GivenTo(c)["far"], SentBy(c)["near"][Len(GivenTo(c)["far"]) + 1])]
        BY <1>3, <2>1, <2>6 DEF GivenTo, SentBy
    <2>8. Left' = Left /\ Sent' = Sent /\ Begun' = Begun
        BY <1>1, <2>1, <2>4, MappedAt DEF Left, Causes, Sent, SentBy
    <2>9. Obtained' = [Obtained EXCEPT ![c]["far"] =
                         Append(Obtained[c]["far"], Sent[c]["near"][Len(Obtained[c]["far"]) + 1])]
        BY <1>1, <2>7, MappedAt DEF Obtained, Sent
    <2>10. Attached' = [Attached EXCEPT ![c] =
                          IF Attached[c] = {"far"} /\ Connection!Owed(c, "far") = 1
                            THEN {} ELSE Attached[c]]
        BY <1>1, <2>5, MappedAt DEF Attached
    <2>11. "far" \in Attached[c] /\ Connection!Owed(c, "far") > 0
        BY <1>2, <1>3, <1>4, <2>1, EndsForm
    <2>. QED
        BY <2>8, <2>9, <2>10, <2>11 DEF Connection!Deliver, Connection!Other
<1>. QED
    BY <1>6, <1>7

\* A connect() that succeeds is not seen.
LEMMA JoinedStutters ==
    ASSUME TypeOK, IInv, NEW c \in Conn, Joined(c)
    PROVE  UNCHANGED <<Begun, Attached, Left, Sent, Obtained>>
<1>1. \A x \in Conn : local'[x].st = local[x].st /\ remote'[x].st = remote[x].st
    BY DEF TypeOK, Joined, Pair, Pipes, Bufferevents
<1>2. UNCHANGED <<typed, shown, uploaded, downloaded, gone>>
    BY DEF Joined, peers, streams
<1>3. \A x \in Conn : /\ Ends(x)' = Ends(x) /\ Causes(x)' = Causes(x)
                      /\ SentBy(x)' = SentBy(x) /\ GivenTo(x)' = GivenTo(x)
    BY <1>1, <1>2 DEF Ends, Causes, SentBy, GivenTo
<1>4. Attached' = Attached /\ Left' = Left
    BY <1>3 DEF Attached, Left
<1>5. Sent' = Sent /\ Obtained' = Obtained
    BY <1>3 DEF Sent, Obtained
<1>6. Begun' = Begun
    BY <1>1 DEF Begun
<1>. QED
    BY <1>4, <1>5, <1>6

-----------------------------------------------------------------------------
LEMMA InitMapped == Init => Connection!Init
<1>. SUFFICES ASSUME Init PROVE Connection!Init
    OBVIOUS
<1>1. \A c \in Conn : /\ local[c].st = "none" /\ remote[c].st = "none"
                      /\ typed[c] = <<>> /\ shown[c] = <<>>
                      /\ uploaded[c] = <<>> /\ downloaded[c] = <<>> /\ gone[c] = {}
    BY DEF Init, Absent
<1>2. DecryptAll(<<>>) = <<>>
    BY ShortStreams
<1>3. Begun = {} /\ Attached = [c \in Conn |-> {}] /\ Left = [c \in Conn |-> {}]
    BY <1>1 DEF Begun, Attached, Ends, Left, Causes
<1>4. \A c \in Conn : /\ SentBy(c) = [s \in {"near", "far"} |-> <<>>]
                      /\ GivenTo(c) = [s \in {"near", "far"} |-> <<>>]
    BY <1>1, <1>2 DEF SentBy, GivenTo
<1>5. /\ Sent = [c \in Conn |-> [s \in {"near", "far"} |-> <<>>]]
      /\ Obtained = [c \in Conn |-> [s \in {"near", "far"} |-> <<>>]]
    BY <1>4 DEF Sent, Obtained
<1>. QED
    BY <1>3, <1>5 DEF Connection!Init, Connection!Sides

LEMMA NextMapped ==
    TypeOK /\ IInv /\ StreamsWhole /\ [Next]_vars => [Connection!Next]_Connection!vars
<1>1. ASSUME TypeOK, IInv, StreamsWhole, NEW c \in Conn, SentUp(c) \/ SentDown(c) \/ Other(c)
      PROVE  [Connection!Next]_Connection!vars
    <2>1. CASE Accepted(c)
        BY <1>1, <2>1, BeginStep DEF Connection!Next
    <2>2. CASE SentUp(c) \/ SentDown(c)
        BY <1>1, <2>2, SendStep DEF Connection!Next, Connection!Sides
    <2>3. CASE NearEnded(c) \/ FarEnded(c)
        BY <1>1, <2>3, LeaveStep DEF Connection!Next, Connection!Sides
    <2>4. CASE Silenced(c)
        BY <1>1, <2>4, TimeOutStep DEF Connection!Next
    <2>5. CASE GaveNear(c) \/ GaveFar(c)
        BY <1>1, <2>5, DeliverStep DEF Connection!Next, Connection!Sides
    <2>6. CASE Joined(c)
        BY <1>1, <2>6, JoinedStutters DEF Connection!vars
    <2>. QED
        BY <1>1, <2>1, <2>2, <2>3, <2>4, <2>5, <2>6 DEF Other
<1>2. ASSUME UNCHANGED vars PROVE UNCHANGED Connection!vars
    BY <1>2 DEF vars, peers, streams, Connection!vars, Begun, Attached, Ends, Left, Causes,
                Sent, SentBy, Obtained, GivenTo
<1>. QED
    BY <1>1, <1>2, Forms

\* client.cpp keeps the promise of ProxiedConnection for any number of connections: no
\* callback reorders, repeats or loses what it relays, and the side that is left behind
\* stays exactly as long as it is owed something.
THEOREM Implements == Spec => ImplementsConnection
<1>. QED
    BY InitType, InitHolds, InitStreams, NextInvariant, NextStreams, InitMapped, NextMapped,
       PTL DEF Spec, ImplementsConnection, Connection!Spec
=============================================================================
