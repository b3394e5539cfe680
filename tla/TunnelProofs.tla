---------------------------- MODULE TunnelProofs ----------------------------
(***************************************************************************)
(* Proofs about the two proxies together.  Each step of Tunnel is a step   *)
(* of the server or a step of the client, so the invariants proved of each *)
(* alone hold here as well; what is new is the connection between them:    *)
(* what an end has read is the beginning of what the other has written.    *)
(***************************************************************************)
EXTENDS Tunnel, SequenceTheorems, TLAPS

\* What is proved of the server and of the client, as Tunnel instantiates them.
S == INSTANCE ServerProofs WITH
    proc <- serverProc, Optimistic <- {}, Greetings <- {"noauth"}
C == INSTANCE ClientProofs WITH
    proc <- clientProc, remote <- uplink, MaxUp <- MaxUp + 2, MaxDown <- MaxDown + 2

Messages == MessagesOf(Conn)

LEMMA ServerAssumed == S!ServerAssumption
BY TunnelAssumption DEF S!ServerAssumption, S!AllGreetings, S!AllRequests, AllRequests

LEMMA ClientAssumed == C!ClientAssumption
BY TunnelAssumption DEF C!ClientAssumption, C!ClientCallbacks

-----------------------------------------------------------------------------
\* The operators on messages are the same everywhere.

LEMMA SameMessages == S!Messages = Messages /\ C!Messages = Messages
BY DEF Messages, MessagesOf, Kinds, AllGreetings, AllRequests,
       S!Messages, S!MessagesOf, S!Kinds, S!AllGreetings, S!AllRequests,
       C!Messages, C!MessagesOf, C!Kinds, C!AllGreetings, C!AllRequests

LEMMA SameOperators ==
    /\ \A k, c, n : S!Plain(k, c, n) = Plain(k, c, n)
    /\ \A m : S!Encrypt(m) = Encrypt(m) /\ C!Encrypt(m) = Encrypt(m)
    /\ \A m : S!Decrypt(m) = Decrypt(m) /\ C!Decrypt(m) = Decrypt(m)
    /\ \A s : S!EncryptAll(s) = EncryptAll(s) /\ C!EncryptAll(s) = EncryptAll(s)
    /\ \A s : S!DecryptAll(s) = DecryptAll(s) /\ C!DecryptAll(s) = DecryptAll(s)
BY DEF Plain, Encrypt, Decrypt, EncryptAll, DecryptAll, S!Plain, S!Encrypt, S!Decrypt, S!DecryptAll,
       S!EncryptAll, C!Encrypt, C!Decrypt, C!EncryptAll, C!DecryptAll

LEMMA MessageTypes ==
    ASSUME NEW m \in Messages
    PROVE  /\ Encrypt(m) \in Messages /\ Decrypt(m) \in Messages
           /\ Encrypt(Decrypt(m)) = m /\ Decrypt(Encrypt(m)) = m
BY ClientAssumed, SameMessages, SameOperators, C!MessageTypes, C!MessageInverse

LEMMA StreamTypes ==
    ASSUME NEW s \in Seq(Messages)
    PROVE  /\ DecryptAll(s) \in Seq(Messages) /\ EncryptAll(s) \in Seq(Messages)
           /\ Len(DecryptAll(s)) = Len(s) /\ Len(EncryptAll(s)) = Len(s)
           /\ \A i \in 1..Len(s) : /\ s[i] \in Messages
                                   /\ DecryptAll(s)[i] = Decrypt(s[i])
                                   /\ EncryptAll(s)[i] = Encrypt(s[i])
BY ClientAssumed, SameMessages, SameOperators, C!StreamTypes

LEMMA StreamAppend ==
    ASSUME NEW s \in Seq(Messages), NEW m \in Messages
    PROVE  DecryptAll(Append(s, m)) = Append(DecryptAll(s), Decrypt(m))
BY ClientAssumed, SameMessages, SameOperators, C!StreamAppend

LEMMA StreamInverse ==
    ASSUME NEW s \in Seq(Messages)
    PROVE  DecryptAll(EncryptAll(s)) = s /\ EncryptAll(DecryptAll(s)) = s
BY ClientAssumed, SameMessages, SameOperators, C!StreamInverse

LEMMA DecryptConcat ==
    ASSUME NEW s \in Seq(Messages), NEW t \in Seq(Messages)
    PROVE  DecryptAll(s \o t) = DecryptAll(s) \o DecryptAll(t)
<1>1. DecryptAll(t) \in Seq(Messages) /\ EncryptAll(DecryptAll(t)) = t
    BY StreamTypes, StreamInverse
<1>2. ASSUME NEW u \in Seq(Messages)
      PROVE  DecryptAll(s \o EncryptAll(u)) = DecryptAll(s) \o u
    BY ServerAssumed, SameMessages, SameOperators, S!DecryptConcat
<1>. QED
    BY <1>1, <1>2

-----------------------------------------------------------------------------
\* The steps of the instances are the steps of what is proved about them.

LEMMA ServerSteps ==
    ASSUME NEW c \in Conn
    PROVE  /\ Server!listen_cb(c) => S!listen_cb(c)
           /\ \A m : Server!SelfReceives(c, m) => S!SelfReceives(c, m)
           /\ Server!ClientReceives(c) => S!ClientReceives(c)
           /\ Server!ClientLeaves(c) => S!ClientLeaves(c)
           /\ Server!Callback(c) => S!Callback(c)
           /\ Server!LookupReturns(c) => S!LookupReturns(c)
           /\ Server!ReadTimeout(c) => S!ReadTimeout(c)
           /\ Server!ConnectEnds(c) => S!ConnectEnds(c)
           /\ Server!TargetSends(c) => S!TargetSends(c)
           /\ Server!TargetReceives(c) => S!TargetReceives(c)
           /\ Server!TargetLeaves(c) => S!TargetLeaves(c)
BY DEF Server!listen_cb, S!listen_cb, Server!Callback, S!Callback,
       Server!LookupReturns, S!LookupReturns, Server!ReadTimeout, S!ReadTimeout,
       Server!Polling, S!Polling, Server!Opened, S!Opened,
       Server!network, S!network, Server!SelfRead, S!SelfRead, Server!SelfEvent, S!SelfEvent,
       Server!RemoteConnected, S!RemoteConnected, Server!RemoteRead, S!RemoteRead,
       Server!RemoteEvent, S!RemoteEvent, Server!dns_cb, S!dns_cb, Server!CanTimeOut,
       S!CanTimeOut, Server!ReadStops, S!ReadStops,
       Server!ClientReceives, S!ClientReceives, Server!ClientLeaves, S!ClientLeaves,
       Server!ConnectEnds, S!ConnectEnds, Server!TargetSends, S!TargetSends,
       Server!TargetReceives, S!TargetReceives, Server!TargetLeaves, S!TargetLeaves,
       Server!Absent, S!Absent, Server!MayRun, S!MayRun, Server!ReadDue, S!ReadDue,
       Server!handle_first, S!handle_first, Server!handle_second, S!handle_second,
       Server!handle_last, S!handle_last, Server!Settle, S!Settle, Server!EventDue, S!EventDue,
       Server!local_event_cb, S!local_event_cb, Server!ConnectedDue, S!ConnectedDue,
       Server!Fault, S!Fault, Server!Deref, S!Deref, Server!Said, S!Said, Server!Plain, S!Plain,
       Server!Relay, S!Relay, Server!RemoteGone, S!RemoteGone,
       Server!SelfReceives, S!SelfReceives, Server!CanWrite, S!CanWrite,
       Server!Decrypt, S!Decrypt, Server!Flushed, S!Flushed, Server!CanRead, S!CanRead,
       Server!WriteStops, S!WriteStops, Server!Connected, S!Connected, Server!Refused,
       S!Refused, Server!Received, S!Received, Server!Took, S!Took, Server!Dropped, S!Dropped,
       Server!RequestIPv4, S!RequestIPv4, Server!RequestDomain, S!RequestDomain,
       Server!DecryptAll, S!DecryptAll, Server!Freed, S!Freed, Server!Deleted, S!Deleted,
       Server!Taken, S!Taken, Server!KindRead, S!KindRead, Server!NullRead, S!NullRead,
       Server!Valid, S!Valid, Server!Encrypt, S!Encrypt, Server!EncryptAll, S!EncryptAll

LEMMA ClientSteps ==
    ASSUME NEW c \in Conn
    PROVE  /\ Client!listen_cb(c) => C!listen_cb(c)
           /\ \A m : Client!LocalReads(c, m) => C!LocalReads(c, m)
           /\ \A m : Client!RemoteReads(c, m) => C!RemoteReads(c, m)
           /\ Client!LocalEnds(c) => C!LocalEnds(c)
           /\ Client!RemoteEnds(c) => C!RemoteEnds(c)
           /\ Client!LocalWrites(c) => C!LocalWrites(c)
           /\ Client!RemoteWrites(c) => C!RemoteWrites(c)
           /\ Client!RemoteConnects(c) => C!RemoteConnects(c)
           /\ Client!RemoteRefused(c) => C!RemoteRefused(c)
           /\ Client!RemoteTimesOut(c) => C!RemoteTimesOut(c)
BY DEF Client!LocalReads, C!LocalReads, Client!RemoteReads, C!RemoteReads, Client!LocalEnds,
       C!LocalEnds, Client!RemoteEnds, C!RemoteEnds, Client!LocalWrites, C!LocalWrites,
       Client!RemoteWrites, C!RemoteWrites, Client!RemoteConnects, C!RemoteConnects,
       Client!RemoteRefused, C!RemoteRefused, Client!RemoteTimesOut, C!RemoteTimesOut,
       Client!listen_cb, C!listen_cb, Client!Up, C!Up, Client!CanRead, C!CanRead,
       Client!local_read_cb, C!local_read_cb, Client!remote_read_cb, C!remote_read_cb,
       Client!CanWrite, C!CanWrite, Client!local_event_cb, C!local_event_cb, Client!Leaves,
       C!Leaves, Client!remote_event_cb, C!remote_event_cb, Client!Written, C!Written,
       Client!peers, C!peers, Client!CanTimeOut, C!CanTimeOut, Client!Freed, C!Freed,
       Client!Opened, C!Opened, Client!Given, C!Given, Client!EncryptAll, C!EncryptAll,
       Client!DecryptAll, C!DecryptAll, Client!LeftBehind, C!LeftBehind, Client!streams,
       C!streams, Client!Flushed, C!Flushed, Client!Absent, C!Absent, Client!Encrypt, C!Encrypt,
       Client!Decrypt, C!Decrypt, Client!Closing, C!Closing

LEMMA SameInit == Init => S!Init /\ C!Init
BY DEF Init, Server!Init, S!Init, Client!Init, C!Init, Server!Absent, S!Absent, Client!Absent,
       C!Absent
-----------------------------------------------------------------------------
\* Beginnings.

\* s is the beginning of t.
Begins(s, t) == Len(s) <= Len(t) /\ \A i \in 1..Len(s) : s[i] = t[i]

LEMMA BeginsItself == ASSUME NEW s \in Seq(Messages) PROVE Begins(s, s) /\ Begins(<<>>, s)
BY DEF Begins

LEMMA BeginsOnward ==
    ASSUME NEW r \in Seq(Messages), NEW s \in Seq(Messages), NEW t \in Seq(Messages),
           Begins(r, s), Begins(s, t)
    PROVE  Begins(r, t)
<1>. DEFINE j == Len(r)
            k == Len(s)
            l == Len(t)
<1>1. j \in Nat /\ k \in Nat /\ l \in Nat /\ j <= k /\ k <= l
    BY DEF Begins
<1>2. \A i \in 1..j : r[i] = s[i]
    BY DEF Begins
<1>3. \A i \in 1..k : s[i] = t[i]
    BY DEF Begins
<1>. HIDE DEF j, k, l
<1>4. j <= l /\ \A i \in 1..j : i \in 1..k
    BY <1>1
<1>5. j <= l /\ \A i \in 1..j : r[i] = t[i]
    BY <1>2, <1>3, <1>4
<1>. QED
    BY <1>5 DEF Begins, j, l

LEMMA BeginsAt ==
    ASSUME NEW s \in Seq(Messages), NEW t \in Seq(Messages), Begins(s, t)
    PROVE  \A i \in 1..Len(s) : i \in DOMAIN s /\ i \in DOMAIN t /\ i \in 1..Len(t) /\ s[i] = t[i]
<1>. DEFINE j == Len(s)
            k == Len(t)
<1>1. j \in Nat /\ k \in Nat /\ j <= k /\ DOMAIN s = 1..j /\ DOMAIN t = 1..k
    BY DEF Begins
<1>2. \A i \in 1..j : s[i] = t[i]
    BY DEF Begins
<1>. HIDE DEF j, k
<1>3. \A i \in 1..j : i \in 1..k
    BY <1>1
<1>. QED
    BY <1>1, <1>2, <1>3 DEF j, k

\* The longer one grows.
LEMMA BeginsMore ==
    ASSUME NEW s \in Seq(Messages), NEW t \in Seq(Messages), NEW m \in Messages, Begins(s, t)
    PROVE  Begins(s, Append(t, m))
<1>1. Append(t, m) \in Seq(Messages) /\ Begins(t, Append(t, m))
    BY DEF Begins
<1>. QED
    BY <1>1, BeginsOnward

\* The shorter one takes the next message.
LEMMA BeginsNext ==
    ASSUME NEW s \in Seq(Messages), NEW t \in Seq(Messages), Begins(s, t), Len(s) < Len(t)
    PROVE  Begins(Append(s, t[Len(s) + 1]), t)
<1>. DEFINE k == Len(s)
            l == Len(t)
            m == t[k + 1]
            u == Append(s, m)
<1>1. k \in Nat /\ l \in Nat /\ k < l
    OBVIOUS
<1>2. k + 1 \in 1..l /\ 1..(k + 1) = 1..k \cup {k + 1}
    BY <1>1
<1>3. m \in Messages
    BY <1>2, ElementOfSeq
<1>4. \A i \in 1..k : s[i] = t[i]
    BY DEF Begins
<1>5. Len(u) = k + 1 /\ u[k + 1] = m /\ \A i \in 1..k : u[i] = s[i]
    BY <1>3
<1>6. \A i \in 1..(k + 1) : u[i] = t[i]
    BY <1>2, <1>4, <1>5
<1>7. k + 1 <= l
    BY <1>1
<1>8. Len(u) <= Len(t)
    BY <1>5, <1>7
<1>. QED
    BY <1>5, <1>6, <1>8 DEF Begins

LEMMA BeginsConcat ==
    ASSUME NEW s \in Seq(Messages), NEW t \in Seq(Messages)
    PROVE  Begins(s, s \o t)
<1>1. Len(s) \in Nat /\ Len(t) \in Nat /\ s \o t \in Seq(Messages) /\ Len(s \o t) = Len(s) + Len(t)
    BY ConcatProperties
<1>2. \A i \in 1..Len(s) : (s \o t)[i] = s[i]
    BY <1>1, ConcatProperties
<1>3. Len(s) <= Len(s \o t)
    BY <1>1
<1>. QED
    BY <1>2, <1>3 DEF Begins

\* A stream and its next message, taken from what waits for it.
LEMMA BeginsMoved ==
    ASSUME NEW s \in Seq(Messages), NEW t \in Seq(Messages), t # <<>>
    PROVE  Begins(Append(s, Head(t)), s \o t)
<1>1. Append(s, Head(t)) \o Tail(t) = s \o t
    BY ClientAssumed, C!Moved
<1>2. Head(t) \in Messages /\ Tail(t) \in Seq(Messages)
    OBVIOUS
<1>3. Append(s, Head(t)) \in Seq(Messages)
    BY <1>2
<1>. QED
    BY <1>1, <1>2, <1>3, BeginsConcat

-----------------------------------------------------------------------------
\* The invariant.

\* What was read at one end is the beginning of what was written at the other.
Carried(c) ==
    /\ Begins(DecryptAll(uploaded[c]), typed[c]) /\ Begins(sent[c], DecryptAll(uploaded[c]))
    /\ Begins(DecryptAll(downloaded[c]), got[c]) /\ Begins(shown[c], DecryptAll(downloaded[c]))

\* An application greets, asks once it was answered, and then sends its data.
Polite(c) ==
    /\ Len(typed[c]) <= MaxUp + 2
    /\ \A i \in 1..Len(typed[c]) :
         /\ i = 1 => typed[c][i] = Plain("noauth", c, 0)
         /\ i = 2 => Heard(c, "method") /\ \E k \in Requests : typed[c][i] = Plain(k, c, 0)
         /\ i > 2 => Heard(c, "reply") /\ typed[c][i] = Plain("data", c, i - 2)

\* What a target has is what the server had read after the request, even after the release.
FetchedOwn(c) == \A i \in 1..Len(fetched[c]) :
    i + 2 \in 1..Len(sent[c]) /\ fetched[c][i] = sent[c][i + 2]

Wire(c) == Carried(c) /\ Polite(c) /\ FetchedOwn(c)

TunnelInv == ~ub =>
    /\ S!StreamInv
    /\ C!TypeOK /\ C!IInv /\ C!StreamsWhole
    /\ \A c \in Conn : Wire(c)

LEMMA Types ==
    ASSUME S!StreamInv, C!TypeOK, NEW c \in Conn
    PROVE  /\ typed \in [Conn -> Seq(Messages)] /\ shown \in [Conn -> Seq(Messages)]
           /\ uploaded \in [Conn -> Seq(Messages)] /\ downloaded \in [Conn -> Seq(Messages)]
           /\ sent \in [Conn -> Seq(Messages)] /\ got \in [Conn -> Seq(Messages)]
           /\ fetched \in [Conn -> Seq(Messages)] /\ served \in [Conn -> Nat]
           /\ typed[c] \in Seq(Messages) /\ shown[c] \in Seq(Messages)
           /\ uploaded[c] \in Seq(Messages) /\ downloaded[c] \in Seq(Messages)
           /\ sent[c] \in Seq(Messages) /\ got[c] \in Seq(Messages)
           /\ fetched[c] \in Seq(Messages) /\ served[c] \in Nat
           /\ DecryptAll(uploaded[c]) \in Seq(Messages)
           /\ DecryptAll(downloaded[c]) \in Seq(Messages)
           /\ uplink[c].out \in Seq(Messages) /\ local[c].out \in Seq(Messages)
           /\ self[c].in \in Seq(Messages) /\ self[c].out \in Seq(Messages)
           /\ remote[c].in \in Seq(Messages) /\ remote[c].out \in Seq(Messages)
<1>1. /\ typed \in [Conn -> Seq(Messages)] /\ shown \in [Conn -> Seq(Messages)]
      /\ uploaded \in [Conn -> Seq(Messages)] /\ downloaded \in [Conn -> Seq(Messages)]
      /\ uplink[c] \in C!Pipes /\ local[c] \in C!Pipes
    BY SameMessages DEF C!TypeOK
<1>2. S!TypeOK
    BY DEF S!StreamInv, S!IInv
<1>3. /\ sent \in [Conn -> Seq(Messages)] /\ got \in [Conn -> Seq(Messages)]
      /\ fetched \in [Conn -> Seq(Messages)] /\ served \in [Conn -> Nat]
      /\ self[c].in \in Seq(Messages) /\ self[c].out \in Seq(Messages)
      /\ remote[c].in \in Seq(Messages) /\ remote[c].out \in Seq(Messages)
    BY <1>2, SameMessages DEF S!TypeOK, S!Bufferevents
<1>4. uplink[c].out \in Seq(Messages) /\ local[c].out \in Seq(Messages)
    BY <1>1, SameMessages DEF C!Pipes, C!Bufferevents
<1>. QED
    BY <1>1, <1>3, <1>4, StreamTypes

-----------------------------------------------------------------------------
\* A step is one of the client's or one of the server's.

ClientMoves(c) ==
    \/ InClient(Client!listen_cb(c)) \/ AppSends(c) \/ AppLeaves(c) \/ AppReceives(c)
    \/ Handshake(c) \/ Unreachable(c) \/ Uploads(c) \/ ClientReads(c)
    \/ ClientSeesEnd(c) \/ ClientTimesOut(c)

ServerMoves(c) ==
    \/ Accepts(c) \/ ServerReads(c) \/ ServerWrites(c) \/ ServerSeesEnd(c)
    \/ ServerRuns(c) \/ Target(c)

LEMMA Moves == Next => \E c \in Conn : ClientMoves(c) \/ ServerMoves(c)
BY DEF Next, ClientMoves, ServerMoves

LEMMA ClientOnly == ASSUME NEW c \in Conn, ClientMoves(c) PROVE UNCHANGED serverVars
BY DEF ClientMoves, AppSends, AppLeaves, AppReceives, Handshake, Unreachable, Uploads,
       ClientReads, ClientSeesEnd, ClientTimesOut, InClient

-----------------------------------------------------------------------------
\* The server's steps are steps of what was proved of the server alone.

\* What an application was shown has left the server before.
LEMMA ShownIsGot ==
    ASSUME S!StreamInv, C!TypeOK, NEW c \in Conn, Carried(c)
    PROVE  /\ Begins(shown[c], got[c]) /\ Begins(sent[c], typed[c])
           /\ \A kind : Heard(c, kind) => S!Heard(c, kind)
<1>1. Begins(shown[c], got[c]) /\ Begins(sent[c], typed[c])
    BY Types, BeginsOnward DEF Carried
<1>2. shown[c] \in Seq(Messages) /\ got[c] \in Seq(Messages)
    BY Types
<1>3. \A i \in DOMAIN shown[c] : i \in DOMAIN got[c] /\ got[c][i] = shown[c][i]
    BY <1>1, <1>2, BeginsAt
<1>. QED
    BY <1>1, <1>3, SameOperators DEF Heard, S!Heard

\* What the server reads next is what a client of its protocol would send.
LEMMA ReadsPolite ==
    ASSUME S!StreamInv, C!TypeOK, NEW c \in Conn, Carried(c), Polite(c),
           Len(sent[c]) < Len(uploaded[c])
    PROVE  /\ Decrypt(uploaded[c][Len(sent[c]) + 1]) = DecryptAll(uploaded[c])[Len(sent[c]) + 1]
           /\ Decrypt(uploaded[c][Len(sent[c]) + 1]) \in S!NextMessages(c)
<1>. DEFINE n == Len(sent[c])
            u == Len(uploaded[c])
            t == Len(typed[c])
            m == Decrypt(uploaded[c][n + 1])
<1>1. /\ sent[c] \in Seq(Messages) /\ uploaded[c] \in Seq(Messages) /\ typed[c] \in Seq(Messages)
      /\ n \in Nat /\ u \in Nat /\ t \in Nat /\ MaxUp \in Nat
    BY Types, TunnelAssumption
<1>2. /\ Len(DecryptAll(uploaded[c])) = u
      /\ \A i \in 1..u : DecryptAll(uploaded[c])[i] = Decrypt(uploaded[c][i])
    BY <1>1, StreamTypes
<1>3. u <= t /\ \A i \in 1..u : DecryptAll(uploaded[c])[i] = typed[c][i]
    BY <1>2 DEF Carried, Begins
<1>4. t <= MaxUp + 2 /\ n < u
    BY DEF Polite
<1>5. n + 1 \in 1..u /\ n + 1 \in 1..t /\ n + 1 <= MaxUp + 2 /\ n < MaxUp + 2
    <2>. HIDE DEF n, u, t
    <2>. QED
        BY <1>1, <1>3, <1>4
<1>6. m = DecryptAll(uploaded[c])[n + 1] /\ m = typed[c][n + 1]
    BY <1>2, <1>3, <1>5
<1>7. /\ n + 1 = 1 => m = Plain("noauth", c, 0)
      /\ n + 1 = 2 => S!Heard(c, "method") /\ \E k \in Requests : m = Plain(k, c, 0)
      /\ n + 1 > 2 => S!Heard(c, "reply") /\ m = Plain("data", c, n + 1 - 2)
    BY <1>5, <1>6, ShownIsGot DEF Polite
<1>8. m \in S!NextMessages(c)
    <2>1. /\ n = 0 => m = S!Plain("noauth", c, 0)
          /\ n = 1 => S!Heard(c, "method") /\ \E k \in Requests : m = S!Plain(k, c, 0)
          /\ n > 1 => S!Heard(c, "reply") /\ m = S!Plain("data", c, n - 1)
          /\ n < MaxUp + 2
          /\ n = 0 \/ n = 1 \/ n > 1
          /\ n \in Nat
        <3>. HIDE DEF n, m
        <3>1. /\ n = 0 => n + 1 = 1
              /\ n = 1 => n + 1 = 2
              /\ n > 1 => n + 1 > 2 /\ n + 1 - 2 = n - 1
              /\ n = 0 \/ n = 1 \/ n > 1
            BY <1>1
        <3>. QED
            BY <1>1, <1>5, <1>7, <3>1, SameOperators
    <2>. HIDE DEF m
    <2>2. CASE n = 0
        BY <2>1, <2>2 DEF S!NextMessages
    <2>3. CASE n = 1
        BY <2>1, <2>3 DEF S!NextMessages
    <2>4. CASE n > 1
        <3>1. n # 0 /\ n # 1
            <4>. HIDE DEF n
            <4>. QED
                BY <2>1, <2>4
        <3>. QED
            BY <2>1, <2>4, <3>1 DEF S!NextMessages
    <2>. QED
        BY <2>1, <2>2, <2>3, <2>4
<1>. QED
    BY <1>6, <1>8

\* What a step of the server does to the streams that the other end or a target sees.
Reads(c) ==
    /\ Len(sent[c]) < Len(uploaded[c])
    /\ sent' = [sent EXCEPT ![c] = Append(@, DecryptAll(uploaded[c])[Len(sent[c]) + 1])]
    /\ UNCHANGED <<got, fetched>>
Writes(c) ==
    /\ \E m \in Messages : got' = [got EXCEPT ![c] = Append(@, m)]
    /\ UNCHANGED <<sent, fetched>>
Gives(c) ==
    /\ S!CanWrite(remote[c])
    /\ fetched' = [fetched EXCEPT ![c] = Append(@, Head(remote[c].out))]
    /\ UNCHANGED <<sent, got>>

LEMMA ServerForms ==
    ASSUME S!StreamInv, C!TypeOK, NEW c \in Conn, Wire(c), ServerMoves(c)
    PROVE  /\ S!Next /\ UNCHANGED <<clientVars, linked>>
           /\ Reads(c) \/ Writes(c) \/ Gives(c) \/ UNCHANGED <<sent, got, fetched>>
<1>2. CASE Accepts(c)
    BY <1>2, ServerSteps DEF Accepts, InServer, S!Next, S!listen_cb, S!network
<1>3. CASE ServerReads(c)
    <2>1. Decrypt(uploaded[c][Len(sent[c]) + 1]) = DecryptAll(uploaded[c])[Len(sent[c]) + 1]
          /\ Decrypt(uploaded[c][Len(sent[c]) + 1]) \in S!NextMessages(c)
        BY <1>3, ReadsPolite DEF ServerReads, InServer, Wire
    <2>2. S!SelfReceives(c, Decrypt(uploaded[c][Len(sent[c]) + 1]))
          /\ UNCHANGED <<clientVars, linked>>
        BY <1>3, ServerSteps DEF ServerReads, InServer
    <2>3. S!Next
        BY <2>1, <2>2 DEF S!Next, S!Environment, S!ClientSends
    <2>4. Reads(c)
        BY <1>3, <2>1, <2>2 DEF ServerReads, InServer, S!SelfReceives, Reads
    <2>. QED
        BY <2>2, <2>3, <2>4
<1>4. CASE ServerWrites(c)
    <2>1. S!ClientReceives(c) /\ UNCHANGED <<clientVars, linked>>
        BY <1>4, ServerSteps DEF ServerWrites, InServer
    <2>2. S!Next
        BY <2>1 DEF S!Next, S!Environment
    <2>3. Writes(c)
        <3>1. self[c].out \in Seq(Messages) /\ self[c].out # <<>>
            BY <2>1, Types DEF S!ClientReceives, S!CanWrite
        <3>2. S!Decrypt(Head(self[c].out)) \in Messages
            BY <3>1, MessageTypes, SameOperators
        <3>. QED
            BY <2>1, <3>2 DEF S!ClientReceives, Writes
    <2>. QED
        BY <2>1, <2>2, <2>3
<1>5. CASE ServerSeesEnd(c)
    BY <1>5, ServerSteps DEF ServerSeesEnd, InServer, S!Next, S!Environment, S!ClientLeaves, S!network
<1>6. CASE ServerRuns(c)
    <2>1. (S!Callback(c) \/ S!LookupReturns(c) \/ S!ReadTimeout(c)) /\ UNCHANGED <<clientVars, linked>>
        BY <1>6, ServerSteps DEF ServerRuns, InServer
    <2>2. S!Next
        BY <2>1 DEF S!Next
    <2>3. UNCHANGED <<sent, got, fetched>>
        BY <2>1 DEF S!Callback, S!LookupReturns, S!ReadTimeout, S!network, S!SelfRead, S!SelfEvent,
           S!RemoteConnected, S!RemoteRead, S!RemoteEvent, S!handle_first, S!handle_second,
           S!handle_last, S!Dropped, S!RequestIPv4, S!RequestDomain
    <2>. QED
        BY <2>1, <2>2, <2>3
<1>7. CASE Target(c)
    <2>1. /\ S!ConnectEnds(c) \/ S!TargetSends(c) \/ S!TargetReceives(c) \/ S!TargetLeaves(c)
          /\ UNCHANGED <<clientVars, linked>>
        BY <1>7, ServerSteps DEF Target, InServer
    <2>2. S!Next
        BY <2>1 DEF S!Next, S!Environment
    <2>3. Gives(c) \/ UNCHANGED <<sent, got, fetched>>
        BY <2>1 DEF S!ConnectEnds, S!TargetSends, S!TargetReceives, S!TargetLeaves, S!network, Gives
    <2>. QED
        BY <2>1, <2>2, <2>3
<1>. QED
    BY <1>2, <1>3, <1>4, <1>5, <1>6, <1>7 DEF ServerMoves

\* A deleted object that was used stays used.
LEMMA MisuseStays == ub /\ [Next]_vars => ub'
<1>1. ASSUME ub, UNCHANGED serverVars PROVE ub'
    BY <1>1 DEF serverVars
<1>2. ASSUME ub, NEW c \in Conn, ServerReads(c) PROVE ub'
    BY <1>2, ServerSteps DEF ServerReads, InServer, S!SelfReceives
<1>3. ASSUME ub, NEW c \in Conn,
             Accepts(c) \/ ServerWrites(c) \/ ServerSeesEnd(c) \/ ServerRuns(c) \/ Target(c)
      PROVE  ub'
    <2>1. S!Next
        BY <1>3, ServerSteps DEF Accepts, ServerWrites, ServerSeesEnd, ServerRuns, Target, InServer,
           S!Next, S!Environment
    <2>. QED
        BY <1>3, <2>1, ServerAssumed, S!MisuseStays
<1>4. UNCHANGED vars => UNCHANGED serverVars
    BY DEF vars
<1>. QED
    BY <1>1, <1>2, <1>3, <1>4, Moves, ClientOnly DEF ServerMoves

-----------------------------------------------------------------------------
\* The client's steps are steps of what was proved of the client alone.

Says(c) == \E m \in Saying(c) : C!TakesUp(c, m)
Brings(c) ==
    /\ Len(downloaded[c]) < Len(got[c])
    /\ C!TakesDown(c, Encrypt(got[c][Len(downloaded[c]) + 1]))

LEMMA SayingTypes ==
    ASSUME C!TypeOK, NEW c \in Conn, NEW m \in Saying(c)
    PROVE  m \in Messages
<1>. DEFINE n == Len(typed[c])
<1>1. /\ \A k \in Requests : Plain(k, c, 0) \in Messages
      /\ Plain("noauth", c, 0) \in Messages
      /\ \A i \in Nat : Plain("data", c, i) \in Messages
    BY TunnelAssumption DEF Messages, MessagesOf, Kinds, AllGreetings, AllRequests, Plain
<1>2. n \in Nat => (n > 1 => n - 1 \in Nat)
    OBVIOUS
<1>3. n \in Nat
    BY DEF C!TypeOK
<1>. HIDE DEF n
<1>. QED
    BY <1>1, <1>2, <1>3 DEF Saying, n

LEMMA ClientForms ==
    ASSUME S!StreamInv, C!TypeOK, C!IInv, NEW c \in Conn, ClientMoves(c)
    PROVE  /\ UNCHANGED serverVars
           /\ Says(c) \/ Brings(c) \/ C!Other(c)
           /\ C!Amounts(c)
<1>. USE ClientAssumed
<1>1. UNCHANGED serverVars
    BY ClientOnly
<1>2. CASE AppSends(c)
    <2>1. PICK m \in Saying(c) : C!LocalReads(c, m)
        BY <1>2, ClientSteps DEF AppSends, InClient
    <2>2. m \in Messages
        BY SayingTypes
    <2>3. C!TakesUp(c, m)
        BY <2>1, <2>2, SameMessages, C!TakesUpForm
    <2>. QED
        BY <1>1, <2>2, <2>3, SameMessages DEF Says, C!Amounts, C!TookUp
<1>3. CASE ClientReads(c)
    <2>. DEFINE m == Encrypt(got[c][Len(downloaded[c]) + 1])
    <2>1. Len(downloaded[c]) < Len(got[c]) /\ C!RemoteReads(c, m)
        BY <1>3, ClientSteps DEF ClientReads, InClient
    <2>2. m \in Messages
        <3>1. downloaded[c] \in Seq(Messages) /\ got[c] \in Seq(Messages)
            BY Types
        <3>2. got[c][Len(downloaded[c]) + 1] \in Messages
            BY <2>1, <3>1
        <3>. QED
            BY <3>2, MessageTypes
    <2>3. C!TakesDown(c, m)
        BY <2>1, <2>2, SameMessages, C!TakesDownForm
    <2>. QED
        BY <1>1, <2>1, <2>2, <2>3, SameMessages DEF Brings, C!Amounts, C!TookDown
<1>4. CASE InClient(Client!listen_cb(c)) \/ AppLeaves(c) \/ AppReceives(c) \/ Handshake(c)
           \/ Unreachable(c) \/ Uploads(c) \/ ClientSeesEnd(c) \/ ClientTimesOut(c)
    <2>1. \/ C!listen_cb(c) \/ C!LocalEnds(c) \/ C!LocalWrites(c) \/ C!RemoteConnects(c)
          \/ C!RemoteRefused(c) \/ C!RemoteWrites(c) \/ C!RemoteEnds(c) \/ C!RemoteTimesOut(c)
        BY <1>4, ClientSteps DEF AppLeaves, AppReceives, Handshake, Unreachable, Uploads, ClientSeesEnd,
           ClientTimesOut, InClient
    <2>2. C!Other(c)
        BY <2>1, C!AcceptedForm, C!NearEndedForm, C!GaveNearForm, C!JoinedForm, C!FarEndedForm,
           C!GaveFarForm, C!SilencedForm DEF C!Other
    <2>. QED
        BY <1>1, <2>2 DEF C!Amounts
<1>. QED
    BY <1>2, <1>3, <1>4 DEF ClientMoves

-----------------------------------------------------------------------------
\* What a step does to the wire.

LEMMA WireSame ==
    ASSUME NEW x \in Conn, Wire(x), typed'[x] = typed[x], shown'[x] = shown[x],
           uploaded'[x] = uploaded[x], downloaded'[x] = downloaded[x], sent'[x] = sent[x],
           got'[x] = got[x], fetched'[x] = fetched[x]
    PROVE  Wire(x)'
BY DEF Wire, Carried, Polite, FetchedOwn, Heard

LEMMA PoliteKept ==
    ASSUME NEW c \in Conn, shown[c] \in Seq(Messages), NEW s \in Seq(Messages), shown'[c] = s,
           Begins(shown[c], s), Polite(c), typed'[c] = typed[c]
    PROVE  Polite(c)'
<1>1. \A i \in DOMAIN shown[c] : i \in DOMAIN s /\ s[i] = shown[c][i]
    BY BeginsAt
<1>2. \A kind : Heard(c, kind) => Heard(c, kind)'
    BY <1>1 DEF Heard
<1>. QED
    BY <1>2 DEF Polite

LEMMA PoliteSays ==
    ASSUME C!TypeOK, NEW c \in Conn, Polite(c), NEW m \in Saying(c),
           typed'[c] = Append(typed[c], m), shown'[c] = shown[c]
    PROVE  Polite(c)'
<1>. DEFINE n == Len(typed[c])
<1>1. typed[c] \in Seq(Messages) /\ n \in Nat /\ m \in Messages /\ MaxUp \in Nat
    BY SameMessages, SayingTypes, TunnelAssumption DEF C!TypeOK
<1>2. /\ Len(typed'[c]) = n + 1 /\ typed'[c][n + 1] = m
      /\ \A i \in 1..n : typed'[c][i] = typed[c][i]
    BY <1>1
<1>3. \A kind : Heard(c, kind)' <=> Heard(c, kind)
    BY DEF Heard
<1>4. /\ n = 0 => m = Plain("noauth", c, 0)
      /\ n = 1 => Heard(c, "method") /\ \E k \in Requests : m = Plain(k, c, 0)
      /\ n > 1 => n < MaxUp + 2 /\ Heard(c, "reply") /\ m = Plain("data", c, n - 1)
    <2>. HIDE DEF n
    <2>1. n # 0 \/ n # 1
        BY <1>1
    <2>2. n > 1 => n # 0 /\ n # 1
        BY <1>1
    <2>3. CASE n = 0
        BY <1>1, <2>2, <2>3 DEF Saying, n
    <2>4. CASE n # 0
        BY <1>1, <2>2, <2>4 DEF Saying, n
    <2>. QED
        BY <2>3, <2>4
<1>. HIDE DEF n
<1>5. n + 1 <= MaxUp + 2
    <2>1. n = 0 \/ n = 1 \/ n > 1
        BY <1>1
    <2>. QED
        BY <1>1, <1>4, <2>1
<1>6. /\ \A i \in 1..(n + 1) : i \in 1..n \/ i = n + 1
      /\ n + 1 = 1 => n = 0
      /\ n + 1 = 2 => n = 1
      /\ n + 1 > 2 => n > 1 /\ n + 1 - 2 = n - 1
    BY <1>1
<1>7. ASSUME NEW i \in 1..n
      PROVE  /\ i = 1 => typed'[c][i] = Plain("noauth", c, 0)
             /\ i = 2 => Heard(c, "method")' /\ \E k \in Requests : typed'[c][i] = Plain(k, c, 0)
             /\ i > 2 => Heard(c, "reply")' /\ typed'[c][i] = Plain("data", c, i - 2)
    BY <1>2, <1>3 DEF Polite, n
<1>8. /\ n + 1 = 1 => m = Plain("noauth", c, 0)
      /\ n + 1 = 2 => Heard(c, "method")' /\ \E k \in Requests : m = Plain(k, c, 0)
      /\ n + 1 > 2 => Heard(c, "reply")' /\ m = Plain("data", c, n + 1 - 2)
    BY <1>3, <1>4, <1>6
<1>9. ASSUME NEW i \in 1..(n + 1)
      PROVE  /\ i = 1 => typed'[c][i] = Plain("noauth", c, 0)
             /\ i = 2 => Heard(c, "method")' /\ \E k \in Requests : typed'[c][i] = Plain(k, c, 0)
             /\ i > 2 => Heard(c, "reply")' /\ typed'[c][i] = Plain("data", c, i - 2)
    <2>1. CASE i \in 1..n
        BY <1>7, <2>1
    <2>2. CASE i = n + 1
        <3>1. typed'[c][i] = m
            BY <1>2, <2>2
        <3>2. /\ i = 1 => m = Plain("noauth", c, 0)
              /\ i = 2 => Heard(c, "method")' /\ \E k \in Requests : m = Plain(k, c, 0)
              /\ i > 2 => Heard(c, "reply")' /\ m = Plain("data", c, i - 2)
            BY <1>1, <1>8, <2>2
        <3>. QED
            BY <3>1, <3>2
    <2>. QED
        BY <1>6, <2>1, <2>2
<1>. QED
    BY <1>2, <1>5, <1>9 DEF Polite

\* What left the client for its target is what the server read after the request.
LEMMA FlowOwn ==
    ASSUME S!StreamInv, C!TypeOK, ~ub, NEW c \in Conn, S!Socket(remote[c])
    PROVE  /\ S!Flow(c) \in Seq(Messages)
           /\ S!Flow(c) = fetched[c] \o remote[c].out \o DecryptAll(self[c].in)
           /\ Len(sent[c]) > 1 /\ Len(S!Flow(c)) = Len(sent[c]) - 2
           /\ \A j \in 1..Len(S!Flow(c)) :
                j + 2 \in 1..Len(sent[c]) /\ S!Flow(c)[j] = sent[c][j + 2]
<1>. DEFINE n == Len(sent[c])
            l == Len(S!Flow(c))
<1>1. S!Relaying(c) /\ S!Intact(c) /\ S!TypeOK
    BY ServerAssumed, S!WithTarget DEF S!StreamInv, S!Streams, S!IInv
<1>2. S!Flow(c) \in Seq(Messages) /\ n \in Nat /\ l \in Nat /\ S!DataCount(c) \in Nat
    BY <1>1, ServerAssumed, SameMessages, S!TypesAt
<1>3. n > 1 /\ l = S!DataCount(c)
    BY <1>1 DEF S!Relaying, S!Asked
<1>4. S!DataCount(c) = n - 2
    <2>1. S!DataCount(c) = IF n > 2 THEN n - 2 ELSE 0
        BY DEF S!DataCount
    <2>. HIDE DEF n
    <2>. QED
        BY <1>2, <1>3, <2>1
<1>5. S!Flow(c) = fetched[c] \o remote[c].out \o DecryptAll(self[c].in)
    BY SameOperators DEF S!Flow
<1>6. ASSUME NEW j \in 1..l
      PROVE  j + 2 \in 1..n /\ S!Flow(c)[j] = sent[c][j + 2]
    <2>1. S!Flow(c)[j] = S!Plain("data", c, S!DataCount(c) - l + j)
        BY <1>1 DEF S!Relaying, S!LastOf
    <2>2. S!DataCount(c) - l + j = j /\ j + 2 \in 1..n /\ j + 2 > 2 /\ j + 2 - 2 = j
        <3>. HIDE DEF n, l
        <3>. QED
            BY <1>2, <1>3, <1>4
    <2>3. sent[c][j + 2] = S!Plain("data", c, j + 2 - 2)
        BY <1>1, <2>2 DEF S!Intact, S!InProtocol
    <2>. QED
        BY <2>1, <2>2, <2>3
<1>. QED
    BY <1>2, <1>3, <1>4, <1>5, <1>6

LEMMA GivesOwn ==
    ASSUME S!StreamInv, C!TypeOK, ~ub, NEW c \in Conn, Gives(c)
    PROVE  FetchedOwn(c)'
<1>. DEFINE f == fetched[c]
            o == remote[c].out
            d == DecryptAll(self[c].in)
            g == Append(f, Head(o))
<1>1. /\ f \in Seq(Messages) /\ o \in Seq(Messages) /\ d \in Seq(Messages)
      /\ fetched \in [Conn -> Seq(Messages)]
    BY Types, StreamTypes
<1>2. /\ S!Socket(remote[c]) /\ o # <<>> /\ fetched'[c] = g /\ sent' = sent
    BY <1>1, ServerAssumed DEF Gives, S!CanWrite, S!Socket, S!Open
<1>3. /\ S!Flow(c) \in Seq(Messages) /\ S!Flow(c) = f \o o \o d
      /\ \A j \in 1..Len(S!Flow(c)) :
                j + 2 \in 1..Len(sent[c]) /\ S!Flow(c)[j] = sent[c][j + 2]
    BY <1>2, FlowOwn
<1>4. Begins(g, S!Flow(c)) /\ g \in Seq(Messages)
    <2>. HIDE DEF d
    <2>1. f \o o \in Seq(Messages) /\ Head(o) \in Messages
        BY <1>1, <1>2
    <2>2. g \in Seq(Messages)
        BY <1>1, <2>1
    <2>3. Begins(g, f \o o)
        BY <1>1, <1>2, BeginsMoved
    <2>4. Begins(f \o o, (f \o o) \o d)
        BY <1>1, <2>1, BeginsConcat
    <2>. HIDE DEF g, f, o
    <2>. QED
        BY <1>3, <2>1, <2>2, <2>3, <2>4, BeginsOnward
<1>. HIDE DEF g
<1>5. \A j \in 1..Len(g) : j \in 1..Len(S!Flow(c)) /\ g[j] = S!Flow(c)[j]
    <2>. DEFINE l == S!Flow(c)
    <2>. HIDE DEF l
    <2>1. l \in Seq(Messages) /\ Begins(g, l) /\ g \in Seq(Messages)
        BY <1>3, <1>4 DEF l
    <2>. QED
        BY <2>1, BeginsAt DEF l
<1>. QED
    BY <1>2, <1>3, <1>5 DEF FetchedOwn

LEMMA ServerKeepsWire ==
    ASSUME S!StreamInv, C!TypeOK, ~ub, NEW c \in Conn, ServerMoves(c), Wire(c),
           NEW x \in Conn, Wire(x)
    PROVE  Wire(x)'
<1>1. /\ UNCHANGED clientVars
      /\ Reads(c) \/ Writes(c) \/ Gives(c) \/ UNCHANGED <<sent, got, fetched>>
    BY ServerForms
<1>2. /\ typed'[x] = typed[x] /\ shown'[x] = shown[x]
      /\ uploaded'[x] = uploaded[x] /\ downloaded'[x] = downloaded[x]
    BY <1>1 DEF clientVars
<1>3. CASE UNCHANGED <<sent, got, fetched>>
    BY <1>2, <1>3, WireSame
<1>4. CASE x # c
    BY <1>1, <1>2, <1>4, Types, WireSame DEF Reads, Writes, Gives
<1>. DEFINE u == DecryptAll(uploaded[c])
            s == sent[c]
            g == got[c]
<1>5. /\ u \in Seq(Messages) /\ s \in Seq(Messages) /\ g \in Seq(Messages)
      /\ sent \in [Conn -> Seq(Messages)] /\ got \in [Conn -> Seq(Messages)]
      /\ uploaded[c] \in Seq(Messages) /\ DecryptAll(downloaded[c]) \in Seq(Messages)
    BY Types
<1>6. CASE x = c /\ Reads(c)
    <2>1. Len(s) < Len(u) /\ sent'[c] = Append(s, u[Len(s) + 1])
        BY <1>5, <1>6, StreamTypes DEF Reads
    <2>2. Begins(sent'[c], u)
        <3>1. Begins(s, u)
            BY DEF Wire, Carried
        <3>. HIDE DEF s, u
        <3>. QED
            BY <1>5, <2>1, <3>1, BeginsNext
    <2>3. \A i \in 1..Len(s) : i \in 1..Len(sent'[c]) /\ sent'[c][i] = s[i]
        <3>. DEFINE n == Len(s)
                    m == u[n + 1]
        <3>1. n \in Nat /\ Len(u) \in Nat /\ n < Len(u)
            BY <1>5, <2>1
        <3>2. n + 1 \in 1..Len(u) /\ \A i \in 1..n : i \in 1..(n + 1)
            BY <3>1
        <3>3. m \in Messages
            BY <1>5, <3>2, ElementOfSeq
        <3>. HIDE DEF m
        <3>4. Len(Append(s, m)) = n + 1 /\ \A i \in 1..n : Append(s, m)[i] = s[i]
            BY <1>5, <3>3
        <3>. QED
            BY <2>1, <3>2, <3>4 DEF m
    <2>4. FetchedOwn(c)'
        BY <1>6, <2>3 DEF Reads, Wire, FetchedOwn
    <2>5. Carried(c)'
        BY <1>2, <1>6, <2>2 DEF Reads, Wire, Carried
    <2>. QED
        BY <1>2, <1>6, <2>4, <2>5 DEF Wire, Polite, Heard
<1>7. CASE x = c /\ Writes(c)
    <2>1. PICK m \in Messages : got'[c] = Append(g, m)
        BY <1>5, <1>7 DEF Writes
    <2>2. Begins(DecryptAll(downloaded[c]), got'[c])
        <3>1. Begins(DecryptAll(downloaded[c]), g)
            BY DEF Wire, Carried
        <3>. HIDE DEF g
        <3>. QED
            BY <1>5, <2>1, <3>1, BeginsMore
    <2>3. Carried(c)'
        BY <1>2, <1>7, <2>2 DEF Writes, Wire, Carried
    <2>. QED
        BY <1>2, <1>7, <2>3 DEF Wire, Writes, Polite, Heard, FetchedOwn
<1>8. CASE x = c /\ Gives(c)
    <2>1. FetchedOwn(c)'
        BY <1>8, GivesOwn
    <2>. QED
        BY <1>2, <1>8, <2>1 DEF Wire, Gives, Carried, Polite, Heard
<1>. QED
    BY <1>1, <1>3, <1>4, <1>6, <1>7, <1>8

LEMMA ClientKeepsWire ==
    ASSUME S!StreamInv, C!TypeOK, C!IInv, C!StreamsWhole, NEW c \in Conn, ClientMoves(c), Wire(c),
           NEW x \in Conn, Wire(x)
    PROVE  Wire(x)'
<1>. USE ClientAssumed
<1>1. /\ UNCHANGED serverVars
      /\ Says(c) \/ Brings(c) \/ C!Other(c)
      /\ C!Amounts(c)
    BY ClientForms
<1>2. sent'[x] = sent[x] /\ got'[x] = got[x] /\ fetched'[x] = fetched[x]
    BY <1>1 DEF serverVars
<1>3. CASE x # c
    BY <1>1, <1>2, <1>3, WireSame, C!Locality DEF C!Untouched
<1>. DEFINE t == typed[c]
            u == uploaded[c]
            d == downloaded[c]
            h == shown[c]
            g == got[c]
<1>4. /\ t \in Seq(Messages) /\ u \in Seq(Messages) /\ d \in Seq(Messages)
      /\ h \in Seq(Messages) /\ g \in Seq(Messages)
      /\ DecryptAll(u) \in Seq(Messages) /\ DecryptAll(d) \in Seq(Messages)
      /\ typed \in [Conn -> Seq(Messages)] /\ uploaded \in [Conn -> Seq(Messages)]
      /\ shown \in [Conn -> Seq(Messages)] /\ downloaded \in [Conn -> Seq(Messages)]
      /\ uplink[c].out \in Seq(Messages) /\ local[c].out \in Seq(Messages)
    BY Types
<1>5. /\ Begins(DecryptAll(u), t) /\ Begins(sent[c], DecryptAll(u))
      /\ Begins(DecryptAll(d), g) /\ Begins(h, DecryptAll(d))
    BY DEF Wire, Carried
<1>6. CASE x = c /\ Says(c)
    <2>1. PICK m \in Saying(c) :
            /\ typed'[c] = Append(t, m)
            /\ UNCHANGED <<shown, uploaded, downloaded>>
        BY <1>4, <1>6 DEF Says, C!TakesUp
    <2>2. m \in Messages
        BY SayingTypes
    <2>3. Begins(DecryptAll(u), typed'[c])
        <3>. HIDE DEF t
        <3>. QED
            BY <1>4, <1>5, <2>1, <2>2, BeginsMore
    <2>4. Polite(c)'
        BY <2>1, PoliteSays DEF Wire
    <2>5. Carried(c)'
        BY <1>2, <1>6, <2>1, <2>3 DEF Wire, Carried
    <2>. QED
        BY <1>2, <1>6, <2>4, <2>5 DEF Wire, FetchedOwn
<1>7. CASE x = c /\ Brings(c)
    <2>. DEFINE m == g[Len(d) + 1]
    <2>1. /\ Len(d) < Len(g)
          /\ downloaded'[c] = Append(d, Encrypt(m))
          /\ UNCHANGED <<shown, uploaded, typed>>
        BY <1>4, <1>7 DEF Brings, C!TakesDown
    <2>2. m \in Messages /\ Encrypt(m) \in Messages /\ Decrypt(Encrypt(m)) = m
        <3>1. Len(d) + 1 \in 1..Len(g)
            BY <1>4, <2>1, SMTT(40)
        <3>2. m \in Messages
            BY <1>4, <3>1, ElementOfSeq
        <3>. QED
            BY <3>2, MessageTypes
    <2>3. DecryptAll(downloaded'[c]) = Append(DecryptAll(d), m)
        <3>. HIDE DEF m
        <3>1. DecryptAll(Append(d, Encrypt(m))) = Append(DecryptAll(d), Decrypt(Encrypt(m)))
            BY <1>4, <2>2, StreamAppend
        <3>. QED
            BY <2>1, <2>2, <3>1
    <2>. DEFINE e == DecryptAll(d)
    <2>4. Len(e) = Len(d) /\ e \in Seq(Messages)
        BY <1>4, StreamTypes
    <2>5. Begins(Append(e, m), g)
        <3>1. m = g[Len(e) + 1] /\ Len(e) < Len(g) /\ Begins(e, g)
            BY <1>5, <2>1, <2>4
        <3>. HIDE DEF e, g, m
        <3>2. Begins(Append(e, g[Len(e) + 1]), g)
            BY <1>4, <2>4, <3>1, BeginsNext
        <3>. QED
            BY <3>1, <3>2
    <2>6. Begins(h, Append(e, m))
        <3>. HIDE DEF m
        <3>. QED
            BY <1>4, <1>5, <2>2, <2>4, BeginsMore
    <2>7. Carried(c)'
        BY <1>2, <1>7, <2>1, <2>3, <2>5, <2>6 DEF Wire, Carried
    <2>. QED
        BY <1>2, <1>7, <2>1, <2>7 DEF Wire, FetchedOwn, Polite, Heard
<1>8. CASE x = c /\ C!GaveNear(c)
    <2>. DEFINE o == local[c].out
    <2>1. /\ o # <<>> /\ local[c].st = "open" /\ shown'[c] = Append(h, Head(o))
          /\ UNCHANGED <<typed, uploaded, downloaded>>
        BY <1>4, <1>8 DEF C!GaveNear
    <2>2. h \o o = DecryptAll(d)
        BY <2>1, SameOperators DEF C!StreamsWhole, C!Whole
    <2>3. Begins(shown'[c], DecryptAll(d))
        <3>. HIDE DEF o
        <3>1. Begins(Append(h, Head(o)), h \o o)
            BY <1>4, <2>1, BeginsMoved DEF o
        <3>. QED
            BY <2>1, <2>2, <3>1
    <2>4. Begins(h, shown'[c]) /\ shown'[c] \in Seq(Messages)
        <3>1. Head(o) \in Messages
            BY <1>4, <2>1, SMTT(40)
        <3>. HIDE DEF o
        <3>2. Begins(h, Append(h, Head(o)))
            BY <1>4, <3>1, BeginsItself, BeginsMore
        <3>. QED
            BY <1>4, <2>1, <3>1, <3>2
    <2>5. Polite(c)'
        BY <1>4, <2>1, <2>4, PoliteKept DEF Wire
    <2>6. Carried(c)'
        BY <1>2, <1>8, <2>1, <2>3 DEF Wire, Carried
    <2>. QED
        BY <1>2, <1>8, <2>5, <2>6 DEF Wire, FetchedOwn
<1>9. CASE x = c /\ C!GaveFar(c)
    <2>. DEFINE o == uplink[c].out
                v == Append(u, Head(o))
    <2>1. /\ o # <<>> /\ uplink[c].st = "open" /\ uploaded'[c] = v
          /\ UNCHANGED <<typed, shown, downloaded>>
        BY <1>4, <1>9 DEF C!GaveFar
    <2>2. u \o o = EncryptAll(t)
        BY <2>1, SameOperators DEF C!StreamsWhole, C!Whole
    <2>3. DecryptAll(v) = Append(DecryptAll(u), Decrypt(Head(o)))
        <3>1. Head(o) \in Messages
            BY <1>4, <2>1, SMTT(40)
        <3>. QED
            BY <1>4, <3>1, StreamAppend
    <2>4. Begins(DecryptAll(v), t)
        <3>1. DecryptAll(u \o o) = DecryptAll(u) \o DecryptAll(o) /\ DecryptAll(EncryptAll(t)) = t
            BY <1>4, DecryptConcat, StreamInverse
        <3>. DEFINE p == DecryptAll(u)
                    q == DecryptAll(o)
        <3>2. /\ p \in Seq(Messages) /\ q \in Seq(Messages) /\ q # <<>>
              /\ Head(q) = Decrypt(Head(o))
            <4>1. /\ Len(q) = Len(o) /\ q \in Seq(Messages)
                  /\ \A i \in 1..Len(o) : q[i] = Decrypt(o[i])
                BY <1>4, StreamTypes
            <4>2. Len(o) \in Nat \ {0} /\ 1 \in 1..Len(o) /\ Head(o) = o[1]
                BY <1>4, <2>1, EmptySeq
            <4>. HIDE DEF q
            <4>3. q # <<>> /\ Head(q) = q[1]
                BY <4>1, <4>2
            <4>. QED
                BY <1>4, <4>1, <4>2, <4>3
        <3>. HIDE DEF p, q
        <3>3. Begins(Append(p, Head(q)), p \o q)
            BY <3>2, BeginsMoved
        <3>. QED
            BY <2>2, <2>3, <3>1, <3>2, <3>3 DEF p, q
    <2>5. Begins(sent[c], DecryptAll(v))
        <3>1. Decrypt(Head(o)) \in Messages
            <4>1. Head(o) \in Messages
                BY <1>4, <2>1, SMTT(40)
            <4>. QED
                BY <4>1, MessageTypes
        <3>2. sent[c] \in Seq(Messages)
            BY Types
        <3>. QED
            BY <1>4, <1>5, <2>3, <3>1, <3>2, BeginsMore
    <2>6. Carried(c)'
        BY <1>2, <1>9, <2>1, <2>4, <2>5 DEF Wire, Carried
    <2>. QED
        BY <1>2, <1>9, <2>1, <2>6 DEF Wire, FetchedOwn, Polite, Heard
<1>10. CASE x = c /\ C!Other(c) /\ ~C!GaveNear(c) /\ ~C!GaveFar(c)
    <2>1. UNCHANGED <<typed, shown, uploaded, downloaded>>
        BY <1>10 DEF C!Other, C!Accepted, C!NearEnded, C!FarEnded, C!Silenced, C!Joined, C!peers, C!streams
    <2>. QED
        BY <1>2, <2>1, WireSame
<1>. QED
    BY <1>1, <1>3, <1>6, <1>7, <1>8, <1>9, <1>10

-----------------------------------------------------------------------------
\* The induction.

LEMMA InitTunnel == Init => TunnelInv
<1>. SUFFICES ASSUME Init PROVE TunnelInv
    OBVIOUS
<1>1. S!StreamInv
    BY SameInit, ServerAssumed, S!InitInvariant
<1>2. C!TypeOK /\ C!IInv /\ C!StreamsWhole
    BY SameInit, ClientAssumed, C!InitType, C!InitHolds, C!InitStreams
<1>3. ASSUME NEW c \in Conn PROVE Wire(c)
    <2>1. /\ typed[c] = <<>> /\ shown[c] = <<>> /\ uploaded[c] = <<>> /\ downloaded[c] = <<>>
          /\ sent[c] = <<>> /\ got[c] = <<>> /\ fetched[c] = <<>>
        BY DEF Init, Client!Init, Server!Init
    <2>2. <<>> \in Seq(Messages) /\ Len(<<>>) = 0
        OBVIOUS
    <2>3. DecryptAll(<<>>) = <<>>
        BY <2>2, StreamTypes, EmptySeq
    <2>4. Begins(<<>>, <<>>)
        BY <2>2, BeginsItself
    <2>5. Polite(c)
        BY <2>1, <2>2, TunnelAssumption DEF Polite
    <2>. QED
        BY <2>1, <2>2, <2>3, <2>4, <2>5 DEF Wire, Carried, FetchedOwn
<1>. QED
    BY <1>1, <1>2, <1>3 DEF TunnelInv

LEMMA NextTunnel == TunnelInv /\ [Next]_vars => TunnelInv'
<1>. USE ServerAssumed, ClientAssumed
<1>. SUFFICES ASSUME TunnelInv, [Next]_vars, ~ub'
              PROVE  /\ S!StreamInv' /\ C!TypeOK' /\ C!IInv' /\ C!StreamsWhole'
                     /\ \A x \in Conn : Wire(x)'
    BY DEF TunnelInv
<1>1. ~ub /\ S!StreamInv /\ C!TypeOK /\ C!IInv /\ C!StreamsWhole /\ \A x \in Conn : Wire(x)
    BY MisuseStays DEF TunnelInv
<1>2. ASSUME UNCHANGED clientVars
      PROVE  C!TypeOK' /\ C!IInv' /\ C!StreamsWhole'
    <2>1. UNCHANGED C!vars
        BY <1>2 DEF clientVars, C!vars, C!peers, C!streams
    <2>2. C!StreamsWhole'
        BY <1>1, <1>2 DEF clientVars, C!StreamsWhole, C!Whole
    <2>. QED
        BY <1>1, <2>1, <2>2, C!NextInvariant
<1>3. ASSUME UNCHANGED serverVars
      PROVE  S!StreamInv'
    <2>1. UNCHANGED S!vars
        BY <1>3 DEF serverVars, S!vars, S!network
    <2>. QED
        BY <1>1, <2>1, S!NextInvariant
<1>4. ASSUME NEW c \in Conn, ServerMoves(c)
      PROVE  /\ S!StreamInv' /\ C!TypeOK' /\ C!IInv' /\ C!StreamsWhole'
             /\ \A x \in Conn : Wire(x)'
    <2>1. S!Next /\ UNCHANGED clientVars
        BY <1>1, <1>4, ServerForms
    <2>2. S!StreamInv'
        BY <1>1, <2>1, S!NextInvariant
    <2>3. \A x \in Conn : Wire(x)'
        BY <1>1, <1>4, ServerKeepsWire
    <2>. QED
        BY <1>2, <2>1, <2>2, <2>3
<1>5. ASSUME NEW c \in Conn, ClientMoves(c)
      PROVE  /\ S!StreamInv' /\ C!TypeOK' /\ C!IInv' /\ C!StreamsWhole'
             /\ \A x \in Conn : Wire(x)'
    <2>1. C!Amounts(c) /\ UNCHANGED serverVars
        BY <1>1, <1>5, ClientForms
    <2>2. C!TypeOK' /\ C!IInv' /\ C!StreamsWhole'
        BY <1>1, <2>1, C!AmountsType, C!AmountsHold, C!AmountsWhole
    <2>3. \A x \in Conn : Wire(x)'
        BY <1>1, <1>5, ClientKeepsWire
    <2>. QED
        BY <1>3, <2>1, <2>2, <2>3
<1>6. CASE UNCHANGED vars
    <2>1. UNCHANGED clientVars /\ UNCHANGED serverVars
        BY <1>6 DEF vars
    <2>2. ASSUME NEW x \in Conn PROVE Wire(x)'
        BY <1>1, <2>1, WireSame DEF clientVars, serverVars
    <2>. QED
        BY <1>2, <1>3, <2>1, <2>2
<1>. QED
    BY <1>4, <1>5, <1>6, Moves

-----------------------------------------------------------------------------
\* What the invariant says of the two ends.

LEMMA BeginsSubSeq ==
    ASSUME NEW s \in Seq(Messages), NEW t \in Seq(Messages), Begins(s, t)
    PROVE  Len(s) \in 0..Len(t) /\ s = SubSeq(t, 1, Len(s))
<1>1. Len(s) \in Nat /\ Len(t) \in Nat /\ Len(s) <= Len(t)
    BY DEF Begins
<1>2. /\ SubSeq(t, 1, Len(s)) \in Seq(Messages) /\ Len(SubSeq(t, 1, Len(s))) = Len(s)
      /\ \A i \in 1..Len(s) : SubSeq(t, 1, Len(s))[i] = t[i]
    BY <1>1, SubSeqProperties
<1>3. \A i \in 1..Len(s) : s[i] = t[i]
    BY DEF Begins
<1>4. s = SubSeq(t, 1, Len(s))
    BY <1>2, <1>3, SeqEqual
<1>5. \A k, l \in Nat : k <= l => k \in 0..l
    OBVIOUS
<1>. QED
    BY <1>1, <1>4, <1>5

LEMMA AppOwn == TunnelInv => AppReadsOnlyItsOwn
<1>. SUFFICES ASSUME TunnelInv, ~ub, NEW c \in Conn
              PROVE  \E n \in 0..Len(Answers(c)) : shown[c] = SubSeq(Answers(c), 1, n)
    BY DEF AppReadsOnlyItsOwn
<1>. USE ServerAssumed
<1>1. S!StreamInv /\ C!TypeOK /\ Carried(c) /\ S!Intact(c) /\ S!TypeOK
    BY DEF TunnelInv, Wire, S!StreamInv, S!Streams, S!IInv
<1>2. /\ shown[c] \in Seq(Messages) /\ got[c] \in Seq(Messages) /\ served[c] \in Nat
      /\ self[c].out \in Seq(Messages) /\ DecryptAll(self[c].out) \in Seq(Messages)
    BY <1>1, Types, StreamTypes
<1>. DEFINE w == S!Written(c)
            a == Answers(c)
            n == served[c]
<1>3. w = got[c] \o DecryptAll(self[c].out) /\ w \in Seq(Messages) /\ Len(w) <= n + 2
    BY <1>1, <1>2, SameOperators, S!Amounts, ConcatProperties DEF TunnelInv, S!Written
<1>4. \A i \in 1..Len(w) : w[i] = S!Answer(c, i)
    BY <1>1 DEF S!Intact, S!InOrder, S!Ordered
<1>5. a \in Seq(Messages) /\ Len(a) = n + 2 /\ \A i \in 1..(n + 2) : a[i] = S!Answer(c, i)
    <2>1. a = <<S!Plain("method", c, 0), S!Plain("reply", c, 0)>> \o S!Data(c, n)
        BY SameOperators DEF Answers, S!Data
    <2>2. n \in Nat
        BY <1>2
    <2>. HIDE DEF a, n
    <2>. QED
        BY <2>1, <2>2, SameMessages, S!AllAnswers, ZenonT(40)
<1>6. Begins(w, a)
    <2>. DEFINE k == Len(w)
    <2>1. k \in Nat /\ n \in Nat /\ k <= n + 2
        <3>1. n \in Nat /\ w \in Seq(Messages) /\ Len(w) <= n + 2
            BY <1>2, <1>3
        <3>. HIDE DEF w, n
        <3>. QED
            BY <3>1
    <2>. HIDE DEF w, a, k, n
    <2>2. \A i \in 1..k : i \in 1..(n + 2)
        BY <2>1
    <2>3. \A i \in 1..k : w[i] = a[i]
        BY <1>4, <1>5, <2>2 DEF k
    <2>. QED
        BY <1>5, <2>1, <2>3 DEF Begins, k
<1>7. Begins(shown[c], got[c]) /\ Begins(got[c], w)
    BY <1>1, <1>2, <1>3, ShownIsGot, BeginsConcat
<1>. HIDE DEF w, a
<1>8. Begins(shown[c], a)
    BY <1>2, <1>3, <1>5, <1>6, <1>7, BeginsOnward
<1>. QED
    BY <1>2, <1>5, <1>8, BeginsSubSeq DEF a

LEMMA TargetOwn == TunnelInv => TargetReadsOnlyItsOwn
<1>. SUFFICES ASSUME TunnelInv, ~ub, NEW c \in Conn
              PROVE  \E n \in 0..Len(typed[c]) : fetched[c] = SubSeq(typed[c], 3, n)
    BY DEF TargetReadsOnlyItsOwn
<1>1. S!StreamInv /\ C!TypeOK /\ Carried(c) /\ FetchedOwn(c)
    BY DEF TunnelInv, Wire
<1>. DEFINE f == fetched[c]
            t == typed[c]
            s == sent[c]
            k == Len(f)
            l == Len(t)
<1>2. f \in Seq(Messages) /\ t \in Seq(Messages) /\ s \in Seq(Messages)
    BY <1>1, Types
<1>3. Begins(s, t)
    BY <1>1, ShownIsGot
<1>4. \A i \in 1..k : i + 2 \in 1..l /\ f[i] = t[i + 2]
    <2>1. \A i \in 1..k : i + 2 \in 1..Len(s) /\ f[i] = s[i + 2]
        BY <1>1 DEF FetchedOwn
    <2>. HIDE DEF s, t, f
    <2>2. \A i \in 1..Len(s) : i \in 1..l /\ s[i] = t[i]
        BY <1>2, <1>3, BeginsAt
    <2>. QED
        BY <2>1, <2>2
<1>5. k \in Nat /\ l \in Nat
    BY <1>2
<1>. HIDE DEF f, t
<1>6. CASE k = 0
    <2>1. f = <<>> /\ SubSeq(t, 3, 0) = <<>>
        BY <1>2, <1>6, EmptySeq
    <2>2. 0 \in 0..l
        BY <1>5
    <2>. QED
        BY <2>1, <2>2 DEF f, t
<1>7. CASE k # 0
    <2>. HIDE DEF k, l
    <2>1. k \in 1..k /\ 3 <= k + 2 + 1 /\ 3 \in 1..(k + 2)
        BY <1>5, <1>7
    <2>2. k + 2 \in 1..l /\ k + 2 \in 0..l
        BY <1>4, <1>5, <2>1
    <2>. DEFINE u == SubSeq(t, 3, k + 2)
    <2>3. u \in Seq(Messages) /\ Len(u) = k /\ \A i \in 1..k : u[i] = t[i + 2]
        <3>1. 3 \in 1..l /\ k + 2 - 3 + 1 = k /\ \A i \in 1..k : 3 + i - 1 = i + 2
            BY <1>5, <2>1, <2>2
        <3>. QED
            BY <1>2, <1>5, <2>1, <2>2, <3>1, SubSeqProperties DEF l
    <2>. HIDE DEF u
    <2>4. f = u
        BY <1>2, <1>4, <2>3, SeqEqual DEF k
    <2>. QED
        BY <2>2, <2>4 DEF f, t, u, k, l
<1>. QED
    BY <1>6, <1>7

-----------------------------------------------------------------------------
\* From an application to its target.

\* The end of a stream, and what follows it.
LEMMA FromConcat ==
    ASSUME NEW s \in Seq(Messages), NEW t \in Seq(Messages), NEW n \in 1..(Len(s) + 1)
    PROVE  /\ From(s, n) \in Seq(Messages)
           /\ From(s, n) \o t = From(s \o t, n)
<1>. DEFINE k == Len(s)
            l == Len(t)
            f == From(s, n)
            g == From(s \o t, n)
<1>1. k \in Nat /\ l \in Nat /\ n \in Nat \ {0} /\ n <= k + 1
    OBVIOUS
<1>2. /\ s \o t \in Seq(Messages) /\ Len(s \o t) = k + l
      /\ \A i \in 1..(k + l) : (s \o t)[i] = IF i <= k THEN s[i] ELSE t[i - k]
    BY <1>1, ConcatProperties
<1>3. f \in Seq(Messages) /\ Len(f) = k + 1 - n /\ \A i \in 1..(k + 1 - n) : f[i] = s[n + i - 1]
    <2>1. \A i \in n..k : i \in 1..k
        BY <1>1
    <2>2. k - n + 1 = k + 1 - n /\ k + 1 - n = IF n <= k THEN k - n + 1 ELSE 0
        BY <1>1
    <2>3. \A i \in n..k : s[i] \in Messages
        BY <2>1, ElementOfSeq
    <2>. HIDE DEF k
    <2>4. /\ SubSeq(s, n, k) \in Seq(Messages)
          /\ Len(SubSeq(s, n, k)) = IF n <= k THEN k - n + 1 ELSE 0
          /\ \A i \in 1..(k - n + 1) : SubSeq(s, n, k)[i] = s[n + i - 1]
        BY <1>1, <2>3, SubSeqProperties
    <2>. QED
        BY <2>2, <2>4 DEF From, k
<1>4. /\ g \in Seq(Messages) /\ Len(g) = k + l + 1 - n
      /\ \A i \in 1..(k + l + 1 - n) : g[i] = (s \o t)[n + i - 1]
    <2>. DEFINE u == s \o t
                m == k + l
    <2>0. u \in Seq(Messages) /\ Len(u) = m /\ m \in Nat
        BY <1>1, <1>2
    <2>1. \A i \in n..m : i \in 1..m
        BY <1>1
    <2>2. m - n + 1 = m + 1 - n /\ m + 1 - n = IF n <= m THEN m - n + 1 ELSE 0
        BY <1>1
    <2>. HIDE DEF k, l, u, m
    <2>3. \A i \in n..m : u[i] \in Messages
        BY <2>0, <2>1, ElementOfSeq
    <2>4. /\ SubSeq(u, n, m) \in Seq(Messages)
          /\ Len(SubSeq(u, n, m)) = IF n <= m THEN m - n + 1 ELSE 0
          /\ \A i \in 1..(m - n + 1) : SubSeq(u, n, m)[i] = u[n + i - 1]
        BY <1>1, <2>0, <2>3, SubSeqProperties
    <2>. QED
        BY <2>0, <2>2, <2>4 DEF From, u, m
<1>. HIDE DEF k, l, f, g
<1>5. f \o t \in Seq(Messages) /\ Len(f \o t) = k + l + 1 - n
    <2>1. k + 1 - n + l = k + l + 1 - n
        BY <1>1
    <2>. QED
        BY <1>3, <2>1, ConcatProperties DEF l
<1>6. ASSUME NEW i \in 1..(k + l + 1 - n)
      PROVE  (f \o t)[i] = g[i]
    <2>. DEFINE p == k + 1 - n
                j == n + i - 1
    <2>1. /\ i \in Nat \ {0} /\ p \in Nat /\ j \in 1..(k + l) /\ i \in 1..(p + l)
          /\ i <= p => i \in 1..p /\ j <= k
          /\ ~(i <= p) => ~(j <= k) /\ i - p = j - k
        BY <1>1
    <2>2. g[i] = IF j <= k THEN s[j] ELSE t[j - k]
        BY <1>2, <1>4, <2>1
    <2>3. (f \o t)[i] = IF i <= p THEN f[i] ELSE t[i - p]
        BY <1>3, <2>1, ConcatProperties DEF l
    <2>4. i <= p => f[i] = s[j]
        BY <1>3, <2>1
    <2>. HIDE DEF p, j
    <2>. QED
        BY <2>1, <2>2, <2>3, <2>4
<1>7. f \o t = g
    BY <1>4, <1>5, <1>6, SeqEqual
<1>. QED
    BY <1>3, <1>7 DEF f, g

\* Decrypting the end of a stream.
LEMMA FromDecrypted ==
    ASSUME NEW s \in Seq(Messages), NEW n \in 1..(Len(s) + 1)
    PROVE  DecryptAll(From(EncryptAll(s), n)) = From(s, n)
<1>. DEFINE e == EncryptAll(s)
            k == Len(s)
            f == From(e, n)
            g == From(s, n)
<1>1. e \in Seq(Messages) /\ Len(e) = k /\ k \in Nat /\ n \in Nat \ {0} /\ n <= k + 1
    BY StreamTypes
<1>2. \A i \in 1..k : s[i] \in Messages /\ e[i] = Encrypt(s[i]) /\ e[i] \in Messages
    BY StreamTypes, MessageTypes
<1>. HIDE DEF e, k
<1>3. /\ \A i \in n..k : i \in 1..k
      /\ k - n + 1 = k + 1 - n /\ k + 1 - n = IF n <= k THEN k - n + 1 ELSE 0
      /\ \A i \in 1..(k + 1 - n) : n + i - 1 \in 1..k
    BY <1>1
<1>4. f \in Seq(Messages) /\ Len(f) = k + 1 - n /\ \A i \in 1..(k + 1 - n) : f[i] = e[n + i - 1]
    <2>1. /\ SubSeq(e, n, k) \in Seq(Messages)
          /\ Len(SubSeq(e, n, k)) = IF n <= k THEN k - n + 1 ELSE 0
          /\ \A i \in 1..(k - n + 1) : SubSeq(e, n, k)[i] = e[n + i - 1]
        BY <1>1, <1>2, <1>3, SubSeqProperties
    <2>. QED
        BY <1>1, <1>3, <2>1 DEF From
<1>5. g \in Seq(Messages) /\ Len(g) = k + 1 - n /\ \A i \in 1..(k + 1 - n) : g[i] = s[n + i - 1]
    <2>1. /\ SubSeq(s, n, k) \in Seq(Messages)
          /\ Len(SubSeq(s, n, k)) = IF n <= k THEN k - n + 1 ELSE 0
          /\ \A i \in 1..(k - n + 1) : SubSeq(s, n, k)[i] = s[n + i - 1]
        BY <1>1, <1>2, <1>3, SubSeqProperties
    <2>. QED
        BY <1>3, <2>1 DEF From, k
<1>. HIDE DEF f, g
<1>6. /\ DecryptAll(f) \in Seq(Messages) /\ Len(DecryptAll(f)) = k + 1 - n
      /\ \A i \in 1..(k + 1 - n) : DecryptAll(f)[i] = Decrypt(f[i])
    BY <1>4, StreamTypes
<1>7. ASSUME NEW i \in 1..(k + 1 - n)
      PROVE  DecryptAll(f)[i] = g[i]
    <2>. DEFINE j == n + i - 1
    <2>1. j \in 1..k /\ f[i] = e[j] /\ g[i] = s[j] /\ DecryptAll(f)[i] = Decrypt(f[i])
        BY <1>3, <1>4, <1>5, <1>6
    <2>. HIDE DEF j
    <2>. QED
        BY <1>2, <2>1, MessageTypes
<1>8. DecryptAll(f) = g
    BY <1>5, <1>6, <1>7, SeqEqual
<1>. QED
    BY <1>8 DEF e, f, g

LEMMA BeginsRest ==
    ASSUME NEW s \in Seq(Messages), NEW t \in Seq(Messages), Begins(s, t)
    PROVE  /\ Len(s) + 1 \in 1..(Len(t) + 1)
           /\ s \o From(t, Len(s) + 1) = t
<1>. DEFINE k == Len(s)
            l == Len(t)
            r == From(t, k + 1)
<1>1. k \in Nat /\ l \in Nat /\ k <= l
    BY DEF Begins
<1>2. \A i \in 1..k : s[i] = t[i]
    BY DEF Begins
<1>3. \A i \in 1..l : t[i] \in Messages
    BY ElementOfSeq
<1>. HIDE DEF k, l
<1>4. /\ k + 1 \in 1..(l + 1)
      /\ \A i \in (k + 1)..l : i \in 1..l
      /\ l - (k + 1) + 1 = l - k /\ l - k = IF k + 1 <= l THEN l - (k + 1) + 1 ELSE 0
      /\ l - k \in Nat /\ k + (l - k) = l
      /\ \A i \in 1..(l - k) : k + 1 + i - 1 = k + i
    BY <1>1
<1>5. r \in Seq(Messages) /\ Len(r) = l - k /\ \A i \in 1..(l - k) : r[i] = t[k + i]
    <2>1. /\ SubSeq(t, k + 1, l) \in Seq(Messages)
          /\ Len(SubSeq(t, k + 1, l)) = IF k + 1 <= l THEN l - (k + 1) + 1 ELSE 0
          /\ \A i \in 1..(l - (k + 1) + 1) : SubSeq(t, k + 1, l)[i] = t[k + 1 + i - 1]
        BY <1>1, <1>3, <1>4, SubSeqProperties
    <2>. QED
        BY <1>4, <2>1 DEF From, l
<1>. HIDE DEF r
<1>6. /\ s \o r \in Seq(Messages) /\ Len(s \o r) = l
      /\ \A i \in 1..l : (s \o r)[i] = IF i <= k THEN s[i] ELSE r[i - k]
    <2>1. /\ s \o r \in Seq(Messages) /\ Len(s \o r) = Len(s) + Len(r)
          /\ \A i \in 1..(Len(s) + Len(r)) : (s \o r)[i] = IF i <= Len(s) THEN s[i] ELSE r[i - Len(s)]
        BY <1>5, ConcatProperties
    <2>2. Len(s) + Len(r) = l
        BY <1>4, <1>5 DEF k
    <2>. QED
        BY <2>1, <2>2 DEF k
<1>7. ASSUME NEW i \in 1..l PROVE (s \o r)[i] = t[i]
    <2>1. /\ i <= k => i \in 1..k
          /\ ~(i <= k) => i - k \in 1..(l - k) /\ k + (i - k) = i
        BY <1>1
    <2>. QED
        BY <1>2, <1>5, <1>6, <2>1
<1>8. s \o r = t
    BY <1>6, <1>7, SeqEqual DEF l
<1>. QED
    BY <1>4, <1>8 DEF k, l, r

LEMMA Conserved == TunnelInv => UpConserved
<1>. SUFFICES ASSUME TunnelInv, ~ub, NEW c \in Conn, Whole(c)
              PROVE  fetched[c] \o remote[c].out
                       \o DecryptAll(self[c].in \o From(uploaded[c], Len(sent[c]) + 1) \o uplink[c].out)
                     = From(typed[c], 3)
    BY DEF UpConserved
<1>1. S!StreamInv /\ C!TypeOK /\ C!StreamsWhole /\ Carried(c)
    BY DEF TunnelInv, Wire
<1>. DEFINE f == fetched[c]
            o == remote[c].out
            i == self[c].in
            s == sent[c]
            u == uploaded[c]
            w == uplink[c].out
            t == typed[c]
            n == Len(s) + 1
            r == From(t, n)
            flow == S!Flow(c)
<1>2. /\ f \in Seq(Messages) /\ o \in Seq(Messages) /\ i \in Seq(Messages)
      /\ s \in Seq(Messages) /\ u \in Seq(Messages) /\ w \in Seq(Messages)
      /\ t \in Seq(Messages) /\ EncryptAll(t) \in Seq(Messages) /\ DecryptAll(i) \in Seq(Messages)
    BY <1>1, Types, StreamTypes
<1>3. u \o w = EncryptAll(t)
    BY <1>1, SameOperators DEF Whole, C!StreamsWhole, C!Whole
<1>4. Begins(s, t) /\ n \in 1..(Len(u) + 1) /\ n \in 1..(Len(t) + 1) /\ s \o r = t
    <2>1. Begins(s, t)
        BY <1>1, ShownIsGot
    <2>2. n \in 1..(Len(t) + 1) /\ s \o r = t
        BY <1>2, <2>1, BeginsRest
    <2>3. Begins(s, DecryptAll(u)) /\ DecryptAll(u) \in Seq(Messages) /\ Len(DecryptAll(u)) = Len(u)
        BY <1>1, <1>2, StreamTypes DEF Carried
    <2>4. n \in 1..(Len(u) + 1)
        BY <1>2, <2>3, BeginsRest
    <2>. QED
        BY <2>1, <2>2, <2>4
<1>5. /\ flow \in Seq(Messages) /\ flow = f \o o \o DecryptAll(i)
      /\ Len(s) > 1 /\ Len(flow) = Len(s) - 2
      /\ \A j \in 1..Len(flow) : j + 2 \in 1..Len(s) /\ flow[j] = s[j + 2]
    BY <1>1, FlowOwn DEF Whole, S!Socket
<1>. HIDE DEF f, o, i, u, w, t, s, flow
\* What is on its way from the client to the server.
<1>6. /\ From(u, n) \in Seq(Messages) /\ From(u, n) \o w \in Seq(Messages)
      /\ r \in Seq(Messages) /\ DecryptAll(From(u, n) \o w) = r
    <2>1. From(u, n) \in Seq(Messages) /\ From(u, n) \o w = From(EncryptAll(t), n)
        <3>1. u \in Seq(Messages) /\ w \in Seq(Messages) /\ n \in 1..(Len(u) + 1)
            BY <1>2, <1>4
        <3>. HIDE DEF n
        <3>2. From(u, n) \in Seq(Messages) /\ From(u, n) \o w = From(u \o w, n)
            BY <3>1, FromConcat
        <3>. QED
            BY <1>3, <3>2
    <2>2. r \in Seq(Messages)
        BY <1>2, <1>4, FromConcat
    <2>3. DecryptAll(From(EncryptAll(t), n)) = r
        BY <1>2, <1>4, FromDecrypted
    <2>4. From(u, n) \o w \in Seq(Messages)
        BY <1>2, <2>1, ConcatProperties
    <2>. QED
        BY <2>1, <2>2, <2>3, <2>4
\* What the server has, then that.
<1>7. f \o o \o DecryptAll(i \o From(u, n) \o w) = flow \o r
    <2>. DEFINE v == From(u, n)
                x == f \o o
                d == DecryptAll(i)
    <2>1. /\ v \in Seq(Messages) /\ v \o w \in Seq(Messages) /\ DecryptAll(v \o w) = r
          /\ i \in Seq(Messages) /\ w \in Seq(Messages) /\ r \in Seq(Messages)
        BY <1>2, <1>6
    <2>2. x \in Seq(Messages) /\ d \in Seq(Messages)
        BY <1>2, ConcatProperties
    <2>3. flow = x \o d
        BY <1>5
    <2>. HIDE DEF v, r
    <2>4. i \o v \o w = i \o (v \o w)
        BY <2>1, ConcatAssociative, SMTT(40)
    <2>5. DecryptAll(i \o (v \o w)) = d \o r
        BY <2>1, DecryptConcat
    <2>. HIDE DEF x, d
    <2>6. x \o (d \o r) = (x \o d) \o r
        <3>1. x \in Seq(Messages) /\ d \in Seq(Messages) /\ r \in Seq(Messages)
            BY <2>1, <2>2
        <3>. QED
            BY <3>1, ConcatAssociative
    <2>. QED
        BY <2>3, <2>4, <2>5, <2>6 DEF v, x
\* What the server had read after the request, then what it has not read.
<1>8. flow = From(s, 3)
    <2>. DEFINE k == Len(s)
    <2>1. k \in Nat /\ k > 1 /\ Len(flow) = k - 2 /\ \A j \in 1..(k - 2) : flow[j] = s[j + 2]
        <3>. DEFINE m == Len(flow)
        <3>0. s \in Seq(Messages)
            BY <1>2
        <3>1. k \in Nat
            BY <3>0
        <3>2. k > 1 /\ m = k - 2
            BY <1>5
        <3>3. \A j \in 1..m : flow[j] = s[j + 2]
            BY <1>5
        <3>. HIDE DEF m
        <3>4. \A j \in 1..(k - 2) : flow[j] = s[j + 2]
            BY <3>2, <3>3
        <3>. QED
            BY <3>1, <3>2, <3>4 DEF m
    <2>2. \A j \in 1..k : s[j] \in Messages
        BY <1>2, ElementOfSeq
    <2>. HIDE DEF k
    <2>3. /\ \A j \in 3..k : j \in 1..k
          /\ k - 3 + 1 = k - 2 /\ k - 2 = IF 3 <= k THEN k - 3 + 1 ELSE 0
          /\ \A j \in 1..(k - 2) : 3 + j - 1 = j + 2
        BY <2>1
    <2>4. /\ SubSeq(s, 3, k) \in Seq(Messages)
          /\ Len(SubSeq(s, 3, k)) = IF 3 <= k THEN k - 3 + 1 ELSE 0
          /\ \A j \in 1..(k - 3 + 1) : SubSeq(s, 3, k)[j] = s[3 + j - 1]
        BY <2>1, <2>2, <2>3, SubSeqProperties
    <2>. DEFINE v == SubSeq(s, 3, k)
    <2>5. v \in Seq(Messages) /\ Len(v) = k - 2 /\ \A j \in 1..(k - 2) : v[j] = s[j + 2]
        BY <2>3, <2>4
    <2>. HIDE DEF v
    <2>6. flow = v
        BY <1>5, <2>1, <2>5, SeqEqual
    <2>. QED
        BY <2>6 DEF v, From, k
<1>9. flow \o r = From(t, 3)
    <2>1. 3 \in 1..(Len(s) + 1)
        <3>. DEFINE k == Len(s)
        <3>1. k \in Nat /\ k > 1
            BY <1>2, <1>5
        <3>. HIDE DEF k
        <3>2. 3 \in 1..(k + 1)
            BY <3>1
        <3>. QED
            BY <3>2 DEF k
    <2>2. s \in Seq(Messages) /\ r \in Seq(Messages)
        BY <1>2, <1>6
    <2>. HIDE DEF r, s
    <2>3. From(s, 3) \o r = From(s \o r, 3)
        BY <2>1, <2>2, FromConcat
    <2>. QED
        BY <1>4, <1>8, <2>3 DEF r
<1>. QED
    BY <1>7, <1>9 DEF f, o, i, u, w, t, s

-----------------------------------------------------------------------------
\* The theorems.

\* Until the server uses a deleted context, both proxies keep what was proved of each
\* alone, with the other one as its peer; what either end of the connection has read
\* is the beginning of what the other has written, in clear after one substitution
\* and its inverse; and an application that waits for each answer is, behind the
\* client, a client the server's handshake expects (server.cpp, socks5.cpp, client.cpp).
THEOREM TunnelInductive == Spec => []TunnelInv
BY InitTunnel, NextTunnel, PTL DEF Spec

\* While its four bufferevents exist, every data message of a connection is in exactly
\* one place between application and target, in order, encrypted only between the
\* proxies (client::local_read_cb, socks5::handle_last).
THEOREM UpStaysConserved == Spec => []UpConserved
BY TunnelInductive, Conserved, PTL

\* Whoever leaves and whatever breaks, an application reads the beginning of what its
\* own connection was answered, and never ciphertext (server::remote_read_cb,
\* client::remote_read_cb).
THEOREM AppReadsItsOwn == Spec => []AppReadsOnlyItsOwn
BY TunnelInductive, AppOwn, PTL

\* The same of a target: the beginning of the data its own client typed, in clear
\* (client::local_read_cb, socks5::handle_last).
THEOREM TargetReadsItsOwn == Spec => []TargetReadsOnlyItsOwn
BY TunnelInductive, TargetOwn, PTL
=============================================================================
