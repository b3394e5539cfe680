------------------------ MODULE SocksHandshakeProofs ------------------------
(***************************************************************************)
(* Proofs about the handshake on bytes.  What a read may be taken for      *)
(* depends on where in the client's stream it begins; of a client that     *)
(* waits for its answers, the answers tell how far the stream can go.      *)
(***************************************************************************)
EXTENDS SocksHandshake, SequenceTheorems, TLAPS

-----------------------------------------------------------------------------
\* The invariant.

Kept ==
    /\ client \in Clients
    /\ arrived \in Nat /\ taken \in Nat /\ taken <= arrived
    /\ readcb \in {"local_read_cb", "handle_second", "handle_last", "no_context"}
    /\ answers \in Seq({"method", "reply"})
    /\ overrun \in BOOLEAN

\* The clients of which both properties say something: they wait for each answer, and
\* a request that may be cut is for a name.
Waits == ~client.eager /\ (client.atyp = 3 \/ client.whole)

\* Until it is greeted, the server can only have the greeting.
AtGreeting == readcb = "local_read_cb" =>
    /\ answers = <<>> /\ asked = NULL
    /\ arrived <= 3
    /\ client.whole => taken = 0 /\ arrived \in {0, 3}

\* Then it can only have the request as well, and has read 05 01 at least.
AtRequest == readcb = "handle_second" =>
    /\ answers = <<"method">> /\ asked = NULL
    /\ taken >= 2 /\ arrived <= 3 + Len(Request(client))
    /\ client.whole => {taken, arrived} \subseteq {3, 3 + Len(Request(client))}

HandshakeInv ==
    /\ Kept
    /\ Waits /\ ~overrun => AtGreeting /\ AtRequest
    /\ AskedRight /\ OnlyLongOrEager

-----------------------------------------------------------------------------
\* The bytes of a client's stream.

LEMMA Joined ==
    ASSUME NEW s \in Seq(Byte), NEW t \in Seq(Byte)
    PROVE  /\ s \o t \in Seq(Byte) /\ Len(s \o t) = Len(s) + Len(t)
           /\ \A i \in 1..Len(s) : (s \o t)[i] = s[i]
           /\ \A i \in 1..Len(t) : (s \o t)[Len(s) + i] = t[i]
<1>. DEFINE m == Len(s)
            n == Len(t)
<1>1. /\ s \o t \in Seq(Byte) /\ Len(s \o t) = m + n
      /\ \A i \in 1..(m + n) : (s \o t)[i] = IF i <= m THEN s[i] ELSE t[i - m]
    BY ConcatProperties
<1>2. m \in Nat /\ n \in Nat
    OBVIOUS
<1>. HIDE DEF m, n
<1>3. \A i \in 1..m : i \in 1..(m + n) /\ i <= m
    BY <1>2
<1>4. \A i \in 1..m : (s \o t)[i] = s[i]
    BY <1>1, <1>3
<1>5. ASSUME NEW i \in 1..n PROVE (s \o t)[m + i] = t[i]
    <2>. DEFINE k == m + i
    <2>1. k \in 1..(m + n) /\ ~(k <= m) /\ k - m = i
        BY <1>2
    <2>. HIDE DEF k
    <2>2. (s \o t)[k] = t[k - m]
        BY <1>1, <2>1
    <2>. QED
        BY <2>1, <2>2 DEF k
<1>. QED
    BY <1>1, <1>4, <1>5, Zenon DEF m, n

LEMMA ClientTypes ==
    ASSUME NEW cl \in Clients
    PROVE  /\ cl.host \in Seq(Byte) /\ cl.port \in Seq(Byte) /\ cl.data \in Seq(Byte)
           /\ Len(cl.host) \in Nat /\ Len(cl.port) = 2 /\ Len(cl.data) \in Nat
           /\ cl.atyp = 1 => Len(cl.host) = 4
           /\ cl.atyp = 3 => \A i \in 1..Len(cl.host) : cl.host[i] \in Nat /\ cl.host[i] > 5
<1>1. /\ cl.host \in Seq(Byte) /\ cl.port \in Seq(Byte) /\ cl.data \in Seq(Byte)
      /\ Len(cl.port) = 2
      /\ cl.atyp = 1 => Len(cl.host) = 4
      /\ cl.atyp = 3 => \A i \in DOMAIN cl.host : cl.host[i] > 5
    BY HandshakeAssumption
<1>2. DOMAIN cl.host = 1..Len(cl.host) /\ Len(cl.host) \in Nat /\ Len(cl.data) \in Nat
    BY <1>1
<1>3. ASSUME NEW i \in 1..Len(cl.host) PROVE cl.host[i] \in Nat
    <2>1. cl.host[i] \in Byte
        BY <1>1, <1>2
    <2>. QED
        BY <2>1, HandshakeAssumption
<1>. QED
    BY <1>1, <1>2, <1>3

LEMMA RequestBytes ==
    ASSUME NEW cl \in Clients
    PROVE  LET R == Request(cl)
               k == IF cl.atyp = 3 THEN 5 ELSE 4
           IN  /\ R \in Seq(Byte) /\ Len(R) = k + Len(cl.host) + 2
               /\ R[1] = 5 /\ R[2] = 1 /\ R[3] = 0 /\ R[4] = cl.atyp
               /\ cl.atyp = 3 => R[5] = Len(cl.host)
               /\ \A i \in 1..Len(cl.host) : R[k + i] = cl.host[i]
               /\ \A i \in 1..2 : R[k + Len(cl.host) + i] = cl.port[i]
<1>. DEFINE R == Request(cl)
            k == IF cl.atyp = 3 THEN 5 ELSE 4
            first == <<5, 1, 0, cl.atyp>>
            size == IF cl.atyp = 3 THEN <<Len(cl.host)>> ELSE <<>>
            n == Len(cl.host)
            start == first \o size
            address == start \o cl.host
<1>1. /\ first \in Seq(Byte) /\ Len(first) = 4
      /\ first[1] = 5 /\ first[2] = 1 /\ first[3] = 0 /\ first[4] = cl.atyp
    <2>1. 5 \in Byte /\ 1 \in Byte /\ 0 \in Byte /\ cl.atyp \in Byte
        BY HandshakeAssumption
    <2>. QED
        BY <2>1
<1>2. /\ size \in Seq(Byte) /\ Len(size) = k - 4 /\ k \in {4, 5} /\ k - 4 \in Nat
      /\ cl.atyp = 3 => k = 5 /\ size[1] = n
    <2>1. CASE cl.atyp = 3
        <3>1. n \in Byte
            BY <2>1, HandshakeAssumption
        <3>. HIDE DEF n
        <3>2. size = <<n>>
            BY <2>1 DEF n
        <3>. HIDE DEF size
        <3>. QED
            BY <2>1, <3>1, <3>2
    <2>2. CASE cl.atyp # 3
        <3>1. size = <<>> /\ k = 4
            BY <2>2
        <3>. HIDE DEF size
        <3>. QED
            BY <2>2, <3>1
    <2>. QED
        BY <2>1, <2>2
<1>3. cl.host \in Seq(Byte) /\ n \in Nat /\ cl.port \in Seq(Byte) /\ Len(cl.port) = 2
    BY ClientTypes
<1>4. R = address \o cl.port
    BY DEF Request
<1>. HIDE DEF R, first, size
<1>5. /\ start \in Seq(Byte) /\ Len(start) = k
      /\ \A i \in 1..4 : start[i] = first[i]
      /\ \A i \in 1..(k - 4) : start[4 + i] = size[i]
    <2>1. first \in Seq(Byte) /\ size \in Seq(Byte) /\ 4 + (k - 4) = k
        BY <1>1, <1>2
    <2>2. /\ start \in Seq(Byte) /\ Len(start) = Len(first) + Len(size)
          /\ \A i \in 1..Len(first) : start[i] = first[i]
          /\ \A i \in 1..Len(size) : start[Len(first) + i] = size[i]
        BY <2>1, Joined
    <2>. QED
        BY <1>1, <1>2, <2>1, <2>2
<1>. HIDE DEF k, n, start
<1>6. /\ address \in Seq(Byte) /\ Len(address) = k + n
      /\ \A i \in 1..k : address[i] = start[i]
      /\ \A i \in 1..n : address[k + i] = cl.host[i]
    <2>1. start \in Seq(Byte) /\ cl.host \in Seq(Byte)
        BY <1>3, <1>5
    <2>2. /\ address \in Seq(Byte) /\ Len(address) = Len(start) + Len(cl.host)
          /\ \A i \in 1..Len(start) : address[i] = start[i]
          /\ \A i \in 1..Len(cl.host) : address[Len(start) + i] = cl.host[i]
        BY <2>1, Joined
    <2>. QED
        BY <1>5, <2>2 DEF n
<1>. HIDE DEF address
<1>7. /\ R \in Seq(Byte) /\ Len(R) = k + n + 2
      /\ \A i \in 1..(k + n) : R[i] = address[i]
      /\ \A i \in 1..2 : R[k + n + i] = cl.port[i]
    <2>1. address \in Seq(Byte) /\ cl.port \in Seq(Byte)
        BY <1>3, <1>6
    <2>2. /\ address \o cl.port \in Seq(Byte)
          /\ Len(address \o cl.port) = Len(address) + Len(cl.port)
          /\ \A i \in 1..Len(address) : (address \o cl.port)[i] = address[i]
          /\ \A i \in 1..Len(cl.port) : (address \o cl.port)[Len(address) + i] = cl.port[i]
        BY <2>1, Joined
    <2>. QED
        BY <1>3, <1>4, <1>6, <2>2
<1>8. \A i \in 1..k : i \in 1..(k + n)
    BY <1>2, <1>3
<1>9. \A i \in 1..n : k + i \in 1..(k + n)
    BY <1>2, <1>3
<1>10. R[1] = 5 /\ R[2] = 1 /\ R[3] = 0 /\ R[4] = cl.atyp
    <2>1. \A i \in 1..4 : i \in 1..k
        BY <1>2
    <2>2. \A i \in 1..4 : R[i] = first[i]
        BY <1>5, <1>6, <1>7, <1>8, <2>1
    <2>. QED
        BY <1>1, <2>2
<1>11. cl.atyp = 3 => R[5] = n
    <2>1. HAVE cl.atyp = 3
    <2>2. k = 5 /\ 1 \in 1..(k - 4) /\ 5 \in 1..k /\ 4 + 1 = 5
        BY <1>2, <2>1
    <2>3. start[5] = n
        BY <1>2, <1>5, <2>1, <2>2
    <2>. QED
        BY <1>6, <1>7, <1>8, <2>2, <2>3
<1>12. \A i \in 1..n : R[k + i] = cl.host[i]
    BY <1>6, <1>7, <1>9
<1>. QED
    BY <1>7, <1>10, <1>11, <1>12 DEF R, k, n

LEMMA StreamBytes ==
    ASSUME NEW cl \in Clients
    PROVE  LET S == Stream(cl)
               L == Len(Request(cl))
           IN  /\ S \in Seq(Byte) /\ Len(S) \in Nat /\ L \in Nat /\ 3 + L <= Len(S)
               /\ S[1] = 5 /\ S[2] = 1 /\ S[3] = 0
               /\ \A i \in 1..L : S[3 + i] = Request(cl)[i]
<1>. DEFINE S == Stream(cl)
            R == Request(cl)
            L == Len(R)
            d == Len(cl.data)
            messages == Greeting \o R
<1>1. /\ Greeting \in Seq(Byte) /\ Len(Greeting) = 3
      /\ Greeting[1] = 5 /\ Greeting[2] = 1 /\ Greeting[3] = 0
    <2>1. 5 \in Byte /\ 1 \in Byte /\ 0 \in Byte
        BY HandshakeAssumption
    <2>. QED
        BY <2>1 DEF Greeting
<1>2. R \in Seq(Byte) /\ L \in Nat
    <2>1. R \in Seq(Byte)
        BY RequestBytes
    <2>. HIDE DEF R
    <2>. QED
        BY <2>1
<1>3. cl.data \in Seq(Byte) /\ d \in Nat
    BY ClientTypes
<1>4. S = messages \o cl.data
    BY DEF Stream
<1>. HIDE DEF S, R
<1>5. /\ messages \in Seq(Byte) /\ Len(messages) = 3 + L
      /\ \A i \in 1..3 : messages[i] = Greeting[i]
      /\ \A i \in 1..L : messages[3 + i] = R[i]
    <2>1. Greeting \in Seq(Byte) /\ R \in Seq(Byte)
        BY <1>1, <1>2
    <2>2. /\ messages \in Seq(Byte) /\ Len(messages) = Len(Greeting) + L
          /\ \A i \in 1..Len(Greeting) : messages[i] = Greeting[i]
          /\ \A i \in 1..L : messages[Len(Greeting) + i] = R[i]
        BY <2>1, Joined
    <2>. QED
        BY <1>1, <2>2
<1>. HIDE DEF messages
<1>6. /\ S \in Seq(Byte) /\ Len(S) = 3 + L + d
      /\ \A i \in 1..(3 + L) : S[i] = messages[i]
    <2>1. messages \in Seq(Byte) /\ cl.data \in Seq(Byte)
        BY <1>3, <1>5
    <2>2. /\ messages \o cl.data \in Seq(Byte)
          /\ Len(messages \o cl.data) = Len(messages) + d
          /\ \A i \in 1..Len(messages) : (messages \o cl.data)[i] = messages[i]
        BY <2>1, Joined
    <2>. QED
        BY <1>4, <1>5, <2>2
<1>. HIDE DEF L, d
<1>7. \A i \in 1..3 : i \in 1..(3 + L)
    BY <1>2
<1>8. \A i \in 1..L : 3 + i \in 1..(3 + L)
    BY <1>2
<1>9. S[1] = 5 /\ S[2] = 1 /\ S[3] = 0
    <2>1. \A i \in 1..3 : S[i] = Greeting[i]
        BY <1>5, <1>6, <1>7
    <2>. QED
        BY <1>1, <2>1
<1>10. \A i \in 1..L : S[3 + i] = R[i]
    BY <1>5, <1>6, <1>8
<1>11. 3 + L + d \in Nat /\ 3 + L <= 3 + L + d
    BY <1>2, <1>3
<1>. QED
    BY <1>2, <1>6, <1>9, <1>10, <1>11 DEF S, R, L

\* What a read may begin with, of a request for a name.
LEMMA NameBytes ==
    ASSUME NEW cl \in Clients, cl.atyp = 3
    PROVE  LET S == Stream(cl)
               n == Len(cl.host)
           IN  /\ n \in Nat /\ Len(Request(cl)) = 7 + n
               /\ S[4] = 5 /\ S[5] = 1 /\ S[6] = 0 /\ S[7] = 3 /\ S[8] = n
               /\ \A i \in 1..n : S[8 + i] = cl.host[i] /\ cl.host[i] \in Nat /\ cl.host[i] > 5
               /\ S[9 + n] = cl.port[1] /\ S[10 + n] = cl.port[2]
<1>. DEFINE S == Stream(cl)
            R == Request(cl)
            n == Len(cl.host)
<1>1. /\ n \in Nat /\ Len(R) = 7 + n
      /\ R[1] = 5 /\ R[2] = 1 /\ R[3] = 0 /\ R[4] = 3 /\ R[5] = n
      /\ \A i \in 1..n : R[5 + i] = cl.host[i]
      /\ \A i \in 1..2 : R[5 + n + i] = cl.port[i]
    <2>1. n \in Nat
        BY ClientTypes
    <2>2. Len(R) = 5 + n + 2 /\ R[4] = 3 /\ R[5] = n
        BY RequestBytes
    <2>3. R[1] = 5 /\ R[2] = 1 /\ R[3] = 0
        BY RequestBytes
    <2>4. /\ \A i \in 1..n : R[5 + i] = cl.host[i]
          /\ \A i \in 1..2 : R[5 + n + i] = cl.port[i]
        BY RequestBytes
    <2>. HIDE DEF R, n
    <2>. QED
        BY <2>1, <2>2, <2>3, <2>4
<1>2. \A i \in 1..Len(R) : S[3 + i] = R[i]
    BY StreamBytes
<1>3. \A i \in 1..n : cl.host[i] \in Nat /\ cl.host[i] > 5
    BY ClientTypes
<1>. HIDE DEF S, R, n
<1>4. S[4] = 5 /\ S[5] = 1 /\ S[6] = 0 /\ S[7] = 3 /\ S[8] = n
    <2>1. \A i \in 1..5 : i \in 1..Len(R)
        BY <1>1
    <2>. QED
        BY <1>1, <1>2, <2>1
<1>5. \A i \in 1..n : S[8 + i] = cl.host[i]
    <2>. SUFFICES ASSUME NEW i \in 1..n PROVE S[8 + i] = cl.host[i]
        OBVIOUS
    <2>1. 5 + i \in 1..Len(R) /\ 3 + (5 + i) = 8 + i
        BY <1>1
    <2>. QED
        BY <1>1, <1>2, <2>1
<1>6. S[9 + n] = cl.port[1] /\ S[10 + n] = cl.port[2]
    <2>1. /\ 5 + n + 1 \in 1..Len(R) /\ 3 + (5 + n + 1) = 9 + n
          /\ 5 + n + 2 \in 1..Len(R) /\ 3 + (5 + n + 2) = 10 + n
        BY <1>1
    <2>. QED
        BY <1>1, <1>2, <2>1
<1>. QED
    BY <1>1, <1>3, <1>4, <1>5, <1>6 DEF S, R, n

-----------------------------------------------------------------------------
\* What is in the array after a read.

LEMMA InverseOfCode == ASSUME NEW b \in Byte PROVE r_password[Password[b]] = b
<1>. DEFINE from == {x \in Byte : Password[x] = Password[b]}
<1>1. from = {b}
    BY HandshakeAssumption
<1>2. \A z \in from : z <= b
    BY <1>1, HandshakeAssumption
<1>3. (CHOOSE x \in from : \A z \in from : z <= x) = b
    BY <1>1, <1>2
<1>4. Password[b] \in Byte
    BY HandshakeAssumption
<1>. QED
    BY <1>1, <1>3, <1>4 DEF r_password

\* A read that fits through the scratch array is decoded right.
LEMMA ReadDecoded ==
    ASSUME Kept, NEW n \in Nat, n <= Scratch, taken + n <= Len(Stream(client)),
           NEW request \in Decrypted(Encoded(n), n), NEW i \in 0..ReadMax
    PROVE  request[i] = IF i < n THEN Stream(client)[taken + i + 1] ELSE 0
<1>. DEFINE S == Stream(client)
<1>1. S \in Seq(Byte) /\ Len(S) \in Nat /\ taken \in Nat /\ Scratch \in Nat /\ ReadMax \in Nat
    BY StreamBytes, HandshakeAssumption DEF Kept
<1>2. Encoded(n)[i] = IF i < n THEN Password[S[taken + i + 1]] ELSE 0
    BY DEF Encoded
<1>3. request[i] = IF i >= n THEN Encoded(n)[i] ELSE r_password[Encoded(n)[i]]
    <2>1. ~(n > Scratch)
        BY <1>1
    <2>2. request = [x \in 0..ReadMax |->
                       IF x >= n THEN Encoded(n)[x]
                       ELSE IF x < Scratch \/ NULL = NULL THEN r_password[Encoded(n)[x]] ELSE NULL]
        BY <2>1 DEF Decrypted
    <2>. QED
        BY <2>2
<1>4. CASE i < n
    <2>1. taken + i + 1 \in 1..Len(S)
        BY <1>1, <1>4
    <2>2. S[taken + i + 1] \in Byte
        BY <1>1, <2>1
    <2>3. ~(i >= n)
        BY <1>4
    <2>. QED
        BY <1>2, <1>3, <1>4, <2>2, <2>3, InverseOfCode
<1>5. CASE ~(i < n)
    BY <1>2, <1>3, <1>5
<1>. QED
    BY <1>4, <1>5

-----------------------------------------------------------------------------
\* The name and the port that handle_second takes from its array.

\* The first zero behind the name is where it ends, or the first byte that was not read.
LEMMA HostRead ==
    ASSUME Kept, client.atyp = 3, taken = 3,
           NEW n \in Nat, n >= 7, n <= Len(Request(client)), n < ReadMax,
           NEW connect,
           \A i \in 0..ReadMax : connect[i] = IF i < n THEN Stream(client)[3 + i + 1] ELSE 0,
           4 + connect[4] <= ReadMax
    PROVE  /\ IsPrefix(Host(connect), client.host)
           /\ n = Len(Request(client)) =>
                Host(connect) = client.host /\ Port(connect, n) = client.port
<1>. DEFINE S == Stream(client)
            size == Len(client.host)
            last == 4 + size
            stop == IF n <= last THEN n - 1 ELSE last
            Ends(e) == (\A i \in 5..e : connect[i] # 0) /\ (e = last \/ connect[e + 1] = 0)
            end == CHOOSE e \in 4..last : Ends(e)
<1>1. /\ size \in Nat /\ Len(Request(client)) = 7 + size /\ S[8] = size
      /\ \A i \in 1..size : S[8 + i] = client.host[i] /\ client.host[i] \in Nat /\ client.host[i] > 5
      /\ S[9 + size] = client.port[1] /\ S[10 + size] = client.port[2]
    BY NameBytes DEF Kept
<1>2. ReadMax \in Nat /\ n \in Nat /\ n >= 7 /\ n < ReadMax
    BY HandshakeAssumption
<1>3. \A i \in 0..ReadMax : connect[i] = IF i < n THEN S[3 + i + 1] ELSE 0
    OBVIOUS
<1>4. connect[4] = size
    <2>1. 4 \in 0..ReadMax /\ 4 < n /\ 3 + 4 + 1 = 8
        BY <1>2
    <2>. QED
        BY <1>1, <1>3, <2>1
<1>5. last <= ReadMax /\ size \in Nat /\ n <= 7 + size
    BY <1>1, <1>4
<1>6. Host(connect) = [i \in 1..(end - 4) |-> connect[4 + i]]
    <2>1. (IF 4 + connect[4] < ReadMax THEN 4 + connect[4] ELSE ReadMax) = last
        BY <1>2, <1>4, <1>5
    <2>. QED
        BY <2>1 DEF Host
<1>. HIDE DEF S, size, end
<1>7. /\ stop \in 4..last /\ stop - 4 \in 0..size /\ stop < n
      /\ stop # last => stop + 1 = n /\ n <= last
    BY <1>2, <1>5
<1>8. ASSUME NEW i \in 5..stop PROVE connect[i] = client.host[i - 4] /\ connect[i] \in Nat /\ connect[i] > 5
    <2>1. i - 4 \in 1..size /\ i \in 0..ReadMax /\ i < n /\ 3 + i + 1 = 8 + (i - 4)
        BY <1>2, <1>5, <1>7
    <2>2. connect[i] = S[8 + (i - 4)]
        BY <1>3, <2>1
    <2>. QED
        BY <1>1, <2>1, <2>2
<1>9. n \in 0..ReadMax /\ connect[n] = 0
    BY <1>2, <1>3
<1>10. Ends(stop)
    <2>1. \A i \in 5..stop : connect[i] # 0
        BY <1>8
    <2>2. stop = last \/ connect[stop + 1] = 0
        BY <1>7, <1>9
    <2>. QED
        BY <2>1, <2>2
<1>11. ASSUME NEW e \in 4..last, Ends(e) PROVE e = stop
    <2>1. CASE e < stop
        <3>1. e # last /\ e + 1 \in 5..stop
            BY <1>5, <1>7, <2>1
        <3>2. connect[e + 1] = 0
            BY <1>11, <3>1
        <3>3. connect[e + 1] > 5
            BY <1>8, <3>1
        <3>. QED
            BY <3>2, <3>3
    <2>2. CASE e > stop
        <3>1. stop # last /\ n \in 5..e
            BY <1>2, <1>5, <1>7, <2>2
        <3>2. connect[n] # 0
            BY <1>11, <3>1
        <3>. QED
            BY <1>9, <3>2
    <2>. QED
        BY <1>5, <1>7, <2>1, <2>2
<1>12. end = stop
    <2>. HIDE DEF Ends, stop, last
    <2>. QED
        BY <1>7, <1>10, <1>11 DEF end
<1>13. Host(connect) = [i \in 1..(stop - 4) |-> client.host[i]]
    <2>1. ASSUME NEW i \in 1..(stop - 4) PROVE connect[4 + i] = client.host[i]
        <3>1. 4 + i \in 5..stop /\ (4 + i) - 4 = i
            BY <1>7
        <3>. QED
            BY <1>8, <3>1
    <2>. HIDE DEF stop
    <2>. QED
        BY <1>6, <1>12, <2>1
<1>14. client.host \in Seq(Byte)
    BY ClientTypes DEF Kept
<1>15. ASSUME NEW k \in 0..size PROVE [i \in 1..k |-> client.host[i]] = SubSeq(client.host, 1, k)
    BY <1>14 DEF size
<1>16. IsPrefix(Host(connect), client.host)
    <2>1. Host(connect) = SubSeq(client.host, 1, stop - 4)
        BY <1>7, <1>13, <1>15
    <2>2. ASSUME NEW k \in 0..size PROVE IsPrefix(SubSeq(client.host, 1, k), client.host)
        <3>1. SubSeq(client.host, 1, k) \in Seq(Byte) /\ Len(SubSeq(client.host, 1, k)) = k
            BY <1>1, <1>14 DEF size
        <3>2. SubSeq(SubSeq(client.host, 1, k), 1, k) = SubSeq(client.host, 1, k)
            BY <3>1
        <3>. QED
            BY <1>1, <3>1, <3>2 DEF IsPrefix, size
    <2>. QED
        BY <1>7, <2>1, <2>2
<1>17. ASSUME n = Len(Request(client))
       PROVE  Host(connect) = client.host /\ Port(connect, n) = client.port
    <2>1. n = 7 + size /\ stop = last /\ stop - 4 = size
        BY <1>1, <1>17
    <2>2. [i \in 1..size |-> client.host[i]] = client.host
        BY <1>14 DEF size
    <2>3. Host(connect) = client.host
        BY <1>13, <2>1, <2>2
    <2>4. /\ n - 2 \in 0..ReadMax /\ n - 2 < n /\ 3 + (n - 2) + 1 = 9 + size
          /\ n - 1 \in 0..ReadMax /\ n - 1 < n /\ 3 + (n - 1) + 1 = 10 + size
        BY <1>1, <1>2, <2>1
    <2>5. connect[n - 2] = client.port[1] /\ connect[n - 1] = client.port[2]
        BY <1>1, <1>3, <2>4
    <2>6. client.port \in Seq(Byte) /\ Len(client.port) = 2
        BY ClientTypes DEF Kept
    <2>7. <<client.port[1], client.port[2]>> = client.port
        BY <2>6
    <2>. QED
        BY <2>3, <2>5, <2>7 DEF Port
<1>. QED
    BY <1>16, <1>17

-----------------------------------------------------------------------------
\* The steps.

\* What an overrun is the fault of, and what holds without one.
Fitting == Fits(IF client.whole THEN 0 ELSE 1)
Result ==
    /\ ~overrun' => (AtGreeting /\ AtRequest /\ AskedRight)'
    /\ Fitting => ~overrun'

LEMMA Lengths ==
    ASSUME Kept
    PROVE  /\ ReadLength \in Nat /\ ReadLength <= ReadMax
           /\ taken + ReadLength <= arrived
           /\ ReadLength < ReadMax => ReadLength = arrived - taken
BY HandshakeAssumption DEF Kept, ReadLength

LEMMA SendableTypes ==
    ASSUME Kept
    PROVE  /\ Sendable \in Nat
           /\ answers = <<>> /\ ~client.eager => Sendable = 3
           /\ answers = <<"method">> /\ ~client.eager => Sendable = 3 + Len(Request(client))
<1>. DEFINE L == Len(Request(client))
<1>1. L \in Nat /\ Len(Stream(client)) \in Nat
    BY StreamBytes DEF Kept
<1>2. Len(Greeting) = 3
    BY DEF Greeting
<1>3. ~Contains(<<>>, "reply") /\ ~Contains(<<>>, "method")
    BY DEF Contains
<1>4. ~Contains(<<"method">>, "reply") /\ Contains(<<"method">>, "method")
    BY DEF Contains
<1>. HIDE DEF L
<1>5. Sendable \in {Len(Stream(client)), 3 + L, 3}
    BY <1>2 DEF Sendable, L
<1>. QED
    BY <1>1, <1>2, <1>3, <1>4, <1>5 DEF Sendable, L

LEMMA NextKept == Kept /\ [Next]_vars => Kept'
<1>. SUFFICES ASSUME Kept, [Next]_vars PROVE Kept'
    OBVIOUS
<1>1. CASE Arrive
    <2>1. PICK n \in (IF client.whole THEN {Sendable} ELSE arrived + 1 .. Sendable) :
            n > arrived /\ arrived' = n
        BY <1>1 DEF Arrive
    <2>2. Sendable \in Nat
        BY SendableTypes
    <2>3. arrived' \in Nat /\ arrived' > arrived
        BY <2>1, <2>2 DEF Kept
    <2>. QED
        BY <1>1, <2>3 DEF Arrive, Kept
<1>2. CASE Reply
    BY <1>2 DEF Reply, Kept
<1>3. CASE Read /\ handle_first
    <2>1. taken' = taken + ReadLength /\ taken' \in Nat /\ taken' <= arrived
        BY <1>3, Lengths DEF handle_first, Kept
    <2>2. overrun' \in BOOLEAN
        BY <1>3 DEF handle_first, Survives, Kept
    <2>3. readcb' \in {"handle_second", readcb} /\ answers' \in {answers, Append(answers, "method")}
        BY <1>3 DEF handle_first
    <2>. QED
        BY <1>3, <2>1, <2>2, <2>3 DEF Read, Kept
<1>4. CASE Read /\ handle_second
    <2>1. taken' = taken + ReadLength /\ taken' \in Nat /\ taken' <= arrived
        BY <1>4, Lengths DEF handle_second, Kept
    <2>2. overrun' \in BOOLEAN
        BY <1>4 DEF handle_second, DomainRequest, IPv4Request, Unsupported, Survives, Kept
    <2>3. /\ readcb' \in {"handle_last", "no_context", readcb}
          /\ answers' \in {answers, Append(answers, "reply")}
        BY <1>4 DEF handle_second, DomainRequest, IPv4Request, Unsupported
    <2>. QED
        BY <1>4, <2>1, <2>2, <2>3 DEF Read, Kept
<1>5. CASE Read /\ handle_last
    BY <1>5 DEF Read, handle_last, Kept
<1>6. CASE UNCHANGED vars
    BY <1>6 DEF vars, Kept
<1>. QED
    BY <1>1, <1>2, <1>3, <1>4, <1>5, <1>6 DEF Next, Read

\* handle_first: 05 01 is enough, as zeroes are behind what was read.
LEMMA GreetingRead ==
    ASSUME Kept, Waits, ~overrun, AtGreeting, handle_first, client' = client, arrived' = arrived
    PROVE  Result
<1>. DEFINE n == ReadLength
            L == Len(Request(client))
            S == Stream(client)
<1>1. /\ readcb = "local_read_cb" /\ answers = <<>> /\ asked = NULL
      /\ taken \in Nat /\ arrived \in Nat /\ arrived <= 3
      /\ client.whole => taken = 0 /\ arrived \in {0, 3}
    BY DEF handle_first, AtGreeting, Kept
<1>2. n \in Nat /\ taken + n <= arrived /\ (client.whole => n = arrived)
    BY <1>1, Lengths, HandshakeAssumption
<1>3. /\ overrun' = (overrun \/ n > Scratch) /\ taken' = taken + n /\ asked' = asked
      /\ \E request \in Decrypted(Encoded(n), n) :
           IF request[0] = 5 /\ request[1] = 1 /\ request[2] = 0
             THEN readcb' = "handle_second" /\ answers' = Append(answers, "method")
             ELSE UNCHANGED <<readcb, answers>>
    BY DEF handle_first, Survives
<1>4. L \in Nat /\ L >= 6 /\ Len(S) \in Nat /\ 3 + L <= Len(S) /\ S[1] = 5 /\ S[2] = 1 /\ S[3] = 0
    <2>1. L \in Nat /\ Len(S) \in Nat /\ 3 + L <= Len(S) /\ S[1] = 5 /\ S[2] = 1 /\ S[3] = 0
        BY StreamBytes DEF Kept
    <2>. DEFINE size == Len(client.host)
    <2>2. L = (IF client.atyp = 3 THEN 5 ELSE 4) + size + 2 /\ size \in Nat
        BY RequestBytes, ClientTypes DEF Kept
    <2>. HIDE DEF L, S, size
    <2>3. L >= 6
        BY <2>2
    <2>. QED
        BY <2>1, <2>3
<1>. HIDE DEF n, L, S
<1>5. Scratch \in Nat /\ ReadMax \in Nat /\ ReadMax >= 7
    BY HandshakeAssumption
<1>6. ASSUME Fitting PROVE ~overrun'
    <2>1. \E x \in {0, 1} : L + x <= Scratch
        BY <1>6 DEF Fitting, Fits, L
    <2>2. ~(n > Scratch)
        BY <1>1, <1>2, <1>4, <1>5, <2>1
    <2>3. ~overrun /\ overrun' = (overrun \/ n > Scratch)
        BY <1>3
    <2>. QED
        BY <2>2, <2>3, Zenon
<1>7. ASSUME ~overrun' PROVE (AtGreeting /\ AtRequest /\ AskedRight)'
    <2>1. n <= Scratch /\ taken + n <= Len(S)
        <3>1. overrun' = (overrun \/ n > Scratch)
            BY <1>3
        <3>2. ~(n > Scratch)
            BY <1>7, <3>1, Zenon
        <3>. QED
            BY <1>1, <1>2, <1>4, <1>5, <3>2
    <2>2. PICK request \in Decrypted(Encoded(n), n) :
            IF request[0] = 5 /\ request[1] = 1 /\ request[2] = 0
              THEN readcb' = "handle_second" /\ answers' = Append(answers, "method")
              ELSE UNCHANGED <<readcb, answers>>
        BY <1>3
    <2>3. \A i \in 0..ReadMax : request[i] = IF i < n THEN S[taken + i + 1] ELSE 0
        BY <1>2, <2>1, ReadDecoded DEF S
    <2>4. 0 \in 0..ReadMax /\ 1 \in 0..ReadMax /\ 2 \in 0..ReadMax
        BY <1>5
    <2>5. AskedRight'
        BY <1>1, <1>3 DEF AskedRight
    <2>6. CASE request[0] = 5 /\ request[1] = 1 /\ request[2] = 0
        <3>1. readcb' = "handle_second" /\ answers' = <<"method">>
            BY <1>1, <2>2, <2>6
        <3>2. 1 < n
            BY <2>3, <2>4, <2>6
        <3>3. taken' >= 2 /\ arrived' <= 3 + L
            BY <1>1, <1>2, <1>3, <1>4, <3>2
        <3>4. client.whole => taken' = 3 /\ arrived' = 3
            BY <1>1, <1>2, <1>3, <3>2
        <3>. QED
            BY <1>1, <1>3, <2>5, <3>1, <3>3, <3>4 DEF AtGreeting, AtRequest, L
    <2>7. CASE ~(request[0] = 5 /\ request[1] = 1 /\ request[2] = 0)
        <3>1. readcb' = readcb /\ answers' = answers
            BY <2>2, <2>7
        <3>2. ASSUME client.whole, arrived = 3 PROVE FALSE
            <4>1. taken = 0 /\ n = 3
                BY <1>1, <1>2, <3>2
            <4>2. request[0] = S[1] /\ request[1] = S[2] /\ request[2] = S[3]
                BY <2>3, <2>4, <4>1
            <4>. QED
                BY <1>4, <2>7, <4>2
        <3>3. client.whole => taken' = 0
            BY <1>1, <1>2, <1>3, <3>2
        <3>. QED
            BY <1>1, <1>3, <2>5, <3>1, <3>3 DEF AtGreeting, AtRequest
    <2>. QED
        BY <2>6, <2>7
<1>. QED
    BY <1>6, <1>7 DEF Result

\* handle_second: of all places where a read of seven bytes may begin, only the first byte
\* of the request has the command 01 behind it.
LEMMA OnlyAtRequest ==
    ASSUME Kept, Waits, AtRequest, readcb = "handle_second",
           NEW n, n = ReadLength, n >= 7, n <= Scratch,
           NEW connect,
           \A i \in 0..ReadMax : connect[i] = IF i < n THEN Stream(client)[taken + i + 1] ELSE 0,
           connect[1] = 1
    PROVE  /\ taken = 3 /\ n <= Len(Request(client)) /\ connect[3] = client.atyp
           /\ client.whole => n = Len(Request(client))
<1>. DEFINE L == Len(Request(client))
            S == Stream(client)
            size == Len(client.host)
<1>1. /\ taken \in Nat /\ arrived \in Nat /\ taken >= 2 /\ arrived <= 3 + L
      /\ client.whole => taken \in {3, 3 + L} /\ arrived \in {3, 3 + L}
    BY DEF AtRequest, Kept
<1>2. L \in Nat /\ S[7] = client.atyp
    <2>1. L \in Nat /\ \A i \in 1..L : S[3 + i] = Request(client)[i]
        BY StreamBytes DEF Kept
    <2>2. Request(client)[4] = client.atyp
        BY RequestBytes DEF Kept
    <2>3. L = (IF client.atyp = 3 THEN 5 ELSE 4) + size + 2 /\ size \in Nat
        BY RequestBytes, ClientTypes DEF Kept
    <2>. HIDE DEF L, S
    <2>4. 4 \in 1..L /\ 3 + 4 = 7
        <3>. HIDE DEF size
        <3>. QED
            BY <2>3
    <2>. QED
        BY <2>1, <2>2, <2>4
<1>3. Scratch \in Nat /\ ReadMax \in Nat /\ ReadMax >= 7 /\ Scratch < ReadMax
    BY HandshakeAssumption
<1>4. n \in Nat /\ taken + n <= arrived /\ n = arrived - taken
    BY <1>3, Lengths
<1>5. client.whole => taken = 3 /\ n = L
    BY <1>1, <1>2, <1>4
<1>6. 1 \in 0..ReadMax /\ 3 \in 0..ReadMax /\ 1 < n /\ 3 < n
    BY <1>3, <1>4
<1>7. connect[1] = S[taken + 2] /\ connect[3] = S[taken + 4]
    <2>1. connect[1] = S[taken + 1 + 1] /\ connect[3] = S[taken + 3 + 1]
        BY <1>6
    <2>2. taken + 1 + 1 = taken + 2 /\ taken + 3 + 1 = taken + 4
        BY <1>1
    <2>. QED
        BY <2>1, <2>2
<1>8. ASSUME ~client.whole PROVE taken = 3
    <2>1. client.atyp = 3
        BY <1>8 DEF Waits
    <2>2. /\ size \in Nat /\ L = 7 + size
          /\ S[4] = 5 /\ S[5] = 1 /\ S[6] = 0 /\ S[7] = 3 /\ S[8] = size
          /\ \A i \in 1..size : S[8 + i] = client.host[i] /\ client.host[i] \in Nat /\ client.host[i] > 5
        BY <2>1, NameBytes DEF Kept
    <2>. HIDE DEF S, L, size
    <2>3. taken + 7 <= 10 + size
        BY <1>1, <1>4, <2>2
    <2>4. CASE taken = 2
        BY <1>7, <2>2, <2>4
    <2>5. CASE taken \in {4, 5}
        BY <1>7, <2>2, <2>5
    <2>6. CASE taken = 6
        <3>1. size >= 3 /\ taken + 2 = 8
            BY <2>2, <2>3, <2>6
        <3>. QED
            BY <1>7, <2>2, <3>1
    <2>7. CASE taken >= 7
        <3>. DEFINE i == taken - 6
        <3>1. i \in 1..size /\ taken + 2 = 8 + i
            BY <1>1, <2>2, <2>3, <2>7
        <3>. HIDE DEF i
        <3>2. S[8 + i] > 5
            BY <2>2, <3>1
        <3>. QED
            BY <1>7, <3>1, <3>2
    <2>. QED
        BY <1>1, <2>4, <2>5, <2>6, <2>7
<1>9. taken = 3
    BY <1>5, <1>8
<1>10. n <= L
    BY <1>1, <1>2, <1>4, <1>9
<1>. QED
    BY <1>2, <1>5, <1>7, <1>9, <1>10

\* handle_second, with the request in its array or something else.
LEMMA RequestRead ==
    ASSUME Kept, Waits, ~overrun, AtRequest, handle_second, client' = client, arrived' = arrived
    PROVE  Result
<1>. DEFINE n == ReadLength
            L == Len(Request(client))
            S == Stream(client)
            size == Len(client.host)
<1>1. /\ readcb = "handle_second" /\ answers = <<"method">> /\ asked = NULL
      /\ taken \in Nat /\ arrived \in Nat /\ taken >= 2 /\ arrived <= 3 + L
      /\ client.whole => taken \in {3, 3 + L} /\ arrived \in {3, 3 + L}
    BY DEF handle_second, AtRequest, Kept
<1>2. n \in Nat /\ n <= ReadMax /\ taken + n <= arrived /\ (n < ReadMax => n = arrived - taken)
    BY Lengths
<1>3. /\ taken' = taken + n
      /\ \/ n < 7 /\ UNCHANGED <<readcb, answers, asked, overrun, proc>>
         \/ /\ n >= 7
            /\ \E connect \in Decrypted(Encoded(n), n) :
                 IF connect[1] = 1 /\ connect[3] \in {1, 3}
                   THEN DomainRequest(connect, n) \/ IPv4Request(connect, n)
                   ELSE Unsupported(connect, n)
    BY DEF handle_second
<1>4. L \in Nat /\ Len(S) \in Nat /\ 3 + L <= Len(S)
    BY StreamBytes DEF Kept
<1>5. size \in Nat /\ L = (IF client.atyp = 3 THEN 5 ELSE 4) + size + 2
    BY RequestBytes, ClientTypes DEF Kept
<1>6. Scratch \in Nat /\ ReadMax \in Nat /\ ReadMax >= 7 /\ Scratch < ReadMax
    BY HandshakeAssumption
<1>. HIDE DEF n, L, S, size
<1>7. Fitting => n <= Scratch /\ L <= Scratch
    <2>. SUFFICES ASSUME Fitting PROVE n <= Scratch /\ L <= Scratch
        OBVIOUS
    <2>1. CASE client.whole
        <3>1. L + 0 <= Scratch
            BY <2>1 DEF Fitting, Fits, L
        <3>2. taken >= 3
            BY <1>1, <1>4, <2>1
        <3>. QED
            BY <1>1, <1>2, <1>4, <1>6, <3>1, <3>2
    <2>2. CASE ~client.whole
        <3>1. L + 1 <= Scratch
            BY <2>2 DEF Fitting, Fits, L
        <3>. QED
            BY <1>1, <1>2, <1>4, <1>6, <3>1
    <2>. QED
        BY <2>1, <2>2
\* What is dropped or not served leaves the handshake where it was.
<1>8. ASSUME n < 7 \/ n <= Scratch PROVE client.whole => taken' \in {3, 3 + L}
    <2>. SUFFICES ASSUME client.whole PROVE taken' \in {3, 3 + L}
        OBVIOUS
    <2>1. n = arrived - taken
        BY <1>2, <1>6, <1>8
    <2>2. taken' = arrived
        BY <1>1, <1>3, <2>1
    <2>. QED
        BY <1>1, <2>2
<1>9. taken' >= 2
    BY <1>1, <1>2, <1>3
<1>10. ASSUME n < 7 \/ n <= Scratch, UNCHANGED <<readcb, answers, asked>>
       PROVE  (AtGreeting /\ AtRequest /\ AskedRight)'
    BY <1>1, <1>8, <1>9, <1>10 DEF AtGreeting, AtRequest, AskedRight, L
<1>11. CASE n < 7
    <2>1. UNCHANGED <<readcb, answers, asked>> /\ overrun' = overrun
        BY <1>2, <1>3, <1>11
    <2>. QED
        BY <1>10, <1>11, <2>1 DEF Result
<1>12. CASE n >= 7
    <2>1. PICK connect \in Decrypted(Encoded(n), n) :
            IF connect[1] = 1 /\ connect[3] \in {1, 3}
              THEN DomainRequest(connect, n) \/ IPv4Request(connect, n)
              ELSE Unsupported(connect, n)
        BY <1>2, <1>3, <1>12
    <2>2. n > Scratch => overrun'
        BY <2>1, Zenon DEF DomainRequest, IPv4Request, Unsupported, Survives
    <2>3. ASSUME n > Scratch PROVE Result
        <3>1. ~Fitting
            BY <1>2, <1>6, <1>7, <2>3
        <3>. QED
            BY <2>2, <2>3, <3>1 DEF Result
    <2>4. ASSUME n <= Scratch PROVE Result
        <3>1. \A i \in 0..ReadMax : connect[i] = IF i < n THEN S[taken + i + 1] ELSE 0
            <4>1. taken + n <= Len(S)
                BY <1>1, <1>2, <1>4
            <4>. QED
                BY <1>2, <2>4, <4>1, ReadDecoded DEF S
        <3>2. ~(n > Scratch)
            BY <1>2, <1>6, <2>4
        <3>3. CASE connect[1] = 1 /\ connect[3] \in {1, 3}
            <4>1. taken = 3 /\ n <= L /\ connect[3] = client.atyp /\ (client.whole => n = L)
                BY <1>1, <1>12, <2>4, <3>1, <3>3, OnlyAtRequest DEF n, L, S
            <4>2. CASE DomainRequest(connect, n)
                <5>1. /\ connect[3] = 3
                      /\ overrun' = (overrun \/ n > Scratch \/ 4 + connect[4] > ReadMax)
                      /\ asked' = [host |-> Host(connect), port |-> Port(connect, n)]
                      /\ readcb' = "handle_last"
                    BY <4>2 DEF DomainRequest, Survives
                <5>2. client.atyp = 3 /\ L = 7 + size
                    BY <1>5, <4>1, <5>1
                <5>3. connect[4] = size
                    <6>1. S[8] = size
                        BY <5>2, NameBytes DEF Kept, S, size
                    <6>2. 4 \in 0..ReadMax /\ 4 < n /\ taken + 4 + 1 = 8
                        BY <1>2, <1>6, <1>12, <4>1
                    <6>. QED
                        BY <3>1, <6>1, <6>2
                <5>4. overrun' <=> 4 + size > ReadMax
                    BY <3>2, <5>1, <5>3, Zenon
                <5>5. Fitting => ~(4 + size > ReadMax)
                    BY <1>5, <1>6, <1>7, <5>2
                <5>6. ASSUME ~overrun' PROVE AskedRight'
                    <6>1. 4 + connect[4] <= ReadMax /\ n < ReadMax
                        BY <1>2, <1>5, <1>6, <2>4, <5>3, <5>4, <5>6
                    <6>2. \A i \in 0..ReadMax : connect[i] = IF i < n THEN Stream(client)[3 + i + 1] ELSE 0
                        BY <3>1, <4>1 DEF S
                    <6>3. /\ IsPrefix(Host(connect), client.host)
                          /\ n = L => Host(connect) = client.host /\ Port(connect, n) = client.port
                        BY <1>2, <1>12, <4>1, <5>2, <6>1, <6>2, HostRead DEF L
                    <6>4. /\ asked'.host = Host(connect)
                          /\ client.whole => asked' = [host |-> client.host, port |-> client.port]
                        BY <4>1, <5>1, <6>3
                    <6>. QED
                        BY <6>3, <6>4 DEF AskedRight
                <5>7. (AtGreeting /\ AtRequest)'
                    BY <5>1 DEF AtGreeting, AtRequest
                <5>. QED
                    BY <5>4, <5>5, <5>6, <5>7 DEF Result
            <4>3. CASE IPv4Request(connect, n)
                <5>1. /\ connect[3] = 1 /\ readcb' = "no_context" /\ asked' = asked
                      /\ overrun' = (overrun \/ (n > Scratch \/ n - 6 > Scratch \/ n - 6 < 4))
                    BY <4>3 DEF IPv4Request, Survives
                <5>2. client.atyp = 1 /\ client.whole
                    BY <4>1, <5>1 DEF Waits
                <5>3. n = 10
                    <6>1. size = 4
                        BY <5>2, ClientTypes DEF Kept, size
                    <6>. QED
                        BY <1>5, <4>1, <5>2, <6>1
                <5>4. ~(n - 6 > Scratch) /\ ~(n - 6 < 4)
                    BY <1>6, <2>4, <5>3
                <5>5. ~overrun'
                    BY <3>2, <5>1, <5>4, Zenon
                <5>6. (AtGreeting /\ AtRequest /\ AskedRight)'
                    BY <1>1, <5>1 DEF AtGreeting, AtRequest, AskedRight
                <5>. QED
                    BY <5>5, <5>6 DEF Result
            <4>. QED
                BY <2>1, <3>3, <4>2, <4>3
        <3>4. CASE ~(connect[1] = 1 /\ connect[3] \in {1, 3})
            <4>1. Unsupported(connect, n)
                BY <2>1, <3>4
            <4>2. UNCHANGED <<readcb, answers, asked>> /\ overrun' = (overrun \/ n > Scratch)
                BY <4>1 DEF Unsupported, Survives
            <4>3. ~overrun'
                BY <3>2, <4>2, Zenon
            <4>. QED
                BY <1>10, <2>4, <4>2, <4>3 DEF Result
        <3>. QED
            BY <3>3, <3>4
    <2>. QED
        BY <1>2, <1>6, <2>3, <2>4
<1>. QED
    BY <1>2, <1>11, <1>12

LEMMA NextHandshake == HandshakeInv /\ [Next]_vars => HandshakeInv'
<1>. SUFFICES ASSUME HandshakeInv, [Next]_vars PROVE HandshakeInv'
    OBVIOUS
<1>1. Kept /\ Kept'
    BY NextKept DEF HandshakeInv
<1>2. client' = client
    BY DEF Next, vars, Arrive, Reply, Read
<1>3. overrun => overrun'
    BY DEF Next, vars, Arrive, Reply, Read, handle_first, handle_second, handle_last,
           DomainRequest, IPv4Request, Unsupported, Survives
<1>4. CASE overrun
    <2>1. overrun' /\ OnlyLongOrEager
        BY <1>3, <1>4 DEF HandshakeInv
    <2>2. OnlyLongOrEager'
        BY <1>2, <1>4, <2>1 DEF OnlyLongOrEager, Fits
    <2>3. AskedRight'
        BY <2>1 DEF AskedRight
    <2>. QED
        BY <1>1, <2>1, <2>2, <2>3 DEF HandshakeInv
<1>5. CASE ~Waits
    <2>1. ~Waits'
        BY <1>2, <1>5 DEF Waits
    <2>2. OnlyLongOrEager'
        BY <2>1 DEF OnlyLongOrEager, Waits
    <2>3. AskedRight'
        BY <2>1 DEF AskedRight, Waits
    <2>. QED
        BY <1>1, <2>1, <2>2, <2>3 DEF HandshakeInv
<1>6. CASE Waits /\ ~overrun
    <2>1. AtGreeting /\ AtRequest /\ AskedRight
        BY <1>6 DEF HandshakeInv
    <2>2. ASSUME Result PROVE HandshakeInv'
        <3>1. OnlyLongOrEager'
            BY <1>2, <2>2 DEF Result, OnlyLongOrEager, Fitting, Fits
        <3>2. overrun' => AskedRight'
            BY DEF AskedRight
        <3>. QED
            BY <1>1, <2>2, <3>1, <3>2 DEF Result, HandshakeInv
    <2>3. CASE Arrive
        <3>1. PICK n \in (IF client.whole THEN {Sendable} ELSE arrived + 1 .. Sendable) :
                n > arrived /\ arrived' = n
            BY <2>3 DEF Arrive
        <3>2. arrived \in Nat /\ Sendable \in Nat
            BY <1>1, SendableTypes DEF Kept
        <3>3. arrived' <= Sendable /\ (client.whole => arrived' = Sendable)
            BY <3>1, <3>2
        <3>4. UNCHANGED <<taken, readcb, answers, asked, overrun>>
            BY <2>3 DEF Arrive
        <3>5. ~client.eager
            BY <1>6 DEF Waits
        <3>6. AtGreeting'
            <4>1. SUFFICES ASSUME readcb' = "local_read_cb" PROVE AtGreeting'
                BY DEF AtGreeting
            <4>2. /\ answers = <<>> /\ asked = NULL
                  /\ client.whole => taken = 0
                BY <2>1, <3>4, <4>1 DEF AtGreeting
            <4>3. Sendable = 3
                BY <1>1, <3>5, <4>2, SendableTypes
            <4>. QED
                BY <1>2, <3>3, <3>4, <4>2, <4>3 DEF AtGreeting
        <3>7. AtRequest'
            <4>1. SUFFICES ASSUME readcb' = "handle_second" PROVE AtRequest'
                BY DEF AtRequest
            <4>2. /\ answers = <<"method">> /\ asked = NULL /\ taken >= 2
                  /\ client.whole => taken \in {3, 3 + Len(Request(client))}
                BY <2>1, <3>4, <4>1 DEF AtRequest
            <4>3. Sendable = 3 + Len(Request(client))
                BY <1>1, <3>5, <4>2, SendableTypes
            <4>. QED
                BY <1>2, <3>3, <3>4, <4>2, <4>3 DEF AtRequest
        <3>8. AskedRight' /\ ~overrun'
            BY <1>2, <1>6, <2>1, <3>4 DEF AskedRight
        <3>. QED
            BY <2>2, <3>6, <3>7, <3>8 DEF Result
    <2>4. CASE Reply
        <3>1. asked # NULL /\ UNCHANGED <<client, arrived, taken, readcb, asked, overrun>>
            BY <2>4 DEF Reply
        <3>2. (AtGreeting /\ AtRequest)'
            BY <2>1, <3>1 DEF AtGreeting, AtRequest
        <3>3. AskedRight' /\ ~overrun'
            BY <1>6, <2>1, <3>1 DEF AskedRight
        <3>. QED
            BY <2>2, <3>2, <3>3 DEF Result
    <2>5. CASE Read
        <3>1. client' = client /\ arrived' = arrived
            BY <2>5 DEF Read
        <3>2. CASE handle_first
            BY <1>1, <1>6, <2>1, <2>2, <3>1, <3>2, GreetingRead
        <3>3. CASE handle_second
            BY <1>1, <1>6, <2>1, <2>2, <3>1, <3>3, RequestRead
        <3>4. CASE handle_last
            <4>1. readcb' \notin {"local_read_cb", "handle_second"} /\ UNCHANGED <<asked, overrun>>
                BY <3>4 DEF handle_last
            <4>2. (AtGreeting /\ AtRequest)'
                BY <4>1 DEF AtGreeting, AtRequest
            <4>3. AskedRight' /\ ~overrun'
                BY <1>2, <1>6, <2>1, <4>1 DEF AskedRight
            <4>. QED
                BY <2>2, <4>2, <4>3 DEF Result
        <3>. QED
            BY <2>5, <3>2, <3>3, <3>4 DEF Read
    <2>6. CASE UNCHANGED vars
        <3>1. (AtGreeting /\ AtRequest)'
            BY <2>1, <2>6 DEF vars, AtGreeting, AtRequest
        <3>2. AskedRight' /\ ~overrun'
            BY <1>6, <2>1, <2>6 DEF vars, AskedRight
        <3>. QED
            BY <2>2, <3>1, <3>2 DEF Result
    <2>. QED
        BY <2>3, <2>4, <2>5, <2>6 DEF Next
<1>. QED
    BY <1>4, <1>5, <1>6

LEMMA InitHandshake == Init => HandshakeInv
<1>. SUFFICES ASSUME Init PROVE HandshakeInv
    OBVIOUS
<1>1. Kept
    <2>1. arrived \in Nat /\ taken \in Nat /\ taken <= arrived
        BY DEF Init
    <2>2. answers \in Seq({"method", "reply"})
        BY DEF Init
    <2>. QED
        BY <2>1, <2>2, Zenon DEF Init, Kept
<1>2. AtGreeting /\ AtRequest
    BY DEF Init, AtGreeting, AtRequest
<1>3. AskedRight /\ OnlyLongOrEager
    BY DEF Init, AskedRight, OnlyLongOrEager
<1>. QED
    BY <1>1, <1>2, <1>3 DEF HandshakeInv

-----------------------------------------------------------------------------
\* The theorems.

\* A client that waits for its answers and whose request fits never leads handle_first or
\* handle_second past the end of an array (socks5.cpp, decrypt_bytes in cipher.cpp), for
\* names of any length, any permutation as a table and any way TCP cuts the stream.
THEOREM ArraysHold == Spec => []OnlyLongOrEager
<1>1. HandshakeInv => OnlyLongOrEager
    BY DEF HandshakeInv
<1>. QED
    BY <1>1, InitHandshake, NextHandshake, PTL DEF Spec

\* What handle_second looks up is the name and the port of the request if messages come
\* whole, and otherwise the name or its beginning, never anything else in the stream.
THEOREM AskedAsRequested == Spec => []AskedRight
<1>1. HandshakeInv => AskedRight
    BY DEF HandshakeInv
<1>. QED
    BY <1>1, InitHandshake, NextHandshake, PTL DEF Spec
=============================================================================
