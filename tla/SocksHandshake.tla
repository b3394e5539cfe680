--------------------------- MODULE SocksHandshake ---------------------------
(***************************************************************************)
(* handle_first and handle_second on bytes.                                *)
(*                                                                         *)
(* Server takes one read for one message.  Here the input buffer is what   *)
(* TCP has delivered of the client's stream: one read returns at most      *)
(* ReadMax bytes of it, a part of a message or several of them.            *)
(* Arrays are functions on 0..n, as in C; decrypt_bytes copies through an  *)
(* array of Scratch bytes.  Going past the end of an array takes the       *)
(* process down, does no harm, or spoils what is behind it.                *)
(***************************************************************************)
EXTENDS Integers, SequencesExt

CONSTANTS
    Byte,      \* byte values
    Password,  \* the table both ends share
    Scratch,   \* size of t_bytes and of ip2
    ReadMax,   \* sizeof(request) - 1, sizeof(connect) - 1
    Clients,   \* [atyp : Byte, host, port, data : Seq(Byte), eager, whole : BOOLEAN]
    NULL

Greeting == <<5, 1, 0>>
Request(cl) ==
    <<5, 1, 0, cl.atyp>> \o (IF cl.atyp = 3 THEN <<Len(cl.host)>> ELSE <<>>) \o cl.host \o cl.port
Stream(cl) == Greeting \o Request(cl) \o cl.data

\* The table is a permutation, as genPassword makes it (Config!TablesMatch); bytes of
\* names are none of the numbers that have a meaning in the protocol.
ASSUME HandshakeAssumption ==
    /\ Scratch \in Nat /\ ReadMax \in Nat /\ ReadMax >= 7 /\ Scratch < ReadMax
    /\ Byte \subseteq Nat /\ {0, 1, 3, 5} \subseteq Byte
    /\ Password \in [Byte -> Byte]
    /\ \A x, y \in Byte : Password[x] = Password[y] => x = y
    /\ \A cl \in Clients :
         /\ cl.atyp \in Byte /\ cl.host \in Seq(Byte) /\ cl.data \in Seq(Byte)
         /\ cl.port \in Seq(Byte) /\ Len(cl.port) = 2
         /\ cl.atyp = 1 => Len(cl.host) = 4
         /\ cl.atyp = 3 => Len(cl.host) \in Byte /\ \A i \in DOMAIN cl.host : cl.host[i] > 5
         /\ cl.eager \in BOOLEAN /\ cl.whole \in BOOLEAN

VARIABLES
    client,     \* the client of this connection: eager if it does not wait for answers,
                \* whole if TCP delivers everything it has sent at once
    arrived,    \* how many bytes of its stream have reached the input buffer
    taken,      \* how many of them were read
    scheduled,  \* the deferred read callback is pending
    readcb,     \* the read callback; "no_context": handle_last with a null context
    answers,    \* what was written to the client
    asked,      \* the name and the port of the lookup, or NULL
    overrun,    \* an array was left at its end
    proc        \* "up" or "down"

vars == <<client, arrived, taken, scheduled, readcb, answers, asked, overrun, proc>>

Init ==
    /\ client \in Clients
    /\ arrived = 0 /\ taken = 0
    /\ scheduled = FALSE
    /\ readcb = "local_read_cb"
    /\ answers = <<>>
    /\ asked = NULL
    /\ overrun = FALSE
    /\ proc = "up"

-----------------------------------------------------------------------------
\* The client and TCP.

\* A client that is not eager sends its request once the method is chosen, and data
\* once the request is answered.
Sendable ==
    IF client.eager \/ Contains(answers, "reply") THEN Len(Stream(client))
    ELSE IF Contains(answers, "method") THEN Len(Greeting) + Len(Request(client))
    ELSE Len(Greeting)

Arrive ==
    /\ proc = "up"
    /\ \E n \in (IF client.whole THEN {Sendable} ELSE arrived + 1 .. Sendable) :
         n > arrived /\ arrived' = n
    /\ scheduled' = TRUE
    /\ UNCHANGED <<client, taken, readcb, answers, asked, overrun, proc>>

\* dns_cb got an address and the connect succeeded: remote_event_cb replies.
Reply ==
    /\ proc = "up"
    /\ asked # NULL /\ ~Contains(answers, "reply")
    /\ answers' = Append(answers, "reply")
    /\ UNCHANGED <<client, arrived, taken, scheduled, readcb, asked, overrun, proc>>

-----------------------------------------------------------------------------
\* Reading.

\* bufferevent_read(bev, request, sizeof(request) - 1).
ReadLength == IF arrived - taken < ReadMax THEN arrived - taken ELSE ReadMax

\* What is in the array after the read: n encrypted bytes, then zeroes.
Encoded(n) ==
    [i \in 0..ReadMax |-> IF i < n THEN Password[Stream(client)[taken + i + 1]] ELSE 0]

\* r_password: the last byte with that code.
r_password == [y \in Byte |->
    LET from == {x \in Byte : Password[x] = y}
    IN  IF from = {} THEN 0 ELSE CHOOSE x \in from : \A z \in from : z <= x]

\* Cipher::decrypt_bytes, in place.  What it does to the bytes that do not fit
\* through the scratch array: nothing wrong, or they are all spoilt alike.
Decrypted(bytes, len) ==
    {[i \in 0..ReadMax |-> IF i >= len THEN bytes[i]
                           ELSE IF i < Scratch \/ spoilt = NULL THEN r_password[bytes[i]]
                           ELSE spoilt] :
        spoilt \in IF len > Scratch THEN {0, NULL} ELSE {NULL}}

\* The process may not survive a step that leaves an array.
Survives(leaves) ==
    /\ overrun' = (overrun \/ leaves)
    /\ proc' \in IF leaves THEN {"up", "down"} ELSE {"up"}

-----------------------------------------------------------------------------
\* Mutant: the greeting is looked at and stays in the buffer.
handle_first_peeks ==
    LET n == ReadLength
    IN  /\ readcb = "local_read_cb"
        /\ \E request \in Decrypted(Encoded(n), n) :
             IF request[0] = 5 /\ request[1] = 1 /\ request[2] = 0
               THEN readcb' = "handle_second" /\ answers' = Append(answers, "method")
               ELSE UNCHANGED <<readcb, answers>>
        /\ UNCHANGED <<taken, asked, overrun, proc>>

\* Mutant: handle_second is never installed.
handle_first_again ==
    /\ readcb = "local_read_cb"
    /\ taken' = arrived
    /\ answers' = Append(answers, "method")
    /\ UNCHANGED <<readcb, asked, overrun, proc>>

\* socks5::handle_first.
handle_first ==
    LET n == ReadLength
    IN  /\ readcb = "local_read_cb"
        /\ Survives(n > Scratch)
        /\ taken' = taken + n
        /\ \E request \in Decrypted(Encoded(n), n) :
             IF request[0] = 5 /\ request[1] = 1 /\ request[2] = 0
               THEN readcb' = "handle_second" /\ answers' = Append(answers, "method")
               ELSE UNCHANGED <<readcb, answers>>
        /\ UNCHANGED asked

\* hostname.c_str(): the name ends at the first zero.  domain_size may lead past
\* the end of connect; what is there is left out.
Host(connect) ==
    LET last == IF 4 + connect[4] < ReadMax THEN 4 + connect[4] ELSE ReadMax
        end == CHOOSE e \in 4..last :
                 /\ \A i \in 5..e : connect[i] # 0
                 /\ e = last \/ connect[e + 1] = 0
    IN  [i \in 1..(end - 4) |-> connect[4 + i]]

\* Mutant: off by one.
Port_shifted(connect, n) == <<connect[n - 3], connect[n - 2]>>

\* connect[data_len - 2] << 8 | connect[data_len - 1], wherever the address ends.
Port(connect, n) == <<connect[n - 2], connect[n - 1]>>

\* socks5::handle_second, case 0x03.
DomainRequest(connect, n) ==
    /\ connect[3] = 3
    /\ Survives(n > Scratch \/ 4 + connect[4] > ReadMax)
    /\ asked' = [host |-> Host(connect), port |-> Port(connect, n)]
    /\ readcb' = "handle_last"
    /\ UNCHANGED answers

\* Case 0x01.  ip2 is filled with all but six of the bytes; fewer than four of them
\* leave a part of it as it was.  Nobody uses the address.
IPv4Request(connect, n) ==
    /\ connect[3] = 1
    /\ Survives(n > Scratch \/ n - 6 > Scratch \/ n - 6 < 4)
    /\ answers' = Append(answers, "reply")
    /\ readcb' = "no_context"
    /\ UNCHANGED asked

\* Another command or address type.
Unsupported(connect, n) ==
    /\ Survives(n > Scratch)
    /\ UNCHANGED <<readcb, answers, asked>>

\* socks5::handle_second.  A short read is dropped before it is decrypted.
handle_second ==
    LET n == ReadLength
    IN  /\ readcb = "handle_second"
        /\ taken' = taken + n
        /\ \/ n < 7 /\ UNCHANGED <<readcb, answers, asked, overrun, proc>>
           \/ /\ n >= 7
              /\ \E connect \in Decrypted(Encoded(n), n) :
                   IF connect[1] = 1 /\ connect[3] \in {1, 3}
                     THEN DomainRequest(connect, n) \/ IPv4Request(connect, n)
                     ELSE Unsupported(connect, n)

\* socks5::handle_last takes everything; it dereferences the context first.
handle_last ==
    /\ readcb \in {"handle_last", "no_context"}
    /\ taken' = arrived
    /\ proc' = IF readcb = "no_context" THEN "down" ELSE proc
    /\ UNCHANGED <<readcb, answers, asked, overrun>>

\* The deferred read callback.  What it leaves in the buffer is not offered to
\* another callback before more arrives.
Read ==
    /\ proc = "up" /\ scheduled
    /\ scheduled' = FALSE
    /\ handle_first \/ handle_second \/ handle_last
    /\ UNCHANGED <<client, arrived>>

Next == Arrive \/ Reply \/ Read

Spec == Init /\ [][Next]_vars

\* The loop runs what is scheduled, the peer's TCP delivers what it was given.
FairSpec == Spec /\ WF_vars(Arrive) /\ WF_vars(Read)

-----------------------------------------------------------------------------
Fits(n) == Len(Request(client)) + n <= Scratch

\* A domain request of a client that waits for its answers leaves an array only if it does
\* not fit through decrypt_bytes, with one byte to spare if it was cut: handle_first takes 05 01
\* for a greeting, as the array holds zeroes behind them, and the third byte is then read
\* with the request.  A request for an address does (ip2 partly unset, say) only if it was cut.
OnlyLongOrEager == overrun =>
    client.eager \/ ~Fits(IF client.whole THEN 0 ELSE 1) \/ (client.atyp # 3 /\ ~client.whole)

\* The lookup is for the name and the port of the request if each message arrives in one
\* piece.  However TCP cuts the stream, it is for the name or the beginning of it; the
\* port may then be any two bytes.
AskedRight == asked # NULL /\ ~overrun /\ client.atyp = 3 /\ ~client.eager =>
    IF client.whole
      THEN asked = [host |-> client.host, port |-> client.port]
      ELSE IsPrefix(asked.host, client.host)

\* If each message arrives in one piece, a domain request that fits leads to its lookup.
Served ==
    (client.atyp = 3 /\ ~client.eager /\ client.whole /\ Fits(0)) ~> (asked # NULL)
=============================================================================
