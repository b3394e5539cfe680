------------------------------ MODULE Message ------------------------------
(***************************************************************************)
(* What travels through the two proxies.  A message is a piece of a byte   *)
(* stream that nobody in between looks into: a SOCKS5 greeting, request or *)
(* answer, or a piece of data, with the number of substitutions applied to *)
(* it (0: plain text).                                                     *)
(***************************************************************************)
EXTENDS Integers, Sequences

\* 05 01 00; 05 with NO AUTHENTICATION REQUIRED among several methods.
AllGreetings == {"noauth", "noauth_or_more"}
\* CONNECT by ATYP; bind stands for any other CMD, short for fewer than 7 bytes.
AllRequests == {"domain", "ipv4", "ipv6", "bind", "short"}
Kinds == AllGreetings \cup AllRequests \cup {"method", "reply", "data"}

MessagesOf(Conn) == [kind : Kinds, conn : Conn, n : Nat, layer : Int]
Plain(kind, c, n) == [kind |-> kind, conn |-> c, n |-> n, layer |-> 0]

\* One substitution by the password, one by the inverse table.
Encrypt(m) == [m EXCEPT !.layer = @ + 1]
Decrypt(m) == [m EXCEPT !.layer = @ - 1]
EncryptAll(s) == [i \in DOMAIN s |-> Encrypt(s[i])]
DecryptAll(s) == [i \in DOMAIN s |-> Decrypt(s[i])]
=============================================================================
