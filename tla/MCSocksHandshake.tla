-------------------------- MODULE MCSocksHandshake --------------------------
\* Clients and a table for the handshake.  Bytes of names are far from the numbers
\* that have a meaning in the protocol.
EXTENDS SocksHandshake

Bytes == 0..255
\* A table that is a permutation.
Rotated == [b \in Bytes |-> (b + 77) % 256]

Name(length) == [i \in 1..length |-> 96 + i]

\* Port 443 is 01 BB.
Client(atyp, host, eager, whole) ==
    [atyp |-> atyp, host |-> host, port |-> <<1, 187>>, data |-> <<250, 251>>,
     eager |-> eager, whole |-> whole]

\* Messages that arrive whole: names of every length that fits and some that do not,
\* addresses one of which is easily misread.
Addresses == {<<93, 184, 216, 34>>, <<10, 3, 0, 7>>}
InOnePiece == {Client(3, Name(n), FALSE, TRUE) : n \in 1..27}
                \cup {Client(1, host, FALSE, TRUE) : host \in Addresses}

\* Messages that do not: a short name, the longest that fits, one that fits only whole.
InPieces == {Client(3, Name(n), eager, FALSE) : n \in {1, 3, 24, 25}, eager \in BOOLEAN}
              \cup {Client(1, host, FALSE, FALSE) : host \in Addresses}

Some == InOnePiece \cup InPieces
=============================================================================
