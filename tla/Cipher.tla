------------------------------- MODULE Cipher -------------------------------
(***************************************************************************)
(* One direction of a tunnel: Cipher::encrypt and Cipher::decrypt of the   *)
(* server, and the same two loops in the client's local_read_cb and        *)
(* remote_read_cb.  One process substitutes every byte by password[byte],  *)
(* the other builds the inverse table and substitutes back.                *)
(*                                                                         *)
(* Both read their input buffer in chunks until it is empty and let        *)
(* nothing else happen in their own process meanwhile; TCP in between may  *)
(* cut and merge what it carries anywhere.                                 *)
(***************************************************************************)
EXTENDS Integers, Sequences

CONSTANTS
    Size,       \* number of byte values (256)
    EncChunk,   \* bytes the encrypting loop reads at once (2047 or 1023)
    DecChunk,   \* bytes the decrypting loop reads at once (1023 or 2047)
    MaxBytes    \* bound: bytes sent

ASSUME CipherAssumption ==
    /\ Size \in Nat \ {0}
    /\ EncChunk \in Nat \ {0} /\ DecChunk \in Nat \ {0}
    /\ MaxBytes \in Nat

Byte == 0..(Size - 1)

VARIABLES
    password,    \* the table of both processes: any bytes setConfig was given
    plain,       \* input buffer of the encrypting side
    encrypting,  \* its loop is running
    wire,        \* its output buffer and the connection
    coded,       \* input buffer of the decrypting side
    decrypting,  \* "idle", "table" or "loop"
    j,           \* index of the loop that builds the inverse table
    d_password,  \* the inverse table
    out,         \* what the decrypting side has written on
    sent         \* all bytes that arrived at the encrypting side

encoder == <<plain, encrypting, sent>>
decoder == <<decrypting, j, d_password, out>>
vars == <<password, encoder, wire, coded, decoder>>

Tables == [Byte -> Byte]
Zeroes == [b \in Byte |-> 0]

Substitute(table, s) == [i \in 1..Len(s) |-> table[s[i]]]

\* Mutant: one byte is lost between two reads.
After_off_by_one(s, n) == SubSeq(s, n + 2, Len(s))

\* bufferevent_read of at most n bytes: what it returns, and what stays.
Read(s, n) == SubSeq(s, 1, IF Len(s) < n THEN Len(s) ELSE n)
After(s, n) == SubSeq(s, n + 1, Len(s))

TypeOK ==
    /\ password \in Tables
    /\ plain \in Seq(Byte) /\ wire \in Seq(Byte) /\ coded \in Seq(Byte)
    /\ out \in Seq(Byte) /\ sent \in Seq(Byte)
    /\ encrypting \in BOOLEAN
    /\ decrypting \in {"idle", "table", "loop"}
    /\ j \in 0..Size
    /\ d_password \in Tables

Init ==
    /\ password \in Tables
    /\ plain = <<>> /\ wire = <<>> /\ coded = <<>> /\ out = <<>> /\ sent = <<>>
    /\ encrypting = FALSE
    /\ decrypting = "idle"
    /\ j = 0
    /\ d_password = Zeroes

-----------------------------------------------------------------------------
\* A byte arrives at the encrypting side.
Arrive ==
    /\ ~encrypting
    /\ Len(sent) < MaxBytes
    /\ \E b \in Byte : plain' = Append(plain, b) /\ sent' = Append(sent, b)
    /\ UNCHANGED <<password, encrypting, wire, coded, decoder>>

encrypt ==
    /\ ~encrypting
    /\ plain # <<>>
    /\ encrypting' = TRUE
    /\ UNCHANGED <<password, plain, sent, wire, coded, decoder>>

\* One round of Cipher::encrypt's loop; it ends when there is nothing to read.
EncryptChunk ==
    /\ encrypting
    /\ \/ /\ plain = <<>>
          /\ encrypting' = FALSE
          /\ UNCHANGED <<plain, wire>>
       \/ /\ plain # <<>>
          /\ LET data == Read(plain, EncChunk)
             IN  /\ plain' = After(plain, Len(data))
                 /\ wire' = wire \o Substitute(password, data)
          /\ UNCHANGED encrypting
    /\ UNCHANGED <<password, sent, coded, decoder>>

\* TCP delivers some of what is on its way.
Deliver ==
    /\ decrypting = "idle"
    /\ \E n \in 1..Len(wire) :
         /\ coded' = coded \o SubSeq(wire, 1, n)
         /\ wire' = SubSeq(wire, n + 1, Len(wire))
    /\ UNCHANGED <<password, encoder, decoder>>

-----------------------------------------------------------------------------
decrypt ==
    /\ decrypting = "idle"
    /\ coded # <<>>
    /\ decrypting' = "table"
    /\ j' = 0
    /\ d_password' = Zeroes
    /\ UNCHANGED <<password, encoder, wire, coded, out>>

\* Mutant: the loop leaves out the last byte value.
InvertByte_short ==
    /\ decrypting = "table"
    /\ d_password' = [d_password EXCEPT ![password[j]] = j]
    /\ j' = j + 1
    /\ decrypting' = IF j' >= Size - 1 THEN "loop" ELSE "table"
    /\ UNCHANGED <<password, encoder, wire, coded, out>>

\* Mutant: byte values are counted from one.
InvertByte_from_one ==
    /\ decrypting = "table"
    /\ j' = j + 1
    /\ d_password' = [d_password EXCEPT ![password[j]] = j']
    /\ decrypting' = IF j' = Size THEN "loop" ELSE "table"
    /\ UNCHANGED <<password, encoder, wire, coded, out>>

\* One round of the loop that builds the inverse table.
InvertByte ==
    /\ decrypting = "table"
    /\ d_password' = [d_password EXCEPT ![password[j]] = j]
    /\ j' = j + 1
    /\ decrypting' = IF j' = Size THEN "loop" ELSE "table"
    /\ UNCHANGED <<password, encoder, wire, coded, out>>

\* One round of Cipher::decrypt's second loop.
DecryptChunk ==
    /\ decrypting = "loop"
    /\ \/ /\ coded = <<>>
          /\ decrypting' = "idle"
          /\ UNCHANGED <<coded, out>>
       \/ /\ coded # <<>>
          /\ LET data == Read(coded, DecChunk)
             IN  /\ coded' = After(coded, Len(data))
                 /\ out' = out \o Substitute(d_password, data)
          /\ UNCHANGED decrypting
    /\ UNCHANGED <<password, encoder, wire, j, d_password>>

Next == Arrive \/ encrypt \/ EncryptChunk \/ Deliver \/ decrypt \/ InvertByte \/ DecryptChunk

Spec == Init /\ [][Next]_vars

\* The processes run their loops and TCP delivers.
FairSpec == Spec /\ WF_vars(encrypt \/ EncryptChunk) /\ WF_vars(Deliver)
                 /\ WF_vars(decrypt \/ InvertByte \/ DecryptChunk)

-----------------------------------------------------------------------------
\* What genPassword takes care of and setConfig does not check.
Injective(table) == \A x, y \in Byte : table[x] = table[y] => x = y

\* The table the decrypting side has built restores every byte if and only if
\* no two bytes share a value in the password.
TableInverts == decrypting = "loop" =>
    (Injective(password) <=> \A x \in Byte : d_password[password[x]] = x)

\* What the password turns bytes into, and the byte a coded byte stands for.
Coded == {password[x] : x \in Byte}
Original == [b \in Coded |-> CHOOSE x \in Byte : password[x] = b]

\* With such a password nothing is lost, repeated, reordered or changed between
\* the two ends, wherever the chunks of either loop and the segments of TCP end:
\* what was written on, and what is still under way, is what was sent.
RoundTrip == Injective(password) =>
    out \o Substitute(Original, coded) \o Substitute(Original, wire) \o plain = sent

\* The inductive invariant: as far as the table has been built it leads every
\* coded byte to one that codes the same, only coded bytes are under way, and the
\* stream is complete.
PartlyInverted(n) == \A x \in 0..(n - 1) : password[d_password[password[x]]] = password[x]

IInv ==
    /\ TypeOK
    /\ wire \in Seq(Coded) /\ coded \in Seq(Coded)
    /\ decrypting = "table" => j < Size /\ PartlyInverted(j)
    /\ decrypting = "loop" => PartlyInverted(Size)
    /\ RoundTrip

\* Both loops end, and all that was sent is written on in the end.
AllDelivered == Injective(password) => \A n \in 1..MaxBytes :
    Len(sent) = n ~> Len(out) >= n
=============================================================================
