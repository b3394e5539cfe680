------------------------------- MODULE Base64 -------------------------------
(***************************************************************************)
(* base64_encode and base64_decode, through which a password goes on its   *)
(* way from genPassword into config_server.json, by hand into config.json, *)
(* and from there into the tables.                                         *)
(*                                                                         *)
(* A character is its index in base64_chars, or Other for one that is not  *)
(* in it ('=' among them).  One step is one round of a loop that completes *)
(* a group, or what comes after the loop.  Masks and shifts are written as *)
(* quotients and remainders; char_array_3 holds unsigned chars.            *)
(***************************************************************************)
EXTENDS Integers, SequencesExt, FiniteSets

CONSTANT Inputs   \* what is encoded

ASSUME InputsAssumption == Inputs \subseteq Seq(0..255)

Other == 64
Chars == 0..Other

VARIABLES
    phase,    \* "encoding", "encoded", "decoding" or "decoded"
    bytes,    \* what is encoded
    in_,      \* how many of its bytes are
    encoded,  \* what base64_encode has returned so far
    text,     \* what is decoded
    pos,      \* how many of its characters are
    decoded   \* what base64_decode has returned so far

vars == <<phase, bytes, in_, encoded, text, pos, decoded>>

Init ==
    /\ phase = "encoding"
    /\ bytes \in Inputs /\ in_ = 0
    /\ encoded = <<>> /\ text = <<>> /\ pos = 0 /\ decoded = <<>>

-----------------------------------------------------------------------------
\* char_array_4 from char_array_3.
Char1(a) == a \div 4
Char2(a, b) == (a % 4) * 16 + b \div 16
Char3(b, c) == (b % 16) * 4 + c \div 64
Char4(c) == c % 64

Group(a, b, c) == <<Char1(a), Char2(a, b), Char3(b, c), Char4(c)>>

EncodeGroup ==
    /\ phase = "encoding" /\ in_ + 3 <= Len(bytes)
    /\ encoded' = encoded \o Group(bytes[in_ + 1], bytes[in_ + 2], bytes[in_ + 3])
    /\ in_' = in_ + 3
    /\ UNCHANGED <<phase, bytes, text, pos, decoded>>

\* The last group: missing bytes are zero, missing characters are '='.
Rest(rest) ==
    CASE Len(rest) = 0 -> <<>>
      [] Len(rest) = 1 -> <<Char1(rest[1]), Char2(rest[1], 0), Other, Other>>
      [] Len(rest) = 2 -> <<Char1(rest[1]), Char2(rest[1], rest[2]), Char3(rest[2], 0), Other>>

EncodeRest ==
    /\ phase = "encoding" /\ in_ + 3 > Len(bytes)
    /\ encoded' = encoded \o Rest(SubSeq(bytes, in_ + 1, Len(bytes)))
    /\ in_' = Len(bytes)
    /\ phase' = "encoded"
    /\ UNCHANGED <<bytes, text, pos, decoded>>

\* The user copies the text, or a beginning of it with something else behind it.
Copy ==
    /\ phase = "encoded"
    /\ phase' = "decoding"
    /\ \E kept \in 0..Len(encoded) :
         text' \in {SubSeq(encoded, 1, kept), SubSeq(encoded, 1, kept) \o <<Other>>}
    /\ UNCHANGED <<bytes, in_, encoded, pos, decoded>>

-----------------------------------------------------------------------------
\* char_array_3 from char_array_4.
Byte1(p, q) == (p * 4 + (q % 64) \div 16) % 256
Byte2(q, r) == ((q % 16) * 16 + (r % 64) \div 4) % 256
Byte3(r, s) == ((r % 4) * 64 + s) % 256

\* The loop reads characters until one is not in base64_chars.
Readable(n) == pos + n <= Len(text) /\ \A i \in 1..n : text[pos + i] # Other

DecodeGroup ==
    /\ phase = "decoding" /\ Readable(4)
    /\ LET p == text[pos + 1]  q == text[pos + 2]  r == text[pos + 3]  s == text[pos + 4]
       IN  decoded' = decoded \o <<Byte1(p, q), Byte2(q, r), Byte3(r, s)>>
    /\ pos' = pos + 4
    /\ UNCHANGED <<phase, bytes, in_, encoded, text>>

\* Mutant: as many bytes as characters are left.
Unfinished_too_long(n) ==
    LET char(i) == IF i <= n THEN text[pos + i] ELSE 0
    IN  SubSeq(<<Byte1(char(1), char(2)), Byte2(char(2), char(3)), Byte3(char(3), 0)>>, 1, n)

\* What n characters of an unfinished group give: n - 1 bytes.
Unfinished(n) ==
    CASE n <= 1 -> <<>>
      [] n = 2 -> <<Byte1(text[pos + 1], text[pos + 2])>>
      [] n = 3 -> <<Byte1(text[pos + 1], text[pos + 2]), Byte2(text[pos + 2], text[pos + 3])>>

DecodeRest ==
    /\ phase = "decoding"
    /\ \E n \in 0..3 :
         /\ Readable(n) /\ ~Readable(n + 1)
         /\ decoded' = decoded \o Unfinished(n)
         /\ pos' = pos + n
    /\ phase' = "decoded"
    /\ UNCHANGED <<bytes, in_, encoded, text>>

-----------------------------------------------------------------------------
Next == EncodeGroup \/ EncodeRest \/ Copy \/ DecodeGroup \/ DecodeRest

Spec == Init /\ [][Next]_vars

-----------------------------------------------------------------------------
\* Decoding gives back the bytes, whatever their number, and of a text that was cut off as
\* many bytes as its characters hold: a password copied in part makes a table that is right
\* as far as it goes.
Restores ==
    /\ IsPrefix(decoded, bytes)
    /\ phase = "decoded" =>
         /\ Len(decoded) = (6 * Cardinality({i \in DOMAIN text : text[i] # Other})) \div 8
         /\ IsPrefix(encoded, text) => decoded = bytes
=============================================================================
