---------------------------- MODULE Base64Proofs ----------------------------
(***************************************************************************)
(* Proofs about Base64: whatever bytes are encoded, and wherever the text  *)
(* is cut off, what is decoded is a beginning of them, as long as the      *)
(* characters that were left can make it.                                  *)
(*                                                                         *)
(* Both loops go group by group, so the invariant says of each group what  *)
(* its four characters are; a group that lacks bytes is one with zeros.    *)
(***************************************************************************)
EXTENDS Base64, SequenceTheorems, FiniteSetTheorems, TLAPS

-----------------------------------------------------------------------------
\* The invariant.

Byte == 0..255
Digit == 0..63

\* The bytes of group g, with zeros for those that are missing.
ByteAt(k) == IF k <= Len(bytes) THEN bytes[k] ELSE 0
GroupOf(g) == Group(ByteAt(3 * g + 1), ByteAt(3 * g + 2), ByteAt(3 * g + 3))

\* How many characters n bytes make, and how many bytes n characters make.
CharsFor(n) == (4 * n + 2) \div 3
BytesFor(n) == (6 * n) \div 8

\* The first n characters of s are those of the groups of bytes.
IsEncoding(s, n) ==
    /\ n <= Len(s)
    /\ \A g \in 0..n : \A j \in 1..4 : 4 * g + j <= n => s[4 * g + j] = GroupOf(g)[j]

IsEncodingOnly(s, n) == IsEncoding(s, n) /\ \A i \in (n + 1)..Len(s) : s[i] = Other

Types ==
    /\ phase \in {"encoding", "encoded", "decoding", "decoded"}
    /\ bytes \in Seq(Byte) /\ in_ \in 0..Len(bytes)
    /\ encoded \in Seq(Chars) /\ text \in Seq(Chars) /\ pos \in Nat
    /\ decoded \in Seq(Byte)

Encoding == phase = "encoding" =>
    /\ in_ % 3 = 0 /\ 3 * Len(encoded) = 4 * in_
    /\ IsEncoding(encoded, Len(encoded))
    /\ decoded = <<>> /\ pos = 0

Encoded == phase # "encoding" => IsEncodingOnly(encoded, CharsFor(Len(bytes)))

\* Of the text m characters are read as characters: all there are, or those before the cut.
IsRead(m) ==
    /\ IsEncodingOnly(text, m)
    /\ m <= CharsFor(Len(bytes))
    /\ IsPrefix(encoded, text) => m = CharsFor(Len(bytes))
    /\ phase = "decoding" => pos % 4 = 0 /\ pos <= m /\ Len(decoded) = BytesFor(pos)
    /\ phase = "decoded" => pos = m /\ Len(decoded) = BytesFor(m)

Decoding ==
    /\ phase = "encoded" => decoded = <<>> /\ pos = 0
    /\ phase \in {"decoding", "decoded"} => \E m \in 0..Len(text) : IsRead(m)

Begins ==
    /\ Len(decoded) <= Len(bytes)
    /\ \A i \in 1..Len(decoded) : decoded[i] = bytes[i]

CodingInv == Types /\ Encoding /\ Encoded /\ Decoding /\ Begins

-----------------------------------------------------------------------------
\* The arithmetic of one group.

LEMMA GroupChars ==
    ASSUME NEW a \in Byte, NEW b \in Byte, NEW c \in Byte
    PROVE  /\ Char1(a) \in Digit /\ Char2(a, b) \in Digit
           /\ Char3(b, c) \in Digit /\ Char4(c) \in Digit
BY DEF Char1, Char2, Char3, Char4, Byte, Digit

LEMMA GroupInverse ==
    ASSUME NEW a \in Byte, NEW b \in Byte, NEW c \in Byte
    PROVE  /\ Byte1(Char1(a), Char2(a, b)) = a
           /\ Byte2(Char2(a, b), Char3(b, c)) = b
           /\ Byte3(Char3(b, c), Char4(c)) = c
<1>1. Byte1(Char1(a), Char2(a, b)) = a
    BY DEF Byte1, Char1, Char2, Byte
<1>2. Byte2(Char2(a, b), Char3(b, c)) = b
    BY DEF Byte2, Char2, Char3, Byte
<1>3. Byte3(Char3(b, c), Char4(c)) = c
    BY DEF Byte3, Char3, Char4, Byte
<1>. QED
    BY <1>1, <1>2, <1>3

LEMMA Groups ==
    ASSUME Types, NEW g \in Nat
    PROVE  /\ \A k \in Nat \ {0} : ByteAt(k) \in Byte
           /\ GroupOf(g) \in Seq(Digit) /\ Len(GroupOf(g)) = 4
           /\ GroupOf(g)[1] = Char1(ByteAt(3 * g + 1))
           /\ GroupOf(g)[2] = Char2(ByteAt(3 * g + 1), ByteAt(3 * g + 2))
           /\ GroupOf(g)[3] = Char3(ByteAt(3 * g + 2), ByteAt(3 * g + 3))
           /\ GroupOf(g)[4] = Char4(ByteAt(3 * g + 3))
<1>1. ASSUME NEW k \in Nat \ {0} PROVE ByteAt(k) \in Byte
    <2>1. \A i \in 1..Len(bytes) : bytes[i] \in Byte
        BY ElementOfSeq DEF Types
    <2>2. k <= Len(bytes) => k \in 1..Len(bytes)
        BY LenProperties DEF Types
    <2>. QED
        BY <2>1, <2>2 DEF ByteAt, Byte
<1>. DEFINE x == ByteAt(3 * g + 1)
            y == ByteAt(3 * g + 2)
            z == ByteAt(3 * g + 3)
<1>2. x \in Byte /\ y \in Byte /\ z \in Byte
    BY <1>1
<1>3. GroupOf(g) = <<Char1(x), Char2(x, y), Char3(y, z), Char4(z)>>
    BY DEF GroupOf, Group
<1>. HIDE DEF x, y, z
<1>4. Char1(x) \in Digit /\ Char2(x, y) \in Digit /\ Char3(y, z) \in Digit /\ Char4(z) \in Digit
    BY <1>2, GroupChars
<1>5. /\ GroupOf(g) \in Seq(Digit) /\ Len(GroupOf(g)) = 4
      /\ GroupOf(g)[1] = Char1(x) /\ GroupOf(g)[2] = Char2(x, y)
      /\ GroupOf(g)[3] = Char3(y, z) /\ GroupOf(g)[4] = Char4(z)
    BY <1>3, <1>4
<1>. QED
    BY <1>1, <1>5 DEF x, y, z

-----------------------------------------------------------------------------
\* Sequences that grow by a group.

LEMMA Joined ==
    ASSUME NEW S, NEW s \in Seq(S), NEW t \in Seq(S)
    PROVE  /\ s \o t \in Seq(S) /\ Len(s \o t) = Len(s) + Len(t)
           /\ Len(s) \in Nat /\ Len(t) \in Nat
           /\ \A i \in 1..Len(s) : (s \o t)[i] = s[i]
           /\ \A i \in 1..Len(t) : (s \o t)[Len(s) + i] = t[i]
<1>. DEFINE m == Len(s)
            n == Len(t)
<1>1. /\ s \o t \in Seq(S) /\ Len(s \o t) = m + n
      /\ \A i \in 1..(m + n) : (s \o t)[i] = IF i <= m THEN s[i] ELSE t[i - m]
    BY ConcatProperties
<1>2. m \in Nat /\ n \in Nat
    BY LenProperties
<1>. HIDE DEF m, n
<1>3. \A i \in 1..m : i \in 1..(m + n) /\ i <= m
    BY <1>2
<1>4. \A i \in 1..m : (s \o t)[i] = s[i]
    BY <1>1, <1>3
<1>5. ASSUME NEW i \in 1..n PROVE (s \o t)[m + i] = t[i]
    <2>. DEFINE k == m + i
    <2>1. k \in 1..(m + n) /\ ~(k <= m) /\ k - m = i
        BY <1>2
    <2>. HIDE DEF k
    <2>2. (s \o t)[k] = t[k - m]
        BY <1>1, <2>1
    <2>. QED
        BY <2>1, <2>2 DEF k
<1>. QED
    BY <1>1, <1>2, <1>4, <1>5, Zenon DEF m, n

\* Every position is the place of a character in a group.
LEMMA Places ==
    ASSUME NEW i \in Nat \ {0}
    PROVE  /\ (i - 1) \div 4 \in 0..i /\ ((i - 1) % 4) + 1 \in 1..4
           /\ i = 4 * ((i - 1) \div 4) + (((i - 1) % 4) + 1)
OBVIOUS

\* What is an encoding has no '=' in it.
LEMMA EncodingChars ==
    ASSUME Types, NEW s, NEW n \in Nat, IsEncoding(s, n), NEW i \in 1..n
    PROVE  s[i] \in Digit
<1>. DEFINE g == (i - 1) \div 4
            j == ((i - 1) % 4) + 1
<1>1. g \in 0..i /\ j \in 1..4 /\ i = 4 * g + j
    BY Places
<1>. HIDE DEF g, j
<1>2. g \in 0..n /\ 4 * g + j <= n /\ g \in Nat
    BY <1>1
<1>3. s[4 * g + j] = GroupOf(g)[j]
    BY <1>1, <1>2 DEF IsEncoding
<1>4. GroupOf(g) \in Seq(Digit) /\ Len(GroupOf(g)) = 4
    BY <1>2, Groups
<1>5. GroupOf(g)[j] \in Digit
    BY <1>1, <1>4, ElementOfSeq
<1>. QED
    BY <1>1, <1>3, <1>5

\* k characters of the next group, and '=' after them, continue the encoding.
LEMMA EncodingGrows ==
    ASSUME NEW G \in Nat, NEW k \in 0..4, NEW s \in Seq(Chars), NEW t \in Seq(Chars),
           Len(s) = 4 * G, IsEncoding(s, 4 * G), k <= Len(t),
           \A j \in 1..k : t[j] = GroupOf(G)[j],
           \A j \in (k + 1)..Len(t) : t[j] = Other
    PROVE  IsEncodingOnly(s \o t, 4 * G + k)
<1>. DEFINE u == s \o t
            n == Len(t)
            N == Len(u)
<1>1. /\ N = 4 * G + n /\ n \in Nat
      /\ \A i \in 1..(4 * G) : u[i] = s[i]
      /\ \A i \in 1..n : u[4 * G + i] = t[i]
    <2>1. u \in Seq(Chars) /\ N = Len(s) + n /\ n \in Nat
        BY Joined, Zenon
    <2>2. \A i \in 1..Len(s) : u[i] = s[i]
        BY Joined, ZenonT(40)
    <2>3. ASSUME NEW i \in 1..n PROVE u[Len(s) + i] = t[i]
        BY <2>3, Joined
    <2>. HIDE DEF u, n, N
    <2>. QED
        BY <2>1, <2>2, <2>3
<1>. HIDE DEF u, n, N
<1>2. k <= n
    BY DEF n
<1>3. ASSUME NEW g \in 0..(4 * G + k), NEW j \in 1..4, 4 * g + j <= 4 * G + k
      PROVE  u[4 * g + j] = GroupOf(g)[j]
    <2>1. CASE g < G
        <3>1. g \in 0..(4 * G) /\ 4 * g + j <= 4 * G /\ 4 * g + j \in 1..(4 * G)
            BY <1>3, <2>1
        <3>2. s[4 * g + j] = GroupOf(g)[j]
            BY <3>1 DEF IsEncoding
        <3>. QED
            BY <1>1, <3>1, <3>2
    <2>2. CASE g >= G
        <3>1. g = G /\ j \in 1..k /\ j \in 1..n
            BY <1>1, <1>2, <1>3, <2>2
        <3>. QED
            BY <1>1, <3>1
    <2>. QED
        BY <2>1, <2>2
<1>4. ASSUME NEW i \in (4 * G + k + 1)..N PROVE u[i] = Other
    <2>. DEFINE j == i - 4 * G
    <2>1. j \in (k + 1)..n /\ j \in 1..n /\ i = 4 * G + j
        BY <1>1, <1>4
    <2>. HIDE DEF j
    <2>2. t[j] = Other /\ u[4 * G + j] = t[j]
        BY <1>1, <2>1 DEF n
    <2>. QED
        BY <2>1, <2>2
<1>5. 4 * G + k <= N
    BY <1>1, <1>2
<1>6. IsEncoding(u, 4 * G + k)
    BY <1>3, <1>5 DEF IsEncoding, N
<1>. QED
    BY <1>4, <1>6 DEF IsEncodingOnly, u, N

-----------------------------------------------------------------------------
\* One step after the other.

\* What the invariant says about the numbers.
LEMMA Numbers ==
    ASSUME Types
    PROVE  /\ Len(bytes) \in Nat /\ Len(encoded) \in Nat /\ Len(text) \in Nat /\ Len(decoded) \in Nat
           /\ in_ \in Nat /\ in_ <= Len(bytes) /\ pos \in Nat
           /\ CharsFor(Len(bytes)) \in Nat
           /\ \A i \in 1..Len(encoded) : encoded[i] \in Chars
           /\ \A i \in 1..Len(text) : text[i] \in Chars
<1>1. /\ Len(bytes) \in Nat /\ Len(encoded) \in Nat /\ Len(text) \in Nat /\ Len(decoded) \in Nat
      /\ \A i \in 1..Len(encoded) : encoded[i] \in Chars
      /\ \A i \in 1..Len(text) : text[i] \in Chars
    BY LenProperties, ElementOfSeq DEF Types
<1>. DEFINE L == Len(bytes)
<1>2. in_ \in 0..L /\ pos \in Nat /\ L \in Nat
    BY <1>1 DEF Types
<1>. HIDE DEF L
<1>3. in_ \in Nat /\ in_ <= L /\ CharsFor(L) \in Nat
    BY <1>2 DEF CharsFor
<1>. QED
    BY <1>1, <1>2, <1>3 DEF L

LEMMA DigitsAreChars == \A s \in Seq(Digit) : s \in Seq(Chars)
<1>1. Digit \subseteq Chars
    BY DEF Digit, Chars, Other
<1>. QED
    BY <1>1, SeqMonotonic

LEMMA EncodeGroupKeeps ==
    ASSUME CodingInv, EncodeGroup
    PROVE  CodingInv'
<1>. DEFINE L == Len(bytes)
            n == Len(encoded)
            G == in_ \div 3
            t == Group(bytes[in_ + 1], bytes[in_ + 2], bytes[in_ + 3])
<1>1. /\ Types /\ phase = "encoding" /\ phase' = phase /\ bytes' = bytes
      /\ in_ % 3 = 0 /\ 3 * n = 4 * in_ /\ IsEncoding(encoded, n)
      /\ in_ + 3 <= L /\ in_' = in_ + 3 /\ encoded' = encoded \o t
      /\ decoded = <<>> /\ pos = 0 /\ UNCHANGED <<text, pos, decoded>>
    BY DEF CodingInv, Encoding, EncodeGroup
<1>2. L \in Nat /\ n \in Nat /\ in_ \in Nat
    BY <1>1, Numbers
<1>. HIDE DEF L, n
<1>3. G \in Nat /\ in_ = 3 * G /\ n = 4 * G /\ 3 * G + 3 <= L
    BY <1>1, <1>2
<1>. HIDE DEF G
<1>4. t = GroupOf(G)
    <2>1. /\ ByteAt(3 * G + 1) = bytes[in_ + 1] /\ ByteAt(3 * G + 2) = bytes[in_ + 2]
          /\ ByteAt(3 * G + 3) = bytes[in_ + 3]
        BY <1>2, <1>3 DEF ByteAt, L
    <2>. QED
        BY <2>1 DEF GroupOf
<1>. HIDE DEF t
<1>5. t \in Seq(Chars) /\ Len(t) = 4
    BY <1>1, <1>3, <1>4, Groups, DigitsAreChars
<1>6. IsEncodingOnly(encoded \o t, 4 * G + 4)
    <2>1. encoded \in Seq(Chars)
        BY <1>1 DEF Types
    <2>2. Len(encoded) = 4 * G /\ IsEncoding(encoded, 4 * G)
        BY <1>1, <1>3 DEF n
    <2>3. /\ 4 \in 0..4 /\ 4 <= Len(t) /\ \A j \in 1..4 : t[j] = GroupOf(G)[j]
          /\ \A j \in (4 + 1)..Len(t) : t[j] = Other
        BY <1>4, <1>5
    <2>. QED
        BY <1>3, <1>5, <2>1, <2>2, <2>3, EncodingGrows
<1>7. encoded' \in Seq(Chars) /\ Len(encoded') = 4 * G + 4
    <2>1. encoded \in Seq(Chars) /\ Len(encoded) = 4 * G
        BY <1>1, <1>3 DEF Types, n
    <2>2. encoded \o t \in Seq(Chars) /\ Len(encoded \o t) = Len(encoded) + Len(t)
        BY <1>5, <2>1, Joined, Zenon
    <2>. QED
        BY <1>1, <1>5, <2>1, <2>2
<1>8. Types'
    <2>1. in_' \in 0..Len(bytes)
        BY <1>1, <1>2 DEF L
    <2>. QED
        BY <1>1, <1>7, <2>1 DEF Types
<1>9. Encoding'
    <2>1. in_' % 3 = 0 /\ 3 * Len(encoded') = 4 * in_'
        BY <1>1, <1>3, <1>7
    <2>2. IsEncoding(encoded, Len(encoded))'
        <3>. DEFINE N == 4 * G + 4
        <3>1. /\ N <= Len(encoded')
              /\ \A g \in 0..N : \A j \in 1..4 : 4 * g + j <= N => encoded'[4 * g + j] = GroupOf(g)[j]
            BY <1>1, <1>6 DEF IsEncoding, IsEncodingOnly
        <3>. HIDE DEF N
        <3>2. N = Len(encoded')
            BY <1>7 DEF N
        <3>. QED
            BY <1>1, <3>1, <3>2, SMTT(40) DEF IsEncoding, GroupOf, ByteAt
    <2>. QED
        BY <1>1, <2>1, <2>2 DEF Encoding
<1>10. Encoded' /\ Decoding'
    BY <1>1 DEF Encoded, Decoding
<1>11. Begins'
    BY <1>1 DEF Begins, CodingInv
<1>. QED
    BY <1>8, <1>9, <1>10, <1>11 DEF CodingInv

\* The last group: two bytes missing make two characters, one missing makes three.
LEMMA RestContinues ==
    ASSUME Types, NEW G \in Nat, in_ = 3 * G, in_ + 3 > Len(bytes)
    PROVE  LET t == Rest(SubSeq(bytes, in_ + 1, Len(bytes)))
           IN  /\ t \in Seq(Chars)
               /\ \E k \in 0..4 : /\ k <= Len(t) /\ 4 * G + k = CharsFor(Len(bytes))
                                  /\ \A j \in 1..k : t[j] = GroupOf(G)[j]
                                  /\ \A j \in (k + 1)..Len(t) : t[j] = Other
<1>. DEFINE L == Len(bytes)
            r == SubSeq(bytes, in_ + 1, L)
            t == Rest(r)
            n == Len(r)
            x == ByteAt(3 * G + 1)
            y == ByteAt(3 * G + 2)
            z == ByteAt(3 * G + 3)
<1>1. L \in Nat /\ in_ \in Nat /\ in_ <= L
    BY Numbers
<1>2. /\ n = L - 3 * G
      /\ n >= 1 => r[1] = x
      /\ n < 2 => y = 0
      /\ n >= 2 => r[2] = y
      /\ n < 3 => z = 0
    <2>1. \A i \in (in_ + 1)..L : bytes[i] \in Byte
        BY <1>1, ElementOfSeq DEF Types
    <2>2. n = (IF in_ + 1 <= L THEN L - (in_ + 1) + 1 ELSE 0)
        BY <1>1, <2>1, SubSeqProperties
    <2>3. \A i \in 1..(L - (in_ + 1) + 1) : r[i] = bytes[in_ + 1 + i - 1]
        BY <1>1, <2>1, SubSeqProperties
    <2>. HIDE DEF L, r, n
    <2>4. n = L - 3 * G
        BY <1>1, <2>2
    <2>5. n >= 1 => r[1] = bytes[3 * G + 1]
        BY <1>1, <2>3, <2>4
    <2>6. n >= 2 => r[2] = bytes[3 * G + 2]
        BY <1>1, <2>3, <2>4
    <2>. QED
        BY <1>1, <2>4, <2>5, <2>6 DEF ByteAt, L
<1>3. /\ x \in Byte /\ y \in Byte /\ z \in Byte
      /\ GroupOf(G)[1] = Char1(x) /\ GroupOf(G)[2] = Char2(x, y) /\ GroupOf(G)[3] = Char3(y, z)
    <2>1. 3 * G + 1 \in Nat \ {0} /\ 3 * G + 2 \in Nat \ {0} /\ 3 * G + 3 \in Nat \ {0}
        OBVIOUS
    <2>. QED
        BY <2>1, Groups, Zenon
<1>. HIDE DEF x, y, z
<1>4. Char1(x) \in Chars /\ Char2(x, y) \in Chars /\ Char3(y, z) \in Chars /\ Other \in Chars
    <2>1. Char1(x) \in Digit /\ Char2(x, y) \in Digit /\ Char3(y, z) \in Digit
        BY <1>3, GroupChars
    <2>. QED
        BY <2>1 DEF Digit, Chars, Other
<1>. HIDE DEF L, r, n
<1>5. n \in 0..2
    BY <1>1, <1>2 DEF L
<1>6. CASE n = 0
    <2>1. t = <<>> /\ 4 * G + 0 = CharsFor(L)
        BY <1>1, <1>2, <1>6, SMTT(40) DEF Rest, CharsFor, n
    <2>. HIDE DEF t
    <2>2. t \in Seq(Chars) /\ Len(t) = 0
        BY <2>1, EmptySeq
    <2>3. /\ 0 \in 0..4 /\ 0 <= Len(t)
          /\ \A j \in 1..0 : t[j] = GroupOf(G)[j]
          /\ \A j \in (0 + 1)..Len(t) : t[j] = Other
        BY <2>2
    <2>. QED
        BY <2>1, <2>2, <2>3, Zenon DEF t, r, L
<1>7. CASE n = 1
    <2>1. t = <<Char1(x), Char2(x, y), Other, Other>>
        <3>1. t = <<Char1(r[1]), Char2(r[1], 0), Other, Other>>
            BY <1>7 DEF Rest, n
        <3>2. r[1] = x /\ y = 0
            BY <1>2, <1>7
        <3>. QED
            BY <3>1, <3>2
    <2>2. 4 * G + 2 = CharsFor(L)
        BY <1>1, <1>2, <1>7 DEF CharsFor
    <2>. HIDE DEF t
    <2>3. t \in Seq(Chars) /\ Len(t) = 4 /\ t[3] = Other /\ t[4] = Other
        BY <1>4, <2>1
    <2>4. \A j \in 1..2 : t[j] = GroupOf(G)[j]
        BY <1>3, <2>1
    <2>5. \A j \in (2 + 1)..Len(t) : t[j] = Other
        BY <2>3
    <2>6. 2 \in 0..4 /\ 2 <= Len(t)
        BY <2>3
    <2>. QED
        BY <2>2, <2>3, <2>4, <2>5, <2>6, Zenon DEF t, r, L
<1>8. CASE n = 2
    <2>1. t = <<Char1(x), Char2(x, y), Char3(y, z), Other>>
        <3>1. t = <<Char1(r[1]), Char2(r[1], r[2]), Char3(r[2], 0), Other>>
            BY <1>8 DEF Rest, n
        <3>2. r[1] = x /\ r[2] = y /\ z = 0
            BY <1>2, <1>8
        <3>. QED
            BY <3>1, <3>2
    <2>2. 4 * G + 3 = CharsFor(L)
        BY <1>1, <1>2, <1>8 DEF CharsFor
    <2>. HIDE DEF t
    <2>3. t \in Seq(Chars) /\ Len(t) = 4 /\ t[4] = Other
        BY <1>4, <2>1
    <2>4. \A j \in 1..3 : t[j] = GroupOf(G)[j]
        BY <1>3, <2>1
    <2>5. \A j \in (3 + 1)..Len(t) : t[j] = Other
        BY <2>3
    <2>6. 3 \in 0..4 /\ 3 <= Len(t)
        BY <2>3
    <2>. QED
        BY <2>2, <2>3, <2>4, <2>5, <2>6, Zenon DEF t, r, L
<1>. QED
    BY <1>5, <1>6, <1>7, <1>8

LEMMA EncodeRestKeeps ==
    ASSUME CodingInv, EncodeRest
    PROVE  CodingInv'
<1>. DEFINE L == Len(bytes)
            n == Len(encoded)
            G == in_ \div 3
            t == Rest(SubSeq(bytes, in_ + 1, Len(bytes)))
            M == CharsFor(Len(bytes))
<1>1. /\ Types /\ phase = "encoding" /\ phase' = "encoded" /\ bytes' = bytes
      /\ in_ % 3 = 0 /\ 3 * n = 4 * in_ /\ IsEncoding(encoded, n)
      /\ in_ + 3 > L /\ in_' = L /\ encoded' = encoded \o t
      /\ decoded = <<>> /\ pos = 0 /\ UNCHANGED <<text, pos, decoded>>
    BY DEF CodingInv, Encoding, EncodeRest
<1>2. L \in Nat /\ n \in Nat /\ in_ \in Nat
    BY <1>1, Numbers
<1>. HIDE DEF L, n
<1>3. G \in Nat /\ in_ = 3 * G /\ n = 4 * G
    BY <1>1, <1>2
<1>. HIDE DEF G
<1>4. PICK k \in 0..4 : /\ t \in Seq(Chars)
                        /\ k <= Len(t) /\ 4 * G + k = M
                        /\ \A j \in 1..k : t[j] = GroupOf(G)[j]
                        /\ \A j \in (k + 1)..Len(t) : t[j] = Other
    BY <1>1, <1>3, RestContinues, Zenon DEF L
<1>. HIDE DEF t, M
<1>5. encoded \in Seq(Chars) /\ Len(encoded) = 4 * G /\ IsEncoding(encoded, 4 * G)
    BY <1>1, <1>3 DEF Types, n
<1>6. IsEncodingOnly(encoded', M)
    BY <1>1, <1>3, <1>4, <1>5, EncodingGrows
<1>7. encoded' \in Seq(Chars)
    BY <1>1, <1>4, <1>5, Joined, Zenon
<1>8. Types'
    <2>1. in_' \in 0..Len(bytes)
        BY <1>1, <1>2 DEF L
    <2>. QED
        BY <1>1, <1>7, <2>1 DEF Types
<1>9. Encoded'
    BY <1>1, <1>6 DEF Encoded, IsEncodingOnly, IsEncoding, GroupOf, ByteAt, M
<1>10. Encoding' /\ Decoding'
    BY <1>1 DEF Encoding, Decoding
<1>11. Begins'
    BY <1>1 DEF Begins, CodingInv
<1>. QED
    BY <1>8, <1>9, <1>10, <1>11 DEF CodingInv

\* A text that begins as the encoding is one up to where it was cut off.
LEMMA CutText ==
    ASSUME Types, NEW s \in Seq(Chars), NEW u \in Seq(Chars), NEW kept \in 0..Len(s), NEW M \in Nat,
           IsEncodingOnly(s, M),
           Len(u) >= kept, \A i \in 1..kept : u[i] = s[i], \A i \in (kept + 1)..Len(u) : u[i] = Other
    PROVE  \E m \in 0..Len(u) :
             IsEncodingOnly(u, m) /\ m <= M /\ (IsPrefix(s, u) => m = M)
<1>. DEFINE n == Len(s)
            N == Len(u)
            m == IF kept <= M THEN kept ELSE M
<1>1. n \in Nat /\ N \in Nat /\ kept \in Nat /\ kept <= N /\ kept <= n /\ M <= n
    <2>1. n \in Nat /\ N \in Nat /\ kept <= N /\ kept \in 0..n
        BY LenProperties
    <2>2. M <= n
        BY DEF IsEncodingOnly, IsEncoding
    <2>. HIDE DEF n, N
    <2>. QED
        BY <2>1, <2>2
<1>2. /\ \A i \in 1..kept : u[i] = s[i]
      /\ \A i \in (kept + 1)..N : u[i] = Other
      /\ \A i \in (M + 1)..n : s[i] = Other
      /\ \A g \in 0..M : \A j \in 1..4 : 4 * g + j <= M => s[4 * g + j] = GroupOf(g)[j]
    BY DEF IsEncodingOnly, IsEncoding
<1>. HIDE DEF n, N
<1>3. m \in Nat /\ m <= kept /\ m <= M /\ m <= N /\ (m = kept \/ m = M)
    BY <1>1
<1>. HIDE DEF m
<1>4. ASSUME NEW i \in (m + 1)..N PROVE u[i] = Other
    <2>1. CASE i <= kept
        <3>1. i \in 1..kept /\ i \in (M + 1)..n
            BY <1>1, <1>3, <1>4, <2>1
        <3>. QED
            BY <1>2, <3>1
    <2>2. CASE i > kept
        <3>1. i \in (kept + 1)..N
            BY <1>1, <1>3, <1>4, <2>2
        <3>. QED
            BY <1>2, <3>1
    <2>. QED
        BY <1>1, <1>3, <1>4, <2>1, <2>2
<1>5. ASSUME NEW g \in 0..m, NEW j \in 1..4, 4 * g + j <= m
      PROVE  u[4 * g + j] = GroupOf(g)[j]
    <2>1. 4 * g + j \in 1..kept /\ g \in 0..M /\ 4 * g + j <= M
        BY <1>1, <1>3, <1>5
    <2>. QED
        BY <1>2, <2>1
<1>6. IsEncodingOnly(u, m)
    BY <1>3, <1>4, <1>5 DEF IsEncodingOnly, IsEncoding, N
<1>7. ASSUME IsPrefix(s, u), m # M PROVE FALSE
    <2>. DEFINE i == kept + 1
    <2>1. n <= N /\ SubSeq(s, 1, n) = SubSeq(u, 1, n)
        BY <1>7 DEF IsPrefix, n, N
    <2>2. i \in 1..n /\ i \in (kept + 1)..N /\ i \in 1..M
        BY <1>1, <1>3, <1>7, <2>1
    <2>. HIDE DEF i
    <2>3. u[i] = Other
        BY <1>2, <2>2
    <2>4. s[i] \in Digit
        BY <2>2, EncodingChars DEF IsEncodingOnly
    <2>5. \A j \in 1..n : SubSeq(s, 1, n)[j] = s[j] /\ SubSeq(u, 1, n)[j] = u[j]
        BY <1>1, <2>1
    <2>6. s[i] = u[i]
        BY <2>1, <2>2, <2>5
    <2>. QED
        BY <2>3, <2>4, <2>6 DEF Digit, Other
<1>8. m \in 0..Len(u)
    BY <1>1, <1>3 DEF N
<1>. QED
    BY <1>3, <1>6, <1>7, <1>8

LEMMA CopyKeeps ==
    ASSUME CodingInv, Copy
    PROVE  CodingInv'
<1>. DEFINE L == Len(bytes)
            n == Len(encoded)
            M == CharsFor(L)
<1>1. /\ Types /\ phase = "encoded" /\ phase' = "decoding"
      /\ IsEncodingOnly(encoded, M)
      /\ decoded = <<>> /\ pos = 0 /\ UNCHANGED <<bytes, in_, encoded, pos, decoded>>
    BY DEF CodingInv, Encoded, Decoding, Copy
<1>2. PICK kept \in 0..Len(encoded) :
        text' \in {SubSeq(encoded, 1, kept), SubSeq(encoded, 1, kept) \o <<Other>>}
    BY DEF Copy
<1>3. L \in Nat /\ n \in Nat /\ M \in Nat /\ encoded \in Seq(Chars)
    BY <1>1, Numbers DEF Types
<1>. DEFINE s == SubSeq(encoded, 1, kept)
<1>4. s \in Seq(Chars) /\ Len(s) = kept /\ \A i \in 1..kept : s[i] = encoded[i]
    BY <1>2, <1>3
<1>5. <<Other>> \in Seq(Chars) /\ Len(<<Other>>) = 1 /\ <<Other>>[1] = Other
    BY DEF Chars, Other
<1>. HIDE DEF s, n
<1>6. /\ text' \in Seq(Chars) /\ Len(text') >= kept
      /\ \A i \in 1..kept : text'[i] = encoded[i]
      /\ \A i \in (kept + 1)..Len(text') : text'[i] = Other
    <2>. DEFINE o == <<Other>>
    <2>1. kept \in Nat
        BY <1>2, <1>3 DEF n
    <2>2. CASE text' = s
        BY <1>4, <2>1, <2>2
    <2>3. CASE text' = s \o o
        <3>. HIDE DEF o
        <3>1. /\ s \o o \in Seq(Chars) /\ Len(s \o o) = Len(s) + Len(o)
              /\ \A i \in 1..Len(s) : (s \o o)[i] = s[i]
              /\ \A i \in 1..Len(o) : (s \o o)[Len(s) + i] = o[i]
            <4>1. s \in Seq(Chars) /\ o \in Seq(Chars)
                BY <1>4, <1>5 DEF o
            <4>. QED
                BY <4>1, Joined
        <3>2. /\ text' \in Seq(Chars) /\ Len(text') = kept + 1
              /\ \A i \in 1..kept : text'[i] = s[i]
              /\ text'[kept + 1] = Other
            BY <1>4, <1>5, <2>3, <3>1 DEF o
        <3>3. \A i \in (kept + 1)..Len(text') : i = kept + 1
            BY <2>1, <3>2
        <3>4. Len(text') >= kept
            BY <2>1, <3>2
        <3>. QED
            BY <1>4, <3>2, <3>3, <3>4, Zenon
    <2>. QED
        BY <1>2, <2>2, <2>3 DEF s
<1>7. PICK m \in 0..Len(text') :
        IsEncodingOnly(text', m) /\ m <= M /\ (IsPrefix(encoded, text') => m = M)
    BY <1>1, <1>2, <1>3, <1>6, CutText
<1>8. Types'
    BY <1>1, <1>6 DEF Types
<1>9. Decoding'
    <2>1. /\ IsEncodingOnly(text, m)'
          /\ (m <= CharsFor(Len(bytes)))' /\ (IsPrefix(encoded, text) => m = CharsFor(Len(bytes)))'
        BY <1>1, <1>7 DEF IsEncodingOnly, IsEncoding, GroupOf, ByteAt, L
    <2>2. pos' = 0 /\ decoded' = <<>> /\ Len(decoded') = 0 /\ m \in Nat
        BY <1>1, <1>6, <1>7
    <2>3. /\ pos' % 4 = 0 /\ pos' <= m /\ Len(decoded') = BytesFor(pos')
        BY <2>2 DEF BytesFor
    <2>4. IsRead(m)'
        BY <1>1, <2>1, <2>3 DEF IsRead
    <2>. QED
        BY <1>1, <1>7, <2>4 DEF Decoding
<1>10. Encoding' /\ Encoded'
    BY <1>1 DEF Encoding, Encoded, IsEncodingOnly, IsEncoding, GroupOf, ByteAt, L
<1>11. Begins'
    BY <1>1 DEF Begins, CodingInv
<1>. QED
    BY <1>8, <1>9, <1>10, <1>11 DEF CodingInv

\* How far the loop of base64_decode can read.
LEMMA ReadableChars ==
    ASSUME Types, NEW m \in Nat, IsEncodingOnly(text, m), pos <= m, NEW n \in Nat, Readable(n)
    PROVE  /\ pos + n <= m
           /\ ~Readable(n + 1) => pos + n = m
<1>. DEFINE N == Len(text)
            p == pos
<1>1. N \in Nat /\ p \in Nat /\ p <= m /\ m <= N
    BY Numbers DEF IsEncodingOnly, IsEncoding
<1>2. /\ p + n <= N /\ \A i \in 1..n : text[p + i] # Other
      /\ \A i \in (m + 1)..N : text[i] = Other
    BY DEF Readable, IsEncodingOnly
<1>3. ASSUME ~Readable(n + 1)
      PROVE  p + (n + 1) <= N => \E i \in 1..(n + 1) : text[p + i] = Other
    BY <1>3 DEF Readable
<1>. HIDE DEF N, p
<1>4. p + n <= m
    <2>1. SUFFICES ASSUME p + n > m PROVE FALSE
        BY <1>1
    <2>. DEFINE i == m + 1 - p
    <2>2. i \in 1..n /\ p + i \in (m + 1)..N
        BY <1>1, <1>2, <2>1
    <2>. HIDE DEF i
    <2>. QED
        BY <1>2, <2>2
<1>5. ASSUME ~Readable(n + 1) PROVE p + n = m
    <2>1. SUFFICES ASSUME p + n < m PROVE FALSE
        BY <1>1, <1>4
    <2>2. p + (n + 1) <= N
        BY <1>1, <2>1
    <2>3. PICK i \in 1..(n + 1) : text[p + i] = Other
        BY <1>3, <1>5, <2>2
    <2>4. p + i \in 1..m
        BY <1>1, <2>1, <2>3
    <2>5. text[p + i] \in Digit
        BY <2>4, EncodingChars DEF IsEncodingOnly
    <2>. QED
        BY <2>3, <2>5 DEF Digit, Other
<1>. QED
    BY <1>4, <1>5 DEF p

\* The characters of a group give its bytes back, of a cut group those they are enough for.
LEMMA GroupDecoded ==
    ASSUME Types, NEW m \in Nat, IsEncoding(text, m), m <= CharsFor(Len(bytes)),
           NEW g \in Nat, pos = 4 * g
    PROVE  /\ pos + 2 <= m => /\ 3 * g + 1 <= Len(bytes)
                              /\ Byte1(text[pos + 1], text[pos + 2]) = bytes[3 * g + 1]
           /\ pos + 3 <= m => /\ 3 * g + 2 <= Len(bytes)
                              /\ Byte2(text[pos + 2], text[pos + 3]) = bytes[3 * g + 2]
           /\ pos + 4 <= m => /\ 3 * g + 3 <= Len(bytes)
                              /\ Byte3(text[pos + 3], text[pos + 4]) = bytes[3 * g + 3]
<1>. DEFINE L == Len(bytes)
            x == ByteAt(3 * g + 1)
            y == ByteAt(3 * g + 2)
            z == ByteAt(3 * g + 3)
<1>1. L \in Nat /\ m <= CharsFor(L)
    BY Numbers
<1>2. /\ 3 * g + 1 <= L => x = bytes[3 * g + 1]
      /\ 3 * g + 2 <= L => y = bytes[3 * g + 2]
      /\ 3 * g + 3 <= L => z = bytes[3 * g + 3]
    BY DEF ByteAt
<1>3. /\ x \in Byte /\ y \in Byte /\ z \in Byte
      /\ GroupOf(g)[1] = Char1(x) /\ GroupOf(g)[2] = Char2(x, y)
      /\ GroupOf(g)[3] = Char3(y, z) /\ GroupOf(g)[4] = Char4(z)
    <2>1. 3 * g + 1 \in Nat \ {0} /\ 3 * g + 2 \in Nat \ {0} /\ 3 * g + 3 \in Nat \ {0}
        OBVIOUS
    <2>. QED
        BY <2>1, Groups, Zenon
<1>. HIDE DEF L, x, y, z
<1>4. /\ 4 * g + 2 <= m => 3 * g + 1 <= L
      /\ 4 * g + 3 <= m => 3 * g + 2 <= L
      /\ 4 * g + 4 <= m => 3 * g + 3 <= L
    BY <1>1 DEF CharsFor
<1>5. /\ Byte1(Char1(x), Char2(x, y)) = x
      /\ Byte2(Char2(x, y), Char3(y, z)) = y
      /\ Byte3(Char3(y, z), Char4(z)) = z
    BY <1>3, GroupInverse
<1>6. ASSUME NEW j \in 1..4, pos + j <= m PROVE text[pos + j] = GroupOf(g)[j]
    <2>1. g \in 0..m /\ 4 * g + j <= m
        BY <1>6
    <2>. QED
        BY <2>1 DEF IsEncoding
<1>7. /\ pos + 2 <= m => text[pos + 1] = Char1(x) /\ text[pos + 2] = Char2(x, y)
      /\ pos + 3 <= m => text[pos + 2] = Char2(x, y) /\ text[pos + 3] = Char3(y, z)
      /\ pos + 4 <= m => text[pos + 3] = Char3(y, z) /\ text[pos + 4] = Char4(z)
    BY <1>3, <1>6
<1>. QED
    BY <1>2, <1>4, <1>5, <1>7 DEF L

LEMMA DecodedGrows ==
    ASSUME Types, Begins, NEW n \in Nat, Len(decoded) = n, NEW t \in Seq(Byte),
           \A i \in 1..Len(t) : n + i <= Len(bytes) /\ t[i] = bytes[n + i]
    PROVE  LET d == decoded \o t
           IN  /\ d \in Seq(Byte) /\ Len(d) = n + Len(t) /\ Len(d) <= Len(bytes)
               /\ \A i \in 1..Len(d) : d[i] = bytes[i]
<1>. DEFINE d == decoded \o t
            k == Len(t)
            L == Len(bytes)
<1>1. /\ d \in Seq(Byte) /\ Len(d) = n + k /\ k \in Nat
      /\ \A i \in 1..n : d[i] = decoded[i]
      /\ \A i \in 1..k : d[n + i] = t[i]
    <2>1. decoded \in Seq(Byte)
        BY DEF Types
    <2>2. d \in Seq(Byte) /\ Len(d) = Len(decoded) + k /\ k \in Nat
        BY <2>1, Joined, Zenon
    <2>3. \A i \in 1..Len(decoded) : d[i] = decoded[i]
        BY <2>1, Joined, ZenonT(40)
    <2>4. ASSUME NEW i \in 1..k PROVE d[Len(decoded) + i] = t[i]
        BY <2>1, <2>4, Joined
    <2>. HIDE DEF d, k
    <2>. QED
        BY <2>2, <2>3, <2>4
<1>2. n <= L /\ L \in Nat /\ \A i \in 1..n : decoded[i] = bytes[i]
    BY Numbers DEF Begins
<1>3. \A i \in 1..k : n + i <= L /\ t[i] = bytes[n + i]
    OBVIOUS
<1>. HIDE DEF d, k, L
<1>4. n + k <= L
    <2>1. CASE k = 0
        BY <1>2, <2>1
    <2>2. CASE k > 0
        <3>1. k \in 1..k
            BY <1>1, <2>2
        <3>. QED
            BY <1>3, <3>1
    <2>. QED
        BY <1>1, <2>1, <2>2
<1>5. ASSUME NEW i \in 1..(n + k) PROVE d[i] = bytes[i]
    <2>1. CASE i <= n
        BY <1>1, <1>2, <1>5, <2>1
    <2>2. CASE i > n
        <3>. DEFINE j == i - n
        <3>1. j \in 1..k /\ i = n + j
            BY <1>1, <1>5, <2>2
        <3>. HIDE DEF j
        <3>. QED
            BY <1>1, <1>3, <3>1
    <2>. QED
        BY <2>1, <2>2
<1>. QED
    BY <1>1, <1>4, <1>5, Zenon DEF d, k, L

\* A step of the decoder that keeps what is decoded a beginning of the bytes.
LEMMA DecodeStep ==
    ASSUME CodingInv, phase = "decoding", phase' \in {"decoding", "decoded"},
           UNCHANGED <<bytes, in_, encoded, text>>,
           NEW m \in 0..Len(text), IsRead(m),
           pos' \in Nat, pos' <= m, Len(decoded') = BytesFor(pos'), decoded' \in Seq(Byte),
           phase' = "decoding" => pos' % 4 = 0,
           phase' = "decoded" => pos' = m,
           Len(decoded') <= Len(bytes), \A i \in 1..Len(decoded') : decoded'[i] = bytes[i]
    PROVE  CodingInv'
<1>1. Types' /\ Encoding' /\ Begins'
    BY DEF CodingInv, Types, Encoding, Begins
<1>2. Encoded'
    BY DEF CodingInv, Encoded, IsEncodingOnly, IsEncoding, GroupOf, ByteAt
<1>3. IsRead(m)'
    <2>1. /\ IsEncodingOnly(text, m)'
          /\ (m <= CharsFor(Len(bytes)))' /\ (IsPrefix(encoded, text) => m = CharsFor(Len(bytes)))'
        BY DEF IsRead, IsEncodingOnly, IsEncoding, GroupOf, ByteAt
    <2>. QED
        BY <2>1 DEF IsRead
<1>4. Decoding'
    BY <1>3 DEF Decoding
<1>. QED
    BY <1>1, <1>2, <1>4 DEF CodingInv

LEMMA DecodeGroupKeeps ==
    ASSUME CodingInv, DecodeGroup
    PROVE  CodingInv'
<1>. DEFINE t == <<Byte1(text[pos + 1], text[pos + 2]), Byte2(text[pos + 2], text[pos + 3]),
                   Byte3(text[pos + 3], text[pos + 4])>>
            g == pos \div 4
            n == Len(decoded)
            L == Len(bytes)
<1>1. /\ Types /\ Begins /\ phase = "decoding" /\ phase' = phase /\ Readable(4)
      /\ decoded' = decoded \o t /\ pos' = pos + 4
      /\ UNCHANGED <<bytes, in_, encoded, text>>
    BY DEF CodingInv, DecodeGroup
<1>2. PICK m \in 0..Len(text) : IsRead(m)
    BY <1>1 DEF CodingInv, Decoding
<1>3. /\ IsEncodingOnly(text, m) /\ IsEncoding(text, m) /\ m <= CharsFor(L)
      /\ pos % 4 = 0 /\ pos <= m /\ n = BytesFor(pos)
    BY <1>1, <1>2 DEF IsRead, IsEncodingOnly
<1>4. m \in Nat /\ pos \in Nat /\ L \in Nat
    BY <1>1, <1>2, Numbers
<1>5. pos + 4 <= m
    BY <1>1, <1>3, <1>4, ReadableChars
<1>. HIDE DEF t, n
<1>6. g \in Nat /\ pos = 4 * g /\ n = 3 * g /\ n \in Nat
    BY <1>3, <1>4 DEF BytesFor
<1>. HIDE DEF g
<1>7. /\ n + 3 <= L
      /\ Byte1(text[pos + 1], text[pos + 2]) = bytes[n + 1]
      /\ Byte2(text[pos + 2], text[pos + 3]) = bytes[n + 2]
      /\ Byte3(text[pos + 3], text[pos + 4]) = bytes[n + 3]
    <2>1. pos + 2 <= m /\ pos + 3 <= m
        BY <1>4, <1>5
    <2>2. /\ 3 * g + 3 <= L
          /\ Byte1(text[pos + 1], text[pos + 2]) = bytes[3 * g + 1]
          /\ Byte2(text[pos + 2], text[pos + 3]) = bytes[3 * g + 2]
          /\ Byte3(text[pos + 3], text[pos + 4]) = bytes[3 * g + 3]
        BY <1>1, <1>3, <1>4, <1>5, <1>6, <2>1, GroupDecoded, Zenon
    <2>. QED
        BY <1>6, <2>2
<1>. HIDE DEF L
<1>8. \A i \in 1..L : bytes[i] \in Byte
    BY <1>1, ElementOfSeq DEF Types, L
<1>9. t \in Seq(Byte) /\ Len(t) = 3 /\ t[1] = bytes[n + 1] /\ t[2] = bytes[n + 2] /\ t[3] = bytes[n + 3]
    <2>1. n + 1 \in 1..L /\ n + 2 \in 1..L /\ n + 3 \in 1..L
        BY <1>4, <1>6, <1>7
    <2>2. bytes[n + 1] \in Byte /\ bytes[n + 2] \in Byte /\ bytes[n + 3] \in Byte
        BY <1>8, <2>1
    <2>3. t = <<bytes[n + 1], bytes[n + 2], bytes[n + 3]>>
        BY <1>7 DEF t
    <2>. QED
        BY <2>2, <2>3
<1>10. \A i \in 1..Len(t) : n + i <= Len(bytes) /\ t[i] = bytes[n + i]
    <2>1. \A i \in 1..Len(t) : i = 1 \/ i = 2 \/ i = 3
        BY <1>9
    <2>2. n + 1 <= L /\ n + 2 <= L /\ n + 3 <= L
        BY <1>4, <1>6, <1>7
    <2>. QED
        BY <1>9, <2>1, <2>2 DEF L
<1>11. /\ decoded' \in Seq(Byte) /\ Len(decoded') = n + Len(t) /\ Len(decoded') <= Len(bytes)
       /\ \A i \in 1..Len(decoded') : decoded'[i] = bytes[i]
    BY <1>1, <1>6, <1>9, <1>10, DecodedGrows DEF n
<1>12. /\ pos' \in Nat /\ pos' <= m /\ pos' % 4 = 0 /\ Len(decoded') = BytesFor(pos')
    <2>1. pos' = 4 * g + 4 /\ Len(decoded') = 3 * g + 3
        BY <1>1, <1>6, <1>9, <1>11
    <2>. QED
        BY <1>1, <1>5, <1>6, <2>1 DEF BytesFor
<1>. QED
    BY <1>1, <1>2, <1>11, <1>12, DecodeStep

LEMMA DecodeRestKeeps ==
    ASSUME CodingInv, DecodeRest
    PROVE  CodingInv'
<1>1. /\ Types /\ Begins /\ phase = "decoding" /\ phase' = "decoded"
      /\ UNCHANGED <<bytes, in_, encoded, text>>
    BY DEF CodingInv, DecodeRest
<1>2. PICK k \in 0..3 : /\ Readable(k) /\ ~Readable(k + 1)
                        /\ decoded' = decoded \o Unfinished(k)
                        /\ pos' = pos + k
    BY DEF DecodeRest
<1>3. PICK m \in 0..Len(text) : IsRead(m)
    BY <1>1 DEF CodingInv, Decoding
<1>. DEFINE t == Unfinished(k)
            g == pos \div 4
            n == Len(decoded)
            L == Len(bytes)
<1>4. /\ IsEncodingOnly(text, m) /\ IsEncoding(text, m) /\ m <= CharsFor(L)
      /\ pos % 4 = 0 /\ pos <= m /\ n = BytesFor(pos)
    BY <1>1, <1>3 DEF IsRead, IsEncodingOnly
<1>5. m \in Nat /\ pos \in Nat /\ L \in Nat /\ k \in Nat
    BY <1>1, <1>3, Numbers
<1>6. pos + k = m
    BY <1>1, <1>2, <1>4, <1>5, ReadableChars
<1>. HIDE DEF t, n
<1>7. g \in Nat /\ pos = 4 * g /\ n = 3 * g /\ n \in Nat
    BY <1>4, <1>5 DEF BytesFor
<1>. HIDE DEF g
<1>8. /\ k >= 2 => /\ n + 1 <= L
                   /\ Byte1(text[pos + 1], text[pos + 2]) = bytes[n + 1]
      /\ k >= 3 => /\ n + 2 <= L
                   /\ Byte2(text[pos + 2], text[pos + 3]) = bytes[n + 2]
    <2>1. (k >= 2 => pos + 2 <= m) /\ (k >= 3 => pos + 3 <= m)
        BY <1>5, <1>6
    <2>. QED
        BY <1>1, <1>4, <1>5, <1>7, <2>1, GroupDecoded
<1>. HIDE DEF L
<1>9. \A i \in 1..L : bytes[i] \in Byte
    BY <1>1, ElementOfSeq DEF Types, L
<1>10. /\ t \in Seq(Byte) /\ Len(t) = (IF k <= 1 THEN 0 ELSE k - 1)
       /\ \A i \in 1..Len(t) : n + i <= L /\ t[i] = bytes[n + i]
    <2>1. CASE k <= 1
        <3>1. t = <<>>
            BY <1>2, <2>1 DEF t, Unfinished
        <3>. QED
            BY <2>1, <3>1, EmptySeq
    <2>2. CASE k = 2
        <3>1. t = <<Byte1(text[pos + 1], text[pos + 2])>>
            BY <2>2 DEF t, Unfinished
        <3>2. t = <<bytes[n + 1]>> /\ n + 1 \in 1..L
            BY <1>5, <1>7, <1>8, <2>2, <3>1
        <3>3. bytes[n + 1] \in Byte
            BY <1>9, <3>2
        <3>4. t \in Seq(Byte) /\ Len(t) = 1 /\ t[1] = bytes[n + 1]
            BY <3>2, <3>3
        <3>. QED
            BY <1>8, <2>2, <3>4
    <2>3. CASE k = 3
        <3>1. t = <<Byte1(text[pos + 1], text[pos + 2]), Byte2(text[pos + 2], text[pos + 3])>>
            BY <2>3 DEF t, Unfinished
        <3>2. t = <<bytes[n + 1], bytes[n + 2]>> /\ n + 1 \in 1..L /\ n + 2 \in 1..L
            BY <1>5, <1>7, <1>8, <2>3, <3>1
        <3>3. bytes[n + 1] \in Byte /\ bytes[n + 2] \in Byte
            BY <1>9, <3>2
        <3>4. t \in Seq(Byte) /\ Len(t) = 2 /\ t[1] = bytes[n + 1] /\ t[2] = bytes[n + 2]
            BY <3>2, <3>3
        <3>. QED
            BY <1>8, <2>3, <3>4
    <2>. QED
        BY <1>2, <2>1, <2>2, <2>3
<1>11. /\ decoded' \in Seq(Byte) /\ Len(decoded') = n + Len(t) /\ Len(decoded') <= Len(bytes)
       /\ \A i \in 1..Len(decoded') : decoded'[i] = bytes[i]
    <2>1. decoded' = decoded \o t
        BY <1>2 DEF t
    <2>. QED
        BY <1>1, <1>7, <1>10, <2>1, DecodedGrows DEF n, L
<1>12. /\ pos' \in Nat /\ pos' <= m /\ pos' = m /\ Len(decoded') = BytesFor(pos')
    <2>1. pos' = 4 * g + k /\ Len(decoded') = 3 * g + (IF k <= 1 THEN 0 ELSE k - 1)
        BY <1>2, <1>7, <1>10, <1>11
    <2>. QED
        BY <1>2, <1>5, <1>6, <1>7, <2>1 DEF BytesFor
<1>. QED
    BY <1>1, <1>3, <1>11, <1>12, DecodeStep

-----------------------------------------------------------------------------
\* Whatever was encoded and however much of the text was kept: each group that the loops
\* have gone through holds its own bytes.
THEOREM CodingInductive == Spec => []CodingInv
<1>1. Init => CodingInv
    <2>1. SUFFICES ASSUME Init PROVE CodingInv
        OBVIOUS
    <2>2. /\ phase = "encoding" /\ bytes \in Seq(Byte) /\ in_ = 0 /\ pos = 0
          /\ encoded = <<>> /\ text = <<>> /\ decoded = <<>>
        BY <2>1, InputsAssumption DEF Init, Byte
    <2>3. Len(bytes) \in Nat /\ Len(<<>>) = 0
        BY <2>2, LenProperties
    <2>4. Types
        BY <2>2, <2>3 DEF Types
    <2>5. Encoding
        BY <2>2, <2>3 DEF Encoding, IsEncoding
    <2>. QED
        BY <2>2, <2>3, <2>4, <2>5 DEF CodingInv, Encoded, Decoding, Begins
<1>2. CodingInv /\ [Next]_vars => CodingInv'
    <2>1. SUFFICES ASSUME CodingInv, [Next]_vars PROVE CodingInv'
        OBVIOUS
    <2>2. CASE UNCHANGED vars
        BY <2>1, <2>2 DEF vars, CodingInv, Types, Encoding, Encoded, Decoding, Begins, IsRead,
            IsEncodingOnly, IsEncoding, GroupOf, ByteAt
    <2>. QED
        BY <2>1, <2>2, EncodeGroupKeeps, EncodeRestKeeps, CopyKeeps, DecodeGroupKeeps,
           DecodeRestKeeps DEF Next
<1>. QED
    BY <1>1, <1>2, PTL DEF Spec

\* At every moment what is decoded is a beginning of what was encoded; at the end it has as
\* many bytes as the characters of the text hold, and is all of it if nothing was cut off.
THEOREM PasswordRestored == Spec => []Restores
<1>1. CodingInv => Restores
    <2>1. SUFFICES ASSUME CodingInv PROVE Restores
        OBVIOUS
    <2>. DEFINE n == Len(decoded)
                L == Len(bytes)
    <2>2. /\ Types /\ n <= L /\ \A i \in 1..n : decoded[i] = bytes[i]
          /\ n \in Nat /\ L \in Nat /\ decoded \in Seq(Byte) /\ bytes \in Seq(Byte)
        BY <2>1, Numbers DEF CodingInv, Types, Begins
    <2>3. IsPrefix(decoded, bytes)
        <3>1. SubSeq(decoded, 1, n) = SubSeq(bytes, 1, n)
            BY <2>2
        <3>. QED
            BY <2>2, <3>1 DEF IsPrefix
    <2>4. ASSUME phase = "decoded"
          PROVE  /\ n = (6 * Cardinality({i \in DOMAIN text : text[i] # Other})) \div 8
                 /\ IsPrefix(encoded, text) => decoded = bytes
        <3>1. PICK m \in 0..Len(text) : IsRead(m)
            BY <2>1, <2>4 DEF CodingInv, Decoding
        <3>2. /\ IsEncodingOnly(text, m) /\ n = BytesFor(m)
              /\ IsPrefix(encoded, text) => m = CharsFor(L)
            BY <2>4, <3>1 DEF IsRead
        <3>. DEFINE N == Len(text)
        <3>3. N \in Nat /\ m \in Nat /\ m <= N /\ DOMAIN text = 1..N
            BY <2>2, Numbers, LenProperties DEF Types
        <3>. HIDE DEF n, L, N
        <3>4. {i \in DOMAIN text : text[i] # Other} = 1..m
            <4>1. ASSUME NEW i \in 1..m PROVE text[i] # Other
                <5>1. text[i] \in Digit
                    BY <2>2, <3>2, <3>3, EncodingChars DEF IsEncodingOnly
                <5>2. \A x \in Digit : x # Other
                    BY DEF Digit, Other
                <5>. QED
                    BY <5>1, <5>2, Zenon
            <4>2. \A i \in (m + 1)..N : text[i] = Other
                BY <3>2 DEF IsEncodingOnly, N
            <4>. QED
                BY <3>3, <4>1, <4>2
        <3>5. Cardinality(1..m) = m
            BY <3>3, FS_Interval
        <3>6. m = CharsFor(L) => n = L
            BY <2>2, <3>2 DEF CharsFor, BytesFor
        <3>7. n = L => decoded = bytes
            BY <2>2, SeqEqual DEF n, L
        <3>. QED
            BY <3>2, <3>4, <3>5, <3>6, <3>7 DEF BytesFor
    <2>. QED
        BY <2>3, <2>4 DEF Restores
<1>. QED
    BY <1>1, CodingInductive, PTL
=============================================================================
