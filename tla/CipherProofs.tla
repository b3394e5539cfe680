---------------------------- MODULE CipherProofs ----------------------------
(***************************************************************************)
(* Proofs about the cipher, for any number of byte values, any table and   *)
(* any chunk lengths.                                                      *)
(***************************************************************************)
EXTENDS Cipher, SequenceTheorems, TLAPS

-----------------------------------------------------------------------------
\* Substitution byte by byte does not care where a stream is cut.
LEMMA SubstituteType ==
    ASSUME NEW S, NEW T, NEW t \in [S -> T], NEW s \in Seq(S)
    PROVE  Substitute(t, s) \in Seq(T)
<1>1. Len(s) \in Nat /\ \A i \in 1..Len(s) : t[s[i]] \in T
    BY ElementOfSeq
<1>. QED
    BY <1>1 DEF Substitute

LEMMA SubstituteValues ==
    ASSUME NEW S, NEW s \in Seq(S), NEW t
    PROVE  /\ Len(Substitute(t, s)) = Len(s)
           /\ \A i \in 1..Len(s) : Substitute(t, s)[i] = t[s[i]]
<1>1. Len(s) \in Nat
    OBVIOUS
<1>. QED
    BY <1>1 DEF Substitute

LEMMA SubstituteImage ==
    ASSUME NEW S, NEW t, NEW s \in Seq(S)
    PROVE  Substitute(t, s) \in Seq({t[x] : x \in S})
<1>1. Len(s) \in Nat /\ \A i \in 1..Len(s) : t[s[i]] \in {t[x] : x \in S}
    BY ElementOfSeq
<1>. QED
    BY <1>1 DEF Substitute

LEMMA SubstituteConcat ==
    ASSUME NEW S, NEW t, NEW s \in Seq(S), NEW u \in Seq(S)
    PROVE  Substitute(t, s \o u) = Substitute(t, s) \o Substitute(t, u)
<1>. DEFINE T == {t[x] : x \in S}
            left == Substitute(t, s \o u)
            right == Substitute(t, s) \o Substitute(t, u)
<1>1. /\ s \o u \in Seq(S) /\ Len(s \o u) = Len(s) + Len(u)
      /\ \A i \in 1..(Len(s) + Len(u)) : (s \o u)[i] = IF i <= Len(s) THEN s[i] ELSE u[i - Len(s)]
    BY ConcatProperties
<1>2. /\ left \in Seq(T) /\ Len(left) = Len(s \o u)
      /\ \A i \in 1..Len(s \o u) : left[i] = t[(s \o u)[i]]
    <2>. DEFINE su == s \o u
    <2>1. su \in Seq(S)
        BY <1>1
    <2>. HIDE DEF su
    <2>2. /\ Substitute(t, su) \in Seq(T) /\ Len(Substitute(t, su)) = Len(su)
          /\ \A i \in 1..Len(su) : Substitute(t, su)[i] = t[su[i]]
        BY <2>1, SubstituteImage, SubstituteValues
    <2>. QED
        BY <2>2 DEF su
<1>3. /\ Substitute(t, s) \in Seq(T) /\ Len(Substitute(t, s)) = Len(s)
      /\ \A i \in 1..Len(s) : Substitute(t, s)[i] = t[s[i]]
    BY SubstituteImage, SubstituteValues
<1>4. /\ Substitute(t, u) \in Seq(T) /\ Len(Substitute(t, u)) = Len(u)
      /\ \A i \in 1..Len(u) : Substitute(t, u)[i] = t[u[i]]
    BY SubstituteImage, SubstituteValues
<1>5. /\ right \in Seq(T)
      /\ Len(right) = Len(Substitute(t, s)) + Len(Substitute(t, u))
      /\ \A i \in 1..(Len(Substitute(t, s)) + Len(Substitute(t, u))) : right[i] =
            IF i <= Len(Substitute(t, s)) THEN Substitute(t, s)[i]
            ELSE Substitute(t, u)[i - Len(Substitute(t, s))]
    BY <1>3, <1>4, ConcatProperties, ZenonT(30)
<1>6. Len(s) \in Nat /\ Len(u) \in Nat
    BY LenProperties
<1>. HIDE DEF left, right
<1>7. ASSUME NEW i \in 1..Len(left)
      PROVE  left[i] = right[i]
    <2>1. i \in 1..(Len(s) + Len(u)) /\ left[i] = t[(s \o u)[i]]
        BY <1>1, <1>2, <1>7
    <2>2. CASE i <= Len(s)
        <3>1. i \in 1..Len(s)
            BY <1>6, <2>1, <2>2
        <3>. QED
            BY <1>1, <1>3, <1>4, <1>5, <2>1, <2>2, <3>1
    <2>3. CASE ~(i <= Len(s))
        <3>1. i - Len(s) \in 1..Len(u)
            BY <1>6, <2>1, <2>3
        <3>. QED
            BY <1>1, <1>3, <1>4, <1>5, <2>1, <2>3, <3>1, ZenonT(40)
    <2>. QED
        BY <2>2, <2>3
<1>8. left = right
    BY <1>1, <1>2, <1>3, <1>4, <1>5, <1>7, SeqEqual
<1>. QED
    BY <1>8 DEF left, right

\* One read takes the first bytes of the buffer and leaves the others.
LEMMA ReadSplits ==
    ASSUME NEW S, NEW s \in Seq(S), s # <<>>, NEW n \in Nat \ {0}
    PROVE  /\ Read(s, n) \in Seq(S)
           /\ After(s, Len(Read(s, n))) \in Seq(S)
           /\ Read(s, n) \o After(s, Len(Read(s, n))) = s
<1>. DEFINE k == IF Len(s) < n THEN Len(s) ELSE n
<1>1. Len(s) \in Nat \ {0} /\ k \in 1..Len(s)
    BY EmptySeq, LenProperties
<1>2. \A i \in 1..Len(s) : s[i] \in S
    BY ElementOfSeq
<1>3. SubSeq(s, 1, k) \in Seq(S) /\ Len(SubSeq(s, 1, k)) = k
    BY <1>1, <1>2, SubSeqProperties
<1>4. SubSeq(s, k + 1, Len(s)) \in Seq(S)
    BY <1>1, <1>2, SubSeqProperties
<1>5. SubSeq(s, 1, k) \o SubSeq(s, k + 1, Len(s)) = SubSeq(s, 1, Len(s))
    <2>1. 1 \in 1..(Len(s) + 1) /\ k \in (1 - 1)..Len(s) /\ Len(s) \in k..Len(s)
        BY <1>1
    <2>. QED
        BY <2>1, ConcatAdjacentSubSeq, ZenonT(30)
<1>6. SubSeq(s, 1, Len(s)) = s
    BY SubSeqFull
<1>. QED
    BY <1>3, <1>4, <1>5, <1>6 DEF Read, After

-----------------------------------------------------------------------------
\* The inverse table.

LEMMA OriginalType ==
    ASSUME TypeOK
    PROVE  /\ Original \in [Coded -> Byte]
           /\ password \in [Byte -> Coded]
           /\ Coded \subseteq Byte
           /\ \A b \in Coded : password[Original[b]] = b
<1>1. password \in [Byte -> Byte]
    BY DEF TypeOK, Tables
<1>2. \A b \in Coded : \E x \in Byte : password[x] = b
    BY DEF Coded
<1>3. \A b \in Coded : /\ (CHOOSE x \in Byte : password[x] = b) \in Byte
                       /\ password[CHOOSE x \in Byte : password[x] = b] = b
    BY <1>2
<1>. QED
    BY <1>1, <1>3 DEF Original, Coded

\* Substituting back with the mathematical inverse undoes a substitution.
LEMMA OriginalOfSubstitute ==
    ASSUME TypeOK, Injective(password), NEW s \in Seq(Byte)
    PROVE  /\ Substitute(password, s) \in Seq(Coded)
           /\ Substitute(Original, Substitute(password, s)) = s
<1>. DEFINE c == Substitute(password, s)
            o == Substitute(Original, c)
<1>1. c \in Seq(Coded)
    BY OriginalType, SubstituteType
<1>2. Len(c) = Len(s) /\ \A i \in 1..Len(s) : c[i] = password[s[i]]
    BY SubstituteValues
<1>3. o \in Seq(Byte)
    BY <1>1, OriginalType, SubstituteType
<1>. HIDE DEF c
<1>4. Len(o) = Len(c) /\ \A i \in 1..Len(c) : o[i] = Original[c[i]]
    BY <1>1, SubstituteValues
<1>. HIDE DEF o
<1>5. ASSUME NEW i \in 1..Len(o)
      PROVE  o[i] = s[i]
    <2>1. s[i] \in Byte /\ c[i] = password[s[i]] /\ o[i] = Original[c[i]] /\ c[i] \in Coded
        BY <1>1, <1>2, <1>4, <1>5, ElementOfSeq
    <2>2. password[Original[c[i]]] = c[i] /\ Original[c[i]] \in Byte
        BY <2>1, OriginalType
    <2>. QED
        BY <2>1, <2>2 DEF Injective
<1>6. o = s
    BY <1>2, <1>3, <1>4, <1>5, SeqEqual
<1>. QED
    BY <1>1, <1>6 DEF o, c

\* So does substituting with the table InvertByte has built.
LEMMA InverseIsOriginal ==
    ASSUME TypeOK, Injective(password), PartlyInverted(Size), NEW s \in Seq(Coded)
    PROVE  Substitute(d_password, s) = Substitute(Original, s)
<1>1. d_password \in [Coded -> Byte] \/ d_password \in [Byte -> Byte]
    BY DEF TypeOK, Tables
<1>2. ASSUME NEW b \in Coded
      PROVE  d_password[b] = Original[b]
    <2>1. PICK x \in Byte : b = password[x]
        BY DEF Coded
    <2>2. password[d_password[b]] = b
        BY <2>1 DEF PartlyInverted, Byte
    <2>3. b \in Byte /\ d_password[b] \in Byte /\ Original[b] \in Byte /\ password[Original[b]] = b
        BY OriginalType DEF TypeOK, Tables
    <2>. QED
        BY <2>2, <2>3 DEF Injective
<1>3. Len(s) \in Nat /\ \A i \in 1..Len(s) : s[i] \in Coded
    BY ElementOfSeq
<1>. QED
    BY <1>2, <1>3 DEF Substitute

\* The loop over the byte values keeps what it has inverted so far.
LEMMA InvertByteStep ==
    ASSUME TypeOK, j < Size, PartlyInverted(j), InvertByte
    PROVE  /\ d_password' \in Tables /\ j' \in 0..Size
           /\ PartlyInverted(j)'
           /\ j' # Size => j' < Size
<1>1. Size \in Nat \ {0} /\ j \in 0..(Size - 1) /\ j' = j + 1
    BY CipherAssumption DEF TypeOK, InvertByte
<1>2. /\ password \in [Byte -> Byte] /\ d_password \in [Byte -> Byte]
      /\ d_password' = [d_password EXCEPT ![password[j]] = j] /\ UNCHANGED password
    BY DEF TypeOK, Tables, InvertByte
<1>3. d_password' \in Tables
    BY <1>1, <1>2 DEF Tables, Byte
<1>4. ASSUME NEW x \in 0..(j' - 1)
      PROVE  password[d_password'[password[x]]] = password[x]
    <2>1. x \in Byte /\ (x = j \/ x \in 0..(j - 1))
        BY <1>1, <1>4 DEF Byte
    <2>2. CASE password[x] = password[j]
        BY <1>1, <1>2, <2>1, <2>2 DEF Byte
    <2>3. CASE password[x] # password[j]
        BY <1>2, <2>1, <2>3 DEF PartlyInverted
    <2>. QED
        BY <2>2, <2>3
<1>. QED
    BY <1>1, <1>2, <1>3, <1>4 DEF PartlyInverted

-----------------------------------------------------------------------------
\* What is in the buffers of both sides, decoded: out, coded, wire, plain.
LEMMA StreamTypes ==
    ASSUME IInv
    PROVE  /\ out \in Seq(Byte) /\ plain \in Seq(Byte)
           /\ Substitute(Original, coded) \in Seq(Byte)
           /\ Substitute(Original, wire) \in Seq(Byte)
BY OriginalType, SubstituteType DEF IInv, TypeOK

LEMMA Regroup ==
    \A a, b, c \in Seq(Byte) : a \o b \in Seq(Byte) /\ (a \o b) \o c = a \o (b \o c)
BY ConcatProperties, ConcatAssociative

LEMMA OriginalConcat ==
    ASSUME TypeOK, NEW s \in Seq(Coded), NEW u \in Seq(Coded)
    PROVE  Substitute(Original, s \o u) = Substitute(Original, s) \o Substitute(Original, u)
BY SubstituteConcat

LEMMA ArriveStep ==
    ASSUME IInv, Arrive
    PROVE  IInv'
<1>1. PICK b \in Byte : plain' = Append(plain, b) /\ sent' = Append(sent, b)
    BY DEF Arrive
<1>2. UNCHANGED <<password, encrypting, wire, coded, decrypting, j, d_password, out>>
    BY DEF Arrive, decoder
<1>3. Original' = Original /\ Coded' = Coded
    BY <1>2 DEF Original, Coded
<1>4. TypeOK'
    BY <1>1, <1>2, AppendProperties DEF IInv, TypeOK
<1>5. RoundTrip'
    <2>. SUFFICES ASSUME Injective(password)
                  PROVE  out \o Substitute(Original, coded) \o Substitute(Original, wire) \o plain' = sent'
        BY <1>2, <1>3 DEF RoundTrip, Injective, Substitute
    <2>. DEFINE x == out \o Substitute(Original, coded) \o Substitute(Original, wire)
    <2>1. x \in Seq(Byte) /\ plain \in Seq(Byte) /\ sent \in Seq(Byte) /\ <<b>> \in Seq(Byte)
        BY StreamTypes, ConcatProperties DEF IInv, TypeOK
    <2>2. x \o plain = sent
        BY DEF IInv, RoundTrip
    <2>. HIDE DEF x
    <2>3. plain' = plain \o <<b>> /\ sent' = sent \o <<b>>
        BY <1>1, <2>1, AppendIsConcat
    <2>4. x \o (plain \o <<b>>) = (x \o plain) \o <<b>>
        BY <2>1, ConcatAssociative
    <2>. QED
        BY <2>2, <2>3, <2>4 DEF x
<1>. QED
    BY <1>2, <1>3, <1>4, <1>5 DEF IInv, PartlyInverted

LEMMA EncryptStep ==
    ASSUME IInv, encrypting, plain # <<>>, EncryptChunk
    PROVE  IInv'
<1>. DEFINE data == Read(plain, EncChunk)
            rest == After(plain, Len(data))
<1>1. /\ plain' = rest /\ wire' = wire \o Substitute(password, data)
      /\ UNCHANGED <<password, encrypting, sent, coded, decrypting, j, d_password, out>>
    BY DEF EncryptChunk, decoder
<1>2. /\ data \in Seq(Byte) /\ rest \in Seq(Byte) /\ data \o rest = plain
    BY ReadSplits, CipherAssumption DEF IInv, TypeOK
<1>. HIDE DEF data, rest
<1>3. Original' = Original /\ Coded' = Coded
    BY <1>1 DEF Original, Coded
<1>4. Substitute(password, data) \in Seq(Coded) /\ Substitute(password, data) \in Seq(Byte)
    BY <1>2, OriginalType, SubstituteType DEF IInv, TypeOK, Tables
<1>5. wire' \in Seq(Coded) /\ wire' \in Seq(Byte)
    BY <1>1, <1>4, ConcatProperties DEF IInv, TypeOK
<1>6. TypeOK'
    BY <1>1, <1>2, <1>5 DEF IInv, TypeOK
<1>7. RoundTrip'
    <2>. DEFINE x == out \o Substitute(Original, coded)
                w == Substitute(Original, wire)
    <2>. SUFFICES ASSUME Injective(password)
                  PROVE  x \o Substitute(Original, wire') \o rest = sent
        BY <1>1, <1>3 DEF RoundTrip, Injective, Substitute
    <2>1. Substitute(Original, wire') = w \o Substitute(Original, Substitute(password, data))
        BY <1>1, <1>4, OriginalConcat DEF IInv
    <2>2. Substitute(Original, Substitute(password, data)) = data
        BY <1>2, OriginalOfSubstitute DEF IInv
    <2>3. x \o w \o plain = sent
        BY DEF IInv, RoundTrip
    <2>4. x \in Seq(Byte) /\ w \in Seq(Byte)
        BY StreamTypes, ConcatProperties
    <2>. HIDE DEF x, w
    <2>5. x \o w \in Seq(Byte) /\ (x \o w) \o data = x \o (w \o data)
        <3>1. x \o w \in Seq(Byte)
            BY <2>4, ConcatProperties
        <3>2. (x \o w) \o data = x \o (w \o data)
            BY <1>2, <2>4, ConcatAssociative
        <3>. QED
            BY <3>1, <3>2
    <2>6. ((x \o w) \o data) \o rest = (x \o w) \o (data \o rest)
        BY <1>2, <2>5, Regroup, Zenon
    <2>. QED
        BY <1>2, <2>1, <2>2, <2>3, <2>5, <2>6
<1>. QED
    BY <1>1, <1>3, <1>5, <1>6, <1>7 DEF IInv, PartlyInverted

LEMMA DeliverStep ==
    ASSUME IInv, Deliver
    PROVE  IInv'
<1>1. PICK n \in 1..Len(wire) : /\ coded' = coded \o SubSeq(wire, 1, n)
                                /\ wire' = SubSeq(wire, n + 1, Len(wire))
    BY DEF Deliver
<1>. DEFINE head == SubSeq(wire, 1, n)
            rest == SubSeq(wire, n + 1, Len(wire))
<1>2. UNCHANGED <<password, plain, encrypting, sent, decrypting, j, d_password, out>>
    BY DEF Deliver, encoder, decoder
<1>3. Original' = Original /\ Coded' = Coded
    BY <1>2 DEF Original, Coded
<1>4. /\ head \in Seq(Coded) /\ rest \in Seq(Coded) /\ head \in Seq(Byte) /\ rest \in Seq(Byte)
    BY SubSeqProperties, ElementOfSeq DEF IInv, TypeOK
<1>5. head \o rest = wire
    <2>1. Len(wire) \in Nat /\ SubSeq(wire, 1, Len(wire)) = wire
        BY LenProperties, SubSeqFull DEF IInv
    <2>2. 1 \in 1..(Len(wire) + 1) /\ n \in (1 - 1)..Len(wire) /\ Len(wire) \in n..Len(wire)
        BY <2>1
    <2>3. head \o rest = SubSeq(wire, 1, Len(wire))
        BY <2>2, ConcatAdjacentSubSeq, ZenonT(30) DEF IInv
    <2>. QED
        BY <2>1, <2>3
<1>6. /\ coded' = coded \o head /\ wire' = rest
    BY <1>1
<1>. HIDE DEF head, rest
<1>7. coded' \in Seq(Coded) /\ coded' \in Seq(Byte)
    BY <1>4, <1>6, ConcatProperties DEF IInv, TypeOK
<1>8. TypeOK'
    BY <1>2, <1>4, <1>6, <1>7 DEF IInv, TypeOK
<1>9. RoundTrip'
    <2>. DEFINE a == Substitute(Original, coded)
                h == Substitute(Original, head)
                r == Substitute(Original, rest)
    <2>. SUFFICES ASSUME Injective(password)
                  PROVE  out \o Substitute(Original, coded') \o r \o plain = sent
        BY <1>2, <1>3, <1>6 DEF RoundTrip, Injective, Substitute
    <2>1. Substitute(Original, coded') = a \o h
        BY <1>4, <1>6, OriginalConcat DEF IInv
    <2>2. Substitute(Original, wire) = h \o r
        BY <1>4, <1>5, OriginalConcat DEF IInv
    <2>3. out \in Seq(Byte) /\ a \in Seq(Byte) /\ h \in Seq(Byte) /\ r \in Seq(Byte)
        BY <1>4, StreamTypes, OriginalType, SubstituteType DEF IInv
    <2>4. out \o a \o (h \o r) \o plain = sent
        BY <2>2 DEF IInv, RoundTrip
    <2>. HIDE DEF a, h, r
    <2>5. out \o a \in Seq(Byte) /\ (out \o a) \o h = out \o (a \o h)
        <3>1. out \o a \in Seq(Byte)
            BY <2>3, ConcatProperties
        <3>2. (out \o a) \o h = out \o (a \o h)
            BY <2>3, ConcatAssociative, SMTT(40)
        <3>. QED
            BY <3>1, <3>2
    <2>6. ((out \o a) \o h) \o r = (out \o a) \o (h \o r)
        BY <2>3, <2>5, Regroup, Zenon
    <2>. QED
        BY <2>1, <2>4, <2>5, <2>6
<1>. QED
    BY <1>2, <1>3, <1>4, <1>6, <1>7, <1>8, <1>9 DEF IInv, PartlyInverted

LEMMA DecryptStep ==
    ASSUME IInv, decrypting = "loop", coded # <<>>, DecryptChunk
    PROVE  IInv'
<1>. DEFINE data == Read(coded, DecChunk)
            rest == After(coded, Len(data))
<1>1. /\ coded' = rest /\ out' = out \o Substitute(d_password, data)
      /\ UNCHANGED <<password, plain, encrypting, sent, wire, decrypting, j, d_password>>
    BY DEF DecryptChunk, encoder
<1>2. /\ data \in Seq(Coded) /\ rest \in Seq(Coded) /\ data \o rest = coded
    BY ReadSplits, CipherAssumption DEF IInv
<1>3. data \in Seq(Byte) /\ rest \in Seq(Byte)
    BY ReadSplits, CipherAssumption DEF IInv, TypeOK
<1>. HIDE DEF data, rest
<1>4. Original' = Original /\ Coded' = Coded
    BY <1>1 DEF Original, Coded
<1>5. out' \in Seq(Byte)
    <2>1. Substitute(d_password, data) \in Seq(Byte)
        BY <1>3, SubstituteType DEF IInv, TypeOK, Tables
    <2>. QED
        BY <1>1, <2>1, ConcatProperties DEF IInv, TypeOK
<1>6. TypeOK'
    BY <1>1, <1>3, <1>5 DEF IInv, TypeOK
<1>7. RoundTrip'
    <2>. DEFINE o == out
                d == Substitute(Original, data)
                r == Substitute(Original, rest)
                w == Substitute(Original, wire)
    <2>. SUFFICES ASSUME Injective(password)
                  PROVE  out' \o r \o w \o plain = sent
        BY <1>1, <1>4 DEF RoundTrip, Injective, Substitute
    <2>1. out' = o \o d
        BY <1>1, <1>2, InverseIsOriginal DEF IInv
    <2>2. Substitute(Original, coded) = d \o r
        BY <1>2, OriginalConcat DEF IInv
    <2>3. o \in Seq(Byte) /\ d \in Seq(Byte) /\ r \in Seq(Byte)
        BY <1>2, StreamTypes, OriginalType, SubstituteType DEF IInv
    <2>4. (o \o (d \o r)) \o w \o plain = sent
        BY <2>2 DEF IInv, RoundTrip
    <2>. HIDE DEF o, d, r, w
    <2>5. (o \o d) \o r = o \o (d \o r)
        BY <2>3, ConcatAssociative
    <2>. QED
        BY <2>1, <2>4, <2>5
<1>. QED
    BY <1>1, <1>2, <1>4, <1>6, <1>7 DEF IInv, PartlyInverted

\* Steps that move no byte: only the inverse table and the two loops' states change.
LEMMA StillStep ==
    ASSUME IInv, UNCHANGED <<password, plain, sent, wire, coded, out>>, TypeOK',
           (decrypting = "table")' => j' < Size /\ PartlyInverted(j)',
           (decrypting = "loop")' => PartlyInverted(Size)'
    PROVE  IInv'
<1>1. Original' = Original /\ Coded' = Coded
    BY DEF Original, Coded
<1>2. RoundTrip'
    BY <1>1 DEF IInv, RoundTrip, Injective, Substitute
<1>. QED
    BY <1>1, <1>2 DEF IInv, PartlyInverted

LEMMA ZeroesType == Zeroes \in Tables
<1>1. 0 \in Byte
    BY CipherAssumption DEF Byte
<1>. QED
    BY <1>1 DEF Zeroes, Tables

-----------------------------------------------------------------------------
THEOREM InitHolds == Init => IInv
<1>. SUFFICES ASSUME Init
              PROVE  IInv
    OBVIOUS
<1>1. TypeOK
    <2>1. Size \in Nat \ {0} /\ Zeroes \in Tables
        BY CipherAssumption, ZeroesType
    <2>2. <<>> \in Seq(Byte) /\ 0 \in 0..Size
        BY <2>1
    <2>. QED
        BY <2>1, <2>2 DEF Init, TypeOK
<1>2. Substitute(Original, coded) = <<>> /\ Substitute(Original, wire) = <<>>
    BY DEF Init, Substitute
<1>3. RoundTrip
    BY <1>2 DEF Init, RoundTrip
<1>. QED
    BY <1>1, <1>3 DEF Init, IInv

\* The invariant is inductive: one step for each action.
THEOREM StepHolds == IInv /\ [Next]_vars => IInv'
<1>. SUFFICES ASSUME IInv, [Next]_vars
              PROVE  IInv'
    OBVIOUS
<1>1. CASE Arrive
    BY <1>1, ArriveStep
<1>2. CASE encrypt
    BY <1>2, StillStep DEF encrypt, decoder, IInv, TypeOK, PartlyInverted
<1>3. CASE EncryptChunk
    <2>1. CASE plain = <<>>
        BY <1>3, <2>1, StillStep DEF EncryptChunk, decoder, IInv, TypeOK, PartlyInverted
    <2>2. CASE plain # <<>>
        BY <1>3, <2>2, EncryptStep DEF EncryptChunk
    <2>. QED
        BY <2>1, <2>2
<1>4. CASE Deliver
    BY <1>4, DeliverStep
<1>5. CASE decrypt
    <2>1. Size \in Nat \ {0}
        BY CipherAssumption
    <2>2. TypeOK'
        <3>1. Zeroes \in Tables
            BY <2>1, ZeroesType
        <3>. QED
            BY <1>5, <2>1, <3>1 DEF decrypt, encoder, IInv, TypeOK
    <2>3. j' < Size /\ PartlyInverted(j)' /\ decrypting' = "table"
        BY <1>5, <2>1 DEF decrypt, PartlyInverted
    <2>. QED
        BY <1>5, <2>2, <2>3, StillStep DEF decrypt, encoder
<1>6. CASE InvertByte
    <2>1. /\ j < Size /\ PartlyInverted(j) /\ TypeOK
        BY <1>6 DEF InvertByte, IInv
    <2>2. /\ d_password' \in Tables /\ j' \in 0..Size
          /\ PartlyInverted(j)'
          /\ j' # Size => j' < Size
        BY <1>6, <2>1, InvertByteStep
    <2>3. /\ UNCHANGED <<password, encoder, wire, coded, out>>
          /\ decrypting' = IF j' = Size THEN "loop" ELSE "table"
        BY <1>6 DEF InvertByte
    <2>4. TypeOK'
        BY <2>1, <2>2, <2>3 DEF TypeOK, encoder
    <2>5. (decrypting = "loop")' => PartlyInverted(Size)'
        BY <2>2, <2>3 DEF PartlyInverted
    <2>6. (decrypting = "table")' => j' < Size /\ PartlyInverted(j)'
        BY <2>2, <2>3
    <2>. QED
        BY <2>3, <2>4, <2>5, <2>6, StillStep DEF encoder
<1>7. CASE DecryptChunk
    <2>1. CASE coded = <<>>
        BY <1>7, <2>1, StillStep DEF DecryptChunk, encoder, IInv, TypeOK, PartlyInverted
    <2>2. CASE coded # <<>>
        BY <1>7, <2>2, DecryptStep DEF DecryptChunk
    <2>. QED
        BY <2>1, <2>2
<1>8. CASE UNCHANGED vars
    BY <1>8, StillStep DEF vars, encoder, decoder, IInv, TypeOK, PartlyInverted
<1>. QED
    BY <1>1, <1>2, <1>3, <1>4, <1>5, <1>6, <1>7, <1>8 DEF Next

\* Every reachable state satisfies the inductive invariant: the stream is complete
\* and the inverse table is right as far as it has been built.
THEOREM Inductive == Spec => []IInv
BY InitHolds, StepHolds, PTL DEF Spec

\* The variables keep their types; the table is never indexed outside 0..Size-1.
THEOREM TypeCorrect == Spec => []TypeOK
<1>1. IInv => TypeOK
    BY DEF IInv
<1>. QED
    BY <1>1, Inductive, PTL

\* decrypt's own table restores every byte exactly when the password is injective,
\* so a password genPassword made is always enough and any other never is.
THEOREM TableIsInverse == Spec => []TableInverts
<1>1. IInv => TableInverts
    <2>. SUFFICES ASSUME IInv, decrypting = "loop"
                  PROVE  Injective(password) <=> \A x \in Byte : d_password[password[x]] = x
        BY DEF TableInverts
    <2>1. ASSUME Injective(password), NEW x \in Byte
          PROVE  d_password[password[x]] = x
        <3>1. password[d_password[password[x]]] = password[x]
            BY DEF IInv, PartlyInverted, Byte
        <3>2. d_password[password[x]] \in Byte
            BY DEF IInv, TypeOK, Tables
        <3>. QED
            BY <2>1, <3>1, <3>2 DEF Injective
    <2>2. ASSUME \A x \in Byte : d_password[password[x]] = x
          PROVE  Injective(password)
        <3>. SUFFICES ASSUME NEW x \in Byte, NEW y \in Byte, password[x] = password[y]
                      PROVE  x = y
            BY DEF Injective
        <3>1. d_password[password[x]] = x /\ d_password[password[y]] = y
            BY <2>2
        <3>. QED
            BY <3>1
    <2>. QED
        BY <2>1, <2>2
<1>. QED
    BY <1>1, Inductive, PTL

\* No byte is lost, repeated, reordered or changed in one direction of the tunnel,
\* for any chunk lengths, any segmentation by TCP and any injective password.
THEOREM StreamRestored == Spec => []RoundTrip
<1>1. IInv => RoundTrip
    BY DEF IInv
<1>. QED
    BY <1>1, Inductive, PTL

=============================================================================
