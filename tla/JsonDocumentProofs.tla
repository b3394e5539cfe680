------------------------- MODULE JsonDocumentProofs -------------------------
(***************************************************************************)
(* Proofs about the memory pool of a document: for every file, capacity    *)
(* and slot size, strings and slots stay apart, errors included.           *)
(***************************************************************************)
EXTENDS JsonDocument, SequenceTheorems, TLAPS

FileTokens == [t : Kinds, v : Values \cup {NULL}, size : Nat]
Tokens == [t : Kinds \cup {"end"}, v : Values \cup {NULL}, size : Nat]
Members == [key : Values, value : Values \cup {NULL}]
Places == [at : Nat, size : Nat]

-----------------------------------------------------------------------------
\* What the steps are made of.

LEMMA TokenType ==
    ASSUME TypeOK
    PROVE  /\ Token \in Tokens
           /\ Token.t \in {"string", "number"} => Token.v \in Values
           /\ Token.t # "end" => pos + 1 \in 0..Len(text)
<1>1. /\ text \in Seq(FileTokens) /\ pos \in 0..Len(text)
      /\ \A i \in DOMAIN text : text[i].t \in {"string", "number"} => text[i].v \in Values
    <2>1. text \in Files /\ pos \in 0..Len(text)
        BY DEF TypeOK
    <2>2. text \in Seq(FileTokens)
        BY <2>1, JsonAssumption DEF FileTokens
    <2>. QED
        BY <2>1, <2>2, JsonAssumption
<1>2. CASE pos < Len(text)
    <2>1. Len(text) \in Nat /\ DOMAIN text = 1..Len(text)
        BY <1>1
    <2>2. Token = text[pos + 1] /\ pos + 1 \in 1..Len(text)
        BY <1>1, <1>2, <2>1 DEF Token
    <2>3. text[pos + 1] \in FileTokens
        BY <1>1, <2>2, ElementOfSeq
    <2>. QED
        BY <1>1, <2>1, <2>2, <2>3 DEF Tokens, FileTokens
<1>3. CASE ~(pos < Len(text))
    <2>1. Token = [t |-> "end", v |-> NULL, size |-> 0]
        BY <1>3 DEF Token
    <2>. QED
        BY <2>1 DEF Tokens
<1>. QED
    BY <1>2, <1>3

\* The pool after a step: as it was, or with one string more, or with nothing left
\* between the two ends, or with one slot more.
Unchanged == UNCHANGED pool /\ Len(members') = Len(members)
MoreStrings == \E n \in Nat :
    StringFits(n) /\ FreezeString(n) /\ Len(members') = Len(members)
NothingLeft == StringLost /\ Len(members') = Len(members)
MoreSlots ==
    /\ left + Slot <= right /\ right' = right - Slot
    /\ Len(members') = Len(members) + 1
    /\ UNCHANGED <<left, strings>>
PoolStep == Unchanged \/ MoreStrings \/ NothingLeft \/ MoreSlots

\* The parser after a step, the pool aside.
ParserType ==
    /\ text' = text /\ capacity' = capacity
    /\ pos' \in 0..Len(text)
    /\ expect' \in {"object", "first", "key", "colon", "value", "comma", "done"}
    /\ key' \in Values \cup {NULL}
    /\ expect' \in {"colon", "value", "comma"} => key' \in Values
    /\ members' \in Seq(Members)
    /\ error' \in {"Ok", "IncompleteInput", "InvalidInput", "NoMemory"}

\* What deserializeJson may return.
Results == {"Ok", "IncompleteInput", "InvalidInput", "NoMemory"}

LEMMA Failing ==
    ASSUME TypeOK, UNCHANGED <<text, capacity>>,
           (\E e \in Results : Fail(e)) \/ Unexpected
    PROVE  ParserType /\ Len(members') = Len(members)
BY DEF Results, Fail, Unexpected, ParserType, TypeOK, Members

LEMMA ObjectStep ==
    ASSUME TypeOK, UNCHANGED <<text, capacity>>, ParseObject \/ EmptyObject \/ ParseComma
    PROVE  ParserType /\ PoolStep
<1>1. CASE Unexpected /\ UNCHANGED pool
    BY <1>1, Failing DEF PoolStep, Unchanged
<1>2. CASE /\ Token.t # "end" /\ UNCHANGED <<key, members>> /\ UNCHANGED pool
           /\ Move("first") \/ Move("key") \/ Move("done")
    BY <1>2, TokenType DEF Move, ParserType, TypeOK, PoolStep, Unchanged, Members
<1>3. CASE TopValue
    <2>1. CASE Token.t = "string" /\ StringFits(Token.size) /\ FreezeString(Token.size)
               /\ Fail("InvalidInput")
        <3>1. Token.size \in Nat
            BY TokenType DEF Tokens
        <3>. QED
            BY <2>1, <3>1, Failing DEF Results, PoolStep, MoreStrings
    <2>2. CASE StringLost /\ \E e \in Results : Fail(e)
        BY <2>2, Failing DEF PoolStep, NothingLeft
    <2>3. CASE UNCHANGED pool /\ ((\E e \in Results : Fail(e)) \/ Unexpected)
        BY <2>3, Failing DEF PoolStep, Unchanged
    <2>. QED
        BY <1>3, <2>1, <2>2, <2>3 DEF TopValue, Results
<1>. QED
    BY <1>1, <1>2, <1>3 DEF ParseObject, EmptyObject, ParseComma, pool

LEMMA KeyStep ==
    ASSUME TypeOK, UNCHANGED <<text, capacity>>, ParseKey
    PROVE  ParserType /\ PoolStep
<1>1. CASE /\ Token.t \in {"string", "number"} /\ StringFits(Token.size)
           /\ FreezeString(Token.size) /\ key' = Token.v /\ Move("colon") /\ UNCHANGED members
    <2>1. Token.size \in Nat /\ Token.v \in Values /\ pos + 1 \in 0..Len(text)
        BY <1>1, TokenType DEF Tokens
    <2>2. ParserType
        BY <1>1, <2>1 DEF Move, ParserType, TypeOK, Members
    <2>. QED
        BY <1>1, <2>1, <2>2 DEF PoolStep, MoreStrings
<1>2. CASE StringLost /\ (Fail("NoMemory") \/ Fail("IncompleteInput") \/ Unexpected)
    BY <1>2, Failing DEF Results, PoolStep, NothingLeft
<1>3. CASE Unexpected /\ UNCHANGED pool
    BY <1>3, Failing DEF PoolStep, Unchanged
<1>. QED
    BY <1>1, <1>2, <1>3 DEF ParseKey

LEMMA ColonStep ==
    ASSUME TypeOK, UNCHANGED <<text, capacity>>, ParseColon
    PROVE  ParserType /\ PoolStep
<1>1. key \in Values
    BY DEF ParseColon, TypeOK
<1>2. CASE Unexpected /\ UNCHANGED pool
    BY <1>2, Failing DEF PoolStep, Unchanged
<1>3. CASE Fail("NoMemory") /\ UNCHANGED pool
    BY <1>3, Failing DEF Results, PoolStep, Unchanged
<1>4. CASE Token.t = ":" /\ UNCHANGED <<members, pool, key>> /\ Move("value")
    <2>1. pos + 1 \in 0..Len(text)
        BY <1>4, TokenType
    <2>. QED
        BY <1>1, <1>4, <2>1 DEF Move, ParserType, TypeOK, PoolStep, Unchanged, Members
<1>5. CASE /\ Token.t = ":" /\ left + Slot <= right /\ right' = right - Slot
           /\ members' = Append(members, [key |-> key, value |-> NULL])
           /\ UNCHANGED <<left, strings, key>> /\ Move("value")
    <2>1. pos + 1 \in 0..Len(text)
        BY <1>5, TokenType
    <2>2. [key |-> key, value |-> NULL] \in Members /\ members \in Seq(Members)
        BY <1>1 DEF Members, TypeOK
    <2>3. members' \in Seq(Members) /\ Len(members') = Len(members) + 1
        BY <1>5, <2>2
    <2>. QED
        BY <1>1, <1>5, <2>1, <2>3 DEF Move, ParserType, TypeOK, PoolStep, MoreSlots
<1>. QED
    BY <1>2, <1>3, <1>4, <1>5 DEF ParseColon, AddMember

LEMMA ValueStep ==
    ASSUME TypeOK, UNCHANGED <<text, capacity>>, ParseValue
    PROVE  ParserType /\ PoolStep
<1>1. key \in Values
    BY DEF ParseValue, TypeOK
<1>2. ASSUME Token.t \in {"string", "number"}, SetValue(Token.v)
      PROVE  ParserType /\ Len(members') = Len(members)
    <2>1. Token.v \in Values /\ pos + 1 \in 0..Len(text)
        BY <1>2, TokenType
    <2>2. members \in Seq(Members) /\ Len(members) \in Nat /\ DOMAIN members = 1..Len(members)
        BY DEF Members, TypeOK
    <2>3. \A i \in 1..Len(members) : members[i] \in Members
        BY <2>2
    <2>4. \A i \in 1..Len(members) : [members[i] EXCEPT !.value = Token.v] \in Members
        BY <2>1, <2>3 DEF Members
    <2>5. members' \in Seq(Members) /\ Len(members') = Len(members)
        BY <1>2, <2>2, <2>3, <2>4 DEF SetValue
    <2>. QED
        BY <1>1, <1>2, <2>1, <2>5 DEF SetValue, Move, ParserType, TypeOK
<1>3. CASE Token.t = "string" /\ StringFits(Token.size) /\ FreezeString(Token.size)
           /\ SetValue(Token.v)
    <2>1. Token.size \in Nat
        BY TokenType DEF Tokens
    <2>. QED
        BY <1>2, <1>3, <2>1 DEF PoolStep, MoreStrings
<1>4. CASE StringLost /\ (Fail("NoMemory") \/ Fail("IncompleteInput"))
    BY <1>4, Failing DEF Results, PoolStep, NothingLeft
<1>5. CASE Token.t = "number" /\ SetValue(Token.v) /\ UNCHANGED pool
    BY <1>2, <1>5 DEF PoolStep, Unchanged
<1>6. CASE Unexpected /\ UNCHANGED pool
    BY <1>6, Failing DEF PoolStep, Unchanged
<1>. QED
    BY <1>3, <1>4, <1>5, <1>6 DEF ParseValue

LEMMA Step == ASSUME TypeOK, Next PROVE ParserType /\ PoolStep
BY ObjectStep, KeyStep, ColonStep, ValueStep DEF Next

-----------------------------------------------------------------------------
LEMMA InitInvariant == Init => TypeOK /\ PoolHolds
<1>. SUFFICES ASSUME Init PROVE TypeOK /\ PoolHolds
    OBVIOUS
<1>1. /\ text \in Seq([t : Kinds, v : Values \cup {NULL}, size : Nat])
      /\ capacity \in Nat /\ Slot \in Nat
    BY JsonAssumption DEF Init
<1>2. TypeOK
    BY <1>1 DEF Init, TypeOK
<1>3. Slot * 0 = 0
    BY <1>1
<1>. QED
    BY <1>1, <1>2, <1>3 DEF Init, PoolHolds

LEMMA NextType == ASSUME TypeOK, Next PROVE TypeOK'
<1>1. ParserType /\ PoolStep
    BY Step
<1>2. left \in Nat /\ right \in Nat /\ strings \in Seq(Places) /\ Slot \in Nat
    BY JsonAssumption DEF TypeOK, Places
<1>3. left' \in Nat /\ right' \in Nat /\ strings' \in Seq(Places)
    <2>1. CASE Unchanged
        BY <1>2, <2>1 DEF Unchanged, pool
    <2>2. CASE MoreStrings
        <3>1. PICK n \in Nat : FreezeString(n)
            BY <2>2 DEF MoreStrings
        <3>2. [at |-> left, size |-> n + 1] \in Places
            BY <1>2 DEF Places
        <3>3. Append(strings, [at |-> left, size |-> n + 1]) \in Seq(Places)
            BY <1>2, <3>2
        <3>. QED
            BY <1>2, <3>1, <3>3 DEF FreezeString
    <2>3. CASE NothingLeft
        BY <1>2, <2>3 DEF NothingLeft, StringLost
    <2>4. CASE MoreSlots
        BY <1>2, <2>4 DEF MoreSlots
    <2>. QED
        BY <1>1, <2>1, <2>2, <2>3, <2>4 DEF PoolStep
<1>. QED
    BY <1>1, <1>3 DEF ParserType, TypeOK, Members, Places

LEMMA NextPool == ASSUME TypeOK, PoolHolds, Next PROVE PoolHolds'
<1>1. ParserType /\ PoolStep
    BY Step
<1>2. /\ left \in Nat /\ right \in Nat /\ strings \in Seq(Places) /\ Slot \in Nat
      /\ capacity \in Nat /\ Len(members) \in Nat /\ Len(strings) \in Nat
      /\ DOMAIN strings = 1..Len(strings)
    BY JsonAssumption DEF TypeOK, Places
<1>3. \A i \in 1..Len(strings) : strings[i] \in Places
    BY <1>2
<1>4. CASE Unchanged
    BY <1>1, <1>4 DEF Unchanged, pool, PoolHolds, ParserType
<1>5. CASE MoreStrings
    <2>1. PICK n \in Nat : StringFits(n) /\ FreezeString(n) /\ Len(members') = Len(members)
        BY <1>5 DEF MoreStrings
    <2>2. left' = left + n + 1 /\ left' <= right /\ right' = right /\ capacity' = capacity
        BY <1>1, <2>1 DEF StringFits, FreezeString, ParserType
    <2>3. [at |-> left, size |-> n + 1] \in Places
        BY <1>2 DEF Places
    <2>4. /\ Len(strings') = Len(strings) + 1 /\ DOMAIN strings' = 1..(Len(strings) + 1)
          /\ \A i \in 1..Len(strings) : strings'[i] = strings[i]
          /\ strings'[Len(strings) + 1] = [at |-> left, size |-> n + 1]
        BY <1>2, <2>1, <2>3 DEF FreezeString
    <2>5. ASSUME NEW i \in 1..(Len(strings) + 1)
          PROVE  /\ strings'[i].at + strings'[i].size <= left'
                 /\ i < Len(strings) + 1 => strings'[i].at + strings'[i].size <= strings'[i + 1].at
        <3>1. CASE i = Len(strings) + 1
            BY <1>2, <2>2, <2>4, <3>1
        <3>2. CASE i \in 1..Len(strings)
            <4>1. strings[i].at + strings[i].size <= left /\ strings[i] \in Places
                BY <1>2, <1>3, <3>2 DEF PoolHolds
            <4>2. i < Len(strings) => strings[i].at + strings[i].size <= strings[i + 1].at
                BY <1>2, <3>2 DEF PoolHolds
            <4>3. strings[i].at \in Nat /\ strings[i].size \in Nat
                BY <4>1 DEF Places
            <4>4. strings[i].at + strings[i].size <= left'
                BY <1>2, <2>2, <4>1, <4>3
            <4>5. i < Len(strings) => i + 1 \in 1..Len(strings)
                BY <1>2, <3>2
            <4>6. i = Len(strings) \/ i < Len(strings)
                <5>1. \A a \in Nat : \A b \in 1..a : b = a \/ b < a
                    OBVIOUS
                <5>. QED
                    BY <1>2, <3>2, <5>1
            <4>. QED
                BY <2>4, <3>2, <4>1, <4>2, <4>4, <4>5, <4>6
        <3>. QED
            BY <1>2, <3>1, <3>2
    <2>. QED
        BY <1>2, <2>1, <2>2, <2>4, <2>5 DEF PoolHolds
<1>6. CASE NothingLeft
    <2>1. left' = right /\ right' = right /\ strings' = strings /\ capacity' = capacity
          /\ Len(members') = Len(members)
        BY <1>1, <1>6 DEF NothingLeft, StringLost, ParserType
    <2>2. ASSUME NEW i \in DOMAIN strings
          PROVE  strings[i].at + strings[i].size <= right
        <3>1. strings[i].at + strings[i].size <= left /\ strings[i] \in Places /\ left <= right
            BY <1>2, <1>3 DEF PoolHolds
        <3>2. strings[i].at \in Nat /\ strings[i].size \in Nat
            BY <3>1 DEF Places
        <3>. QED
            BY <1>2, <3>1, <3>2
    <2>. QED
        BY <1>2, <2>1, <2>2 DEF PoolHolds
<1>7. CASE MoreSlots
    <2>1. /\ left' = left /\ strings' = strings /\ capacity' = capacity
          /\ right' = right - Slot /\ left <= right - Slot
          /\ Len(members') = Len(members) + 1
        BY <1>1, <1>2, <1>7 DEF MoreSlots, ParserType
    <2>2. Slot * (Len(members) + 1) = Slot * Len(members) + Slot /\ Slot * Len(members) \in Int
        BY <1>2
    <2>3. right' + Slot * Len(members') = capacity
        <3>1. right + Slot * Len(members) = capacity
            BY DEF PoolHolds
        <3>. QED
            BY <1>2, <2>1, <2>2, <3>1
    <2>. QED
        BY <1>2, <2>1, <2>3 DEF PoolHolds
<1>. QED
    BY <1>1, <1>4, <1>5, <1>6, <1>7 DEF PoolStep

LEMMA NextInvariant == TypeOK /\ PoolHolds /\ [Next]_vars => (TypeOK /\ PoolHolds)'
<1>1. ASSUME TypeOK, PoolHolds, UNCHANGED vars PROVE (TypeOK /\ PoolHolds)'
    BY <1>1 DEF vars, pool, TypeOK, PoolHolds
<1>. QED
    BY <1>1, NextType, NextPool

-----------------------------------------------------------------------------
\* The parser and the pool keep their types, whatever the file holds.
THEOREM TypeCorrect == Spec => []TypeOK
<1>. QED
    BY InitInvariant, NextInvariant, PTL DEF Spec

\* StringBuilder and addSlot ask for room before they take it (ArduinoJson's MemoryPool):
\* no string reaches a slot or another string, after any error, in a pool of any size.
THEOREM PoolAlwaysHolds == Spec => []PoolHolds
<1>. QED
    BY InitInvariant, NextInvariant, PTL DEF Spec

-----------------------------------------------------------------------------
\* The members and the text that was read.

\* Where the value of k was read in the first n tokens, as the places of its colons.
ReadAt(k, n) == {i \in 1..n : text[i].t = ":" /\ text[i - 1].v = k /\ i + 1 <= n}
KeysRead(n) == {text[i - 1].v : i \in {j \in 1..n : text[j].t = ":"}}
KeysStored == {members[i].key : i \in DOMAIN members}

\* What the parser is about to read follows what it has read: a key is followed by its
\* colon and a colon by the value of the member that has the key.
Reading ==
    /\ expect = "object" => pos = 0
    /\ expect \in {"first", "key", "colon", "comma"} => text[pos].t # ":"
    /\ expect = "colon" => text[pos].v = key
    /\ expect = "value" =>
         pos \in 1..Len(text) /\ text[pos].t = ":" /\ text[pos - 1].v = key /\ SlotOf(key) # {}

ReadInv == TypeOK /\ Reading /\ DocumentIsPrefix

LEMMA NothingGiven == ASSUME NEW k, NEW n, ReadAt(k, n) = {} PROVE Given(k, n) = NULL
<1>. DEFINE places == {i \in 1..n : text[i].t = ":" /\ text[i - 1].v = k}
<1>1. {i \in places : i + 1 <= n} = {}
    BY DEF ReadAt
<1>. QED
    BY <1>1 DEF Given

LEMMA LastGiven ==
    ASSUME NEW k, NEW n \in Nat, NEW i \in ReadAt(k, n), \A j \in ReadAt(k, n) : j <= i
    PROVE  Given(k, n) = text[i + 1].v
<1>. DEFINE places == {j \in 1..n : text[j].t = ":" /\ text[j - 1].v = k}
            values == {j \in places : j + 1 <= n}
            last == CHOOSE x \in values : \A j \in values : j <= x
<1>1. values = ReadAt(k, n)
    BY DEF ReadAt
<1>2. Given(k, n) = IF values = {} THEN NULL ELSE text[last + 1].v
    BY DEF Given
<1>3. last \in values /\ \A j \in values : j <= last
    BY <1>1
<1>4. last <= i /\ i <= last
    BY <1>1, <1>3
<1>5. last \in Int /\ i \in Int
    BY <1>1, <1>3 DEF ReadAt
<1>6. last = i
    BY <1>4, <1>5
<1>. QED
    BY <1>1, <1>2, <1>6

\* The same places give the same value.
LEMMA SameGiven ==
    ASSUME NEW k, NEW n, NEW m, ReadAt(k, n) = ReadAt(k, m)
    PROVE  Given(k, n) = Given(k, m)
<1>. DEFINE p(x) == {i \in 1..x : text[i].t = ":" /\ text[i - 1].v = k}
            values(x) == {i \in p(x) : i + 1 <= x}
<1>1. \A x : values(x) = ReadAt(k, x)
    BY DEF ReadAt
<1>2. \A x : Given(k, x) = IF values(x) = {} THEN NULL
                           ELSE text[(CHOOSE i \in values(x) : \A j \in values(x) : j <= i) + 1].v
    BY DEF Given
<1>3. values(n) = values(m)
    BY <1>1
<1>. HIDE DEF values
<1>. QED
    BY <1>2, <1>3

\* One token more: its own colon has no value yet; the colon before it has.
LEMMA ReadNext ==
    ASSUME NEW n \in Nat, NEW k
    PROVE  /\ n \in 1..n /\ text[n].t = ":" /\ text[n - 1].v = k =>
                ReadAt(k, n + 1) = ReadAt(k, n) \cup {n}
           /\ ~(n \in 1..n /\ text[n].t = ":" /\ text[n - 1].v = k) =>
                ReadAt(k, n + 1) = ReadAt(k, n)
<1>1. \A i : i \in 1..(n + 1) /\ i + 1 <= n + 1 <=> (i \in 1..n /\ i + 1 <= n) \/ (i = n /\ i \in 1..n)
    OBVIOUS
<1>2. \A i, m : i \in ReadAt(k, m) <=>
        i \in 1..m /\ i + 1 <= m /\ text[i].t = ":" /\ text[i - 1].v = k
    BY DEF ReadAt
<1>3. \A i : i \in ReadAt(k, n + 1) <=>
        i \in ReadAt(k, n) \/ (i = n /\ n \in 1..n /\ text[n].t = ":" /\ text[n - 1].v = k)
    BY <1>1, <1>2
<1>. QED
    BY <1>3

LEMMA KeysNext ==
    ASSUME NEW n \in Nat
    PROVE  KeysRead(n + 1) =
             IF text[n + 1].t = ":" THEN KeysRead(n) \cup {text[n].v} ELSE KeysRead(n)
<1>1. n + 1 - 1 = n /\ 1..(n + 1) = 1..n \cup {n + 1}
    OBVIOUS
<1>2. \A i \in 1..n : i \in 1..(n + 1)
    BY <1>1
<1>. QED
    BY <1>1, <1>2 DEF KeysRead

LEMMA ReadIsKey == ASSUME NEW n, NEW k, ReadAt(k, n) # {} PROVE k \in KeysRead(n)
BY DEF ReadAt, KeysRead

-----------------------------------------------------------------------------
\* The invariant after a step, with the text as it was.
Read(m, n) ==
    /\ {m[i].key : i \in DOMAIN m} = KeysRead(n)
    /\ \A i \in DOMAIN m : m[i].value = Given(m[i].key, n)
    /\ \A i, j \in DOMAIN m : m[i].key = m[j].key => i = j

LEMMA DocumentRead == DocumentIsPrefix <=> Read(members, pos)
BY DEF DocumentIsPrefix, Read, KeysRead

LEMMA DocumentReadNext ==
    ASSUME text' = text, Read(members', pos')
    PROVE  DocumentIsPrefix'
BY DEF DocumentIsPrefix, Read, KeysRead, Given

LEMMA FailingReads ==
    ASSUME ReadInv, text' = text,
           (\E e \in Results : Fail(e)) \/ Unexpected
    PROVE  Reading' /\ DocumentIsPrefix'
<1>1. expect' = "done" /\ pos' = pos /\ members' = members
    BY DEF Results, Fail, Unexpected
<1>2. Read(members', pos')
    BY <1>1, DocumentRead DEF ReadInv
<1>. QED
    BY <1>1, <1>2, DocumentReadNext DEF Reading

\* A token that is no colon and does not follow one.
LEMMA OtherTokenReads ==
    ASSUME ReadInv, text' = text, members' = members, pos' = pos + 1,
           text[pos + 1].t # ":",
           expect \in {"object", "first", "key", "colon", "comma"}
    PROVE  DocumentIsPrefix'
<1>1. text[pos].t # ":" \/ pos = 0
    BY DEF ReadInv, Reading, TypeOK
<1>2. pos \in Nat
    BY DEF ReadInv, TypeOK
<1>3. \A k : ReadAt(k, pos + 1) = ReadAt(k, pos)
    BY <1>1, <1>2, ReadNext
<1>4. \A k : Given(k, pos + 1) = Given(k, pos)
    BY <1>3, SameGiven
<1>5. KeysRead(pos + 1) = KeysRead(pos)
    BY <1>2, KeysNext
<1>6. Read(members, pos + 1)
    BY <1>4, <1>5, DocumentRead DEF ReadInv, Read
<1>. QED
    BY <1>6, DocumentReadNext

\* A colon after its key: the member is there, or is made and has no value yet.
LEMMA ColonReads ==
    ASSUME ReadInv, text' = text, expect = "colon", Token.t = ":",
           pos' = pos + 1, pos + 1 \in 1..Len(text), text[pos + 1].t = ":", expect' = "value", key' = key,
           \/ SlotOf(key) # {} /\ members' = members
           \/ SlotOf(key) = {} /\ members' = Append(members, [key |-> key, value |-> NULL])
    PROVE  Reading' /\ DocumentIsPrefix'
<1>1. /\ pos \in Nat /\ text[pos].t # ":" /\ text[pos].v = key /\ key \in Values
      /\ members \in Seq(Members)
    BY DEF ReadInv, Reading, TypeOK, Members
<1>2. Read(members, pos)
    BY DocumentRead DEF ReadInv
<1>3. \A k : ReadAt(k, pos + 1) = ReadAt(k, pos)
    BY <1>1, ReadNext
<1>4. \A k : Given(k, pos + 1) = Given(k, pos)
    BY <1>3, SameGiven
<1>5. KeysRead(pos + 1) = KeysRead(pos) \cup {key}
    BY <1>1, KeysNext
<1>6. CASE SlotOf(key) # {} /\ members' = members
    <2>1. key \in KeysRead(pos)
        BY <1>2, <1>6 DEF SlotOf, Read
    <2>2. Read(members', pos')
        BY <1>2, <1>4, <1>5, <1>6, <2>1 DEF Read
    <2>3. Reading'
        BY <1>1, <1>6 DEF Reading, SlotOf
    <2>. QED
        BY <2>2, <2>3, DocumentReadNext
<1>7. CASE SlotOf(key) = {} /\ members' = Append(members, [key |-> key, value |-> NULL])
    <2>. DEFINE n == Len(members)
    <2>1. /\ n \in Nat /\ DOMAIN members = 1..n
          /\ DOMAIN members' = 1..(n + 1)
          /\ \A i \in 1..n : members'[i] = members[i]
          /\ members'[n + 1] = [key |-> key, value |-> NULL]
        <3>1. [key |-> key, value |-> NULL] \in Members
            BY <1>1 DEF Members
        <3>. QED
            BY <1>1, <1>7, <3>1
    <2>. HIDE DEF n
    <2>2. 1..(n + 1) = 1..n \cup {n + 1}
        BY <2>1
    <2>3. \A i \in 1..n : members[i].key # key
        BY <1>7, <2>1 DEF SlotOf
    <2>4. key \notin KeysRead(pos)
        BY <1>2, <2>1, <2>3 DEF Read
    <2>5. Given(key, pos + 1) = NULL
        BY <1>3, <2>4, ReadIsKey, NothingGiven
    <2>6. {members'[i].key : i \in DOMAIN members'} = KeysRead(pos + 1)
        <3>1. {members[i].key : i \in 1..n} = KeysRead(pos)
            BY <1>2, <2>1 DEF Read
        <3>2. {members'[i].key : i \in 1..(n + 1)} = {members[i].key : i \in 1..n} \cup {key}
            BY <2>1, <2>2
        <3>. QED
            BY <1>5, <2>1, <3>1, <3>2
    <2>7. \A i \in 1..(n + 1) : members'[i].value = Given(members'[i].key, pos + 1)
        BY <1>2, <1>4, <2>1, <2>2, <2>5 DEF Read
    <2>8. \A i, j \in 1..(n + 1) : members'[i].key = members'[j].key => i = j
        BY <1>2, <2>1, <2>2, <2>3 DEF Read
    <2>9. Read(members', pos')
        BY <2>1, <2>6, <2>7, <2>8 DEF Read
    <2>10. n + 1 \in SlotOf(key)'
        BY <2>1, <2>2 DEF SlotOf
    <2>11. Reading'
        BY <1>1, <2>10 DEF Reading
    <2>. QED
        BY <2>9, <2>11, DocumentReadNext
<1>. QED
    BY <1>6, <1>7

\* A value goes into the member its colon belongs to, and no other member changes.
LEMMA ValueReads ==
    ASSUME ReadInv, text' = text, expect = "value",
           pos + 1 \in 1..Len(text), text[pos + 1].t # ":", SetValue(text[pos + 1].v)
    PROVE  Reading' /\ DocumentIsPrefix'
<1>1. /\ pos \in Nat /\ pos \in 1..Len(text) /\ text[pos].t = ":" /\ text[pos - 1].v = key
      /\ key \in Values /\ members \in Seq(Members)
    BY DEF ReadInv, Reading, TypeOK, Members
<1>2. Read(members, pos)
    BY DocumentRead DEF ReadInv
<1>3. pos' = pos + 1 /\ expect' = "comma"
    BY DEF SetValue, Move
<1>4. ReadAt(key, pos + 1) = ReadAt(key, pos) \cup {pos}
    <2>1. text \in Seq(FileTokens)
        BY JsonAssumption DEF ReadInv, TypeOK, FileTokens
    <2>2. Len(text) \in Nat
        BY <2>1
    <2>3. pos \in 1..pos
        BY <1>1, <2>2
    <2>. QED
        BY <1>1, <2>3, ReadNext
<1>5. ASSUME NEW k, k # key PROVE ReadAt(k, pos + 1) = ReadAt(k, pos)
    BY <1>1, <1>5, ReadNext
<1>6. Given(key, pos + 1) = text[pos + 1].v
    <2>1. pos \in ReadAt(key, pos + 1) /\ pos + 1 \in Nat
        BY <1>1, <1>4
    <2>2. \A j \in ReadAt(key, pos + 1) : j <= pos
        BY <1>1 DEF ReadAt
    <2>. QED
        BY <2>1, <2>2, LastGiven
<1>7. \A k : k # key => Given(k, pos + 1) = Given(k, pos)
    BY <1>5, SameGiven
<1>8. KeysRead(pos + 1) = KeysRead(pos)
    BY <1>1, KeysNext
<1>9. /\ DOMAIN members' = DOMAIN members
      /\ \A i \in DOMAIN members :
           /\ members'[i].key = members[i].key
           /\ members'[i].value =
                IF members[i].key = key THEN text[pos + 1].v ELSE members[i].value
    <2>1. \A i \in DOMAIN members : members[i] \in Members
        BY <1>1
    <2>. QED
        BY <2>1 DEF SetValue, SlotOf, Members
<1>10. {members'[i].key : i \in DOMAIN members'} = KeysRead(pos + 1)
    <2>1. {members'[i].key : i \in DOMAIN members'} = {members[i].key : i \in DOMAIN members}
        BY <1>9
    <2>. QED
        BY <1>2, <1>8, <2>1 DEF Read
<1>11. Read(members', pos')
    BY <1>2, <1>3, <1>6, <1>7, <1>9, <1>10 DEF Read
<1>12. Reading'
    BY <1>3 DEF Reading
<1>. QED
    BY <1>11, <1>12, DocumentReadNext

-----------------------------------------------------------------------------
\* The steps.

LEMMA TokenText ==
    ASSUME TypeOK, Token.t # "end"
    PROVE  pos + 1 \in 1..Len(text) /\ Token = text[pos + 1]
<1>1. text \in Seq(FileTokens) /\ pos \in 0..Len(text)
    BY JsonAssumption DEF TypeOK, FileTokens
<1>2. Len(text) \in Nat
    BY <1>1
<1>3. pos < Len(text)
    BY DEF Token
<1>. QED
    BY <1>1, <1>2, <1>3 DEF Token

LEMMA NextReads == ASSUME ReadInv, Next PROVE Reading' /\ DocumentIsPrefix'
<1>1. text' = text /\ TypeOK
    BY DEF Next, ReadInv
<1>2. CASE (\E e \in Results : Fail(e)) \/ Unexpected
    BY <1>1, <1>2, FailingReads
<1>3. CASE /\ UNCHANGED <<key, members>> /\ Token.t # "end" /\ Token.t # ":"
           /\ \/ expect = "object" /\ Move("first")
              \/ expect \in {"first", "comma"} /\ Move("done")
              \/ expect = "comma" /\ Move("key")
    <2>1. pos' = pos + 1 /\ expect' \in {"first", "key", "done"} /\ members' = members
        BY <1>3 DEF Move
    <2>2. Token = text[pos + 1]
        BY <1>1, <1>3, TokenText
    <2>3. DocumentIsPrefix'
        BY <1>1, <1>3, <2>1, <2>2, OtherTokenReads
    <2>4. Reading'
        BY <1>1, <1>3, <2>1, <2>2 DEF Reading
    <2>. QED
        BY <2>3, <2>4
<1>4. CASE /\ expect \in {"first", "key"} /\ Token.t \in {"string", "number"}
           /\ key' = Token.v /\ Move("colon") /\ UNCHANGED members
    <2>1. pos' = pos + 1 /\ expect' = "colon" /\ members' = members
        BY <1>4 DEF Move
    <2>2. Token = text[pos + 1]
        BY <1>1, <1>4, TokenText
    <2>3. DocumentIsPrefix'
        BY <1>1, <1>4, <2>1, <2>2, OtherTokenReads
    <2>4. Reading'
        BY <1>1, <1>4, <2>1, <2>2 DEF Reading
    <2>. QED
        BY <2>3, <2>4
<1>5. CASE /\ expect = "colon" /\ Token.t = ":" /\ Move("value") /\ key' = key
           /\ \/ SlotOf(key) # {} /\ members' = members
              \/ SlotOf(key) = {} /\ members' = Append(members, [key |-> key, value |-> NULL])
    <2>1. pos' = pos + 1 /\ expect' = "value"
        BY <1>5 DEF Move
    <2>2. Token = text[pos + 1] /\ pos + 1 \in 1..Len(text)
        BY <1>1, <1>5, TokenText
    <2>. QED
        BY <1>1, <1>5, <2>1, <2>2, ColonReads
<1>6. CASE expect = "value" /\ Token.t \in {"string", "number"} /\ SetValue(Token.v)
    <2>1. Token = text[pos + 1] /\ pos + 1 \in 1..Len(text)
        BY <1>1, <1>6, TokenText
    <2>. QED
        BY <1>1, <1>6, <2>1, ValueReads
<1>7. CASE ParseObject
    <2>1. TopValue => (\E e \in Results : Fail(e)) \/ Unexpected
        BY DEF TopValue, Results
    <2>. QED
        BY <1>2, <1>3, <1>7, <2>1 DEF ParseObject
<1>8. CASE EmptyObject
    BY <1>3, <1>8 DEF EmptyObject
<1>9. CASE ParseKey
    BY <1>2, <1>4, <1>9 DEF Results, ParseKey
<1>10. CASE ParseColon
    BY <1>2, <1>5, <1>10 DEF Results, ParseColon, AddMember
<1>11. CASE ParseValue
    BY <1>2, <1>6, <1>11 DEF Results, ParseValue
<1>12. CASE ParseComma
    BY <1>2, <1>3, <1>12 DEF ParseComma
<1>. QED
    BY <1>7, <1>8, <1>9, <1>10, <1>11, <1>12 DEF Next

LEMMA InitReads == Init => ReadInv
<1>. SUFFICES ASSUME Init PROVE ReadInv
    OBVIOUS
<1>1. Reading
    BY DEF Init, Reading
<1>2. Read(members, pos)
    BY DEF Init, Read, KeysRead
<1>. QED
    BY <1>1, <1>2, DocumentRead, InitInvariant DEF ReadInv

\* getMember before addSlot, and the value's slot by its key (parseObject): at every moment,
\* so after any error, the document holds the keys whose colon was read, each once, with the
\* last value that was read for it and NULL where none was - for every file, and for every
\* pool, whatever it cannot hold.
THEOREM DocumentAlwaysPrefix == Spec => []DocumentIsPrefix
<1>1. ReadInv /\ [Next]_vars => ReadInv'
    <2>1. ASSUME ReadInv, UNCHANGED vars PROVE ReadInv'
        <3>1. Reading' /\ TypeOK' /\ text' = text
            BY <2>1 DEF vars, pool, ReadInv, Reading, TypeOK, SlotOf
        <3>2. Read(members', pos')
            BY <2>1, DocumentRead DEF vars, ReadInv
        <3>. QED
            BY <3>1, <3>2, DocumentReadNext DEF ReadInv
    <2>. QED
        BY <2>1, NextReads, NextType DEF ReadInv
<1>2. ReadInv => DocumentIsPrefix
    BY DEF ReadInv
<1>. QED
    BY <1>1, <1>2, InitReads, PTL DEF Spec

-----------------------------------------------------------------------------
\* Files that fit.

\* A flat object with a member at least, its keys in quotes.
IsObject(file) ==
    /\ Len(file) % 4 = 1 /\ Len(file) > 1 /\ file[1].t = "{"
    /\ \A i \in 2..Len(file) :
         /\ i % 4 = 2 => file[i].t = "string"
         /\ i % 4 = 3 => file[i].t = ":"
         /\ i % 4 = 0 => file[i].t \in {"string", "number"}
         /\ i % 4 = 1 => file[i].t = (IF i = Len(file) THEN "}" ELSE ",")

\* What a token may take of the pool: a string its characters and a zero, a colon the slot
\* of its member.
Cost(token) ==
    CASE token.t = "string" -> token.size + 1
      [] token.t = ":" -> Slot
      [] OTHER -> 0

\* Running totals of what the tokens of a file take that stay within a pool.
Totals(file, size) ==
    {total \in [0..Len(file) -> 0..size] :
        \A i \in 1..Len(file) : total[i - 1] + Cost(file[i]) <= total[i]}

\* In such a file the place of a token tells what is expected there.
InPlace ==
    /\ expect = "object" => pos = 0
    /\ expect = "first" => pos = 1
    /\ expect = "key" => pos % 4 = 1 /\ pos < Len(text)
    /\ expect = "colon" => pos % 4 = 2
    /\ expect = "value" => pos % 4 = 3
    /\ expect = "comma" => pos % 4 = 0 /\ pos > 0

\* A member has no value only while its value is what is parsed next.
Valued == \A i \in DOMAIN members :
    members[i].value = NULL => expect = "value" /\ members[i].key = key

WithinTotal(total) == left + Slot * Len(members) <= total[pos]

Fitting == IsObject(text) /\ Totals(text, capacity) # {}

FitInv == Fitting =>
    /\ error = "Ok" /\ InPlace /\ Valued
    /\ \E total \in Totals(text, capacity) : WithinTotal(total)

\* Parsing such a file ends without an error and with a value for each member.
FittingRead == Fitting /\ expect = "done" =>
    error = "Ok" /\ \A i \in DOMAIN members : members[i].value # NULL

LEMMA FittingToken ==
    ASSUME TypeOK, Fitting, InPlace, expect # "done"
    PROVE  /\ pos \in Nat /\ Len(text) \in Nat /\ pos + 1 \in 1..Len(text)
           /\ Token = text[pos + 1] /\ Token \in Tokens
           /\ expect = "object" => Token.t = "{"
           /\ expect \in {"first", "key"} => Token.t = "string"
           /\ expect = "colon" => Token.t = ":"
           /\ expect = "value" => Token.t \in {"string", "number"}
           /\ expect = "comma" => Token.t = (IF pos + 1 = Len(text) THEN "}" ELSE ",")
<1>. DEFINE n == Len(text)
<1>1. n \in Nat /\ pos \in Nat /\ pos <= n
    <2>1. text \in Seq(FileTokens) /\ pos \in 0..n
        BY JsonAssumption DEF TypeOK, FileTokens
    <2>2. n \in Nat
        BY <2>1
    <2>. HIDE DEF n
    <2>. QED
        BY <2>1, <2>2
<1>2. /\ n % 4 = 1 /\ n > 1 /\ text[1].t = "{"
      /\ \A i \in 2..n : /\ i % 4 = 2 => text[i].t = "string"
                         /\ i % 4 = 3 => text[i].t = ":"
                         /\ i % 4 = 0 => text[i].t \in {"string", "number"}
                         /\ i % 4 = 1 => text[i].t = (IF i = n THEN "}" ELSE ",")
    BY DEF Fitting, IsObject
<1>. HIDE DEF n
<1>3. /\ expect \in {"object", "first", "key", "colon", "value", "comma"}
      /\ expect = "object" => pos = 0
      /\ expect = "first" => pos = 1
      /\ expect = "key" => pos % 4 = 1 /\ pos < n
      /\ expect = "colon" => pos % 4 = 2
      /\ expect = "value" => pos % 4 = 3
      /\ expect = "comma" => pos % 4 = 0 /\ pos > 0
    BY DEF TypeOK, InPlace, n
<1>4. pos < n
    <2>1. SUFFICES ASSUME pos = n PROVE FALSE
        BY <1>1
    <2>2. n % 4 = 1 /\ n > 1
        BY <1>2
    <2>. DEFINE r == pos % 4
    <2>3. pos # 0 /\ pos # 1 /\ ~(pos < n) /\ r = 1
        BY <1>1, <2>1, <2>2
    <2>4. r # 2 /\ r # 3 /\ r # 0
        BY <2>3
    <2>. HIDE DEF r
    <2>5. expect \notin {"object", "first", "key", "colon", "value", "comma"}
        BY <1>3, <2>3, <2>4, Zenon DEF r
    <2>. QED
        BY <1>3, <2>5, Zenon
<1>5. Token = text[pos + 1] /\ pos + 1 \in 1..n
    BY <1>1, <1>4 DEF Token, n
<1>6. /\ expect = "object" => pos + 1 = 1
      /\ expect # "object" => pos + 1 \in 2..n
      /\ expect \in {"first", "key"} => (pos + 1) % 4 = 2
      /\ expect = "colon" => (pos + 1) % 4 = 3
      /\ expect = "value" => (pos + 1) % 4 = 0
      /\ expect = "comma" => (pos + 1) % 4 = 1
    BY <1>1, <1>3, <1>4
<1>7. Token \in Tokens
    BY TokenType
<1>. DEFINE m == pos + 1
<1>. HIDE DEF m
<1>8. /\ expect = "object" => m = 1
      /\ expect # "object" => m \in 2..n
      /\ expect \in {"first", "key"} => m % 4 = 2
      /\ expect = "colon" => m % 4 = 3
      /\ expect = "value" => m % 4 = 0
      /\ expect = "comma" => m % 4 = 1
      /\ Token = text[m]
    BY <1>5, <1>6 DEF m
<1>9. /\ expect = "object" => Token.t = "{"
      /\ expect \in {"first", "key"} => Token.t = "string"
      /\ expect = "colon" => Token.t = ":"
      /\ expect = "value" => Token.t \in {"string", "number"}
      /\ expect = "comma" => Token.t = (IF m = n THEN "}" ELSE ",")
    BY <1>2, <1>8
<1>. QED
    BY <1>1, <1>5, <1>7, <1>9 DEF n, m

\* What the next token takes is left in the pool.
LEMMA RoomLeft ==
    ASSUME TypeOK, PoolHolds, Fitting, InPlace, expect # "done",
           NEW total \in Totals(text, capacity), WithinTotal(total)
    PROVE  /\ left \in Nat /\ right \in Nat /\ Slot \in Nat /\ Len(members) \in Nat
           /\ Slot * Len(members) \in Nat
           /\ left + Cost(Token) <= right
           /\ left + Slot * Len(members) + Cost(Token) <= total[pos + 1]
           /\ Cost(Token) = (IF Token.t = "string" THEN Token.size + 1
                             ELSE IF Token.t = ":" THEN Slot ELSE 0)
<1>. DEFINE w == Slot * Len(members)
            c == Cost(Token)
            k == Len(members)
<1>1. /\ left \in Nat /\ right \in Nat /\ Slot \in Nat /\ k \in Nat /\ capacity \in Nat
      /\ right + w = capacity
    BY JsonAssumption DEF TypeOK, PoolHolds
<1>2. w \in Nat
    <2>. HIDE DEF k
    <2>1. Slot * k \in Nat
        BY <1>1
    <2>. QED
        BY <2>1 DEF k
<1>3. /\ pos \in Nat /\ Len(text) \in Nat /\ pos + 1 \in 1..Len(text)
      /\ Token = text[pos + 1] /\ Token \in Tokens
    BY FittingToken
<1>4. c = IF Token.t = "string" THEN Token.size + 1 ELSE IF Token.t = ":" THEN Slot ELSE 0
    BY DEF Cost
<1>5. c \in Nat
    BY <1>1, <1>3, <1>4 DEF Tokens
<1>6. /\ total \in [0..Len(text) -> 0..capacity]
      /\ \A i \in 1..Len(text) : total[i - 1] + Cost(text[i]) <= total[i]
    BY DEF Totals
<1>7. total[pos] \in 0..capacity /\ total[pos + 1] \in 0..capacity /\ total[pos] + c <= total[pos + 1]
    <2>. DEFINE n == Len(text)
                m == pos + 1
    <2>1. pos \in 0..n /\ m \in 0..n /\ m \in 1..n /\ m - 1 = pos
        BY <1>3
    <2>. HIDE DEF n, m
    <2>2. total[m - 1] + Cost(text[m]) <= total[m]
        BY <1>6, <2>1 DEF n
    <2>3. total[pos] \in 0..capacity /\ total[m] \in 0..capacity
        BY <1>6, <2>1 DEF n
    <2>. QED
        BY <1>3, <2>1, <2>2, <2>3 DEF m
<1>8. left + w <= total[pos]
    BY DEF WithinTotal
<1>. DEFINE t0 == total[pos]
            t1 == total[pos + 1]
<1>. HIDE DEF w, c, k, t0, t1
<1>9. t0 \in Int /\ t1 \in Int /\ t1 <= capacity /\ t0 + c <= t1 /\ left + w <= t0
    BY <1>1, <1>7, <1>8 DEF t0, t1
<1>10. left + w + c <= t1 /\ left + c <= right
    BY <1>1, <1>2, <1>5, <1>9
<1>. QED
    BY <1>1, <1>2, <1>4, <1>10 DEF w, c, k, t1

\* What a step of the parser has to keep: it goes to the next token, takes no more than the
\* token may, and leaves no member behind without a value.
LEMMA FittingNext ==
    ASSUME TypeOK, PoolHolds, Fitting, InPlace, expect # "done", error = "Ok",
           NEW total \in Totals(text, capacity), WithinTotal(total),
           UNCHANGED <<text, capacity, error>>, pos' = pos + 1,
           left' + Slot * Len(members') <= left + Slot * Len(members) + Cost(Token),
           left' \in Nat, Slot * Len(members') \in Nat, InPlace', Valued'
    PROVE  FitInv'
<1>. DEFINE w == Slot * Len(members)
            u == Slot * Len(members')
            c == Cost(Token)
            t == total[pos + 1]
<1>1. left \in Nat /\ w \in Nat /\ left + w + c <= t
    BY RoomLeft
<1>2. left' \in Nat /\ u \in Nat /\ left' + u <= left + w + c
    OBVIOUS
<1>3. c \in Nat
    <2>1. Token \in Tokens /\ Slot \in Nat
        BY JsonAssumption, FittingToken
    <2>. QED
        BY <2>1 DEF Cost, Tokens
<1>4. t \in Nat
    <2>. DEFINE n == Len(text)
                m == pos + 1
    <2>1. total \in [0..n -> 0..capacity] /\ capacity \in Nat
        BY JsonAssumption DEF Totals, TypeOK
    <2>2. m \in 0..n
        <3>1. pos \in Nat /\ n \in Nat /\ pos + 1 \in 1..n
            BY FittingToken
        <3>. HIDE DEF n
        <3>. QED
            BY <3>1
    <2>. HIDE DEF n, m
    <2>3. total[m] \in 0..capacity
        BY <2>1, <2>2
    <2>. QED
        BY <2>1, <2>3 DEF m
<1>. HIDE DEF w, u, c, t
<1>5. left' + u <= t
    <2>. DEFINE l == left
                l2 == left'
    <2>1. /\ l \in Nat /\ l2 \in Nat /\ w \in Nat /\ u \in Nat /\ c \in Nat /\ t \in Nat
          /\ l2 + u <= l + w + c /\ l + w + c <= t
        BY <1>1, <1>2, <1>3, <1>4
    <2>. HIDE DEF l, l2
    <2>2. l2 + u <= t
        BY <2>1
    <2>. QED
        BY <2>2 DEF l2
<1>6. WithinTotal(total)'
    BY <1>5 DEF WithinTotal, u, t
<1>7. (total \in Totals(text, capacity))'
    BY DEF Totals, Cost
<1>. QED
    BY <1>6, <1>7 DEF FitInv

LEMMA SameMembers ==
    ASSUME TypeOK, UNCHANGED <<members, left>>, Cost(Token) \in Nat
    PROVE  /\ left' + Slot * Len(members') <= left + Slot * Len(members) + Cost(Token)
           /\ left' \in Nat /\ Slot * Len(members') \in Nat
<1>. DEFINE k == Len(members)
            c == Cost(Token)
<1>1. k \in Nat /\ left \in Nat /\ Slot \in Nat /\ c \in Nat
    BY JsonAssumption DEF TypeOK
<1>. HIDE DEF k, c
<1>2. Slot * k \in Nat
    BY <1>1
<1>3. left + Slot * k <= left + Slot * k + c
    BY <1>1, <1>2
<1>. QED
    BY <1>1, <1>2, <1>3 DEF k, c

LEMMA TokenCost ==
    ASSUME TypeOK
    PROVE  Cost(Token) \in Nat /\ (Token.t = "string" => Cost(Token) = Token.size + 1)
<1>1. Token \in Tokens /\ Slot \in Nat
    BY TokenType, JsonAssumption
<1>. QED
    BY <1>1 DEF Cost, Tokens

LEMMA NextFits ==
    ASSUME TypeOK, PoolHolds, FitInv, Next
    PROVE  FitInv'
<1>1. text' = text /\ capacity' = capacity
    BY DEF Next
<1>2. SUFFICES ASSUME Fitting PROVE FitInv'
    <2>1. Fitting' => Fitting
        BY <1>1 DEF Fitting, IsObject, Totals, Cost
    <2>. QED
        BY <2>1 DEF FitInv
<1>3. PICK total \in Totals(text, capacity) : WithinTotal(total)
    BY <1>2 DEF FitInv
<1>4. error = "Ok" /\ InPlace /\ Valued
    BY <1>2 DEF FitInv
<1>5. expect # "done"
    BY DEF Next, ParseObject, EmptyObject, ParseKey, ParseColon, ParseValue, ParseComma
<1>6. /\ pos \in Nat /\ Len(text) \in Nat /\ pos + 1 \in 1..Len(text)
      /\ Token = text[pos + 1] /\ Token \in Tokens
      /\ expect = "object" => Token.t = "{"
      /\ expect \in {"first", "key"} => Token.t = "string"
      /\ expect = "colon" => Token.t = ":"
      /\ expect = "value" => Token.t \in {"string", "number"}
      /\ expect = "comma" => Token.t = (IF pos + 1 = Len(text) THEN "}" ELSE ",")
    BY <1>2, <1>4, <1>5, FittingToken
<1>7. /\ left \in Nat /\ right \in Nat /\ Slot \in Nat /\ Len(members) \in Nat
      /\ Slot * Len(members) \in Nat
      /\ left + Cost(Token) <= right
      /\ Cost(Token) = (IF Token.t = "string" THEN Token.size + 1
                        ELSE IF Token.t = ":" THEN Slot ELSE 0)
    BY <1>2, <1>3, <1>4, <1>5, RoomLeft
<1>8. Cost(Token) \in Nat
    BY TokenCost
<1>9. members \in Seq(Members)
    BY DEF TypeOK, Members
<1>10. ASSUME error' = error, pos' = pos + 1, InPlace', Valued', left' \in Nat,
              Slot * Len(members') \in Nat,
              left' + Slot * Len(members') <= left + Slot * Len(members) + Cost(Token)
       PROVE  FitInv'
    BY <1>1, <1>2, <1>3, <1>4, <1>5, <1>10, FittingNext
<1>11. CASE ParseObject
    <2>1. expect = "object" /\ Move("first") /\ UNCHANGED <<key, members>> /\ UNCHANGED pool
        BY <1>6, <1>11 DEF ParseObject, TopValue, pool
    <2>2. pos = 0 /\ pos' = pos + 1 /\ expect' = "first" /\ error' = error /\ left' = left
        BY <1>4, <2>1 DEF Move, InPlace, pool
    <2>3. InPlace'
        BY <2>2 DEF InPlace
    <2>4. Valued'
        BY <1>4, <2>1 DEF Valued
    <2>. QED
        BY <1>8, <1>10, <2>1, <2>2, <2>3, <2>4, SameMembers
<1>12. CASE EmptyObject
    BY <1>6, <1>12 DEF EmptyObject
<1>13. CASE ParseKey
    <2>1. expect \in {"first", "key"} /\ Token.t = "string"
        BY <1>6, <1>13 DEF ParseKey
    <2>2. StringFits(Token.size)
        <3>1. Token.size \in Nat
            BY <1>6 DEF Tokens
        <3>. DEFINE n == Token.size
        <3>2. n \in Nat /\ left + (n + 1) <= right
            BY <1>7, <2>1, <3>1
        <3>. HIDE DEF n
        <3>3. left + n + 1 <= right
            BY <1>7, <3>2
        <3>. QED
            BY <3>3 DEF StringFits, n
    <2>3. FreezeString(Token.size) /\ key' = Token.v /\ Move("colon") /\ UNCHANGED members
        BY <1>13, <2>1, <2>2 DEF ParseKey
    <2>4. pos' = pos + 1 /\ expect' = "colon" /\ error' = error /\ members' = members
          /\ left' = left + Token.size + 1
        BY <2>3 DEF Move, FreezeString
    <2>5. InPlace'
        <3>1. pos = 1 \/ pos % 4 = 1
            BY <1>4, <2>1 DEF InPlace
        <3>2. \A p \in Nat : p = 1 \/ p % 4 = 1 => (p + 1) % 4 = 2
            OBVIOUS
        <3>3. pos' % 4 = 2
            BY <1>6, <2>4, <3>1, <3>2
        <3>. QED
            BY <2>4, <3>3 DEF InPlace
    <2>6. Valued'
        BY <1>4, <2>1, <2>4 DEF Valued
    <2>7. left' \in Nat /\ left' + Slot * Len(members') <= left + Slot * Len(members) + Cost(Token)
        <3>. DEFINE w == Slot * Len(members)
                    n == Token.size
        <3>1. n \in Nat /\ w \in Nat /\ Cost(Token) = n + 1 /\ left' = left + n + 1
              /\ Slot * Len(members') = w
            BY <1>6, <1>7, <2>1, <2>4 DEF Tokens
        <3>. HIDE DEF w, n
        <3>. QED
            BY <1>7, <3>1 DEF w
    <2>. QED
        BY <1>7, <1>10, <2>4, <2>5, <2>6, <2>7
<1>14. CASE ParseColon
    <2>1. expect = "colon" /\ Token.t = ":" /\ AddMember
        BY <1>6, <1>14 DEF ParseColon
    <2>2. Cost(Token) = Slot /\ left + Slot <= right
        BY <1>7, <2>1
    <2>3. Move("value") /\ key' = key /\ UNCHANGED left
          /\ \/ SlotOf(key) # {} /\ members' = members
             \/ SlotOf(key) = {} /\ members' = Append(members, [key |-> key, value |-> NULL])
        <3>1. ~(left + Slot > right)
            BY <1>7, <2>2
        <3>. QED
            BY <2>1, <3>1 DEF AddMember, pool
    <2>4. pos' = pos + 1 /\ expect' = "value" /\ error' = error
        BY <2>3 DEF Move
    <2>5. InPlace'
        <3>1. pos' % 4 = 3
            BY <1>4, <1>6, <2>1, <2>4 DEF InPlace
        <3>. QED
            BY <2>4, <3>1 DEF InPlace
    <2>6. CASE members' = members
        <3>1. Valued'
            BY <1>4, <2>1, <2>3, <2>4, <2>6 DEF Valued
        <3>. QED
            BY <1>8, <1>10, <2>3, <2>4, <2>5, <2>6, <3>1, SameMembers
    <2>7. CASE members' = Append(members, [key |-> key, value |-> NULL])
        <3>. DEFINE k == Len(members)
        <3>1. /\ k \in Nat /\ DOMAIN members = 1..k
              /\ Len(members') = k + 1 /\ DOMAIN members' = 1..(k + 1)
              /\ \A i \in 1..k : members'[i] = members[i]
              /\ members'[k + 1].key = key
            <4>1. key \in Values
                BY <2>1 DEF TypeOK
            <4>2. [key |-> key, value |-> NULL] \in Members
                BY <4>1 DEF Members
            <4>. QED
                BY <1>9, <2>7, <4>2
        <3>. HIDE DEF k
        <3>2. Valued'
            <4>1. \A i \in 1..(k + 1) : i \in 1..k \/ i = k + 1
                BY <3>1
            <4>2. \A i \in 1..k : members[i].value # NULL
                BY <1>4, <2>1, <3>1 DEF Valued
            <4>. QED
                BY <2>3, <2>4, <3>1, <4>1, <4>2 DEF Valued
        <3>3. Slot * (k + 1) = Slot * k + Slot /\ Slot * k \in Nat
            BY <1>7, <3>1
        <3>4. /\ left' = left /\ Slot * Len(members') \in Nat
              /\ Slot * Len(members') = Slot * Len(members) + Slot
            BY <1>7, <2>3, <3>1, <3>3 DEF k
        <3>5. left' + Slot * Len(members') <= left + Slot * Len(members) + Cost(Token)
            BY <1>7, <2>2, <3>4
        <3>. QED
            BY <1>7, <1>10, <2>4, <2>5, <3>2, <3>4, <3>5
    <2>. QED
        BY <2>3, <2>6, <2>7
<1>15. CASE ParseValue
    <2>1. expect = "value" /\ Token.t \in {"string", "number"}
        BY <1>6, <1>15 DEF ParseValue
    <2>2. Token.t = "string" => StringFits(Token.size)
        <3>1. SUFFICES ASSUME Token.t = "string" PROVE StringFits(Token.size)
            OBVIOUS
        <3>. DEFINE n == Token.size
        <3>2. n \in Nat /\ left + (n + 1) <= right
            BY <1>6, <1>7, <3>1 DEF Tokens
        <3>. HIDE DEF n
        <3>3. left + n + 1 <= right
            BY <1>7, <3>2
        <3>. QED
            BY <3>3 DEF StringFits, n
    <2>3. /\ SetValue(Token.v)
          /\ \/ Token.t = "string" /\ left' = left + Token.size + 1
             \/ Token.t = "number" /\ left' = left
        BY <1>15, <2>1, <2>2 DEF ParseValue, FreezeString, pool
    <2>4. pos' = pos + 1 /\ expect' = "comma" /\ error' = error
        BY <2>3 DEF SetValue, Move
    <2>5. InPlace'
        <3>1. pos' % 4 = 0 /\ pos' > 0
            BY <1>4, <1>6, <2>1, <2>4 DEF InPlace
        <3>. QED
            BY <2>4, <3>1 DEF InPlace
    <2>6. /\ Len(members') = Len(members) /\ DOMAIN members' = DOMAIN members
          /\ \A i \in DOMAIN members : members'[i].value # NULL
        <3>1. Token.v \in Values
            BY <2>1, TokenType
        <3>2. \A i \in DOMAIN members : members[i] \in Members
            BY <1>9
        <3>3. \A i \in DOMAIN members :
                members'[i] = IF members[i].key = key THEN [members[i] EXCEPT !.value = Token.v]
                              ELSE members[i]
            BY <2>3 DEF SetValue, SlotOf
        <3>4. ASSUME NEW i \in DOMAIN members PROVE members'[i].value # NULL
            <4>1. CASE members[i].key = key
                <5>1. members'[i].value = Token.v
                    BY <3>2, <3>3, <4>1 DEF Members
                <5>. QED
                    BY <3>1, <5>1, JsonAssumption
            <4>2. CASE members[i].key # key
                BY <1>4, <3>3, <4>2 DEF Valued
            <4>. QED
                BY <4>1, <4>2
        <3>5. Len(members') = Len(members) /\ DOMAIN members' = DOMAIN members
            BY <1>9, <2>3 DEF SetValue
        <3>. QED
            BY <3>4, <3>5
    <2>7. Valued'
        BY <2>6 DEF Valued
    <2>8. left' \in Nat /\ left' + Slot * Len(members') <= left + Slot * Len(members) + Cost(Token)
        <3>. DEFINE w == Slot * Len(members)
                    n == Token.size
                    c == Cost(Token)
        <3>1. /\ n \in Nat /\ w \in Nat /\ c \in Nat /\ Slot * Len(members') = w
              /\ \/ left' = left + n + 1 /\ c = n + 1
                 \/ left' = left
            BY <1>6, <1>7, <1>8, <2>3, <2>6 DEF Tokens
        <3>. HIDE DEF w, n, c
        <3>2. left' \in Nat /\ left' + w <= left + w + c
            BY <1>7, <3>1
        <3>. QED
            BY <3>1, <3>2 DEF w, c
    <2>. QED
        BY <1>7, <1>10, <2>4, <2>5, <2>6, <2>7, <2>8
<1>16. CASE ParseComma
    <2>1. /\ expect = "comma" /\ Token.t = (IF pos + 1 = Len(text) THEN "}" ELSE ",")
          /\ Move(IF Token.t = "," THEN "key" ELSE "done") /\ UNCHANGED <<key, members>>
          /\ UNCHANGED pool
        BY <1>6, <1>16 DEF ParseComma
    <2>2. /\ pos' = pos + 1 /\ error' = error /\ left' = left
          /\ expect' = (IF pos + 1 = Len(text) THEN "done" ELSE "key")
        BY <2>1 DEF Move, pool
    <2>3. InPlace'
        <3>. DEFINE n == Len(text)
        <3>1. pos' % 4 = 1 /\ (expect' = "key" => pos' < n)
            <4>1. \A p \in Nat : p % 4 = 0 => (p + 1) % 4 = 1
                OBVIOUS
            <4>2. pos % 4 = 0 /\ pos \in Nat
                BY <1>4, <1>6, <2>1 DEF InPlace
            <4>3. pos' % 4 = 1
                BY <2>2, <4>1, <4>2
            <4>4. n \in Nat /\ pos + 1 \in 1..n /\ (expect' = "key" => pos + 1 # n)
                BY <1>6, <2>2
            <4>. HIDE DEF n
            <4>5. expect' = "key" => pos' < n
                BY <2>2, <4>2, <4>4
            <4>. QED
                BY <4>3, <4>5
        <3>2. expect' \in {"done", "key"}
            BY <2>2
        <3>. QED
            BY <1>1, <3>1, <3>2 DEF InPlace
    <2>4. Valued'
        BY <1>4, <2>1 DEF Valued
    <2>. QED
        BY <1>8, <1>10, <2>1, <2>2, <2>3, <2>4, SameMembers
<1>. QED
    BY <1>11, <1>12, <1>13, <1>14, <1>15, <1>16 DEF Next

LEMMA InitFits == Init => FitInv
<1>. SUFFICES ASSUME Init, Fitting PROVE FitInv
    BY DEF FitInv
<1>1. error = "Ok" /\ InPlace /\ Valued
    BY DEF Init, InPlace, Valued
<1>2. PICK total : total \in Totals(text, capacity)
    BY DEF Fitting
<1>3. WithinTotal(total)
    <2>1. Slot * Len(members) = 0 /\ left = 0 /\ pos = 0
        BY JsonAssumption DEF Init
    <2>2. total[0] \in 0..capacity
        <3>. DEFINE n == Len(text)
        <3>1. n \in Nat /\ total \in [0..n -> 0..capacity]
            BY <1>2, InitInvariant DEF Totals, TypeOK
        <3>. HIDE DEF n
        <3>. QED
            BY <3>1
    <2>3. capacity \in Nat
        BY JsonAssumption DEF Init
    <2>. QED
        BY <2>1, <2>2, <2>3 DEF WithinTotal
<1>. QED
    BY <1>1, <1>2, <1>3 DEF FitInv

\* Parsing ends well if the pool has room for a file: an object of distinct or repeated keys
\* whose strings, each with its zero, and whose slots together stay within the capacity is
\* read to its end without NoMemory, and every member has its value - whatever the file
\* says and however large the pool is.
THEOREM FittingFilesRead == Spec => []FittingRead
<1>. DEFINE I == TypeOK /\ PoolHolds /\ FitInv
<1>1. Init => I
    BY InitInvariant, InitFits
<1>2. I /\ [Next]_vars => I'
    <2>1. ASSUME I, UNCHANGED vars PROVE I'
        <3>1. TypeOK' /\ PoolHolds'
            BY <2>1, NextInvariant
        <3>2. FitInv'
            BY <2>1 DEF vars, pool, FitInv, Fitting, IsObject, Totals, Cost, InPlace, Valued,
                        WithinTotal
        <3>. QED
            BY <3>1, <3>2
    <2>2. ASSUME I, Next PROVE I'
        BY <2>2, NextInvariant, NextFits
    <2>. QED
        BY <2>1, <2>2
<1>3. I => FittingRead
    BY DEF FitInv, FittingRead, Valued
<1>. QED
    BY <1>1, <1>2, <1>3, PTL DEF Spec

\* The definition of IsObject, for a file of a known length.
LEMMA IsObjectOf ==
    ASSUME NEW file, NEW n, Len(file) = n, n % 4 = 1, n > 1, file[1].t = "{",
           \A i \in 2..n : /\ (i % 4 = 2 => file[i].t = "string")
                           /\ (i % 4 = 3 => file[i].t = ":")
                           /\ (i % 4 = 0 => file[i].t \in {"string", "number"})
                           /\ (i % 4 = 1 => file[i].t = (IF i = n THEN "}" ELSE ","))
    PROVE  IsObject(file)
    BY Zenon DEF IsObject

LEMMA ServerFileFits ==
    ASSUME Slot \in Nat, Slot <= 157
    PROVE  IsObject(ServerFile) /\ Totals(ServerFile, 1024) # {}
<1>. DEFINE cost == [i \in 1..9 |->
              IF i = 1 THEN 0 ELSE IF i = 2 THEN 12 ELSE IF i = 3 THEN Slot ELSE
              IF i <= 5 THEN 0 ELSE IF i = 6 THEN 9 ELSE IF i = 7 THEN Slot ELSE
              IF i = 8 THEN 345 ELSE 0]
            total == [i \in 0..9 |->
              IF i <= 1 THEN 0 ELSE IF i = 2 THEN 12 ELSE IF i <= 5 THEN 169 ELSE
              IF i = 6 THEN 178 ELSE IF i = 7 THEN 335 ELSE 680]
<1>1. /\ Len(ServerFile) = 9 /\ ServerFile[1].t = "{" /\ ServerFile[2].t = "string"
      /\ ServerFile[3].t = ":" /\ ServerFile[4].t = "number" /\ ServerFile[5].t = ","
      /\ ServerFile[6].t = "string" /\ ServerFile[7].t = ":" /\ ServerFile[8].t = "string"
      /\ ServerFile[9].t = "}"
    BY DEF ServerFile, Punct, String, Number
<1>2. IsObject(ServerFile)
    <2>1. \A i \in 2..9 : /\ (i % 4 = 2 => i \in {2, 6})
                          /\ (i % 4 = 3 => i \in {3, 7})
                          /\ (i % 4 = 0 => i \in {4, 8})
                          /\ (i % 4 = 1 => i \in {5, 9})
        OBVIOUS
    <2>2. 9 % 4 = 1 /\ 9 > 1 /\ 5 # 9
        OBVIOUS
    <2>. SUFFICES ASSUME NEW i \in 2..9
                  PROVE  /\ (i % 4 = 2 => ServerFile[i].t = "string")
                         /\ (i % 4 = 3 => ServerFile[i].t = ":")
                         /\ (i % 4 = 0 => ServerFile[i].t \in {"string", "number"})
                         /\ (i % 4 = 1 => ServerFile[i].t = (IF i = 9 THEN "}" ELSE ","))
        BY <1>1, <2>2, IsObjectOf, Zenon
    <2>3. i % 4 = 2 => ServerFile[i].t = "string"
        BY <1>1, <2>1, Zenon
    <2>4. i % 4 = 3 => ServerFile[i].t = ":"
        BY <1>1, <2>1, Zenon
    <2>5. i % 4 = 0 => ServerFile[i].t \in {"string", "number"}
        BY <1>1, <2>1, Zenon
    <2>6. i % 4 = 1 => ServerFile[i].t = (IF i = 9 THEN "}" ELSE ",")
        BY <1>1, <2>1, <2>2, Zenon
    <2>. QED
        BY <2>3, <2>4, <2>5, <2>6
<1>3. \A i \in 1..9 : Cost(ServerFile[i]) = cost[i]
    <2>1. /\ Cost(ServerFile[1]) = 0 /\ Cost(ServerFile[4]) = 0 /\ Cost(ServerFile[5]) = 0
          /\ Cost(ServerFile[9]) = 0
        BY DEF ServerFile, Punct, String, Number, Cost
    <2>2. /\ Cost(ServerFile[3]) = Slot /\ Cost(ServerFile[7]) = Slot
        BY DEF ServerFile, Punct, String, Number, Cost
    <2>3. /\ Cost(ServerFile[2]) = 12 /\ Cost(ServerFile[6]) = 9 /\ Cost(ServerFile[8]) = 345
        BY DEF ServerFile, Punct, String, Number, Cost
    <2>4. /\ cost[1] = 0 /\ cost[2] = 12 /\ cost[3] = Slot /\ cost[4] = 0 /\ cost[5] = 0
          /\ cost[6] = 9 /\ cost[7] = Slot /\ cost[8] = 345 /\ cost[9] = 0
        OBVIOUS
    <2>5. \A i \in 1..9 : i \in {1, 2, 3, 4, 5} \/ i \in {6, 7, 8, 9}
        OBVIOUS
    <2>. HIDE DEF cost
    <2>6. ASSUME NEW i \in {1, 2, 3, 4, 5} PROVE Cost(ServerFile[i]) = cost[i]
        <3>1. /\ Cost(ServerFile[1]) = cost[1] /\ Cost(ServerFile[2]) = cost[2]
              /\ Cost(ServerFile[3]) = cost[3] /\ Cost(ServerFile[4]) = cost[4]
              /\ Cost(ServerFile[5]) = cost[5]
            BY <2>1, <2>2, <2>3, <2>4, Zenon
        <3>. QED
            BY <3>1, Zenon
    <2>7. ASSUME NEW i \in {6, 7, 8, 9} PROVE Cost(ServerFile[i]) = cost[i]
        <3>1. /\ Cost(ServerFile[6]) = cost[6] /\ Cost(ServerFile[7]) = cost[7]
              /\ Cost(ServerFile[8]) = cost[8] /\ Cost(ServerFile[9]) = cost[9]
            BY <2>1, <2>2, <2>3, <2>4, Zenon
        <3>. QED
            BY <3>1, Zenon
    <2>. QED
        BY <2>5, <2>6, <2>7, Zenon
<1>4. total \in [0..9 -> 0..1024]
    OBVIOUS
<1>5. \A i \in 1..9 : total[i - 1] + cost[i] <= total[i]
    OBVIOUS
<1>. HIDE DEF cost, total
<1>6. \A i \in 1..9 : Cost(ServerFile[i]) = cost[i] /\ total[i - 1] + cost[i] <= total[i]
    BY <1>3, <1>5, Zenon
<1>7. Totals(ServerFile, 1024) # {}
    <2>1. total \in [0..Len(ServerFile) -> 0..1024]
        <3>1. Len(ServerFile) = 9
            BY <1>1, Zenon
        <3>. QED
            BY <1>4, <3>1, ZenonT(40)
    <2>2. ASSUME NEW i \in 1..Len(ServerFile) PROVE total[i - 1] + Cost(ServerFile[i]) <= total[i]
        BY <1>1, <1>6, Zenon
    <2>3. total \in Totals(ServerFile, 1024)
        BY <2>1, <2>2, ZenonT(40) DEF Totals
    <2>. QED
        BY <2>3
<1>. QED
    BY <1>2, <1>7

LEMMA ClientFileFits ==
    ASSUME Slot \in Nat, Slot <= 157
    PROVE  IsObject(ClientFile) /\ Totals(ClientFile, 1024) # {}
<1>. DEFINE cost == [i \in 1..17 |->
              IF i = 1 THEN 0 ELSE IF i = 2 THEN 3 ELSE IF i = 3 THEN Slot ELSE
              IF i = 4 THEN 16 ELSE IF i = 5 THEN 0 ELSE IF i = 6 THEN 12 ELSE
              IF i = 7 THEN Slot ELSE IF i <= 9 THEN 0 ELSE IF i = 10 THEN 11 ELSE
              IF i = 11 THEN Slot ELSE IF i <= 13 THEN 0 ELSE IF i = 14 THEN 9 ELSE
              IF i = 15 THEN Slot ELSE IF i = 16 THEN 345 ELSE 0]
            total == [i \in 0..17 |->
              IF i <= 1 THEN 0 ELSE IF i = 2 THEN 3 ELSE IF i = 3 THEN 160 ELSE
              IF i <= 5 THEN 176 ELSE IF i = 6 THEN 188 ELSE IF i <= 9 THEN 345 ELSE
              IF i = 10 THEN 356 ELSE IF i <= 13 THEN 513 ELSE IF i = 14 THEN 522 ELSE
              IF i = 15 THEN 679 ELSE 1024]
<1>1. /\ Len(ClientFile) = 17 /\ ClientFile[1].t = "{" /\ ClientFile[2].t = "string"
      /\ ClientFile[3].t = ":" /\ ClientFile[4].t = "string" /\ ClientFile[5].t = ","
      /\ ClientFile[6].t = "string" /\ ClientFile[7].t = ":" /\ ClientFile[8].t = "number"
      /\ ClientFile[9].t = "," /\ ClientFile[10].t = "string" /\ ClientFile[11].t = ":"
      /\ ClientFile[12].t = "number" /\ ClientFile[13].t = "," /\ ClientFile[14].t = "string"
      /\ ClientFile[15].t = ":" /\ ClientFile[16].t = "string" /\ ClientFile[17].t = "}"
    BY DEF ClientFile, Punct, String, Number
<1>2. IsObject(ClientFile)
    <2>1. \A i \in 2..17 : /\ (i % 4 = 2 => i \in {2, 6, 10, 14})
                           /\ (i % 4 = 3 => i \in {3, 7, 11, 15})
                           /\ (i % 4 = 0 => i \in {4, 8, 12, 16})
                           /\ (i % 4 = 1 => i \in {5, 9, 13, 17})
        OBVIOUS
    <2>2. 17 % 4 = 1 /\ 17 > 1 /\ 5 # 17 /\ 9 # 17 /\ 13 # 17
        OBVIOUS
    <2>. SUFFICES ASSUME NEW i \in 2..17
                  PROVE  /\ (i % 4 = 2 => ClientFile[i].t = "string")
                         /\ (i % 4 = 3 => ClientFile[i].t = ":")
                         /\ (i % 4 = 0 => ClientFile[i].t \in {"string", "number"})
                         /\ (i % 4 = 1 => ClientFile[i].t = (IF i = 17 THEN "}" ELSE ","))
        BY <1>1, <2>2, IsObjectOf, Zenon
    <2>3. i % 4 = 2 => ClientFile[i].t = "string"
        BY <1>1, <2>1, Zenon
    <2>4. i % 4 = 3 => ClientFile[i].t = ":"
        BY <1>1, <2>1, Zenon
    <2>5. i % 4 = 0 => ClientFile[i].t \in {"string", "number"}
        BY <1>1, <2>1, Zenon
    <2>6. i % 4 = 1 => ClientFile[i].t = (IF i = 17 THEN "}" ELSE ",")
        BY <1>1, <2>1, <2>2, Zenon
    <2>. QED
        BY <2>3, <2>4, <2>5, <2>6
<1>3. \A i \in 1..17 : Cost(ClientFile[i]) = cost[i]
    <2>1. /\ Cost(ClientFile[1]) = 0 /\ Cost(ClientFile[5]) = 0 /\ Cost(ClientFile[8]) = 0
          /\ Cost(ClientFile[9]) = 0 /\ Cost(ClientFile[12]) = 0 /\ Cost(ClientFile[13]) = 0
          /\ Cost(ClientFile[17]) = 0
        BY DEF ClientFile, Punct, String, Number, Cost
    <2>2. /\ Cost(ClientFile[3]) = Slot /\ Cost(ClientFile[7]) = Slot
          /\ Cost(ClientFile[11]) = Slot /\ Cost(ClientFile[15]) = Slot
        BY DEF ClientFile, Punct, String, Number, Cost
    <2>3. /\ Cost(ClientFile[2]) = 3 /\ Cost(ClientFile[4]) = 16 /\ Cost(ClientFile[6]) = 12
          /\ Cost(ClientFile[10]) = 11 /\ Cost(ClientFile[14]) = 9 /\ Cost(ClientFile[16]) = 345
        BY DEF ClientFile, Punct, String, Number, Cost
    <2>4. /\ cost[1] = 0 /\ cost[2] = 3 /\ cost[3] = Slot /\ cost[4] = 16 /\ cost[5] = 0
          /\ cost[6] = 12 /\ cost[7] = Slot /\ cost[8] = 0 /\ cost[9] = 0 /\ cost[10] = 11
          /\ cost[11] = Slot /\ cost[12] = 0 /\ cost[13] = 0 /\ cost[14] = 9 /\ cost[15] = Slot
          /\ cost[16] = 345 /\ cost[17] = 0
        OBVIOUS
    <2>5. \A i \in 1..17 : i \in {1, 2, 3, 4, 5} \/ i \in {6, 7, 8, 9}
                           \/ i \in {10, 11, 12, 13} \/ i \in {14, 15, 16, 17}
        OBVIOUS
    <2>. HIDE DEF cost
    <2>6. ASSUME NEW i \in {1, 2, 3, 4, 5} PROVE Cost(ClientFile[i]) = cost[i]
        <3>1. /\ Cost(ClientFile[1]) = cost[1] /\ Cost(ClientFile[2]) = cost[2]
              /\ Cost(ClientFile[3]) = cost[3] /\ Cost(ClientFile[4]) = cost[4]
              /\ Cost(ClientFile[5]) = cost[5]
            BY <2>1, <2>2, <2>3, <2>4, Zenon
        <3>. QED
            BY <3>1, Zenon
    <2>7. ASSUME NEW i \in {6, 7, 8, 9} PROVE Cost(ClientFile[i]) = cost[i]
        <3>1. /\ Cost(ClientFile[6]) = cost[6] /\ Cost(ClientFile[7]) = cost[7]
              /\ Cost(ClientFile[8]) = cost[8] /\ Cost(ClientFile[9]) = cost[9]
            BY <2>1, <2>2, <2>3, <2>4, Zenon
        <3>. QED
            BY <3>1, Zenon
    <2>8. ASSUME NEW i \in {10, 11, 12, 13} PROVE Cost(ClientFile[i]) = cost[i]
        <3>1. /\ Cost(ClientFile[10]) = cost[10] /\ Cost(ClientFile[11]) = cost[11]
              /\ Cost(ClientFile[12]) = cost[12] /\ Cost(ClientFile[13]) = cost[13]
            BY <2>1, <2>2, <2>3, <2>4, Zenon
        <3>. QED
            BY <3>1, Zenon
    <2>9. ASSUME NEW i \in {14, 15, 16, 17} PROVE Cost(ClientFile[i]) = cost[i]
        <3>1. /\ Cost(ClientFile[14]) = cost[14] /\ Cost(ClientFile[15]) = cost[15]
              /\ Cost(ClientFile[16]) = cost[16] /\ Cost(ClientFile[17]) = cost[17]
            BY <2>1, <2>2, <2>3, <2>4, Zenon
        <3>. QED
            BY <3>1, Zenon
    <2>. QED
        BY <2>5, <2>6, <2>7, <2>8, <2>9, Zenon
<1>4. total \in [0..17 -> 0..1024]
    OBVIOUS
<1>5. \A i \in 1..17 : total[i - 1] + cost[i] <= total[i]
    OBVIOUS
<1>. HIDE DEF cost, total
<1>6. \A i \in 1..17 : Cost(ClientFile[i]) = cost[i] /\ total[i - 1] + cost[i] <= total[i]
    BY <1>3, <1>5, Zenon
<1>7. Totals(ClientFile, 1024) # {}
    <2>1. total \in [0..Len(ClientFile) -> 0..1024]
        <3>1. Len(ClientFile) = 17
            BY <1>1, Zenon
        <3>. QED
            BY <1>4, <3>1, ZenonT(40)
    <2>2. ASSUME NEW i \in 1..Len(ClientFile) PROVE total[i - 1] + Cost(ClientFile[i]) <= total[i]
        BY <1>1, <1>6, Zenon
    <2>3. total \in Totals(ClientFile, 1024)
        BY <2>1, <2>2, ZenonT(40) DEF Totals
    <2>. QED
        BY <2>3
<1>. QED
    BY <1>2, <1>7

\* The document of 1024 bytes that main_server.cpp and main_client.cpp make holds the file
\* the program itself writes or comes with: it is read to its end and no member is null,
\* for slots of up to 157 bytes (sizeof(VariantSlot) is 32 at most) - with those of the
\* client the pool is then full to its last byte.
THEOREM OwnFilesStayRead ==
    ASSUME Slot <= 157
    PROVE  Spec => []OwnFilesRead
<1>1. FittingRead => OwnFilesRead
    <2>. SUFFICES ASSUME FittingRead, text \in Own, capacity = 1024, expect = "done"
                  PROVE  error = "Ok" /\ \A i \in DOMAIN members : members[i].value # NULL
        BY DEF OwnFilesRead
    <2>1. Fitting
        BY JsonAssumption, ServerFileFits, ClientFileFits DEF Own, Fitting
    <2>. QED
        BY <2>1 DEF FittingRead
<1>. QED
    BY <1>1, FittingFilesRead, PTL
=============================================================================
