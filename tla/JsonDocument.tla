---------------------------- MODULE JsonDocument ----------------------------
(***************************************************************************)
(* deserializeJson(doc, infile) as Util::readJsonConfig uses it: a flat    *)
(* object is read into the memory pool of a document.                      *)
(*                                                                         *)
(* The pool is one block: strings grow from its left end, one slot for     *)
(* each member comes from its right end.  While a string is read it owns   *)
(* everything in between.  An error leaves in the document what was stored *)
(* before it, and readJsonConfig does not look at the error.               *)
(*                                                                         *)
(* A file is a sequence of tokens.  A string token has its number of       *)
(* characters; "open" is a string without its closing quote, "other" what  *)
(* JSON does not allow there (a comment, say).  Spaces, escapes and nested *)
(* values do not occur in configuration files and are left out.            *)
(***************************************************************************)
EXTENDS Integers, Sequences

CONSTANTS
    Capacities,  \* sizes of a pool
    Slot,        \* sizeof(VariantSlot)
    Values,      \* what a key or a value may be
    Files,       \* sequences of tokens
    NULL

Kinds == {"{", "}", ":", ",", "string", "number", "open", "other"}

ASSUME JsonAssumption ==
    /\ Capacities \subseteq Nat /\ Slot \in Nat
    /\ NULL \notin Values
    /\ \A file \in Files : file \in Seq([t : Kinds, v : Values \cup {NULL}, size : Nat])
    /\ \A file \in Files : \A i \in DOMAIN file :
         file[i].t \in {"string", "number"} => file[i].v \in Values

VARIABLES
    text,      \* the file
    pos,       \* tokens read
    expect,    \* what is parsed next
    key,       \* the key of the member that is being read
    members,   \* slots of the object, oldest first
    capacity,  \* size of the pool
    left,      \* _left - _begin
    right,     \* _right - _begin
    strings,   \* where the strings of the pool are, oldest first
    error      \* what deserializeJson returns

pool == <<left, right, strings>>
vars == <<text, pos, expect, key, members, capacity, pool, error>>

Token == IF pos < Len(text) THEN text[pos + 1] ELSE [t |-> "end", v |-> NULL, size |-> 0]

TypeOK ==
    /\ text \in Files /\ pos \in 0..Len(text)
    /\ expect \in {"object", "first", "key", "colon", "value", "comma", "done"}
    /\ key \in Values \cup {NULL}
    /\ expect \in {"colon", "value", "comma"} => key \in Values
    /\ members \in Seq([key : Values, value : Values \cup {NULL}])
    /\ capacity \in Capacities
    /\ left \in Nat /\ right \in Nat
    /\ strings \in Seq([at : Nat, size : Nat])
    /\ error \in {"Ok", "IncompleteInput", "InvalidInput", "NoMemory"}

\* JsonDocument::clear.
Init ==
    /\ text \in Files /\ pos = 0 /\ expect = "object"
    /\ key = NULL /\ members = <<>>
    /\ capacity \in Capacities /\ left = 0 /\ right = capacity /\ strings = <<>>
    /\ error = "Ok"

-----------------------------------------------------------------------------
\* Parsing ends, with an error unless the file is a single number.
Fail(e) == error' = e /\ expect' = "done" /\ UNCHANGED <<pos, key, members>>

\* At a token that does not fit: the end of the file is a case of its own.
Unexpected == Fail(IF Token.t = "end" THEN "IncompleteInput" ELSE "InvalidInput")

Move(next) == pos' = pos + 1 /\ expect' = next /\ UNCHANGED error

\* Mutant: what is left is not compared with the terminating zero.
StringFits_no_zero(n) == left + n <= right

\* StringBuilder: n characters and a zero go into what is left of the pool.
StringFits(n) == left + n + 1 <= right

\* Mutant: the whole of what was left is kept.
FreezeString_grows(n) ==
    /\ left' = right
    /\ strings' = Append(strings, [at |-> left, size |-> n + 1])
    /\ UNCHANGED right

\* freezeString: the rest is given back.
FreezeString(n) ==
    /\ left' = left + n + 1
    /\ strings' = Append(strings, [at |-> left, size |-> n + 1])
    /\ UNCHANGED right

\* A string that was begun and is not completed keeps all there was.
StringLost == left' = right /\ UNCHANGED <<right, strings>>

-----------------------------------------------------------------------------
\* A file that is not an object.  Its value becomes the root of the document, where
\* no member is; only a number can be all there is without a closing character, so
\* anything else that is read to its end is not accepted.
TopValue ==
    \/ Token.t = "string" /\ StringFits(Token.size)
          /\ FreezeString(Token.size) /\ Fail("InvalidInput")
    \/ Token.t = "string" /\ ~StringFits(Token.size) /\ StringLost /\ Fail("NoMemory")
    \/ Token.t = "open" /\ StringLost /\ Fail("IncompleteInput")
    \/ /\ Token.t = "number"
       /\ Fail(IF pos + 1 = Len(text) THEN "Ok" ELSE "InvalidInput") /\ UNCHANGED pool
    \/ Token.t \in {"}", ":", ",", "other", "end"} /\ Unexpected /\ UNCHANGED pool

\* parse: what the file begins with.
ParseObject ==
    /\ expect = "object"
    /\ \/ Token.t = "{" /\ Move("first") /\ UNCHANGED <<key, members, pool>>
       \/ TopValue

EmptyObject ==
    /\ expect = "first" /\ Token.t = "}"
    /\ Move("done")
    /\ UNCHANGED <<key, members, pool>>

\* parseKey; a key need not be quoted.
ParseKey ==
    /\ expect = "key" \/ (expect = "first" /\ Token.t # "}")
    /\ \/ /\ Token.t \in {"string", "number"} /\ StringFits(Token.size)
          /\ FreezeString(Token.size)
          /\ key' = Token.v
          /\ Move("colon") /\ UNCHANGED members
       \/ /\ Token.t \in {"string", "number"} /\ ~StringFits(Token.size)
          /\ StringLost /\ Fail("NoMemory")
       \/ Token.t = "open" /\ StringLost /\ Fail("IncompleteInput")
       \/ Token.t \in {"{", "}", ":", ",", "other"} /\ StringLost /\ Unexpected
       \/ Token.t = "end" /\ Unexpected /\ UNCHANGED pool

SlotOf(k) == {i \in DOMAIN members : members[i].key = k}

\* Mutant: a key that is there already gets a second slot.
AddMember_again ==
    \/ /\ left + Slot <= right
       /\ right' = right - Slot
       /\ members' = Append(members, [key |-> key, value |-> NULL])
       /\ UNCHANGED <<left, strings, key>>
       /\ Move("value")
    \/ left + Slot > right /\ Fail("NoMemory") /\ UNCHANGED pool

\* Mutant: addSlot does not ask whether a slot fits.
AddMember_unchecked ==
    \/ SlotOf(key) # {} /\ UNCHANGED <<members, pool, key>> /\ Move("value")
    \/ /\ SlotOf(key) = {}
       /\ right' = right - Slot
       /\ members' = Append(members, [key |-> key, value |-> NULL])
       /\ UNCHANGED <<left, strings, key>>
       /\ Move("value")

\* getMember, or addSlot: the member exists, without a value, before its value is read.
AddMember ==
    \/ SlotOf(key) # {} /\ UNCHANGED <<members, pool, key>> /\ Move("value")
    \/ /\ SlotOf(key) = {} /\ left + Slot <= right
       /\ right' = right - Slot
       /\ members' = Append(members, [key |-> key, value |-> NULL])
       /\ UNCHANGED <<left, strings, key>>
       /\ Move("value")
    \/ SlotOf(key) = {} /\ left + Slot > right /\ Fail("NoMemory") /\ UNCHANGED pool

ParseColon ==
    /\ expect = "colon"
    /\ \/ Token.t = ":" /\ AddMember
       \/ Token.t # ":" /\ Unexpected /\ UNCHANGED pool

SetValue(v) ==
    /\ members' = [i \in DOMAIN members |->
                     IF i \in SlotOf(key) THEN [members[i] EXCEPT !.value = v] ELSE members[i]]
    /\ Move("comma") /\ UNCHANGED key

\* parseVariant: a string, a number.
ParseValue ==
    /\ expect = "value"
    /\ \/ /\ Token.t = "string" /\ StringFits(Token.size)
          /\ FreezeString(Token.size) /\ SetValue(Token.v)
       \/ Token.t = "string" /\ ~StringFits(Token.size) /\ StringLost /\ Fail("NoMemory")
       \/ Token.t = "open" /\ StringLost /\ Fail("IncompleteInput")
       \/ Token.t = "number" /\ SetValue(Token.v) /\ UNCHANGED pool
       \/ Token.t \in {"}", ":", ",", "other", "end"} /\ Unexpected /\ UNCHANGED pool

ParseComma ==
    /\ expect = "comma"
    /\ IF Token.t \in {",", "}"}
         THEN Move(IF Token.t = "," THEN "key" ELSE "done") /\ UNCHANGED <<key, members>>
         ELSE Unexpected
    /\ UNCHANGED pool

Next ==
    /\ ParseObject \/ EmptyObject \/ ParseKey \/ ParseColon \/ ParseValue \/ ParseComma
    /\ UNCHANGED <<text, capacity>>

Spec == Init /\ [][Next]_vars

-----------------------------------------------------------------------------
\* Strings and slots never meet, and no string is written over another.
PoolHolds ==
    /\ left <= right /\ right + Slot * Len(members) = capacity
    /\ \A i \in DOMAIN strings :
         /\ strings[i].at + strings[i].size <= left
         /\ i < Len(strings) => strings[i].at + strings[i].size <= strings[i + 1].at

\* What a file gives a key in its first n tokens: the last value, NULL for a key
\* whose value has not been read.
Given(k, n) ==
    LET places == {i \in 1..n : text[i].t = ":" /\ text[i - 1].v = k}
        values == {i \in places : i + 1 <= n}
    IN  IF values = {} THEN NULL ELSE text[(CHOOSE i \in values : \A j \in values : j <= i) + 1].v

\* At every moment, so after any error: the document has the members that were read,
\* each once and with its last value, whatever the pool could not hold or the file lacks.
\* main sees a null password exactly if that value was not read.
DocumentIsPrefix ==
    /\ {members[i].key : i \in DOMAIN members}
         = {text[i - 1].v : i \in {j \in 1..pos : text[j].t = ":"}}
    /\ \A i \in DOMAIN members : members[i].value = Given(members[i].key, pos)
    /\ \A i, j \in DOMAIN members : members[i].key = members[j].key => i = j

-----------------------------------------------------------------------------
\* The programs' own files.
Punct(t) == [t |-> t, v |-> NULL, size |-> 0]
String(v, size) == [t |-> "string", v |-> v, size |-> size]
Number(v) == [t |-> "number", v |-> v, size |-> 4]

\* 256 bytes are 344 characters of Base64.
ServerFile == <<
    Punct("{"), String("listen_port", 11), Punct(":"), Number("7009"),
    Punct(","), String("password", 8), Punct(":"), String("base64", 344), Punct("}") >>

\* The template with the user's address, the longest there is, and the server's password.
ClientFile == <<
    Punct("{"), String("ip", 2), Punct(":"), String("255.255.255.255", 15),
    Punct(","), String("remote_port", 11), Punct(":"), Number("7009"),
    Punct(","), String("local_port", 10), Punct(":"), Number("7878"),
    Punct(","), String("password", 8), Punct(":"), String("base64", 344), Punct("}") >>

Own == {ServerFile, ClientFile}

\* The document of 1024 bytes that both programs make holds their own files.
OwnFilesRead == text \in Own /\ capacity = 1024 /\ expect = "done" =>
    error = "Ok" /\ \A i \in DOMAIN members : members[i].value # NULL
=============================================================================
