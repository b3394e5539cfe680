--------------------------- MODULE MCJsonDocument ---------------------------
\* The files the two programs write, what is left of them when they are cut off or hold
\* what JSON does not allow, and a file with a key twice.
EXTENDS JsonDocument

Twice == <<
    Punct("{"), String("local_port", 10), Punct(":"), Number("1"),
    Punct(","), String("password", 8), Punct(":"), String("base64", 344),
    Punct(","), String("local_port", 10), Punct(":"), Number("2"), Punct("}") >>

OneMember ==
    << Punct("{"), String("password", 8), Punct(":"), String("base64", 344), Punct("}") >>

Good == Own \cup {Twice, OneMember, <<Punct("{"), Punct("}")>>}

Cut(file) == {SubSeq(file, 1, n) : n \in 0..Len(file)}
Opened(file) == {[SubSeq(file, 1, n) EXCEPT ![n].t = "open"] :
                    n \in {i \in DOMAIN file : file[i].t = "string"}}
Commented(file) == {[SubSeq(file, 1, n) EXCEPT ![n] = Punct("other")] : n \in DOMAIN file}

\* Files that are not an object.
TopLevel == {<<Number("7009")>>, <<Number("7009"), Punct("}")>>,
             <<String("base64", 344)>>, <<[String("base64", 344) EXCEPT !.t = "open"]>>}

Texts == UNION {{f[i].v : i \in DOMAIN f} : f \in Good} \ {NULL}

All == TopLevel \cup UNION {Cut(f) \cup Opened(f) \cup Commented(f) : f \in Good}
=============================================================================
