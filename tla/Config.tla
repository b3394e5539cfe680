------------------------------- MODULE Config -------------------------------
(***************************************************************************)
(* Start-up of the two programs: main_server.cpp, main_client.cpp,         *)
(* util.cpp and the two setConfig.                                         *)
(*                                                                         *)
(* A configuration file is a record of the members that matter, NULL for   *)
(* one that is not there; a password stands for the bytes its Base64       *)
(* decodes to.  An ofstream truncates the file when it is opened and       *)
(* writes what it buffered when it is closed: a process that dies in       *)
(* between leaves an empty file.  deserializeJson's result is not looked   *)
(* at, so an empty file is a file without members.                         *)
(***************************************************************************)
EXTENDS Integers, Sequences

CONSTANTS
    Byte,      \* byte values
    Size,      \* entries of a password table
    Template,  \* the bytes that "your server passwrod" decodes to
    NULL

ASSUME ConfigAssumption ==
    /\ Size \in Nat /\ 0 \in Byte
    /\ NULL \notin Seq(Byte)
    /\ Template \in Seq(Byte) /\ Len(Template) < Size

VARIABLES
    server,       \* how far main_server.cpp has come
    serverFile,   \* config_server.json, or NULL
    pwd,          \* what genPassword has drawn
    serverTable,  \* Cipher::password
    client,       \* how far main_client.cpp has come
    clientFile,   \* config.json, or NULL
    clientTable,  \* client::password
    local_port    \* where the client listens

serverVars == <<server, serverFile, pwd, serverTable>>
clientVars == <<client, clientFile, clientTable, local_port>>
vars == <<serverVars, clientVars>>

Tables == [0..(Size - 1) -> Byte]
Zeroes == [i \in 0..(Size - 1) |-> 0]
File(password, listen, local) ==
    [password |-> password, listen_port |-> listen, local_port |-> local]

\* The ports the two programs write into their files.
ServerPort == 7009
ClientPort == 7878

NoMembers == File(NULL, NULL, NULL)

Files == [password : Seq(Byte) \cup {NULL},
          listen_port : Nat \cup {NULL}, local_port : Nat \cup {NULL}]

TypeOK ==
    /\ server \in {"stopped", "generating", "saving", "running", "aborted"}
    /\ serverFile = NULL \/ serverFile \in Files
    /\ pwd \in Seq(Byte) /\ Len(pwd) <= Size
    /\ serverTable \in Tables
    /\ client \in {"stopped", "saving", "running", "aborted"}
    /\ clientFile = NULL \/ clientFile \in Files
    /\ clientTable \in Tables
    /\ local_port \in Nat

Init ==
    /\ server = "stopped" /\ serverFile = NULL /\ pwd = <<>> /\ serverTable = Zeroes
    /\ client = "stopped" /\ clientFile = NULL /\ clientTable = Zeroes
    /\ local_port = 0

-----------------------------------------------------------------------------
\* A port that is not in the file reads as 0.
PortOf(member) == IF member = NULL THEN 0 ELSE member

\* setConfig of both programs: as many entries as the password has bytes; the
\* rest of the static table is still zero.
setConfig(password) ==
    [i \in 0..(Size - 1) |-> IF i < Len(password) THEN password[i + 1] ELSE 0]

\* A null password is made a std::string: the exception ends the process.
ServerConfigured(password) ==
    IF password = NULL
      THEN server' = "aborted" /\ UNCHANGED serverTable
      ELSE server' = "running" /\ serverTable' = setConfig(password)

\* Mutant: a new password is drawn at every start.
ServerStarts_regenerates ==
    /\ server \in {"stopped", "aborted"}
    /\ server' = "generating" /\ pwd' = <<>>
    /\ UNCHANGED <<serverFile, serverTable, clientVars>>

\* main: read the file, or generate one.
ServerStarts ==
    /\ server \in {"stopped", "aborted"}
    /\ IF serverFile = NULL
         THEN server' = "generating" /\ pwd' = <<>> /\ UNCHANGED serverTable
         ELSE ServerConfigured(serverFile.password) /\ UNCHANGED pwd
    /\ UNCHANGED <<serverFile, clientVars>>

\* Mutant: the last byte drawn is not compared.
Fresh_all_but_last(num) == \A j \in 1..(Len(pwd) - 1) : pwd[j] # num

\* Mutant: the entry to be filled, still zero, is compared as well.
Fresh_and_next(num) == num # 0 /\ \A j \in 1..Len(pwd) : pwd[j] # num

\* Util::genPassword: the inner loop finds no equal byte.
Fresh(num) == \A j \in 1..Len(pwd) : pwd[j] # num

\* Mutant: one byte too many.
Draw_one_more(num) ==
    /\ server = "generating" /\ Len(pwd) <= Size
    /\ pwd' = Append(pwd, num)
    /\ UNCHANGED <<server, serverFile, serverTable, clientVars>>

\* Util::genPassword: num is drawn and kept.  A byte that is not kept changes nothing.
Draw(num) ==
    /\ server = "generating" /\ Len(pwd) < Size
    /\ Fresh(num)
    /\ pwd' = Append(pwd, num)
    /\ UNCHANGED <<server, serverFile, serverTable, clientVars>>

\* outfile.open.  Nobody looks whether it succeeds: if not, nothing is written and main
\* goes on with the document it has in memory.
ServerOpens ==
    /\ server = "generating" /\ Len(pwd) = Size
    /\ \/ server' = "saving" /\ serverFile' = NoMembers /\ UNCHANGED serverTable
       \/ ServerConfigured(pwd) /\ UNCHANGED serverFile
    /\ UNCHANGED <<pwd, clientVars>>

\* outfile.close, and main goes on.  If the write fails, what reached the file has no
\* password: it is taken as empty.
ServerSaves ==
    /\ server = "saving"
    /\ serverFile' \in {File(pwd, ServerPort, NULL), NoMembers}
    /\ ServerConfigured(pwd)
    /\ UNCHANGED <<pwd, clientVars>>

\* The server is stopped or dies.
ServerStops ==
    /\ server \in {"generating", "saving", "running"}
    /\ server' = "stopped" /\ serverTable' = Zeroes
    /\ UNCHANGED <<serverFile, pwd, clientVars>>

-----------------------------------------------------------------------------
\* main of the client: without a file it opens one and writes the template; if it
\* cannot be opened the program ends all the same.
ClientStarts ==
    /\ client \in {"stopped", "aborted"}
    /\ IF clientFile = NULL
         THEN /\ \/ client' = "saving" /\ clientFile' = NoMembers
                 \/ client' = "stopped" /\ UNCHANGED clientFile
              /\ UNCHANGED <<clientTable, local_port>>
         ELSE /\ UNCHANGED clientFile
              /\ IF clientFile.password = NULL
                   THEN client' = "aborted" /\ UNCHANGED <<clientTable, local_port>>
                   ELSE /\ client' = "running"
                        /\ clientTable' = setConfig(clientFile.password)
                        /\ local_port' = PortOf(clientFile.local_port)
    /\ UNCHANGED serverVars

\* The template is written, unless that fails, and the program ends.
ClientSaves ==
    /\ client = "saving"
    /\ client' = "stopped"
    /\ clientFile' \in {File(Template, NULL, ClientPort), NoMembers}
    /\ UNCHANGED <<clientTable, local_port, serverVars>>

ClientStops ==
    /\ client \in {"saving", "running"}
    /\ client' = "stopped" /\ clientTable' = Zeroes /\ local_port' = 0
    /\ UNCHANGED <<clientFile, serverVars>>

\* The user copies the server's password into config.json, with the member for the
\* port named as in the template or as in README.md.
UserCopies ==
    /\ serverFile \notin {NULL, NoMembers}
    /\ clientFile' \in {File(serverFile.password, NULL, ClientPort),
                       File(serverFile.password, ClientPort, NULL)}
    /\ UNCHANGED <<client, clientTable, local_port, serverVars>>

-----------------------------------------------------------------------------
Next ==
    \/ ServerStarts \/ (\E num \in Byte : Draw(num)) \/ ServerOpens \/ ServerSaves
    \/ ServerStops
    \/ ClientStarts \/ ClientSaves \/ ClientStops
    \/ UserCopies

Spec == Init /\ [][Next]_vars

\* The generator draws every byte again and again, and the program goes on.
FairSpec ==
    /\ Spec
    /\ \A num \in Byte : WF_vars(Draw(num))
    /\ WF_vars(ServerOpens) /\ WF_vars(ServerSaves)

-----------------------------------------------------------------------------
Injective(table) == \A i, j \in DOMAIN table : table[i] = table[j] => i = j

\* Whenever the server runs, in its first life or in a later one, its table has no
\* byte twice, which is what restoring a stream needs (Cipher's RoundTrip), and so
\* has a client whose password was copied: it has the same table.
TablesMatch ==
    /\ server = "running" => Injective(serverTable)
    /\ server = "running" /\ client = "running" =>
         clientTable = serverTable \/ clientTable = setConfig(Template)

\* No start and no crash changes a password that was saved: one that was given to
\* clients stays good.
PasswordKept == [][
    serverFile \notin {NULL, NoMembers} => serverFile' = serverFile
    ]_vars

\* genPassword ends, unless the process does.
GenerationEnds == server = "generating" ~> server \in {"running", "stopped"}
=============================================================================
