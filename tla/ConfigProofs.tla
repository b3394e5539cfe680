---------------------------- MODULE ConfigProofs ----------------------------
(***************************************************************************)
(* Proofs about start-up: for any set of bytes and any size of the table,  *)
(* a server that runs has a table without a byte twice, a client whose     *)
(* password was copied has the same table, and no start or crash changes a *)
(* password that was saved.                                                *)
(***************************************************************************)
EXTENDS Config, TLAPS

\* A password that genPassword completes.
Complete(password) ==
    /\ password \in Seq(Byte) /\ Len(password) = Size
    /\ \A i, j \in 1..Size : password[i] = password[j] => i = j

Saved == serverFile \notin {NULL, NoMembers}

\* What is drawn so far has no byte twice, and is what is saved.
Drawn ==
    /\ \A i, j \in 1..Len(pwd) : pwd[i] = pwd[j] => i = j
    /\ server = "generating" => serverFile = NULL
    /\ server = "saving" => Len(pwd) = Size /\ serverFile = NoMembers

\* A file of the server that is not empty holds a complete password, and the server
\* runs with it; a server that could not write the file runs with what it has drawn.
FileComplete ==
    /\ Saved => Complete(serverFile.password)
    /\ server = "running" =>
         \/ Saved /\ serverTable = setConfig(serverFile.password)
         \/ ~Saved /\ Complete(pwd) /\ serverTable = setConfig(pwd)

\* The client has the template's password, or the server's.
Copied ==
    /\ clientFile # NULL => \/ clientFile.password \in {NULL, Template}
                            \/ Saved /\ clientFile.password = serverFile.password
    /\ client = "running" => \/ clientTable = setConfig(Template)
                             \/ Saved /\ clientTable = setConfig(serverFile.password)

IInv == TypeOK /\ Drawn /\ FileComplete /\ Copied

-----------------------------------------------------------------------------
LEMMA setConfigType ==
    ASSUME NEW password \in Seq(Byte)
    PROVE  setConfig(password) \in Tables
<1>1. \A i \in 0..(Size - 1) : i < Len(password) => i + 1 \in 1..Len(password)
    BY ConfigAssumption
<1>2. \A i \in 1..Len(password) : password[i] \in Byte
    OBVIOUS
<1>. QED
    BY <1>1, <1>2, ConfigAssumption DEF setConfig, Tables

\* The table of a complete password has no byte twice.
LEMMA CompleteInjective ==
    ASSUME NEW password, Complete(password)
    PROVE  Injective(setConfig(password))
<1>. DEFINE table == setConfig(password)
<1>1. DOMAIN table = 0..(Size - 1)
    BY DEF setConfig
<1>2. ASSUME NEW i \in 0..(Size - 1) PROVE table[i] = password[i + 1] /\ i + 1 \in 1..Size
    BY <1>2, ConfigAssumption DEF setConfig, Complete
<1>. HIDE DEF table
<1>3. ASSUME NEW i \in 0..(Size - 1), NEW j \in 0..(Size - 1), table[i] = table[j]
      PROVE  i = j
    <2>1. password[i + 1] = password[j + 1] /\ i + 1 \in 1..Size /\ j + 1 \in 1..Size
        BY <1>2, <1>3
    <2>2. i + 1 = j + 1
        BY <2>1 DEF Complete
    <2>. QED
        BY <2>2, ConfigAssumption
<1>4. Injective(table)
    BY <1>1, <1>3 DEF Injective
<1>. QED
    BY <1>4 DEF table

LEMMA FileType ==
    ASSUME NEW password \in Seq(Byte) \cup {NULL},
           NEW one \in Nat \cup {NULL}, NEW other \in Nat \cup {NULL}
    PROVE  File(password, one, other) \in Files /\ File(password, one, other).password = password
BY DEF Files, File

LEMMA Ports == ServerPort \in Nat /\ ClientPort \in Nat
BY DEF ServerPort, ClientPort

LEMMA NoMembersType == NoMembers \in Files /\ NoMembers.password = NULL
BY FileType DEF NoMembers

LEMMA InitInvariant == Init => IInv
<1>. SUFFICES ASSUME Init PROVE IInv
    OBVIOUS
<1>1. Zeroes \in Tables
    BY ConfigAssumption DEF Zeroes, Tables
<1>2. TypeOK
    BY <1>1, ConfigAssumption DEF Init, TypeOK
<1>. QED
    BY <1>2 DEF Init, IInv, Drawn, FileComplete, Copied, Saved

-----------------------------------------------------------------------------
\* The steps of the server.

LEMMA ServerStartsKeeps == ASSUME IInv, ServerStarts PROVE IInv'
<1>. USE DEF serverVars, clientVars
<1>1. UNCHANGED <<serverFile, client, clientFile, clientTable, local_port>>
    BY DEF ServerStarts
<1>2. CASE serverFile = NULL
    <2>1. server' = "generating" /\ pwd' = <<>> /\ serverTable' = serverTable
        BY <1>2 DEF ServerStarts
    <2>2. TypeOK'
        BY <1>1, <2>1, ConfigAssumption DEF IInv, TypeOK
    <2>. QED
        BY <1>1, <1>2, <2>1, <2>2 DEF IInv, Drawn, FileComplete, Copied, Saved
<1>3. CASE serverFile # NULL
    <2>1. ServerConfigured(serverFile.password) /\ pwd' = pwd
        BY <1>3 DEF ServerStarts
    <2>2. CASE serverFile.password = NULL
        <3>1. server' = "aborted" /\ serverTable' = serverTable
            BY <2>1, <2>2 DEF ServerConfigured
        <3>2. TypeOK'
            BY <1>1, <2>1, <3>1 DEF IInv, TypeOK
        <3>. QED
            BY <1>1, <2>1, <3>1, <3>2 DEF IInv, Drawn, FileComplete, Copied, Saved
    <2>3. CASE serverFile.password # NULL
        <3>1. server' = "running" /\ serverTable' = setConfig(serverFile.password)
            BY <2>1, <2>3 DEF ServerConfigured
        <3>2. Saved
            BY <1>3, <2>3, NoMembersType DEF Saved
        <3>3. Complete(serverFile.password)
            BY <3>2 DEF IInv, FileComplete
        <3>4. serverTable' \in Tables
            BY <3>1, <3>3, setConfigType DEF Complete
        <3>5. TypeOK'
            BY <1>1, <2>1, <3>1, <3>4 DEF IInv, TypeOK
        <3>6. FileComplete'
            BY <1>1, <3>1, <3>2, <3>3 DEF FileComplete, Saved, setConfig, Complete
        <3>. QED
            BY <1>1, <2>1, <3>1, <3>5, <3>6 DEF IInv, Drawn, Copied, Saved
    <2>. QED
        BY <2>2, <2>3
<1>. QED
    BY <1>2, <1>3

LEMMA DrawKeeps == ASSUME IInv, NEW num \in Byte, Draw(num) PROVE IInv'
<1>. USE DEF serverVars, clientVars
<1>1. /\ UNCHANGED <<server, serverFile, serverTable, client, clientFile, clientTable, local_port>>
      /\ pwd' = Append(pwd, num) /\ Fresh(num) /\ Len(pwd) < Size /\ server = "generating"
    BY DEF Draw
<1>2. pwd \in Seq(Byte) /\ Len(pwd) \in Nat
    BY DEF IInv, TypeOK
<1>3. /\ pwd' \in Seq(Byte) /\ Len(pwd') = Len(pwd) + 1
      /\ \A i \in 1..Len(pwd) : pwd'[i] = pwd[i]
      /\ pwd'[Len(pwd) + 1] = num
    BY <1>1, <1>2
<1>4. TypeOK'
    BY <1>1, <1>2, <1>3, ConfigAssumption DEF IInv, TypeOK
<1>5. ASSUME NEW i \in 1..Len(pwd'), NEW j \in 1..Len(pwd'), pwd'[i] = pwd'[j] PROVE i = j
    <2>1. /\ i = Len(pwd) + 1 \/ i \in 1..Len(pwd)
          /\ j = Len(pwd) + 1 \/ j \in 1..Len(pwd)
        BY <1>2, <1>3
    <2>2. \A k \in 1..Len(pwd) : pwd[k] # num
        BY <1>1 DEF Fresh
    <2>. QED
        BY <1>3, <1>5, <2>1, <2>2 DEF IInv, Drawn
<1>6. Drawn'
    BY <1>1, <1>5 DEF IInv, Drawn
<1>. QED
    BY <1>1, <1>4, <1>6 DEF IInv, FileComplete, Copied, Saved

\* A complete password that was drawn, and that is or is not in the file.
LEMMA DrawnConfigured ==
    ASSUME IInv, Len(pwd) = Size, ServerConfigured(pwd)
    PROVE  /\ pwd \in Seq(Byte) /\ Complete(pwd)
           /\ server' = "running" /\ serverTable' = setConfig(pwd) /\ serverTable' \in Tables
<1>1. pwd \in Seq(Byte) /\ Complete(pwd)
    BY DEF IInv, TypeOK, Drawn, Complete
<1>2. server' = "running" /\ serverTable' = setConfig(pwd)
    BY <1>1, ConfigAssumption DEF ServerConfigured
<1>. QED
    BY <1>1, <1>2, setConfigType

LEMMA ServerOpensKeeps == ASSUME IInv, ServerOpens PROVE IInv'
<1>. USE DEF serverVars, clientVars
<1>1. /\ UNCHANGED <<pwd, client, clientFile, clientTable, local_port>>
      /\ Len(pwd) = Size /\ serverFile = NULL /\ ~Saved
    BY DEF ServerOpens, IInv, Drawn, Saved
<1>2. CASE server' = "saving" /\ serverFile' = NoMembers /\ UNCHANGED serverTable
    <2>1. TypeOK'
        BY <1>1, <1>2, NoMembersType DEF IInv, TypeOK
    <2>2. ~Saved'
        BY <1>2 DEF Saved
    <2>. QED
        BY <1>1, <1>2, <2>1, <2>2 DEF IInv, Drawn, FileComplete, Copied
<1>3. CASE ServerConfigured(pwd) /\ UNCHANGED serverFile
    <2>1. Complete(pwd) /\ server' = "running" /\ serverTable' = setConfig(pwd) /\ serverTable' \in Tables
        BY <1>1, <1>3, DrawnConfigured
    <2>2. TypeOK'
        BY <1>1, <1>3, <2>1 DEF IInv, TypeOK
    <2>3. ~Saved'
        BY <1>1, <1>3 DEF Saved
    <2>4. FileComplete'
        BY <1>1, <2>1, <2>3 DEF FileComplete, setConfig, Complete
    <2>. QED
        BY <1>1, <1>3, <2>1, <2>2, <2>3, <2>4 DEF IInv, Drawn, Copied
<1>. QED
    BY <1>2, <1>3 DEF ServerOpens

LEMMA ServerSavesKeeps == ASSUME IInv, ServerSaves PROVE IInv'
<1>. USE DEF serverVars, clientVars
<1>1. /\ UNCHANGED <<pwd, client, clientFile, clientTable, local_port>>
      /\ serverFile' \in {File(pwd, ServerPort, NULL), NoMembers}
      /\ ServerConfigured(pwd) /\ Len(pwd) = Size /\ ~Saved
    BY DEF ServerSaves, IInv, Drawn, Saved
<1>2. /\ pwd \in Seq(Byte) /\ Complete(pwd)
      /\ server' = "running" /\ serverTable' = setConfig(pwd) /\ serverTable' \in Tables
    BY <1>1, DrawnConfigured
<1>3. serverFile' \in Files
    <2>1. File(pwd, ServerPort, NULL) \in Files
        BY <1>2, Ports, FileType
    <2>. QED
        BY <1>1, <2>1, NoMembersType
<1>4. TypeOK'
    BY <1>1, <1>2, <1>3 DEF IInv, TypeOK
<1>5. FileComplete'
    <2>1. CASE serverFile' = File(pwd, ServerPort, NULL)
        <3>1. serverFile'.password = pwd
            BY <1>2, <2>1, Ports, FileType
        <3>. QED
            BY <1>1, <1>2, <3>1 DEF FileComplete, setConfig, Complete
    <2>2. CASE serverFile' = NoMembers
        BY <1>1, <1>2, <2>2 DEF FileComplete, Saved, setConfig, Complete
    <2>. QED
        BY <1>1, <2>1, <2>2
<1>. QED
    BY <1>1, <1>2, <1>4, <1>5 DEF IInv, Drawn, Copied

LEMMA ServerStopsKeeps == ASSUME IInv, ServerStops PROVE IInv'
<1>. USE DEF serverVars, clientVars
<1>1. Zeroes \in Tables
    BY ConfigAssumption DEF Zeroes, Tables
<1>2. TypeOK'
    BY <1>1 DEF ServerStops, IInv, TypeOK
<1>. QED
    BY <1>2 DEF ServerStops, IInv, Drawn, FileComplete, Copied, Saved

-----------------------------------------------------------------------------
\* The steps of the client and of its user.

LEMMA ClientStartsKeeps == ASSUME IInv, ClientStarts PROVE IInv'
<1>. USE DEF serverVars, clientVars
<1>1. UNCHANGED <<server, serverFile, pwd, serverTable>>
    BY DEF ClientStarts
<1>2. Drawn' /\ FileComplete' /\ (Saved' <=> Saved)
    BY <1>1 DEF IInv, Drawn, FileComplete, Saved
<1>3. CASE clientFile = NULL
    <2>1. /\ \/ client' = "saving" /\ clientFile' = NoMembers
             \/ client' = "stopped" /\ clientFile' = NULL
          /\ clientTable' = clientTable /\ local_port' = local_port
        BY <1>3 DEF ClientStarts
    <2>2. TypeOK'
        BY <1>1, <2>1, NoMembersType DEF IInv, TypeOK
    <2>. QED
        BY <1>2, <2>1, <2>2, NoMembersType DEF IInv, Copied
<1>4. CASE clientFile # NULL /\ clientFile.password = NULL
    <2>1. client' = "aborted" /\ UNCHANGED <<clientFile, clientTable, local_port>>
        BY <1>4 DEF ClientStarts
    <2>2. TypeOK'
        BY <1>1, <2>1 DEF IInv, TypeOK
    <2>. QED
        BY <1>1, <1>2, <2>1, <2>2 DEF IInv, Copied
<1>5. CASE clientFile # NULL /\ clientFile.password # NULL
    <2>1. /\ client' = "running" /\ clientFile' = clientFile
          /\ clientTable' = setConfig(clientFile.password)
          /\ local_port' = PortOf(clientFile.local_port)
        BY <1>5 DEF ClientStarts
    <2>2. clientFile \in Files
        BY <1>5 DEF IInv, TypeOK
    <2>3. clientFile.password \in Seq(Byte) /\ PortOf(clientFile.local_port) \in Nat
        BY <1>5, <2>2 DEF Files, PortOf
    <2>4. setConfig(clientFile.password) \in Tables
        BY <2>3, setConfigType
    <2>5. TypeOK'
        BY <1>1, <2>1, <2>3, <2>4 DEF IInv, TypeOK
    <2>6. \/ clientFile.password = Template
          \/ Saved /\ clientFile.password = serverFile.password
        BY <1>5 DEF IInv, Copied
    <2>7. Copied'
        BY <1>1, <1>2, <2>1, <2>6 DEF Copied, setConfig
    <2>. QED
        BY <1>2, <2>5, <2>7 DEF IInv
<1>. QED
    BY <1>3, <1>4, <1>5

LEMMA ClientSavesKeeps == ASSUME IInv, ClientSaves PROVE IInv'
<1>. USE DEF serverVars, clientVars
<1>1. clientFile' \in Files /\ clientFile'.password \in {Template, NULL}
    <2>1. LET f == File(Template, NULL, ClientPort) IN f \in Files /\ f.password = Template
        BY Ports, FileType, ConfigAssumption
    <2>. QED
        BY <2>1, NoMembersType DEF ClientSaves
<1>2. TypeOK'
    BY <1>1 DEF ClientSaves, IInv, TypeOK
<1>. QED
    BY <1>1, <1>2 DEF ClientSaves, IInv, Drawn, FileComplete, Copied, Saved

LEMMA ClientStopsKeeps == ASSUME IInv, ClientStops PROVE IInv'
<1>. USE DEF serverVars, clientVars
<1>1. Zeroes \in Tables
    BY ConfigAssumption DEF Zeroes, Tables
<1>2. TypeOK'
    BY <1>1 DEF ClientStops, IInv, TypeOK
<1>. QED
    BY <1>2 DEF ClientStops, IInv, Drawn, FileComplete, Copied, Saved

LEMMA UserCopiesKeeps == ASSUME IInv, UserCopies PROVE IInv'
<1>. USE DEF serverVars, clientVars
<1>1. /\ UNCHANGED <<server, serverFile, pwd, serverTable, client, clientTable, local_port>>
      /\ Saved
    BY DEF UserCopies, Saved
<1>2. serverFile.password \in Seq(Byte)
    BY <1>1 DEF IInv, FileComplete, Complete
<1>3. clientFile' \in Files /\ clientFile'.password = serverFile.password
    <2>1. \/ clientFile' = File(serverFile.password, NULL, ClientPort)
          \/ clientFile' = File(serverFile.password, ClientPort, NULL)
        BY DEF UserCopies
    <2>. QED
        BY <1>2, <2>1, Ports, FileType, ZenonT(40)
<1>4. TypeOK'
    BY <1>1, <1>3 DEF IInv, TypeOK
<1>. QED
    BY <1>1, <1>3, <1>4 DEF IInv, Drawn, FileComplete, Copied, Saved

LEMMA NextInvariant == IInv /\ [Next]_vars => IInv'
<1>1. ASSUME IInv, Next PROVE IInv'
    BY <1>1, ServerStartsKeeps, DrawKeeps, ServerOpensKeeps, ServerSavesKeeps,
       ServerStopsKeeps, ClientStartsKeeps, ClientSavesKeeps, ClientStopsKeeps,
       UserCopiesKeeps DEF Next
<1>2. ASSUME IInv, UNCHANGED vars PROVE IInv'
    BY <1>2 DEF vars, serverVars, clientVars, IInv, TypeOK, Drawn, FileComplete, Copied, Saved
<1>. QED
    BY <1>1, <1>2

-----------------------------------------------------------------------------
\* Every variable keeps its type through starts, stops and crashes.
THEOREM TypeCorrect == Spec => []TypeOK
<1>1. IInv => TypeOK
    BY DEF IInv
<1>. QED
    BY <1>1, InitInvariant, NextInvariant, PTL DEF Spec

\* A running server's table has no byte twice (util.cpp:29-46 and server.cpp:160-166),
\* and a running client's is the same, or that of the template nobody has edited.
THEOREM TablesAlwaysMatch == Spec => []TablesMatch
<1>1. IInv => TablesMatch
    BY CompleteInjective DEF IInv, FileComplete, Copied, TablesMatch
<1>. QED
    BY <1>1, InitInvariant, NextInvariant, PTL DEF Spec

\* Once config_server.json holds a password no step of main_server.cpp changes it.
THEOREM PasswordStays == Spec => PasswordKept
<1>1. IInv /\ [Next]_vars => [serverFile \notin {NULL, NoMembers} => serverFile' = serverFile]_vars
    <2>. SUFFICES ASSUME IInv, Next, serverFile \notin {NULL, NoMembers}
                  PROVE  serverFile' = serverFile
        OBVIOUS
    <2>1. server \notin {"generating", "saving"}
        BY DEF IInv, Drawn
    <2>. QED
        BY <2>1 DEF Next, ServerStarts, Draw, ServerOpens, ServerSaves, ServerStops,
                    ClientStarts, ClientSaves, ClientStops, UserCopies, serverVars, clientVars
<1>. QED
    BY <1>1, InitInvariant, NextInvariant, PTL DEF Spec, PasswordKept
=============================================================================
