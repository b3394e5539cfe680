------------------------- MODULE ProxiedConnection -------------------------
(***************************************************************************)
(* What a proxy promises of the connections it relays, with no word of     *)
(* buffers, callbacks or encryption: two pipes per connection, one for     *)
(* each side, that deliver in order what the other side sent.  A side that *)
(* leaves does not take back what it had sent: the proxy keeps the other   *)
(* side until that is delivered, and then lets it go.                      *)
(***************************************************************************)
EXTENDS Sequences, Naturals

CONSTANTS Conn,  \* connections
          Data   \* what can be sent

VARIABLES
    begun,     \* connections that were accepted
    attached,  \* by connection: the sides the proxy still holds
    left,      \* by connection: why: the sides that left, or silence
    sent,      \* by connection and side: what that side has sent
    received   \* by connection and side: what that side has been given

vars == <<begun, attached, left, sent, received>>

Sides == {"near", "far"}
Other(s) == IF s = "near" THEN "far" ELSE "near"

Init ==
    /\ begun = {}
    /\ attached = [c \in Conn |-> {}]
    /\ left = [c \in Conn |-> {}]
    /\ sent = [c \in Conn |-> [s \in Sides |-> <<>>]]
    /\ received = [c \in Conn |-> [s \in Sides |-> <<>>]]

\* How much side s is still owed.
Owed(c, s) == Len(sent[c][Other(s)]) - Len(received[c][s])

Begin(c) ==
    /\ c \notin begun
    /\ begun' = begun \cup {c}
    /\ attached' = [attached EXCEPT ![c] = Sides]
    /\ UNCHANGED <<left, sent, received>>

\* Only while both sides are there is anything taken from one of them.
Send(c, s) ==
    /\ attached[c] = Sides
    /\ \E d \in Data : sent' = [sent EXCEPT ![c][s] = Append(@, d)]
    /\ UNCHANGED <<begun, attached, left, received>>

\* The next piece.  A side that is alone and has been given all goes with it.
Deliver(c, s) ==
    /\ s \in attached[c] /\ Owed(c, s) > 0
    /\ received' = [received EXCEPT ![c][s] = Append(@, sent[c][Other(s)][Len(@) + 1])]
    /\ attached' = [attached EXCEPT ![c] = IF @ = {s} /\ Owed(c, s) = 1 THEN {} ELSE @]
    /\ UNCHANGED <<begun, left, sent>>

\* Side s leaves: the other one stays if it is there and owed something.
Leave(c, s) ==
    /\ s \in attached[c]
    /\ attached' = [attached EXCEPT ![c] = {o \in @ \ {s} : Owed(c, o) > 0}]
    /\ left' = [left EXCEPT ![c] = @ \cup {s}]
    /\ UNCHANGED <<begun, sent, received>>

\* The far side is silent for too long, while both are there: nobody gets any more.
TimeOut(c) ==
    /\ attached[c] = Sides
    /\ attached' = [attached EXCEPT ![c] = {}]
    /\ left' = [left EXCEPT ![c] = @ \cup {"silence"}]
    /\ UNCHANGED <<begun, sent, received>>

Next == \E c \in Conn :
    \/ Begin(c) \/ TimeOut(c)
    \/ \E s \in Sides : Send(c, s) \/ Deliver(c, s) \/ Leave(c, s)

Spec == Init /\ [][Next]_vars
=============================================================================
