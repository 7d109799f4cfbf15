------------------------------ MODULE ChatRoom ------------------------------
(***************************************************************************)
(* What the chat server promises its users, without table, lock or thread: *)
(* a room has members, and a message said in the room reaches every member *)
(* of its audience in one indivisible step.  ChatServer is shown to        *)
(* implement this specification.                                           *)
(***************************************************************************)
EXTENDS Naturals, Sequences

CONSTANTS Conn,    \* the users that may enter the room
          Message  \* the messages that may be said

VARIABLES members, \* who is in the room
          inbox,   \* per user, the messages said to them, in order
          open     \* FALSE once the server has stopped

vars == <<members, inbox, open>>

Init == /\ members = {}
        /\ inbox = [c \in Conn |-> <<>>]
        /\ open = TRUE

Enter(c) == /\ open
            /\ members' = members \cup {c}
            /\ UNCHANGED <<inbox, open>>

Leave(c) == /\ open
            /\ members' = members \ {c}
            /\ UNCHANGED <<inbox, open>>

\* m is said to the whole room, or to everybody in it but its author.
Say(m, author) ==
    /\ open
    /\ \E audience \in {members, members \ {author}} :
          inbox' = [c \in Conn |-> IF c \in audience
                                   THEN Append(inbox[c], m)
                                   ELSE inbox[c]]
    /\ UNCHANGED <<members, open>>

\* The server dies.  The message being said may miss any part of its
\* audience; what was said before is not taken back.
Crash ==
    /\ open
    /\ open' = FALSE
    /\ \A c \in Conn :
          \/ inbox'[c] = inbox[c]
          \/ /\ inbox[c] # <<>>
             /\ inbox'[c] = SubSeq(inbox[c], 1, Len(inbox[c]) - 1)
    /\ DOMAIN inbox' = Conn
    /\ UNCHANGED members

Next == \/ Crash
        \/ \E c \in Conn : \/ Enter(c)
                           \/ Leave(c)
                           \/ \E m \in Message : Say(m, c)

Spec == Init /\ [][Next]_vars
=============================================================================
