----------------------------- MODULE ChatClient -----------------------------
(***************************************************************************)
(* The three chat clients: client.c, client_tls.c and client_tls_final.c.  *)
(* Each is a text of steps up to the chat, in which the main thread sends  *)
(* what is typed and a second thread shows what comes.                     *)
(***************************************************************************)
EXTENDS Naturals, Sequences, SequencesExt

CONSTANTS
    MaxTyped,     \* bound: lines somebody types in the chat
    MaxRepeats    \* bound: turns of the loop at the end of the input

VARIABLES
    program,   \* the client that runs
    step,      \* the step of its main thread
    receiver,  \* the second thread: none, reading, or ended
    server,    \* the other end: open, or closed
    reset,     \* the closed end has answered a line with a reset
    stream,    \* what it has sent and the client has not read
    verdict,   \* the result it has sent
    typed,     \* lines typed
    message,   \* the line in the buffer; 0 is what the stack held
    outgoing,  \* the lines sent
    shown,     \* the messages shown
    told,      \* the messages the server has sent
    fate       \* "running", or how it ended

vars == <<step, receiver, server, reset, stream, verdict, typed, message, outgoing,
          shown, told, fate>>

\* The texts.
client_Mut == <<"connect", "tell", "create", "chat">>
client == <<"connect", "tell", "auth", "create", "chat">>
client_tls == <<"connect", "handshake", "tell", "auth", "create", "chat">>
client_tls_final == <<"connect", "handshake", "create", "chat">>

Text == [client |-> client, client_tls |-> client_tls, client_tls_final |-> client_tls_final]

Programs == DOMAIN Text

Init ==
    /\ step = 1
    /\ receiver = "none"
    /\ server = "open"
    /\ reset = FALSE
    /\ stream = <<>>
    /\ verdict = "none"
    /\ typed = 0
    /\ message = 0
    /\ outgoing = <<>>
    /\ shown = <<>>
    /\ told = 0
    /\ fate = "running"

Is(s) == fate = "running" /\ Text[program][step] = s

Ahead == step' = step + 1

input  == <<typed, message, outgoing>>
output == <<shown, told>>
other  == <<server, stream, verdict>>
-----------------------------------------------------------------------------
(* The server, as a client can tell. *)

\* It has a verdict for the clients that ask for one, then messages.
Judge ==
    /\ server = "open"
    /\ verdict = "none"
    /\ Is("auth")
    /\ verdict' \in {"yes", "no"}
    /\ stream' = Append(stream, verdict')
    /\ UNCHANGED <<step, receiver, server, reset, input, output, fate>>

Talk ==
    /\ server = "open"
    /\ told < MaxTyped
    /\ verdict = "yes" \/ (program = "client_tls_final" /\ Is("chat"))
    /\ told' = told + 1
    /\ stream' = Append(stream, told')
    /\ UNCHANGED <<step, receiver, server, reset, verdict, input, shown, fate>>

ServerCloses ==
    /\ server = "open"
    /\ server' = "closed"
    /\ UNCHANGED <<step, receiver, reset, stream, verdict, input, output, fate>>
-----------------------------------------------------------------------------
(* The main thread. *)

\* connect and SSL_connect may fail.
Establish ==
    /\ Is("connect") \/ Is("handshake")
    /\ \/ Ahead /\ (Is("handshake") => server = "open") /\ UNCHANGED fate
       \/ fate' = "refused" /\ UNCHANGED step
    /\ UNCHANGED <<receiver, reset, other, input, output>>

\* Mode, name and password: three writes, of which the third may meet the reset
\* the first has drawn.
Tell ==
    /\ Is("tell")
    /\ IF server = "open" THEN Ahead /\ UNCHANGED <<reset, fate>>
       ELSE \/ Ahead /\ reset' \in BOOLEAN /\ UNCHANGED fate
            \/ reset' = TRUE /\ fate' = "SIGPIPE" /\ UNCHANGED step
    /\ UNCHANGED <<receiver, other, input, output>>

\* The result of reading the verdict is not looked at: at the end of the stream
\* auth is what the stack held, zero or not.
Auth ==
    /\ Is("auth")
    /\ \E yes \in BOOLEAN :
          /\ IF stream # <<>> THEN yes = (Head(stream) = "yes") /\ stream' = Tail(stream)
             ELSE server = "closed" /\ UNCHANGED stream
          /\ IF yes THEN Ahead /\ UNCHANGED fate ELSE fate' = "rejected" /\ UNCHANGED step
    /\ UNCHANGED <<receiver, server, reset, verdict, input, output>>

CreateThread ==
    /\ Is("create")
    /\ receiver' = "reading"
    /\ Ahead
    /\ UNCHANGED <<reset, other, input, output, fate>>

\* fgets takes the next line or, at the end of the input, leaves the buffer as it
\* is; either way the buffer is sent.
Send(next) ==
    /\ Is("chat")
    /\ message' = next
    /\ IF server = "closed" /\ reset
       THEN fate' = "SIGPIPE" /\ UNCHANGED <<outgoing, reset>>
       ELSE /\ outgoing' = Append(outgoing, next)
            /\ reset' \in IF server = "closed" THEN BOOLEAN ELSE {reset}
            /\ UNCHANGED fate
    /\ UNCHANGED <<step, receiver, other, output>>

SendLine ==
    /\ Len(outgoing) = typed
    /\ typed < MaxTyped
    /\ typed' = typed + 1
    /\ Send(typed')

SendAgain ==
    /\ Len(outgoing) < typed + MaxRepeats
    /\ Send(message)
    /\ UNCHANGED typed

\* The user's way out of the loop.
Interrupt ==
    /\ fate = "running"
    /\ fate' = "interrupted"
    /\ UNCHANGED <<step, receiver, reset, other, input, output>>
-----------------------------------------------------------------------------
(* recv_msg. *)

Show ==
    /\ fate = "running"
    /\ receiver = "reading"
    /\ stream # <<>>
    /\ shown' = Append(shown, Head(stream))
    /\ stream' = Tail(stream)
    /\ UNCHANGED <<step, receiver, server, reset, verdict, input, told, fate>>

ReceiverEnds ==
    /\ fate = "running"
    /\ receiver = "reading"
    /\ stream = <<>>
    /\ server = "closed"
    /\ receiver' = "ended"
    /\ UNCHANGED <<step, reset, other, input, output, fate>>

Main == Establish \/ Tell \/ Auth \/ CreateThread \/ SendLine \/ SendAgain

Receiver == Show \/ ReceiverEnds

Next == Judge \/ Talk \/ ServerCloses \/ Main \/ Interrupt \/ Receiver

Over == fate # "running"
-----------------------------------------------------------------------------
(* Properties. *)

\* Somebody who is in the chat has been let in, or the server hung up before it
\* said so: never after a no.
ChatNeedsVerdict ==
    (program # "client_tls_final" /\ Is("chat")) =>
       verdict = "yes" \/ (verdict = "none" /\ server = "closed")

\* The room is sent the lines typed, in order, and from the end of the input the
\* last one over and over; what the server says is shown in the order it was said.
LinesInOrder ==
    /\ \A i \in 1 .. Len(outgoing) : outgoing[i] = IF i <= typed THEN i ELSE typed
    /\ \A i \in 1 .. Len(shown) : shown[i] = i
=============================================================================
