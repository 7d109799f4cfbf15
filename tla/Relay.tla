------------------------------- MODULE Relay -------------------------------
(***************************************************************************)
(* assignment9/chat_app/server_tls.c, the first chat server with TLS: it   *)
(* accepts everybody.  Its table holds pointers and is shifted together    *)
(* when one leaves; a thread that ends closes its descriptor and frees its *)
(* SSL object before it takes its entry out.                               *)
(***************************************************************************)
EXTENDS Naturals, Sequences, SequencesExt, FiniteSets

CONSTANTS
    Conn,         \* the connections clients may open, one use each
    None,         \* a free descriptor, a free mutex, an idle main thread
    MAX_CLIENTS,
    MaxLines      \* bound: lines a client sends

VARIABLES
    at,       \* where each connection is, in main and then in its thread
    sock,     \* the kernel's table: the connection behind a descriptor
    fd,       \* cli->sock, 0 before
    clients,  \* the table
    lock,     \* the thread in broadcast
    cursor,   \* its index i
    lines,    \* the lines a thread has read
    hist,     \* the lines of the log it has replayed
    chatlog,  \* chatlog.txt
    got,      \* the lines each client has been sent
    garbled,  \* the clients that were sent bytes of another's SSL object
    peer,     \* their ends: open, closed, or closed and reset
    fate      \* "serving", or what ended the process

vars == <<at, sock, fd, clients, lock, cursor, lines, hist, chatlog, got, garbled, peer, fate>>

Programs == {"relay"}

Fd == 1 .. Cardinality(Conn)

Init ==
    /\ at = [c \in Conn |-> "off"]
    /\ sock = [f \in Fd |-> None]
    /\ fd = [c \in Conn |-> 0]
    /\ clients = <<>>
    /\ lock = None
    /\ cursor = 1
    /\ lines = [c \in Conn |-> 0]
    /\ hist = [c \in Conn |-> 0]
    /\ chatlog = <<>>
    /\ got = [c \in Conn |-> {}]
    /\ garbled = {}
    /\ peer = [c \in Conn |-> "open"]
    /\ fate = "serving"
-----------------------------------------------------------------------------
kernel == <<sock, fd>>
table  == <<clients, lock, cursor>>
log    == <<lines, hist, chatlog>>
wire   == <<got, garbled, peer, fate>>

Go(c, from, to) ==
    /\ fate = "serving"
    /\ at[c] = from
    /\ at' = [at EXCEPT ![c] = to]

\* SSL_write of m with c's object, on whatever its descriptor number is now.
\* A peer that has closed answers with a reset, after which nothing ignores the
\* signal.  An object its own thread is using at the time may end the process.
SslWrite(c, m) ==
    LET to == IF fd[c] = 0 THEN None ELSE sock[fd[c]] IN
    /\ got' = IF to = c THEN [got EXCEPT ![c] = @ \cup m] ELSE got
    /\ garbled' = IF to \in Conn \ {c} THEN garbled \cup {to} ELSE garbled
    /\ peer' \in IF to # None /\ peer[to] = "closed"
                 THEN {peer, [peer EXCEPT ![to] = "reset"]} ELSE {peer}
    /\ fate' \in CASE at[c] \in {"remove", "gone"} -> {"freed object"}
                   [] to # None /\ peer[to] = "reset" -> {"SIGPIPE"}
                   [] at[c] \in {"hist", "read"} /\ lock \notin {None, c} ->
                        {"serving", "two threads in one object"}
                   [] OTHER -> {"serving"}

PeerCloses(c) ==
    /\ fate = "serving"
    /\ at[c] \notin {"off", "close", "shutdown", "remove", "gone"}
    /\ peer[c] = "open"
    /\ peer' = [peer EXCEPT ![c] = "closed"]
    /\ UNCHANGED <<at, kernel, table, log, got, garbled, fate>>
-----------------------------------------------------------------------------
(* main, which serves one connection at a time. *)

Accept(c) ==
    /\ \A d \in Conn : at[d] \notin {"handshake", "auth", "enter"}
    /\ Go(c, "off", "handshake")
    /\ \E f \in Fd :
          /\ sock[f] = None
          /\ \A e \in 1 .. f - 1 : sock[e] # None
          /\ sock' = [sock EXCEPT ![f] = c]
          /\ fd' = [fd EXCEPT ![c] = f]
    /\ UNCHANGED <<table, log, wire>>

HandshakeFails(c) ==
    /\ Go(c, "handshake", "gone")
    /\ sock' = [sock EXCEPT ![fd[c]] = None]
    /\ UNCHANGED <<fd, table, log, wire>>

HandshakeOK(c) ==
    /\ Go(c, "handshake", "auth")
    /\ UNCHANGED <<kernel, table, log, wire>>

\* What is read is not looked at, and the answer is yes.
AuthReply(c) ==
    /\ Go(c, "auth", "enter")
    /\ SslWrite(c, {})
    /\ UNCHANGED <<kernel, table, log>>

\* Behind the table lies client_count, in the program that is shipped.
Enter(c) ==
    /\ lock = None
    /\ Go(c, "enter", "hist")
    /\ clients' = Append(clients, c)
    /\ fate' = IF Len(clients) = MAX_CLIENTS THEN "count overwritten" ELSE fate
    /\ UNCHANGED <<kernel, lock, cursor, log, got, garbled, peer>>
-----------------------------------------------------------------------------
(* handle_client. *)

HistLine(c) ==
    /\ hist[c] < Len(chatlog)
    /\ Go(c, "hist", "hist")
    /\ SslWrite(c, {chatlog[hist[c] + 1]})
    /\ hist' = [hist EXCEPT ![c] = @ + 1]
    /\ UNCHANGED <<kernel, table, lines, chatlog>>

HistEnd(c) ==
    /\ hist[c] = Len(chatlog)
    /\ Go(c, "hist", "read")
    /\ hist' = [hist EXCEPT ![c] = 0]
    /\ UNCHANGED <<kernel, table, lines, chatlog, wire>>

ReadLine(c) ==
    /\ lines[c] < MaxLines
    /\ Go(c, "read", "save")
    /\ lines' = [lines EXCEPT ![c] = @ + 1]
    /\ UNCHANGED <<kernel, table, hist, chatlog, wire>>

\* Also when the stream makes no sense any more.
ReadEnds(c) ==
    /\ peer[c] # "open" \/ c \in garbled
    /\ Go(c, "read", "close")
    /\ UNCHANGED <<kernel, table, log, wire>>

Save(c) ==
    /\ Go(c, "save", "broadcast")
    /\ chatlog' = Append(chatlog, <<c, lines[c]>>)
    /\ UNCHANGED <<kernel, table, lines, hist, wire>>

Lock(c) ==
    /\ lock = None
    /\ Go(c, "broadcast", "broadcast")
    /\ lock' = c
    /\ UNCHANGED <<kernel, clients, cursor, log, wire>>

SendTo(c) ==
    /\ lock = c
    /\ cursor <= Len(clients)
    /\ Go(c, "broadcast", "broadcast")
    /\ IF clients[cursor] = c THEN UNCHANGED wire
       ELSE SslWrite(clients[cursor], {<<c, lines[c]>>})
    /\ cursor' = cursor + 1
    /\ UNCHANGED <<kernel, clients, lock, log>>

Unlock(c) ==
    /\ lock = c
    /\ cursor > Len(clients)
    /\ Go(c, "broadcast", "read")
    /\ lock' = None
    /\ cursor' = 1
    /\ UNCHANGED <<kernel, clients, log, wire>>

Close(c) ==
    /\ Go(c, "close", "shutdown")
    /\ sock' = [sock EXCEPT ![fd[c]] = None]
    /\ UNCHANGED <<fd, table, log, wire>>

\* SSL_shutdown, which writes, and SSL_free.
Shutdown(c) ==
    /\ Go(c, "shutdown", "remove")
    /\ SslWrite(c, {})
    /\ UNCHANGED <<kernel, table, log>>

\* The entries behind i move up by one.
Without_Mut(t, i) == SubSeq(t, 1, Len(t) - 1)
Without(t, i) == RemoveAt(t, i)

RemoveEntry(c) ==
    /\ lock = None
    /\ Go(c, "remove", "gone")
    /\ \E i \in 1 .. Len(clients) : clients[i] = c /\ clients' = Without(clients, i)
    /\ UNCHANGED <<kernel, lock, cursor, log, wire>>

Serve(c) ==
    \/ HandshakeFails(c) \/ HandshakeOK(c) \/ AuthReply(c) \/ Enter(c)
    \/ HistLine(c) \/ HistEnd(c) \/ ReadLine(c) \/ ReadEnds(c) \/ Save(c)
    \/ Lock(c) \/ SendTo(c) \/ Unlock(c) \/ Close(c) \/ Shutdown(c) \/ RemoveEntry(c)

Next == \E c \in Conn : Accept(c) \/ PeerCloses(c) \/ Serve(c)

\* The server waits for its clients.
Over == fate # "serving" \/ \A c \in Conn : at[c] \in {"off", "read", "gone"}
-----------------------------------------------------------------------------
(* Properties. *)

\* The server uses memory that is not its own only between a thread's SSL_free
\* and the removal of its entry, in a broadcast; and a client is sent bytes of
\* another connection only if it has the number of one that has closed it.
RelayFaultsNeedDeparture ==
    /\ fate = "freed object" => \E c \in Conn : at[c] = "remove" /\ lock # None
    /\ \A c \in garbled : \E d \in Conn \ {c} :
          fd[d] = fd[c] /\ at[d] \in {"shutdown", "remove", "gone"}

\* A user in the room has received every line of the log, as history or live,
\* except their own and one whose author has still to broadcast it; or their
\* connection is broken.
RelayReachesAll ==
    (fate = "serving") =>
       \A c \in Conn : at[c] = "read" /\ peer[c] = "open" =>
          \A i \in 1 .. Len(chatlog) :
             LET m == chatlog[i] IN
                \/ m[1] = c
                \/ at[m[1]] = "broadcast" /\ lines[m[1]] = m[2]
                \/ m \in got[c]
=============================================================================
