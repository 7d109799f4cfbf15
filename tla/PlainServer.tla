---------------------------- MODULE PlainServer ----------------------------
(***************************************************************************)
(* The chat server without TLS, assignment9/chat_app/server.c.  The main   *)
(* thread accepts a connection, authenticates it there and then, enters    *)
(* its descriptor in the table clients[0 .. client_count - 1] and starts   *)
(* its thread.  A thread that ends closes its descriptor first and removes *)
(* it from the table, under clients_mutex, afterwards: in between the      *)
(* kernel may give the same number to the next connection.  The log has a  *)
(* mutex of its own, file_mutex.                                           *)
(***************************************************************************)
EXTENDS Naturals, Sequences, FiniteSets

CONSTANTS
    Conn,         \* the connections clients may open, one use each
    None,         \* a free descriptor, a free mutex, an idle main thread
    MAX_CLIENTS,  \* entries of the table
    MaxLines      \* bound: lines a client sends

ASSUME PlainAssumption ==
    /\ None \notin Conn
    /\ IsFiniteSet(Conn)
    /\ MAX_CLIENTS \in Nat
    /\ MaxLines \in Nat

VARIABLES
    killed,        \* the process died of SIGPIPE
    sock,          \* the kernel's table: the connection behind a descriptor
    fdOf,          \* the descriptor number a thread works with, 0 before
    clients,       \* the table: descriptor numbers, client_count of them
    clients_mutex, \* the thread in broadcast
    file_mutex,    \* the thread replaying the log
    main,          \* the connection main is authenticating
    pc,            \* where each connection is
    cursor,        \* the loop index i of a broadcast
    lines,         \* the lines a thread has received
    hist,          \* the lines of the log it has replayed so far
    chatlog,       \* the lines of chatlog.txt
    got,           \* the results and lines each client has been sent
    peer           \* the clients' ends: open, closed, or closed and reset

vars == <<killed, sock, fdOf, clients, clients_mutex, file_mutex, main, pc,
          cursor, lines, hist, chatlog, got, peer>>

\* A process with this many connections has a descriptor for each.
Fd == 1 .. Cardinality(Conn)

Kinds == {"auth", "join", "chat", "leave"}
Message == [from : Conn, kind : Kinds, n : 0 .. MaxLines]
Recorded == [from : Conn, kind : {"auth", "chat"}, n : 0 .. MaxLines]

PCs == {"off", "auth", "enter", "hist", "join", "recv", "save", "chat",
        "leave", "close", "remove", "done"}

\* Types of the variables: client_count never passes MAX_CLIENTS, so no entry is
\* written behind the table.
TypeOK ==
    /\ killed \in BOOLEAN
    /\ sock \in [Fd -> Conn \cup {None}]
    /\ fdOf \in [Conn -> Fd \cup {0}]
    /\ clients \in Seq(Fd)
    /\ Len(clients) <= MAX_CLIENTS
    /\ clients_mutex \in Conn \cup {None}
    /\ file_mutex \in Conn \cup {None}
    /\ main \in Conn \cup {None}
    /\ pc \in [Conn -> PCs]
    /\ cursor \in [Conn -> 1 .. MAX_CLIENTS + 1]
    /\ lines \in [Conn -> 0 .. MaxLines]
    /\ hist \in [Conn -> Nat]
    /\ chatlog \in Seq(Message)
    /\ got \in [Conn -> SUBSET Recorded]
    /\ peer \in [Conn -> {"open", "closed", "reset"}]

Init ==
    /\ killed = FALSE
    /\ sock = [f \in Fd |-> None]
    /\ fdOf = [c \in Conn |-> 0]
    /\ clients = <<>>
    /\ clients_mutex = None
    /\ file_mutex = None
    /\ main = None
    /\ pc = [c \in Conn |-> "off"]
    /\ cursor = [c \in Conn |-> 1]
    /\ lines = [c \in Conn |-> 0]
    /\ hist = [c \in Conn |-> 0]
    /\ chatlog = <<>>
    /\ got = [c \in Conn |-> {}]
    /\ peer = [c \in Conn |-> "open"]
-----------------------------------------------------------------------------
mutexes == <<clients_mutex, file_mutex>>
counts  == <<cursor, lines, hist>>
kernel  == <<sock, fdOf>>
wire    == <<got, peer>>

Step(c, from, to) ==
    /\ ~ killed
    /\ pc[c] = from
    /\ pc' = [pc EXCEPT ![c] = to]

\* send of m on descriptor f: nothing on a closed one; a peer that has closed
\* may answer with a reset, after which the next send is fatal (Killed).
\* Who has been told of arrivals and departures is not recorded.
Send(f, m) ==
    \/ /\ sock[f] = None
       /\ UNCHANGED wire
    \/ /\ sock[f] # None
       /\ peer[sock[f]] = "open"
       /\ got' = [got EXCEPT ![sock[f]] = @ \cup ({m} \cap Recorded)]
       /\ UNCHANGED peer
    \/ /\ sock[f] # None
       /\ peer[sock[f]] = "closed"
       /\ peer' \in {peer, [peer EXCEPT ![sock[f]] = "reset"]}
       /\ UNCHANGED got

Msg(c, kind, n) == [from |-> c, kind |-> kind, n |-> n]

\* The message c broadcasts at each of the three points where it does.
Announced(c) == Msg(c, pc[c], lines[c])
-----------------------------------------------------------------------------
(* The clients. *)

PeerCloses(c) ==
    /\ ~ killed
    /\ pc[c] \notin {"off", "close", "remove", "done"}
    /\ peer[c] = "open"
    /\ peer' = [peer EXCEPT ![c] = "closed"]
    /\ UNCHANGED <<killed, kernel, clients, mutexes, main, pc, counts, chatlog,
                   got>>
-----------------------------------------------------------------------------
(* The main thread. *)

\* accept takes a connection a client has opened, on the lowest free descriptor.
Accept(c) ==
    /\ main = None
    /\ Step(c, "off", "auth")
    /\ main' = c
    /\ \E f \in Fd :
          /\ sock[f] = None
          /\ \A e \in 1 .. f - 1 : sock[e] # None
          /\ sock' = [sock EXCEPT ![f] = c]
          /\ fdOf' = [fdOf EXCEPT ![c] = f]
    /\ UNCHANGED <<killed, clients, mutexes, counts, chatlog, wire>>

\* Mode, name and password have been received; the result goes back.
AuthReply(c) ==
    /\ Step(c, "auth", "enter")
    /\ Send(fdOf[c], Msg(c, "auth", 0))
    /\ UNCHANGED <<killed, kernel, clients, mutexes, main, counts, chatlog>>

\* Refused, or the table is full.
Refuse(c) ==
    /\ Step(c, "enter", "done")
    /\ main' = None
    /\ sock' = [sock EXCEPT ![fdOf[c]] = None]
    /\ UNCHANGED <<killed, fdOf, clients, mutexes, counts, chatlog, wire>>

Enter(c) ==
    /\ clients_mutex = None
    /\ Len(clients) < MAX_CLIENTS
    /\ Step(c, "enter", "hist")
    /\ main' = None
    /\ clients' = Append(clients, fdOf[c])
    /\ UNCHANGED <<killed, kernel, mutexes, counts, chatlog, wire>>
-----------------------------------------------------------------------------
(* The thread of c, handle_client. *)

\* The order in which it does things.
Following_Mut(point) ==
    CASE point = "hist"  -> "join"  [] point = "join"   -> "recv"
      [] point = "recv"  -> "chat"  [] point = "chat"   -> "save"
      [] point = "save"  -> "recv"  [] point = "leave"  -> "close"
      [] point = "close" -> "remove" [] point = "remove" -> "done"
Following(point) ==
    CASE point = "hist"  -> "join"  [] point = "join"   -> "recv"
      [] point = "recv"  -> "save"  [] point = "save"   -> "chat"
      [] point = "chat"  -> "recv"  [] point = "leave"  -> "close"
      [] point = "close" -> "remove" [] point = "remove" -> "done"

LockLog(c) ==
    /\ file_mutex = None
    /\ Step(c, "hist", "hist")
    /\ file_mutex' = c
    /\ UNCHANGED <<killed, kernel, clients, clients_mutex, main, counts, chatlog,
                   wire>>

HistLine(c) ==
    /\ file_mutex = c
    /\ hist[c] < Len(chatlog)
    /\ Step(c, "hist", "hist")
    /\ Send(fdOf[c], chatlog[hist[c] + 1])
    /\ hist' = [hist EXCEPT ![c] = @ + 1]
    /\ UNCHANGED <<killed, kernel, clients, mutexes, main, cursor, lines, chatlog>>

HistEnd(c) ==
    /\ file_mutex = c
    /\ hist[c] = Len(chatlog)
    /\ Step(c, "hist", Following("hist"))
    /\ file_mutex' = None
    /\ hist' = [hist EXCEPT ![c] = 0]
    /\ UNCHANGED <<killed, kernel, clients, clients_mutex, main, cursor, lines,
                   chatlog, wire>>

Receive(c) ==
    /\ lines[c] < MaxLines
    /\ Step(c, "recv", Following("recv"))
    /\ lines' = [lines EXCEPT ![c] = @ + 1]
    /\ UNCHANGED <<killed, kernel, clients, mutexes, main, cursor, hist, chatlog,
                   wire>>

ReceiveEnds_Mut(c) ==
    /\ peer[c] # "open"
    /\ Step(c, "recv", "leave")
    /\ sock' = [sock EXCEPT ![fdOf[c]] = None]
    /\ UNCHANGED <<killed, fdOf, clients, mutexes, main, counts, chatlog, wire>>
ReceiveEnds(c) ==
    /\ peer[c] # "open"
    /\ Step(c, "recv", "leave")
    /\ UNCHANGED <<killed, kernel, clients, mutexes, main, counts, chatlog, wire>>

\* save_chat_to_file: under file_mutex from end to end.
Save(c) ==
    /\ file_mutex = None
    /\ Step(c, "save", Following("save"))
    /\ chatlog' = Append(chatlog, Msg(c, "chat", lines[c]))
    /\ UNCHANGED <<killed, kernel, clients, mutexes, main, counts, wire>>

Lock(c) ==
    /\ clients_mutex = None
    /\ \E point \in {"join", "chat", "leave"} : Step(c, point, point)
    /\ clients_mutex' = c
    /\ UNCHANGED <<killed, kernel, clients, file_mutex, main, counts, chatlog, wire>>

\* An entry of the table with the sender's own descriptor number is skipped.
SendTo(c) ==
    /\ clients_mutex = c
    /\ ~ killed
    /\ cursor[c] <= Len(clients)
    /\ IF clients[cursor[c]] # fdOf[c] THEN Send(clients[cursor[c]], Announced(c))
                                       ELSE UNCHANGED wire
    /\ cursor' = [cursor EXCEPT ![c] = @ + 1]
    /\ UNCHANGED <<killed, kernel, clients, mutexes, main, pc, lines, hist, chatlog>>

Unlock(c) ==
    /\ clients_mutex = c
    /\ cursor[c] > Len(clients)
    /\ Step(c, pc[c], Following(pc[c]))
    /\ clients_mutex' = None
    /\ cursor' = [cursor EXCEPT ![c] = 1]
    /\ UNCHANGED <<killed, kernel, clients, file_mutex, main, lines, hist, chatlog,
                   wire>>

Close(c) ==
    /\ Step(c, "close", Following("close"))
    /\ sock' = [sock EXCEPT ![fdOf[c]] = None]
    /\ UNCHANGED <<killed, fdOf, clients, mutexes, main, counts, chatlog, wire>>

\* The table without entry i: the last entry takes its place.
Without_Mut(t, i) == SubSeq(t, 1, Len(t) - 1)
Without(t, i) == SubSeq([t EXCEPT ![i] = t[Len(t)]], 1, Len(t) - 1)

Remove(c) ==
    /\ clients_mutex = None
    /\ Step(c, "remove", Following("remove"))
    /\ \E i \in 1 .. Len(clients) :
          /\ clients[i] = fdOf[c]
          /\ \A j \in 1 .. i - 1 : clients[j] # fdOf[c]
          /\ clients' = Without(clients, i)
    /\ UNCHANGED <<killed, kernel, mutexes, main, counts, chatlog, wire>>
-----------------------------------------------------------------------------
\* The thread of c, or main on its behalf, is about to send on descriptor f.
Sending(c, f) ==
    \/ pc[c] = "auth" /\ f = fdOf[c]
    \/ file_mutex = c /\ hist[c] < Len(chatlog) /\ f = fdOf[c]
    \/ /\ clients_mutex = c
       /\ cursor[c] <= Len(clients)
       /\ f = clients[cursor[c]]
       /\ f # fdOf[c]

\* Nothing ignores SIGPIPE.
Killed ==
    /\ ~ killed
    /\ \E c \in Conn, f \in Fd : /\ Sending(c, f)
                                 /\ sock[f] # None
                                 /\ peer[sock[f]] = "reset"
    /\ killed' = TRUE
    /\ UNCHANGED <<kernel, clients, mutexes, main, pc, counts, chatlog, wire>>

Idle ==
    /\ killed \/ \A c \in Conn : pc[c] = "done"
    /\ UNCHANGED vars

Serve(c) ==
    \/ LockLog(c) \/ HistLine(c) \/ HistEnd(c)
    \/ Receive(c) \/ ReceiveEnds(c) \/ Save(c)
    \/ Lock(c) \/ SendTo(c) \/ Unlock(c)
    \/ Close(c) \/ Remove(c)

Next ==
    \/ \E c \in Conn : \/ PeerCloses(c) \/ Accept(c)
                       \/ AuthReply(c) \/ Refuse(c) \/ Enter(c)
                       \/ Serve(c)
    \/ Killed
    \/ Idle

Spec == Init /\ [][Next]_vars
-----------------------------------------------------------------------------
(* Properties. *)

\* Where a connection's descriptor is open, and where it is in the table.
Holding == {"auth", "enter", "hist", "join", "recv", "save", "chat", "leave", "close"}
Entered == {"hist", "join", "recv", "save", "chat", "leave", "close", "remove"}

\* A thread's descriptor number is its own connection until the thread closes
\* it, exactly once: it never closes, or sends to, a later connection by it.
DescriptorOwned ==
    \A c \in Conn : fdOf[c] # 0 =>
       (sock[fdOf[c]] = c <=> pc[c] \in Holding)

\* Every number is in the table as often as there are connections that entered
\* it and have not been removed, although a closed number may be in use again
\* before its old entry is gone.
TableExact ==
    \A f \in Fd :
       Cardinality({i \in 1 .. Len(clients) : clients[i] = f})
         = Cardinality({c \in Conn : fdOf[c] = f /\ pc[c] \in Entered})

\* A user in the room has received every line of the log, as history or live,
\* except their own and one whose author has still to broadcast it: the log
\* is written before the broadcast, and read after entering the table.
NobodyMisses ==
    \A c \in Conn : pc[c] = "recv" /\ peer[c] = "open" =>
       \A i \in 1 .. Len(chatlog) :
          LET m == chatlog[i] IN
             \/ m.from = c
             \/ pc[m.from] = "chat" /\ lines[m.from] = m.n
             \/ m \in got[c]

\* What a client is sent before its own authentication result can only come
\* through the stale entry of a thread that has closed the same descriptor
\* number and has still to remove it.
StraysNeedStaleEntry ==
    [][\A c \in Conn :
          pc[c] = "auth" /\ pc'[c] = "auth" /\ got'[c] # got[c] =>
             \E d \in Conn : pc[d] = "remove" /\ fdOf[d] = fdOf[c]]_vars
=============================================================================
