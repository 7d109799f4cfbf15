----------------------------- MODULE ChatServer -----------------------------
(***************************************************************************)
(* The TLS chat server, assignment9/chat_app/server_tls_final.c, together  *)
(* with the connections its clients (client_tls_final.c) open and drop.    *)
(* One main thread accepts connections and performs the TLS handshake;     *)
(* every connection then has a detached thread running handle_client.  The *)
(* threads share the table clients[] (under clients_mutex), the file       *)
(* chatlog.txt (under no lock) and each other's SSL objects.               *)
(***************************************************************************)
EXTENDS Naturals, Sequences, FiniteSets

CONSTANTS
    Conn,          \* the connections clients may open, one use each
    None,          \* an inactive table entry, a free mutex, an idle main thread
    MAX_CLIENTS,   \* entries of the table clients[]
    MaxLines,      \* bound: lines a client types
    MaxFds,        \* descriptors the process may hold for sockets and the log
    Unresponsive   \* connections whose peer may stop answering for good

ASSUME ChatAssumption ==
    /\ None \notin Conn
    /\ IsFiniteSet(Conn)
    /\ MAX_CLIENTS \in Nat \ {0}
    /\ MaxLines \in Nat
    /\ MaxFds \in Nat
    /\ Unresponsive \subseteq Conn

VARIABLES
    proc,          \* "up", or how the process died: "sigpipe", "race"
    clients,       \* the table: the connection an active entry serves
    clients_mutex, \* the thread that holds the mutex
    acceptor,      \* the connection the main thread is handshaking with
    pc,            \* where each connection's thread is
    kind,          \* the kind of message the thread is sending
    cursor,        \* the loop index i of the thread's broadcast
    lines,         \* the lines the thread has read from its client
    hist,          \* the lines of chatlog.txt the thread has sent its client
    live,          \* the messages broadcast to each connection, in order
    chatlog,       \* the contents of chatlog.txt
    link,          \* the state of each connection's TCP socket and SSL object
    ssl,           \* the life of the SSL object
    fd             \* the life of the socket's descriptor

vars == <<proc, clients, clients_mutex, acceptor, pc, kind, cursor, lines,
          hist, live, chatlog, link, ssl, fd>>

Entries == 1 .. MAX_CLIENTS
Kinds   == {"join", "chat", "leave"}
Message == [from : Conn, kind : Kinds, n : 0 .. MaxLines]

PCs == {"off", "backlog", "handshake", "auth", "reply", "welcome", "reject",
        "add", "lock", "send", "save", "hist", "read", "remove", "shutdown",
        "free", "done"}

\* "full": the peer's window is closed, a write blocks.  "fin": the peer has
\* closed its end.  "rst": the peer has reset the connection and the error is
\* pending.  "dead": reads return end of file, writes EPIPE.  "failed": OpenSSL
\* has seen the end of the stream and refuses every further call.
Links == {"none", "open", "full", "fin", "rst", "dead", "failed"}

\* Types of the variables: no index of broadcast leaves clients[] by more than one,
\* and every count keeps within its bound, whatever the threads interleave.
TypeOK ==
    /\ proc \in {"up", "sigpipe", "race"}
    /\ clients \in [Entries -> Conn \cup {None}]
    /\ clients_mutex \in Conn \cup {None}
    /\ acceptor \in Conn \cup {None}
    /\ pc \in [Conn -> PCs]
    /\ kind \in [Conn -> Kinds]
    /\ cursor \in [Conn -> 1 .. MAX_CLIENTS + 1]
    /\ lines \in [Conn -> 0 .. MaxLines]
    /\ hist \in [Conn -> Nat]
    /\ live \in [Conn -> Seq(Message)]
    /\ chatlog \in Seq(Message)
    /\ link \in [Conn -> Links]
    /\ ssl \in [Conn -> {"none", "live", "freed"}]
    /\ fd \in [Conn -> {"none", "open", "closed"}]

Init ==
    /\ proc = "up"
    /\ clients = [i \in Entries |-> None]
    /\ clients_mutex = None
    /\ acceptor = None
    /\ pc = [c \in Conn |-> "off"]
    /\ kind = [c \in Conn |-> "join"]
    /\ cursor = [c \in Conn |-> 1]
    /\ lines = [c \in Conn |-> 0]
    /\ hist = [c \in Conn |-> 0]
    /\ live = [c \in Conn |-> <<>>]
    /\ chatlog = <<>>
    /\ link = [c \in Conn |-> "none"]
    /\ ssl = [c \in Conn |-> "none"]
    /\ fd = [c \in Conn |-> "none"]
-----------------------------------------------------------------------------
table   == <<clients, clients_mutex>>
record  == <<live, chatlog>>
counts  == <<cursor, lines, hist>>
sockets == <<ssl, fd>>

\* The thread of c, of a running process, goes from one point to the next.
Step(c, from, to) ==
    /\ proc = "up"
    /\ pc[c] = from
    /\ pc' = [pc EXCEPT ![c] = to]

\* The message handle_client(c) has formatted for broadcast and the log.
Current(c) == [from |-> c, kind |-> kind[c], n |-> lines[c]]

\* accept and fopen succeed only while the process has a descriptor left.
FdLeft == Cardinality({c \in Conn : fd[c] = "open"}) < MaxFds

\* No thread is between pthread_mutex_lock and pthread_mutex_unlock.
Unlocked_Mut == TRUE
Unlocked == clients_mutex = None

\* An SSL_write that returns: data for a closed peer is answered by a reset,
\* which may come before the next call; a pending reset fails the call.
SslWrite(d) ==
    \/ /\ link[d] \in {"open", "failed", "fin"}
       /\ UNCHANGED link
    \/ /\ link[d] \in {"fin", "rst"}
       /\ link' = [link EXCEPT ![d] = "dead"]

\* An SSL_read that returns no data: the end of the stream makes OpenSSL send
\* an alert and give the object up, a pending reset does not.
SslReadEnds(d) ==
    \/ /\ link[d] \in {"fin", "failed"}
       /\ link' = [link EXCEPT ![d] = "failed"]
    \/ /\ link[d] = "rst"
       /\ link' = [link EXCEPT ![d] = "dead"]
-----------------------------------------------------------------------------
(* The clients and the network. *)

Connect(c) ==
    /\ Step(c, "off", "backlog")
    /\ link' = [link EXCEPT ![c] = "open"]
    /\ UNCHANGED <<proc, table, acceptor, kind, counts, record, sockets>>

\* client_tls_final leaves without SSL_shutdown: its end is closed, or reset
\* when it still had data to read.
PeerCloses(c) ==
    /\ proc = "up"
    /\ link[c] \in {"open", "full"}
    /\ pc[c] \notin {"free", "done"}
    /\ \E l \in {"fin", "rst"} : link' = [link EXCEPT ![c] = l]
    /\ UNCHANGED <<proc, table, acceptor, pc, kind, counts, record, sockets>>

\* A client that no longer reads fills its window, and may empty it again.
Stall(c) ==
    /\ proc = "up"
    /\ c \in Unresponsive
    /\ link[c] = "open"
    /\ pc[c] \notin {"free", "done"}
    /\ link' = [link EXCEPT ![c] = "full"]
    /\ UNCHANGED <<proc, table, acceptor, pc, kind, counts, record, sockets>>

Drain(c) ==
    /\ proc = "up"
    /\ link[c] = "full"
    /\ link' = [link EXCEPT ![c] = "open"]
    /\ UNCHANGED <<proc, table, acceptor, pc, kind, counts, record, sockets>>
-----------------------------------------------------------------------------
(* The main thread. *)

Accept(c) ==
    /\ acceptor = None
    /\ FdLeft
    /\ Step(c, "backlog", "handshake")
    /\ acceptor' = c
    /\ fd' = [fd EXCEPT ![c] = "open"]
    /\ ssl' = [ssl EXCEPT ![c] = "live"]
    /\ UNCHANGED <<proc, table, kind, counts, record, link>>

HandshakeOK(c) ==
    /\ acceptor = c
    /\ link[c] \in {"open", "fin"}
    /\ Step(c, "handshake", "auth")
    /\ acceptor' = None
    /\ SslWrite(c)
    /\ UNCHANGED <<proc, table, kind, counts, record, sockets>>

\* The peer is gone or does not speak TLS.
HandshakeFails_Mut(c) ==
    /\ acceptor = c
    /\ link[c] # "full"
    /\ Step(c, "handshake", "done")
    /\ fd' = [fd EXCEPT ![c] = "closed"]
    /\ ssl' = [ssl EXCEPT ![c] = "freed"]
    /\ UNCHANGED <<proc, table, acceptor, kind, counts, record, link>>
HandshakeFails(c) ==
    /\ acceptor = c
    /\ link[c] # "full"
    /\ Step(c, "handshake", "done")
    /\ acceptor' = None
    /\ fd' = [fd EXCEPT ![c] = "closed"]
    /\ ssl' = [ssl EXCEPT ![c] = "freed"]
    /\ UNCHANGED <<proc, table, kind, counts, record, link>>
-----------------------------------------------------------------------------
(* The thread of c: authenticate.  The accounts are modelled in Accounts;  *)
(* here the user answers after any number of prompts, or never.            *)

Prompt(c) ==
    /\ Step(c, "auth", "auth")
    /\ SslWrite(c)
    /\ UNCHANGED <<proc, table, acceptor, kind, counts, record, sockets>>

AnswerEnds(c) ==
    /\ Step(c, "auth", "auth")
    /\ SslReadEnds(c)
    /\ UNCHANGED <<proc, table, acceptor, kind, counts, record, sockets>>

\* With users.txt open the verdict is sent, without it authentication fails.
Answered(c) ==
    /\ link[c] # "full"
    /\ Step(c, "auth", IF FdLeft THEN "reply" ELSE "reject")
    /\ UNCHANGED <<proc, table, acceptor, kind, counts, record, link, sockets>>

AuthReply(c) ==
    /\ \E next \in {"welcome", "reject"} : Step(c, "reply", next)
    /\ SslWrite(c)
    /\ UNCHANGED <<proc, table, acceptor, kind, counts, record, sockets>>

Reject(c) ==
    /\ Step(c, "reject", "shutdown")
    /\ SslWrite(c)
    /\ UNCHANGED <<proc, table, acceptor, kind, counts, record, sockets>>

Welcome(c) ==
    /\ Step(c, "welcome", "add")
    /\ SslWrite(c)
    /\ UNCHANGED <<proc, table, acceptor, kind, counts, record, sockets>>
-----------------------------------------------------------------------------
(* The thread of c: the table, the broadcasts and the log. *)

\* The entries add_client fills: the first free one, or none in a full table.
FirstFree(t) == {i \in Entries : /\ t[i] = None
                                 /\ \A j \in 1 .. i - 1 : t[j] # None}

\* The result -1 of a full table is ignored.
AddClient_Mut(c) ==
    /\ Step(c, "add", "lock")
    /\ clients' = [i \in Entries |-> IF i \in FirstFree(clients) THEN c
                                                                 ELSE clients[i]]
    /\ UNCHANGED <<proc, clients_mutex, acceptor, kind, counts, record, link,
                   sockets>>
AddClient(c) ==
    /\ Unlocked
    /\ Step(c, "add", "lock")
    /\ clients' = [i \in Entries |-> IF i \in FirstFree(clients) THEN c
                                                                 ELSE clients[i]]
    /\ UNCHANGED <<proc, clients_mutex, acceptor, kind, counts, record, link,
                   sockets>>

Lock(c) ==
    /\ Unlocked
    /\ Step(c, "lock", "send")
    /\ clients_mutex' = c
    /\ UNCHANGED <<proc, clients, acceptor, kind, counts, record, link, sockets>>

\* What entry i is to the broadcast of c: a chat line skips its author, the
\* server's own messages are for everybody.
Receives(c, i) ==
    /\ clients[i] # None
    /\ kind[c] = "chat" => clients[i] # c

\* Where the loop is after skipping entry i.
AfterSkip_Mut(i) == i
AfterSkip(i) == i + 1

SkipSlot(c) ==
    /\ Step(c, "send", "send")
    /\ cursor[c] \in Entries
    /\ ~ Receives(c, cursor[c])
    /\ cursor' = [cursor EXCEPT ![c] = AfterSkip(cursor[c])]
    /\ UNCHANGED <<proc, table, acceptor, kind, lines, hist, record, link,
                   sockets>>

WriteSlot(c) ==
    /\ Step(c, "send", "send")
    /\ cursor[c] \in Entries
    /\ Receives(c, cursor[c])
    /\ LET d == clients[cursor[c]] IN
          /\ SslWrite(d)
          /\ live' = [live EXCEPT ![d] = Append(@, Current(c))]
    /\ cursor' = [cursor EXCEPT ![c] = @ + 1]
    /\ UNCHANGED <<proc, table, acceptor, kind, lines, hist, chatlog, sockets>>

Unlock(c) ==
    /\ Step(c, "send", "save")
    /\ cursor[c] = MAX_CLIENTS + 1
    /\ cursor' = [cursor EXCEPT ![c] = 1]
    /\ clients_mutex' = None
    /\ UNCHANGED <<proc, clients, acceptor, kind, lines, hist, record, link,
                   sockets>>

\* What handle_client does after logging a message of each kind.
AfterSave_Mut(k) == CASE k = "join" -> "hist" [] k = "chat" -> "read"
                      [] k = "leave" -> "shutdown"
AfterSave(k) == CASE k = "join"  -> "hist"
                  [] k = "chat"  -> "read"
                  [] k = "leave" -> "remove"

SaveChatLog(c) ==
    /\ Step(c, "save", AfterSave(kind[c]))
    /\ chatlog' = IF FdLeft THEN Append(chatlog, Current(c)) ELSE chatlog
    /\ UNCHANGED <<proc, table, acceptor, kind, counts, live, link, sockets>>

\* The first unused entry of the log that ends the replay.
HistoryEnd_Mut == Len(chatlog) - 1
HistoryEnd == Len(chatlog)

\* send_chat_log: the log as far as it has grown when its end is reached, or
\* nothing when it cannot be opened.
HistLine(c) ==
    /\ FdLeft \/ hist[c] > 0
    /\ hist[c] < HistoryEnd
    /\ Step(c, "hist", "hist")
    /\ SslWrite(c)
    /\ hist' = [hist EXCEPT ![c] = @ + 1]
    /\ UNCHANGED <<proc, table, acceptor, kind, cursor, lines, record, sockets>>

HistEnd(c) ==
    /\ hist[c] >= HistoryEnd \/ (hist[c] = 0 /\ ~ FdLeft)
    /\ Step(c, "hist", "read")
    /\ UNCHANGED <<proc, table, acceptor, kind, counts, record, link, sockets>>

\* Lines that arrived before the peer left are still read.
ReadLine(c) ==
    /\ lines[c] < MaxLines
    /\ link[c] # "failed"
    /\ Step(c, "read", "lock")
    /\ lines' = [lines EXCEPT ![c] = @ + 1]
    /\ kind' = [kind EXCEPT ![c] = "chat"]
    /\ UNCHANGED <<proc, table, acceptor, cursor, hist, record, link, sockets>>

ReadEnd_Mut(c) ==
    /\ Step(c, "read", "read")
    /\ SslReadEnds(c)
    /\ UNCHANGED <<proc, table, acceptor, kind, counts, record, sockets>>
ReadEnd_Mut2(c) ==
    /\ Step(c, "read", "lock")
    /\ SslReadEnds(c)
    /\ UNCHANGED <<proc, table, acceptor, kind, counts, record, sockets>>
ReadEnd(c) ==
    /\ Step(c, "read", "lock")
    /\ SslReadEnds(c)
    /\ kind' = [kind EXCEPT ![c] = "leave"]
    /\ UNCHANGED <<proc, table, acceptor, counts, record, sockets>>

\* A connection the full table left out is not found, and nothing is removed.
RemoveClient_Mut(c) ==
    /\ Step(c, "remove", "shutdown")
    /\ clients' = [i \in Entries |-> IF clients[i] = c THEN None ELSE clients[i]]
    /\ UNCHANGED <<proc, clients_mutex, acceptor, kind, counts, record, link,
                   sockets>>
RemoveClient(c) ==
    /\ Unlocked
    /\ Step(c, "remove", "shutdown")
    /\ clients' = [i \in Entries |->
                     IF /\ clients[i] = c
                        /\ \A j \in 1 .. i - 1 : clients[j] # c
                     THEN None ELSE clients[i]]
    /\ UNCHANGED <<proc, clients_mutex, acceptor, kind, counts, record, link,
                   sockets>>

Shutdown(c) ==
    /\ Step(c, "shutdown", "free")
    /\ SslWrite(c)
    /\ UNCHANGED <<proc, table, acceptor, kind, counts, record, sockets>>

\* SSL_free leaves the descriptor of SSL_set_fd open.
Free(c) ==
    /\ Step(c, "free", "done")
    /\ ssl' = [ssl EXCEPT ![c] = "freed"]
    /\ UNCHANGED <<proc, table, acceptor, kind, counts, record, link, fd>>
-----------------------------------------------------------------------------
(* The ways the process dies. *)

\* The thread of c is about to write to the socket of d.
Writing(c, d) ==
    \/ /\ c = d
       /\ pc[c] \in {"auth", "reply", "welcome", "reject", "read", "shutdown"}
    \/ /\ c = d
       /\ pc[c] = "hist"
       /\ hist[c] < HistoryEnd
    \/ /\ pc[c] = "send"
       /\ cursor[c] \in Entries
       /\ Receives(c, cursor[c])
       /\ d = clients[cursor[c]]

\* Nothing ignores SIGPIPE: a write after a reset (in SSL_read, that of the
\* alert) kills the process, in the handshake too.
KilledWriting(c) ==
    /\ proc = "up"
    /\ \/ \E d \in Conn : Writing(c, d) /\ link[d] = "dead"
       \/ acceptor = c /\ link[c] = "fin"
    /\ proc' = "sigpipe"
    /\ UNCHANGED <<table, acceptor, pc, kind, counts, record, link, sockets>>

\* A broadcast writes to the SSL object of d while d's own thread is in
\* SSL_read or SSL_write on it: undefined, as if nothing happened or a crash.
SslRace ==
    /\ proc = "up"
    /\ \E c \in Conn, d \in Conn : /\ c # d
                                   /\ Writing(c, d)
                                   /\ pc[d] \in {"hist", "read"}
    /\ proc' = "race"
    /\ UNCHANGED <<table, acceptor, pc, kind, counts, record, link, sockets>>

\* A dead process, or a server with nobody left to serve (waiting for, or out
\* of descriptors and retrying, accept).
Idle ==
    /\ \/ proc # "up"
       \/ \A c \in Conn : pc[c] \in {"backlog", "done"}
    /\ UNCHANGED vars
-----------------------------------------------------------------------------
Environment(c) == Connect(c) \/ PeerCloses(c) \/ Stall(c) \/ Drain(c)

Handshake(c) == HandshakeOK(c) \/ HandshakeFails(c)

\* The steps of a thread that wait for no user.
Serve(c) ==
    \/ AuthReply(c) \/ Reject(c) \/ Welcome(c)
    \/ AddClient(c) \/ Lock(c) \/ SkipSlot(c) \/ WriteSlot(c) \/ Unlock(c)
    \/ SaveChatLog(c) \/ HistLine(c) \/ HistEnd(c)
    \/ ReadEnd(c) \/ RemoveClient(c) \/ Shutdown(c) \/ Free(c)
    \/ KilledWriting(c)

Next ==
    \/ \E c \in Conn : \/ Environment(c)
                       \/ Accept(c) \/ Handshake(c)
                       \/ Prompt(c) \/ AnswerEnds(c) \/ Answered(c)
                       \/ ReadLine(c)
                       \/ Serve(c)
    \/ SslRace
    \/ Idle

Spec == Init /\ [][Next]_vars

\* The kernel runs every thread that can run.  A user need not type, and only
\* a responsive peer must take part in the handshake.
Fairness ==
    /\ WF_vars(\E c \in Conn : Accept(c))
    /\ \A c \in Conn \ Unresponsive : WF_vars(Handshake(c))
    /\ \A c \in Conn : WF_vars(Serve(c))

FairSpec == Spec /\ Fairness
-----------------------------------------------------------------------------
(* Properties. *)

IsRegistered(c) == \E i \in Entries : clients[i] = c

\* No broadcast can reach a freed SSL object: the table holds only connections
\* whose object is live (remove_client comes before SSL_free).
RegisteredIsLive ==
    \A i \in Entries : clients[i] # None => ssl[clients[i]] = "live"

\* A broadcast that has left the loop has written its message to everybody it
\* is for, whoever joined or left meanwhile, and each got it last.
BroadcastReachesMembers ==
    \A c \in Conn :
       proc = "up" /\ pc[c] = "send" /\ cursor[c] > MAX_CLIENTS =>
          \A i \in Entries :
             Receives(c, i) =>
                /\ live[clients[i]] # <<>>
                /\ live[clients[i]][Len(live[clients[i]])] = Current(c)

\* s has m somewhere before n.
Before(s, m, n) ==
    \E i, j \in 1 .. Len(s) : i < j /\ s[i] = m /\ s[j] = n

\* Two users who both see two messages live see them in the same order, from
\* whatever threads they come.
TotalOrder ==
    \A c, d \in Conn : \A i, j \in 1 .. Len(live[c]) :
       i < j => ~ Before(live[d], live[c][j], live[c][i])

\* The message a thread logs next after m: a join, then the lines in the order
\* they were typed, then the departure.
Follows(m, n) ==
    \/ m.kind # "leave" /\ n.kind = "chat" /\ n.n = m.n + 1
    \/ m.kind # "leave" /\ n.kind = "leave" /\ n.n = m.n

\* Where in the log the messages of c are.
Logged(c) == {i \in 1 .. Len(chatlog) : chatlog[i].from = c}

\* The i-th line of the log is the last one of c.
LoggedLast(c, i) == i \in Logged(c) /\ \A j \in Logged(c) : j <= i

\* Whatever the threads interleave, with descriptors to spare the log tells the
\* story of each connection: its join, every line once and in order, its leave.
LogTellsEachStory ==
    \A c \in Conn :
       /\ \A i \in Logged(c) :
             \/ /\ chatlog[i] = [from |-> c, kind |-> "join", n |-> 0]
                /\ \A j \in Logged(c) : i <= j
             \/ \E h \in Logged(c) :
                   /\ h < i /\ \A j \in Logged(c) : j <= h \/ i <= j
                   /\ Follows(chatlog[h], chatlog[i])
       /\ pc[c] \in {"read", "hist", "remove", "shutdown", "free"} =>
             \A i \in Logged(c) : LoggedLast(c, i) => chatlog[i] = Current(c)

\* A user who has entered the room has been replayed the log up to and
\* including the line that announced them.
HistoryCoversOwnJoin ==
    \A c \in Conn :
       pc[c] = "read" =>
          \E i \in 1 .. hist[c] :
             chatlog[i] = [from |-> c, kind |-> "join", n |-> 0]
-----------------------------------------------------------------------------
(* The inductive invariant behind RegisteredIsLive and BroadcastReachesMembers. *)

\* Where the thread of a connection in the table is.
InRoom == {"lock", "send", "save", "hist", "read", "remove"}

\* The table holds each connection once, and only while its thread is between
\* add_client and remove_client.
TableInv ==
    \A i \in Entries :
       clients[i] # None =>
          /\ pc[clients[i]] \in InRoom
          /\ \A j \in Entries : clients[j] = clients[i] => j = i

\* An SSL object lives from SSL_new to the end of its thread.
SslInv == \A c \in Conn : pc[c] \notin {"off", "backlog", "done"} => ssl[c] = "live"

\* The thread in broadcast is the one that holds the mutex.
MutexInv == \A c \in Conn : pc[c] = "send" <=> clients_mutex = c

\* A broadcast has reached everybody it is for in the entries behind its index.
LoopInv ==
    \A c \in Conn :
       /\ pc[c] # "send" => cursor[c] = 1
       /\ pc[c] = "send" =>
             \A i \in Entries :
                i < cursor[c] /\ Receives(c, i) =>
                   /\ live[clients[i]] # <<>>
                   /\ live[clients[i]][Len(live[clients[i]])] = Current(c)

IInv == TypeOK /\ TableInv /\ SslInv /\ MutexInv /\ LoopInv
-----------------------------------------------------------------------------
(* The room the server implements. *)

\* A message counts as said when its broadcast takes the mutex: recipients the
\* loop has still to come to are owed it.
Owed(d) ==
    IF /\ proc = "up"
       /\ clients_mutex # None
       /\ \E i \in Entries : /\ i >= cursor[clients_mutex]
                             /\ Receives(clients_mutex, i)
                             /\ clients[i] = d
    THEN <<Current(clients_mutex)>> ELSE <<>>

Room == INSTANCE ChatRoom
          WITH members <- {c \in Conn : IsRegistered(c)},
               inbox   <- [c \in Conn |-> live[c] \o Owed(c)],
               open    <- proc = "up"

\* Table, mutex and loop together behave as a room in which a message reaches
\* its whole audience at once.
ImplementsRoom == Room!Spec
-----------------------------------------------------------------------------
(* Liveness. *)

Gone(c) == link[c] \in {"fin", "rst", "dead", "failed"}

\* A user whose connection is lost while in the room is announced as having
\* left, is taken off the table and has their SSL object freed.
DepartureCompletes ==
    \A c \in Conn : (pc[c] = "read" /\ Gone(c)) ~> (pc[c] = "done" \/ proc # "up")

\* A broadcast that has started ends, so no thread keeps the mutex for ever.
BroadcastFinishes ==
    \A c \in Conn : (pc[c] = "send") ~> (pc[c] # "send" \/ proc # "up")

\* A client that has connected is served: the main thread gets to it.
ConnectionServed ==
    \A c \in Conn : (pc[c] = "backlog") ~>
                       (pc[c] \notin {"backlog", "handshake"} \/ proc # "up")
-----------------------------------------------------------------------------
(* What the documentation says and the code does not do. *)

\* Everything in the log was seen by everybody in the room: replayed, or live.
NewcomerSeesAll ==
    \A c \in Conn : pc[c] = "read" =>
       \A i \in 1 .. Len(chatlog) :
          \/ i <= hist[c]
          \/ chatlog[i].from = c
          \/ \E j \in 1 .. Len(live[c]) : live[c][j] = chatlog[i]

\* A disconnection ends with the announcement that the user left, and the
\* server goes on: announcing a departure does not kill it.
DepartureSurvived ==
    proc = "sigpipe" => \A c \in Conn : ~ (pc[c] = "send" /\ kind[c] = "leave")
=============================================================================
