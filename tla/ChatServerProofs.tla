-------------------------- MODULE ChatServerProofs --------------------------
(***************************************************************************)
(* Theorems about ChatServer, for every set of connections and every       *)
(* bound: the table and the broadcasts, the one order of messages, the     *)
(* log, and that the server implements ChatRoom.                           *)
(***************************************************************************)
EXTENDS ChatServer, FiniteSetTheorems, SequenceTheorems, TLAPS

USE ChatAssumption

\* The message a thread holds is one of the messages.
LEMMA CurrentIsMessage ==
    ASSUME TypeOK, NEW c \in Conn
    PROVE  Current(c) \in Message
BY DEF TypeOK, Current, Message

\* SSL_write and SSL_read leave the connections in states they know.
LEMMA SslTyped ==
    ASSUME TypeOK, NEW d \in Conn, SslWrite(d) \/ SslReadEnds(d)
    PROVE  link' \in [Conn -> Links]
BY DEF TypeOK, SslWrite, SslReadEnds, Links

\* Every variable keeps its type, whatever the threads interleave.
THEOREM TypeCorrect == Spec => []TypeOK
<1>1. Init => TypeOK
  BY DEF Init, TypeOK, Entries, Kinds, PCs, Links
<1>2. TypeOK /\ [Next]_vars => TypeOK'
  <2> SUFFICES ASSUME TypeOK, [Next]_vars PROVE TypeOK'
    OBVIOUS
  <2> USE DEF Step, table, record, counts, sockets
  <2>1. ASSUME NEW c \in Conn, Environment(c) PROVE TypeOK'
    <3>1. CASE Connect(c)
      BY <3>1 DEF TypeOK, PCs, Links, Connect
    <3>2. CASE PeerCloses(c)
      BY <3>2 DEF TypeOK, Links, PeerCloses
    <3>3. CASE Stall(c) \/ Drain(c)
      BY <3>3 DEF TypeOK, Links, Stall, Drain
    <3> QED BY <2>1, <3>1, <3>2, <3>3 DEF Environment
  <2>2. ASSUME NEW c \in Conn, Accept(c) PROVE TypeOK'
    BY <2>2 DEF TypeOK, PCs, Accept
  <2>3. ASSUME NEW c \in Conn, Handshake(c) PROVE TypeOK'
    <3>1. CASE HandshakeOK(c)
      BY <3>1, SslTyped DEF TypeOK, PCs, HandshakeOK
    <3>2. CASE HandshakeFails(c)
      BY <3>2 DEF TypeOK, PCs, HandshakeFails
    <3> QED BY <2>3, <3>1, <3>2 DEF Handshake
  <2>4. ASSUME NEW c \in Conn,
               \/ Prompt(c) \/ AnswerEnds(c) \/ AuthReply(c) \/ Reject(c)
               \/ Welcome(c) \/ Shutdown(c)
        PROVE  TypeOK'
    <3>1. CASE Prompt(c) \/ AnswerEnds(c)
      BY <3>1, SslTyped DEF TypeOK, PCs, Prompt, AnswerEnds
    <3>2. CASE AuthReply(c)
      BY <3>2, SslTyped DEF TypeOK, PCs, AuthReply
    <3>3. CASE Reject(c)
      BY <3>3, SslTyped DEF TypeOK, PCs, Reject
    <3>4. CASE Welcome(c)
      BY <3>4, SslTyped DEF TypeOK, PCs, Welcome
    <3>5. CASE Shutdown(c)
      BY <3>5, SslTyped DEF TypeOK, PCs, Shutdown
    <3> QED BY <2>4, <3>1, <3>2, <3>3, <3>4, <3>5
  <2>5. ASSUME NEW c \in Conn, Answered(c) PROVE TypeOK'
    BY <2>5 DEF TypeOK, PCs, Answered
  <2>6. ASSUME NEW c \in Conn,
               AddClient(c) \/ RemoveClient(c) \/ Lock(c) \/ Unlock(c)
        PROVE  TypeOK'
    <3>1. CASE AddClient(c)
      BY <3>1 DEF TypeOK, PCs, AddClient
    <3>2. CASE RemoveClient(c)
      BY <3>2 DEF TypeOK, PCs, RemoveClient
    <3>3. CASE Lock(c)
      BY <3>3 DEF TypeOK, PCs, Lock
    <3>4. CASE Unlock(c)
      BY <3>4 DEF TypeOK, PCs, Unlock
    <3> QED BY <2>6, <3>1, <3>2, <3>3, <3>4
  <2>7. ASSUME NEW c \in Conn, SkipSlot(c) PROVE TypeOK'
    <3>1. cursor' \in [Conn -> 1 .. MAX_CLIENTS + 1]
      <4>1. cursor[c] + 1 \in 1 .. MAX_CLIENTS + 1
        BY <2>7 DEF SkipSlot, Entries
      <4> QED BY <2>7, <4>1 DEF SkipSlot, AfterSkip, TypeOK
    <3>2. pc' \in [Conn -> PCs]
      BY <2>7 DEF SkipSlot, TypeOK, PCs
    <3> QED BY <2>7, <3>1, <3>2 DEF TypeOK, SkipSlot
  <2>8. ASSUME NEW c \in Conn, WriteSlot(c) PROVE TypeOK'
    <3> DEFINE d == clients[cursor[c]]
    <3>1. d \in Conn
      BY <2>8 DEF WriteSlot, Receives, TypeOK
    <3>2. live' \in [Conn -> Seq(Message)]
      <4>1. live' = [live EXCEPT ![d] = Append(live[d], Current(c))]
        BY <2>8 DEF WriteSlot
      <4>2. Append(live[d], Current(c)) \in Seq(Message)
        <5>1. live[d] \in Seq(Message) /\ Current(c) \in Message
          BY <3>1, CurrentIsMessage DEF TypeOK
        <5> HIDE DEF d
        <5> QED BY <5>1
      <4> QED BY <4>1, <4>2 DEF TypeOK
    <3>3. link' \in [Conn -> Links]
      BY <2>8, <3>1, SslTyped DEF WriteSlot
    <3>4. cursor' \in [Conn -> 1 .. MAX_CLIENTS + 1]
      <4>1. cursor[c] + 1 \in 1 .. MAX_CLIENTS + 1
        BY <2>8 DEF WriteSlot, Entries
      <4> QED BY <2>8, <4>1 DEF WriteSlot, TypeOK
    <3>5. pc' \in [Conn -> PCs]
      BY <2>8 DEF WriteSlot, TypeOK, PCs
    <3> QED BY <2>8, <3>2, <3>3, <3>4, <3>5 DEF TypeOK, WriteSlot
  <2>9. ASSUME NEW c \in Conn, SaveChatLog(c) PROVE TypeOK'
    <3>1. pc' \in [Conn -> PCs]
      BY <2>9 DEF SaveChatLog, AfterSave, TypeOK, PCs, Kinds
    <3>2. chatlog' \in Seq(Message)
      <4>1. Append(chatlog, Current(c)) \in Seq(Message)
        BY CurrentIsMessage DEF TypeOK
      <4> QED BY <2>9, <4>1 DEF SaveChatLog, TypeOK
    <3> QED BY <2>9, <3>1, <3>2 DEF TypeOK, SaveChatLog
  <2>10. ASSUME NEW c \in Conn, HistLine(c) \/ HistEnd(c) PROVE TypeOK'
    <3>1. CASE HistLine(c)
      <4>1. link' \in [Conn -> Links]
        BY <3>1, SslTyped DEF HistLine
      <4>2. hist' \in [Conn -> Nat] /\ pc' \in [Conn -> PCs]
        BY <3>1 DEF TypeOK, PCs, HistLine
      <4> QED BY <3>1, <4>1, <4>2 DEF TypeOK, HistLine
    <3>2. CASE HistEnd(c)
      BY <3>2 DEF TypeOK, PCs, HistEnd
    <3> QED BY <2>10, <3>1, <3>2
  <2>11. ASSUME NEW c \in Conn, ReadLine(c) PROVE TypeOK'
    <3>1. lines' \in [Conn -> 0 .. MaxLines]
      <4>1. lines[c] + 1 \in 0 .. MaxLines
        BY <2>11 DEF ReadLine, TypeOK
      <4> QED BY <2>11, <4>1 DEF ReadLine, TypeOK
    <3>2. pc' \in [Conn -> PCs] /\ kind' \in [Conn -> Kinds]
      BY <2>11 DEF ReadLine, TypeOK, PCs, Kinds
    <3> QED BY <2>11, <3>1, <3>2 DEF TypeOK, ReadLine
  <2>12. ASSUME NEW c \in Conn, ReadEnd(c) PROVE TypeOK'
    BY <2>12, SslTyped DEF TypeOK, PCs, Kinds, ReadEnd
  <2>13. ASSUME NEW c \in Conn, Free(c) PROVE TypeOK'
    BY <2>13 DEF TypeOK, PCs, Free
  <2>14. ASSUME NEW c \in Conn, KilledWriting(c) PROVE TypeOK'
    BY <2>14 DEF TypeOK, KilledWriting
  <2>15. CASE SslRace
    BY <2>15 DEF TypeOK, SslRace
  <2>16. CASE Idle \/ UNCHANGED vars
    BY <2>16 DEF TypeOK, Idle, vars
  <2> QED
    BY <2>1, <2>2, <2>3, <2>4, <2>5, <2>6, <2>7, <2>8, <2>9, <2>10, <2>11,
       <2>12, <2>13, <2>14, <2>15, <2>16 DEF Next, Serve
<1> QED BY <1>1, <1>2, PTL DEF Spec
-----------------------------------------------------------------------------
\* A step of the thread of c that leaves the table alone keeps TableInv unless
\* it takes the thread out of the room.
LEMMA MoveKeepsTable ==
    ASSUME TypeOK, TableInv, NEW c \in Conn, NEW from, NEW to,
           Step(c, from, to), UNCHANGED clients,
           from \in InRoom => to \in InRoom
    PROVE  TableInv'
BY DEF TypeOK, TableInv, Step

\* Steps that move no thread and leave the table alone keep it too.
LEMMA RestKeepsTable ==
    ASSUME TableInv, UNCHANGED <<clients, pc>>
    PROVE  TableInv'
BY DEF TableInv

\* add_client takes an entry that is free: the entries stay one per user.
LEMMA AddKeepsTable ==
    ASSUME TypeOK, TableInv, NEW c \in Conn, AddClient(c)
    PROVE  TableInv'
<1>1. \A i \in Entries : clients[i] # c
  BY DEF TableInv, AddClient, Step, InRoom
<1>2. \A i, j \in FirstFree(clients) : i = j
  <2> SUFFICES ASSUME NEW i \in Entries, NEW j \in Entries,
                      clients[i] = None, clients[j] = None,
                      \A k \in 1 .. i - 1 : clients[k] # None,
                      \A k \in 1 .. j - 1 : clients[k] # None
               PROVE  i = j
    BY DEF FirstFree
  <2>1. i \notin 1 .. j - 1 /\ j \notin 1 .. i - 1
    OBVIOUS
  <2> QED BY <2>1 DEF Entries
<1>3. \A i \in Entries : clients'[i] = IF i \in FirstFree(clients) THEN c ELSE clients[i]
  BY DEF AddClient
<1>4. pc' = [pc EXCEPT ![c] = "lock"]
  BY DEF AddClient, Step
<1>5. c # None
  OBVIOUS
<1> SUFFICES ASSUME NEW i \in Entries, clients'[i] # None
             PROVE  /\ pc'[clients'[i]] \in InRoom
                    /\ \A j \in Entries : clients'[j] = clients'[i] => j = i
  BY DEF TableInv, Entries
<1>6. CASE i \in FirstFree(clients)
  BY <1>1, <1>2, <1>3, <1>4, <1>6 DEF TypeOK, InRoom
<1>7. CASE i \notin FirstFree(clients)
  <2>1. clients'[i] = clients[i] /\ clients[i] # c /\ clients[i] # None
    BY <1>1, <1>3, <1>7
  <2>2. pc'[clients[i]] = pc[clients[i]]
    BY <1>4, <2>1 DEF TypeOK
  <2>3. \A j \in Entries : clients'[j] = clients[i] => clients[j] = clients[i]
    BY <1>3, <2>1
  <2> QED BY <2>1, <2>2, <2>3 DEF TableInv
<1> QED BY <1>6, <1>7

\* remove_client clears every entry of the thread that leaves, and no other.
LEMMA RemoveKeepsTable ==
    ASSUME TypeOK, TableInv, NEW c \in Conn, RemoveClient(c)
    PROVE  TableInv'
<1>1. pc' = [pc EXCEPT ![c] = "shutdown"]
  BY DEF RemoveClient, Step
<1>2. \A i \in Entries : clients'[i] = IF clients[i] = c THEN None ELSE clients[i]
  <2> SUFFICES ASSUME NEW i \in Entries, clients[i] = c
               PROVE  \A j \in 1 .. i - 1 : clients[j] # c
    BY DEF RemoveClient
  <2> SUFFICES ASSUME NEW j \in 1 .. i - 1, clients[j] = c
               PROVE  FALSE
    OBVIOUS
  <2>1. j \in Entries /\ j # i
    BY DEF Entries
  <2> QED BY <2>1 DEF TableInv
<1> SUFFICES ASSUME NEW i \in Entries, clients'[i] # None
             PROVE  /\ pc'[clients'[i]] \in InRoom
                    /\ \A j \in Entries : clients'[j] = clients'[i] => j = i
  BY DEF TableInv, Entries
<1>3. clients'[i] = clients[i] /\ clients[i] # c /\ clients[i] \in Conn
  BY <1>2 DEF TypeOK
<1>4. pc'[clients[i]] = pc[clients[i]]
  BY <1>1, <1>3 DEF TypeOK
<1>5. \A j \in Entries : clients'[j] = clients[i] => clients[j] = clients[i]
  BY <1>2, <1>3
<1> QED BY <1>3, <1>4, <1>5 DEF TableInv

\* No step of the server breaks TableInv.
LEMMA TableStep == TypeOK /\ TableInv /\ [Next]_vars => TableInv'
<1> SUFFICES ASSUME TypeOK, TableInv, [Next]_vars PROVE TableInv'
  OBVIOUS
<1> USE DEF table, InRoom
<1>1. ASSUME NEW c \in Conn, Environment(c) \/ Accept(c) \/ Handshake(c)
      PROVE  TableInv'
  BY <1>1, MoveKeepsTable, RestKeepsTable
     DEF Environment, Connect, PeerCloses, Stall, Drain, Accept, Handshake,
         HandshakeOK, HandshakeFails
<1>2. ASSUME NEW c \in Conn,
             \/ Prompt(c) \/ AnswerEnds(c) \/ Answered(c) \/ AuthReply(c)
             \/ Reject(c) \/ Welcome(c)
      PROVE  TableInv'
  BY <1>2, MoveKeepsTable
     DEF Prompt, AnswerEnds, Answered, AuthReply, Reject, Welcome
<1>3. ASSUME NEW c \in Conn, Lock(c) \/ SkipSlot(c) \/ WriteSlot(c) \/ Unlock(c)
      PROVE  TableInv'
  BY <1>3, MoveKeepsTable DEF Lock, SkipSlot, WriteSlot, Unlock
<1>4. ASSUME NEW c \in Conn, SaveChatLog(c) PROVE TableInv'
  BY <1>4, MoveKeepsTable DEF SaveChatLog, AfterSave, TypeOK, Kinds
<1>5. ASSUME NEW c \in Conn,
             \/ HistLine(c) \/ HistEnd(c) \/ ReadLine(c) \/ ReadEnd(c)
             \/ Shutdown(c) \/ Free(c)
      PROVE  TableInv'
  BY <1>5, MoveKeepsTable
     DEF HistLine, HistEnd, ReadLine, ReadEnd, Shutdown, Free
<1>6. ASSUME NEW c \in Conn, AddClient(c) \/ RemoveClient(c) PROVE TableInv'
  BY <1>6, AddKeepsTable, RemoveKeepsTable
<1>7. ASSUME (\E c \in Conn : KilledWriting(c)) \/ SslRace \/ Idle \/ UNCHANGED vars
      PROVE  TableInv'
  BY <1>7, RestKeepsTable DEF KilledWriting, SslRace, Idle, vars
<1> QED BY <1>1, <1>2, <1>3, <1>4, <1>5, <1>6, <1>7 DEF Next, Serve
-----------------------------------------------------------------------------
\* SSL objects are made by the main thread and freed by their own.
LEMMA SslStep == TypeOK /\ SslInv /\ [Next]_vars => SslInv'
<1> SUFFICES ASSUME TypeOK, SslInv, [Next]_vars PROVE SslInv'
  OBVIOUS
<1> USE DEF TypeOK, SslInv, Step, sockets
<1>1. ASSUME NEW c \in Conn, Environment(c) PROVE SslInv'
  BY <1>1 DEF Environment, Connect, PeerCloses, Stall, Drain
<1>2. ASSUME NEW c \in Conn, Accept(c) \/ Handshake(c) PROVE SslInv'
  BY <1>2 DEF Accept, Handshake, HandshakeOK, HandshakeFails
<1>3. ASSUME NEW c \in Conn,
             \/ Prompt(c) \/ AnswerEnds(c) \/ Answered(c) \/ AuthReply(c)
             \/ Reject(c) \/ Welcome(c)
      PROVE  SslInv'
  BY <1>3 DEF Prompt, AnswerEnds, Answered, AuthReply, Reject, Welcome
<1>4. ASSUME NEW c \in Conn,
             \/ AddClient(c) \/ RemoveClient(c) \/ Lock(c) \/ SkipSlot(c)
             \/ WriteSlot(c) \/ Unlock(c) \/ SaveChatLog(c)
      PROVE  SslInv'
  BY <1>4 DEF AddClient, RemoveClient, Lock, SkipSlot, WriteSlot, Unlock, SaveChatLog
<1>5. ASSUME NEW c \in Conn,
             \/ HistLine(c) \/ HistEnd(c) \/ ReadLine(c) \/ ReadEnd(c)
             \/ Shutdown(c) \/ Free(c)
      PROVE  SslInv'
  BY <1>5 DEF HistLine, HistEnd, ReadLine, ReadEnd, Shutdown, Free
<1>6. ASSUME (\E c \in Conn : KilledWriting(c)) \/ SslRace \/ Idle \/ UNCHANGED vars
      PROVE  SslInv'
  BY <1>6 DEF KilledWriting, SslRace, Idle, vars
<1> QED BY <1>1, <1>2, <1>3, <1>4, <1>5, <1>6 DEF Next, Serve

\* Only Lock and Unlock touch the mutex, and they move its holder.
LEMMA MutexStep == TypeOK /\ MutexInv /\ [Next]_vars => MutexInv'
<1> SUFFICES ASSUME TypeOK, MutexInv, [Next]_vars PROVE MutexInv'
  OBVIOUS
<1>1. ASSUME NEW c \in Conn, NEW from, NEW to, Step(c, from, to),
             UNCHANGED clients_mutex, (from = "send") <=> (to = "send")
      PROVE  MutexInv'
  BY <1>1 DEF TypeOK, MutexInv, Step
<1>2. ASSUME UNCHANGED <<clients_mutex, pc>> PROVE MutexInv'
  BY <1>2 DEF MutexInv
<1> USE DEF table
<1>3. ASSUME NEW c \in Conn, Environment(c) \/ Accept(c) \/ Handshake(c)
      PROVE  MutexInv'
  BY <1>3, <1>1, <1>2
     DEF Environment, Connect, PeerCloses, Stall, Drain, Accept, Handshake,
         HandshakeOK, HandshakeFails
<1>4. ASSUME NEW c \in Conn,
             \/ Prompt(c) \/ AnswerEnds(c) \/ Answered(c) \/ AuthReply(c)
             \/ Reject(c) \/ Welcome(c)
      PROVE  MutexInv'
  BY <1>4, <1>1 DEF Prompt, AnswerEnds, Answered, AuthReply, Reject, Welcome
<1>5. ASSUME NEW c \in Conn, Lock(c) PROVE MutexInv'
  BY <1>5 DEF TypeOK, MutexInv, Lock, Unlocked, Step
<1>6. ASSUME NEW c \in Conn, Unlock(c) PROVE MutexInv'
  BY <1>6 DEF TypeOK, MutexInv, Unlock, Step
<1>7. ASSUME NEW c \in Conn,
             AddClient(c) \/ RemoveClient(c) \/ SkipSlot(c) \/ WriteSlot(c)
      PROVE  MutexInv'
  BY <1>7, <1>1 DEF AddClient, RemoveClient, SkipSlot, WriteSlot
<1>8. ASSUME NEW c \in Conn, SaveChatLog(c) PROVE MutexInv'
  BY <1>8, <1>1 DEF SaveChatLog, AfterSave, TypeOK, Kinds
<1>9. ASSUME NEW c \in Conn,
             \/ HistLine(c) \/ HistEnd(c) \/ ReadLine(c) \/ ReadEnd(c)
             \/ Shutdown(c) \/ Free(c)
      PROVE  MutexInv'
  BY <1>9, <1>1 DEF HistLine, HistEnd, ReadLine, ReadEnd, Shutdown, Free
<1>10. ASSUME (\E c \in Conn : KilledWriting(c)) \/ SslRace \/ Idle \/ UNCHANGED vars
       PROVE  MutexInv'
  BY <1>10, <1>2 DEF KilledWriting, SslRace, Idle, vars
<1> QED
  BY <1>3, <1>4, <1>5, <1>6, <1>7, <1>8, <1>9, <1>10 DEF Next, Serve
-----------------------------------------------------------------------------
\* Whatever leaves the table, the indices, what was delivered and the messages
\* being sent alone keeps LoopInv.
LEMMA QuietKeepsLoop ==
    ASSUME TypeOK, LoopInv, UNCHANGED <<clients, live, cursor>>,
           \A d \in Conn : pc'[d] = "send" <=> pc[d] = "send",
           \A d \in Conn : pc[d] = "send" => kind'[d] = kind[d] /\ lines'[d] = lines[d]
    PROVE  LoopInv'
<1> SUFFICES ASSUME NEW d \in Conn
             PROVE  /\ pc'[d] # "send" => cursor'[d] = 1
                    /\ pc'[d] = "send" =>
                         \A i \in Entries :
                            i < cursor'[d] /\ Receives(d, i)' =>
                              /\ live'[clients'[i]] # <<>>
                              /\ live'[clients'[i]][Len(live'[clients'[i]])] = Current(d)'
  BY DEF LoopInv, Entries
<1>1. CASE pc[d] # "send"
  BY <1>1 DEF LoopInv
<1>2. CASE pc[d] = "send"
  <2>1. Current(d)' = Current(d) /\ \A i \in Entries : Receives(d, i)' = Receives(d, i)
    BY <1>2 DEF Current, Receives
  <2> QED BY <1>2, <2>1 DEF LoopInv
<1> QED BY <1>1, <1>2

\* So do most steps of the threads: those from and to points outside the loop.
LEMMA OutsideKeepsLoop ==
    ASSUME TypeOK, LoopInv, UNCHANGED <<clients, live, cursor>>,
           NEW c \in Conn, NEW from, NEW to, Step(c, from, to),
           from # "send", to # "send",
           \A d \in Conn \ {c} : kind'[d] = kind[d] /\ lines'[d] = lines[d]
    PROVE  LoopInv'
<1>1. \A d \in Conn : pc'[d] = "send" <=> pc[d] = "send"
  BY DEF TypeOK, Step
<1>2. \A d \in Conn : pc[d] = "send" => kind'[d] = kind[d] /\ lines'[d] = lines[d]
  BY DEF Step
<1> QED BY <1>1, <1>2, QuietKeepsLoop

\* The table changes only while nobody is in the loop.
LEMMA TableChangeKeepsLoop ==
    ASSUME TypeOK, MutexInv, LoopInv, NEW c \in Conn, AddClient(c) \/ RemoveClient(c)
    PROVE  LoopInv'
<1>1. \A d \in Conn : pc[d] # "send"
  BY DEF MutexInv, AddClient, RemoveClient, Unlocked
<1>2. \A d \in Conn : pc'[d] # "send"
  BY <1>1 DEF AddClient, RemoveClient, Step, TypeOK
<1>3. UNCHANGED cursor
  BY DEF AddClient, RemoveClient, counts
<1> QED BY <1>1, <1>2, <1>3 DEF LoopInv

\* A write appends the message of the sender to what the entry's user was sent,
\* and moves the sender to the next entry.
LEMMA WriteKeepsLoop ==
    ASSUME TypeOK, TableInv, MutexInv, LoopInv, NEW c \in Conn, WriteSlot(c)
    PROVE  LoopInv'
<1> DEFINE k == cursor[c]
           d == clients[k]
<1>1. /\ k \in Entries
      /\ d \in Conn
      /\ pc[c] = "send"
      /\ UNCHANGED <<clients, pc, kind, lines>>
      /\ cursor' = [cursor EXCEPT ![c] = k + 1]
      /\ live' = [live EXCEPT ![d] = Append(live[d], Current(c))]
  <2>1. pc' = pc
    BY DEF WriteSlot, Step, TypeOK
  <2> QED BY <2>1 DEF WriteSlot, Receives, Step, TypeOK, table
<1>2. \A e \in Conn : pc[e] = "send" => e = c
  BY <1>1 DEF MutexInv
<1>3. Len(live'[d]) > 0 /\ live'[d] # <<>> /\ live'[d][Len(live'[d])] = Current(c)
  <2>1. live'[d] = Append(live[d], Current(c)) /\ live[d] \in Seq(Message)
    BY <1>1 DEF TypeOK
  <2>2. Current(c) \in Message
    BY CurrentIsMessage
  <2> HIDE DEF d
  <2> QED BY <2>1, <2>2
<1>4. ASSUME NEW i \in Entries, i < k + 1, Receives(c, i)
      PROVE  /\ live'[clients[i]] # <<>>
             /\ live'[clients[i]][Len(live'[clients[i]])] = Current(c)
  <2>1. CASE i = k
    BY <2>1, <1>3
  <2>2. CASE i < k
    <3>1. clients[i] # d /\ clients[i] \in Conn
      BY <1>1, <1>4, <2>2 DEF TableInv, TypeOK, Receives
    <3>2. live'[clients[i]] = live[clients[i]]
      BY <1>1, <3>1 DEF TypeOK
    <3> QED BY <1>1, <1>4, <2>2, <3>2 DEF LoopInv
  <2> QED BY <1>1, <1>4, <2>1, <2>2 DEF Entries
<1>5. \A i \in Entries : Receives(c, i)' = Receives(c, i)
  BY <1>1 DEF Receives
<1>6. Current(c)' = Current(c)
  BY <1>1 DEF Current
<1>7. cursor'[c] = k + 1 /\ \A e \in Conn \ {c} : cursor'[e] = cursor[e]
  BY <1>1 DEF TypeOK
<1> SUFFICES ASSUME NEW e \in Conn
             PROVE  /\ pc'[e] # "send" => cursor'[e] = 1
                    /\ pc'[e] = "send" =>
                         \A i \in Entries :
                            i < cursor'[e] /\ Receives(e, i)' =>
                              /\ live'[clients'[i]] # <<>>
                              /\ live'[clients'[i]][Len(live'[clients'[i]])] = Current(e)'
  BY DEF LoopInv, Entries
<1>8. CASE e = c
  BY <1>1, <1>4, <1>5, <1>6, <1>7, <1>8
<1>9. CASE e # c
  BY <1>1, <1>2, <1>7, <1>9 DEF LoopInv
<1> QED BY <1>8, <1>9

\* No step of the server breaks LoopInv.
LEMMA LoopStep == TypeOK /\ TableInv /\ MutexInv /\ LoopInv /\ [Next]_vars => LoopInv'
<1> SUFFICES ASSUME TypeOK, TableInv, MutexInv, LoopInv, [Next]_vars PROVE LoopInv'
  OBVIOUS
<1> USE DEF table, record, counts
<1>1. ASSUME NEW c \in Conn, Environment(c) PROVE LoopInv'
  <2>1. CASE Connect(c)
    BY <2>1, OutsideKeepsLoop DEF Connect
  <2>2. CASE PeerCloses(c) \/ Stall(c) \/ Drain(c)
    BY <2>2, QuietKeepsLoop DEF PeerCloses, Stall, Drain
  <2> QED BY <1>1, <2>1, <2>2 DEF Environment
<1>2. ASSUME NEW c \in Conn, Accept(c) \/ Handshake(c) PROVE LoopInv'
  BY <1>2, OutsideKeepsLoop DEF Accept, Handshake, HandshakeOK, HandshakeFails
<1>3. ASSUME NEW c \in Conn,
             \/ Prompt(c) \/ AnswerEnds(c) \/ Answered(c) \/ AuthReply(c)
             \/ Reject(c) \/ Welcome(c)
      PROVE  LoopInv'
  BY <1>3, OutsideKeepsLoop DEF Prompt, AnswerEnds, Answered, AuthReply, Reject, Welcome
<1>4. ASSUME NEW c \in Conn, AddClient(c) \/ RemoveClient(c) PROVE LoopInv'
  BY <1>4, TableChangeKeepsLoop
<1>5. ASSUME NEW c \in Conn, Lock(c) PROVE LoopInv'
  <2>1. pc[c] = "lock" /\ UNCHANGED <<clients, live, cursor, kind, lines>>
    BY <1>5 DEF Lock, Step
  <2>2. cursor[c] = 1
    BY <2>1 DEF LoopInv
  <2>3. \A d \in Conn : pc[d] # "send"
    BY <1>5 DEF MutexInv, Lock, Unlocked
  <2>4. \A d \in Conn : pc'[d] = "send" => d = c
    BY <1>5, <2>3 DEF Lock, Step, TypeOK
  <2>5. \A i \in Entries : ~ (i < 1)
    BY DEF Entries
  <2> QED BY <2>1, <2>2, <2>3, <2>4, <2>5 DEF LoopInv
<1>6. ASSUME NEW c \in Conn, SkipSlot(c) PROVE LoopInv'
  <2>1. /\ cursor[c] \in Entries
        /\ ~ Receives(c, cursor[c])
        /\ UNCHANGED <<clients, live, pc, kind, lines>>
        /\ cursor' = [cursor EXCEPT ![c] = cursor[c] + 1]
        /\ pc[c] = "send"
    <3>1. pc' = pc
      BY <1>6 DEF SkipSlot, Step, TypeOK
    <3> QED BY <1>6, <3>1 DEF SkipSlot, AfterSkip, Step
  <2>2. \A d \in Conn : cursor'[d] = IF d = c THEN cursor[c] + 1 ELSE cursor[d]
    BY <2>1 DEF TypeOK
  <2>3. \A i \in Entries : i < cursor[c] + 1 => i < cursor[c] \/ i = cursor[c]
    BY <2>1 DEF Entries
  <2> QED BY <2>1, <2>2, <2>3 DEF LoopInv, Receives, Current
<1>7. ASSUME NEW c \in Conn, WriteSlot(c) PROVE LoopInv'
  BY <1>7, WriteKeepsLoop
<1>8. ASSUME NEW c \in Conn, Unlock(c) PROVE LoopInv'
  <2>1. /\ UNCHANGED <<clients, live, kind, lines>>
        /\ \A d \in Conn : cursor'[d] = IF d = c THEN 1 ELSE cursor[d]
        /\ \A d \in Conn : pc'[d] = IF d = c THEN "save" ELSE pc[d]
    BY <1>8 DEF Unlock, Step, TypeOK
  <2> QED BY <2>1 DEF LoopInv, Receives, Current
<1>9. ASSUME NEW c \in Conn, SaveChatLog(c) PROVE LoopInv'
  BY <1>9, OutsideKeepsLoop DEF SaveChatLog, AfterSave, TypeOK, Kinds
<1>10. ASSUME NEW c \in Conn,
              \/ HistLine(c) \/ HistEnd(c) \/ ReadEnd(c) \/ Shutdown(c) \/ Free(c)
       PROVE  LoopInv'
  <2>1. CASE ReadEnd(c)
    <3>1. \A d \in Conn \ {c} : kind'[d] = kind[d] /\ lines'[d] = lines[d]
      BY <2>1 DEF ReadEnd, TypeOK
    <3> QED BY <2>1, <3>1, OutsideKeepsLoop DEF ReadEnd
  <2> QED BY <1>10, <2>1, OutsideKeepsLoop DEF HistLine, HistEnd, Shutdown, Free
<1>11. ASSUME NEW c \in Conn, ReadLine(c) PROVE LoopInv'
  <2>1. \A d \in Conn \ {c} : kind'[d] = kind[d] /\ lines'[d] = lines[d]
    BY <1>11 DEF ReadLine, TypeOK
  <2> QED BY <1>11, <2>1, OutsideKeepsLoop DEF ReadLine
<1>12. ASSUME (\E c \in Conn : KilledWriting(c)) \/ SslRace \/ Idle \/ UNCHANGED vars
       PROVE  LoopInv'
  BY <1>12, QuietKeepsLoop DEF KilledWriting, SslRace, Idle, vars
<1> QED
  BY <1>1, <1>2, <1>3, <1>4, <1>5, <1>6, <1>7, <1>8, <1>9, <1>10, <1>11, <1>12
     DEF Next, Serve
-----------------------------------------------------------------------------
\* The inductive invariant holds of every reachable state.
THEOREM Invariance == Spec => []IInv
<1>1. Init => TableInv /\ SslInv /\ MutexInv /\ LoopInv
  BY DEF Init, TableInv, SslInv, MutexInv, LoopInv, Entries
<1>2. TypeOK /\ TableInv /\ SslInv /\ MutexInv /\ LoopInv /\ [Next]_vars
        => TableInv' /\ SslInv' /\ MutexInv' /\ LoopInv'
  BY TableStep, SslStep, MutexStep, LoopStep
<1> QED BY <1>1, <1>2, TypeCorrect, PTL DEF Spec, IInv

\* The SSL object in every active entry of the table is live: no broadcast uses
\* one that a leaving thread has freed.
THEOREM TableIsLive == Spec => []RegisteredIsLive
<1>1. IInv => RegisteredIsLive
  <2> SUFFICES ASSUME IInv, NEW i \in Entries, clients[i] # None
               PROVE  ssl[clients[i]] = "live"
    BY DEF RegisteredIsLive
  <2>1. clients[i] \in Conn /\ pc[clients[i]] \in InRoom
    BY DEF IInv, TypeOK, TableInv
  <2> QED BY <2>1 DEF IInv, SslInv, InRoom
<1> QED BY <1>1, Invariance, PTL

\* When a broadcast leaves the loop its message is the last one delivered to
\* every user it is for.
THEOREM BroadcastsReachAll == Spec => []BroadcastReachesMembers
<1>1. IInv => BroadcastReachesMembers
  BY DEF IInv, TypeOK, LoopInv, BroadcastReachesMembers, Entries
<1> QED BY <1>1, Invariance, PTL
-----------------------------------------------------------------------------
(* That all users see the live messages in one order, and none twice.  The *)
(* order is that of the broadcasts: the message of the one that holds the  *)
(* mutex is the last of everybody who has it, and a thread's messages all  *)
(* differ.                                                                 *)

\* The messages broadcast to c so far.
Heard(c) == {live[c][i] : i \in 1 .. Len(live[c])}

\* Where a thread has not broadcast anything.
NotYet == {"off", "backlog", "handshake", "auth", "reply", "welcome", "reject", "add"}

\* A thread that may read has not announced its departure.
KindInv == \A a \in Conn : pc[a] \in {"hist", "read"} => kind[a] # "leave"

\* What users have from a thread is no later than its current message, and earlier
\* where that is waiting for the mutex.
PastInv ==
    \A c \in Conn : \A m \in Heard(c) :
       /\ pc[m.from] \notin NotYet
       /\ m.n <= lines[m.from]
       /\ m.kind = "leave" => kind[m.from] = "leave"
       /\ pc[m.from] = "lock" => m # Current(m.from)

\* The message being broadcast is the last of those who have it, and has not
\* reached the entries from the index on.
LastInv ==
    \A a \in Conn : pc[a] = "send" =>
       /\ \A c \in Conn : \A i \in 1 .. Len(live[c]) :
             live[c][i] = Current(a) => i = Len(live[c])
       /\ \A j \in Entries :
             j >= cursor[a] /\ clients[j] # None => Current(a) \notin Heard(clients[j])

OrderInv == KindInv /\ PastInv /\ LastInv /\ TotalOrder
-----------------------------------------------------------------------------
\* What is heard are messages.
LEMMA HeardTyped ==
    ASSUME TypeOK, NEW c \in Conn, NEW m \in Heard(c)
    PROVE  m \in Message /\ m.from \in Conn /\ m.n \in Nat
<1>1. live[c] \in Seq(Message)
  BY DEF TypeOK
<1>2. m \in Message
  BY <1>1 DEF Heard
<1> QED BY <1>2, ChatAssumption DEF Message

\* Steps that deliver nothing, change no message and bring nobody to the mutex.
LEMMA QuietKeepsPast ==
    ASSUME TypeOK, PastInv, UNCHANGED <<live, kind, lines>>,
           \A a \in Conn : pc[a] \notin NotYet => pc'[a] \notin NotYet,
           \A a \in Conn : pc'[a] = "lock" => pc[a] = "lock"
    PROVE  PastInv'
<1>1. \A c \in Conn : Heard(c)' = Heard(c)
  BY DEF Heard
<1> QED BY <1>1, HeardTyped DEF PastInv, Current

\* A thread comes to the mutex with a message that it has not sent.
LEMMA NewMessageKeepsPast ==
    ASSUME TypeOK, PastInv, live' = live, NEW a \in Conn,
           pc' = [pc EXCEPT ![a] = "lock"],
           \A d \in Conn \ {a} : kind'[d] = kind[d] /\ lines'[d] = lines[d],
           \A c \in Conn : \A m \in Heard(c) : m.from = a =>
              /\ m.n <= lines'[a]
              /\ m.kind = "leave" => kind'[a] = "leave"
              /\ m # Current(a)'
    PROVE  PastInv'
<1>1. \A c \in Conn : Heard(c)' = Heard(c)
  BY DEF Heard
<1>2. pc'[a] = "lock" /\ \A d \in Conn \ {a} : pc'[d] = pc[d]
  BY DEF TypeOK
<1>3. ASSUME NEW c \in Conn, NEW m \in Heard(c)
      PROVE  /\ pc'[m.from] \notin NotYet
             /\ m.n <= lines'[m.from]
             /\ m.kind = "leave" => kind'[m.from] = "leave"
             /\ pc'[m.from] = "lock" => m # Current(m.from)'
  <2>1. CASE m.from = a
    BY <1>2, <2>1 DEF NotYet
  <2>2. CASE m.from # a
    BY <1>2, <2>2, HeardTyped DEF PastInv, Current
  <2> QED BY <2>1, <2>2
<1> QED BY <1>1, <1>3 DEF PastInv

\* Steps outside the loop that leave the table, the indices and the deliveries.
LEMMA QuietKeepsLast ==
    ASSUME TypeOK, LastInv, UNCHANGED <<clients, live, cursor>>,
           \A d \in Conn : pc'[d] = "send" => pc[d] = "send",
           \A d \in Conn : pc[d] = "send" => kind'[d] = kind[d] /\ lines'[d] = lines[d]
    PROVE  LastInv'
BY DEF LastInv, Heard, Current, Entries

\* The step of a thread from one point to another, neither in the loop.
LEMMA OutsideKeepsLast ==
    ASSUME TypeOK, LastInv, UNCHANGED <<clients, live, cursor>>,
           NEW c \in Conn, NEW from, NEW to, Step(c, from, to),
           from # "send", to # "send",
           \A d \in Conn \ {c} : kind'[d] = kind[d] /\ lines'[d] = lines[d]
    PROVE  LastInv'
<1>1. \A d \in Conn : pc'[d] = "send" => pc[d] = "send"
  BY DEF TypeOK, Step
<1>2. \A d \in Conn : pc[d] = "send" => kind'[d] = kind[d] /\ lines'[d] = lines[d]
  BY DEF Step
<1> QED BY <1>1, <1>2, QuietKeepsLast

\* Nobody is in the loop: nothing is being broadcast.
LEMMA NobodySends ==
    ASSUME \A a \in Conn : pc'[a] # "send"
    PROVE  LastInv'
BY DEF LastInv
-----------------------------------------------------------------------------
\* A write adds the message of the thread in the loop to what one user has heard.
LEMMA Written ==
    ASSUME IInv, NEW a \in Conn, WriteSlot(a)
    PROVE  \E d \in Conn :
              /\ cursor[a] \in Entries /\ clients[cursor[a]] = d
              /\ pc[a] = "send" /\ pc' = pc /\ kind' = kind /\ lines' = lines
              /\ clients' = clients
              /\ cursor'[a] = cursor[a] + 1
              /\ Len(live[d]) \in Nat /\ Len(live'[d]) = Len(live[d]) + 1
              /\ live'[d][Len(live[d]) + 1] = Current(a)
              /\ \A i \in 1 .. Len(live[d]) : live'[d][i] = live[d][i]
              /\ \A c \in Conn \ {d} : live'[c] = live[c]
<1> USE DEF IInv
<1>1. PICK d \in Conn : d = clients[cursor[a]]
  BY DEF WriteSlot, Receives, TypeOK
<1>2. pc' = pc /\ pc[a] = "send"
  BY DEF WriteSlot, Step, TypeOK
<1>3. live' = [live EXCEPT ![d] = Append(live[d], Current(a))]
  BY <1>1 DEF WriteSlot
<1>4. live[d] \in Seq(Message) /\ Current(a) \in Message
  BY CurrentIsMessage DEF TypeOK
<1>5. live'[d] = Append(live[d], Current(a)) /\ \A c \in Conn \ {d} : live'[c] = live[c]
  BY <1>3 DEF TypeOK
<1>6. /\ Len(live[d]) \in Nat /\ Len(live'[d]) = Len(live[d]) + 1
      /\ live'[d][Len(live[d]) + 1] = Current(a)
      /\ \A i \in 1 .. Len(live[d]) : live'[d][i] = live[d][i]
  BY <1>4, <1>5
<1>7. cursor'[a] = cursor[a] + 1
  BY DEF WriteSlot, TypeOK
<1> QED BY <1>1, <1>2, <1>5, <1>6, <1>7 DEF WriteSlot, table

\* A write keeps the order: what it adds is the last of everybody who has it.
LEMMA WriteKeepsOrder ==
    ASSUME IInv, OrderInv, NEW a \in Conn, WriteSlot(a)
    PROVE  OrderInv'
<1> USE DEF IInv, OrderInv
<1>1. PICK d \in Conn :
         /\ cursor[a] \in Entries /\ clients[cursor[a]] = d
         /\ pc[a] = "send" /\ pc' = pc /\ kind' = kind /\ lines' = lines
         /\ clients' = clients
         /\ cursor'[a] = cursor[a] + 1
         /\ Len(live[d]) \in Nat /\ Len(live'[d]) = Len(live[d]) + 1
         /\ live'[d][Len(live[d]) + 1] = Current(a)
         /\ \A i \in 1 .. Len(live[d]) : live'[d][i] = live[d][i]
         /\ \A c \in Conn \ {d} : live'[c] = live[c]
  BY Written
<1>2. PICK m : m = Current(a)
  OBVIOUS
<1>3. Current(a)' = m /\ m.from = a /\ m.n = lines[a] /\ m.kind = kind[a] /\ lines[a] \in Nat
  BY <1>1, <1>2, ChatAssumption DEF Current, TypeOK
<1>4. Heard(d)' = Heard(d) \cup {m} /\ \A c \in Conn \ {d} : Heard(c)' = Heard(c)
  <2>1. 1 .. Len(live'[d]) = 1 .. Len(live[d]) \cup {Len(live[d]) + 1}
    BY <1>1
  <2>2. \A c \in Conn : Heard(c)' = {live'[c][i] : i \in 1 .. Len(live'[c])}
    BY DEF Heard
  <2>3. Heard(d)' = {live'[d][i] : i \in 1 .. Len(live[d])} \cup {live'[d][Len(live[d]) + 1]}
    BY <2>1, <2>2
  <2>4. {live'[d][i] : i \in 1 .. Len(live[d])} = Heard(d)
    BY <1>1 DEF Heard
  <2>5. \A c \in Conn \ {d} : Heard(c)' = Heard(c)
    BY <1>1, <2>2 DEF Heard
  <2> QED BY <1>1, <1>2, <2>3, <2>4, <2>5
<1>5. m \notin Heard(d)
  <2>1. cursor[a] >= cursor[a] /\ clients[cursor[a]] # None
    BY <1>1, ChatAssumption DEF Entries
  <2> QED BY <1>1, <1>2, <2>1 DEF LastInv
<1>6. KindInv'
  BY <1>1 DEF KindInv
<1>7. PastInv'
  <2>1. ASSUME NEW c \in Conn, NEW x \in Heard(c)'
        PROVE  /\ pc[x.from] \notin NotYet
               /\ x.n <= lines[x.from]
               /\ x.kind = "leave" => kind[x.from] = "leave"
               /\ pc[x.from] = "lock" => x # Current(x.from)
    <3>1. CASE x = m
      BY <1>1, <1>3, <3>1 DEF NotYet
    <3>2. CASE x # m
      BY <1>4, <3>2 DEF PastInv
    <3> QED BY <3>1, <3>2
  <2> QED BY <1>1, <2>1 DEF PastInv, Current
<1>8. \A b \in Conn : pc[b] = "send" => b = a
  BY <1>1 DEF MutexInv
<1>9. \A c \in Conn : \A i \in 1 .. Len(live'[c]) : live'[c][i] = m => i = Len(live'[c])
  <2>1. ASSUME NEW i \in 1 .. Len(live'[d]), live'[d][i] = m PROVE i = Len(live'[d])
    <3>1. i \in 1 .. Len(live[d]) => live'[d][i] \in Heard(d)
      BY <1>1 DEF Heard
    <3> QED BY <1>1, <1>5, <2>1, <3>1
  <2>2. ASSUME NEW c \in Conn \ {d}, NEW i \in 1 .. Len(live'[c]), live'[c][i] = m
        PROVE  i = Len(live'[c])
    BY <1>1, <1>2, <2>2 DEF LastInv
  <2> QED BY <2>1, <2>2
<1>10. LastInv'
  <2>1. ASSUME NEW j \in Entries, j >= cursor[a] + 1, clients[j] # None
        PROVE  m \notin Heard(clients[j])'
    <3>1. j # cursor[a] /\ j >= cursor[a]
      BY <1>1, <2>1 DEF Entries
    <3>2. PICK e \in Conn \ {d} : e = clients[j]
      BY <1>1, <2>1, <3>1 DEF TableInv, TypeOK
    <3>3. m \notin Heard(e)
      BY <1>1, <1>2, <2>1, <3>1, <3>2 DEF LastInv
    <3>4. m \notin Heard(e)'
      BY <1>4, <3>3
    <3> QED BY <1>1, <3>2, <3>4
  <2>2. \A j \in Entries : j >= cursor'[a] /\ clients'[j] # None => m \notin Heard(clients[j])'
    BY <1>1, <2>1
  <2>3. \A b \in Conn : pc'[b] = "send" => b = a
    BY <1>1, <1>8
  <2> QED BY <1>1, <1>3, <1>9, <2>2, <2>3 DEF LastInv
<1>11. TotalOrder'
  <2> SUFFICES ASSUME NEW c \in Conn, NEW e \in Conn,
                      NEW i \in 1 .. Len(live'[c]), NEW j \in 1 .. Len(live'[c]), i < j,
                      NEW p \in 1 .. Len(live'[e]), NEW q \in 1 .. Len(live'[e]), p < q,
                      live'[e][p] = live'[c][j], live'[e][q] = live'[c][i]
               PROVE  FALSE
    BY DEF TotalOrder, Before
  <2>0. Len(live'[c]) \in Nat /\ Len(live'[e]) \in Nat /\ Len(live[c]) \in Nat
        /\ Len(live[e]) \in Nat
    <3>1. \A b \in Conn : live[b] \in Seq(Message)
      BY DEF TypeOK
    <3>2. \A b \in Conn : Len(live[b]) \in Nat
      BY <3>1
    <3> QED BY <1>1, <3>2
  <2>1. live'[c][i] # m
    BY <1>9, <2>0
  <2>2. live'[e][p] # m
    BY <1>9, <2>0
  <2>3. \A b \in Conn : \A k \in 1 .. Len(live'[b]) : live'[b][k] # m =>
           k \in 1 .. Len(live[b]) /\ live'[b][k] = live[b][k]
    BY <1>1, <1>2
  <2>4. i \in 1 .. Len(live[c]) /\ j \in 1 .. Len(live[c])
        /\ live'[c][i] = live[c][i] /\ live'[c][j] = live[c][j]
    BY <2>1, <2>2, <2>3
  <2>5. p \in 1 .. Len(live[e]) /\ q \in 1 .. Len(live[e])
        /\ live'[e][p] = live[e][p] /\ live'[e][q] = live[e][q]
    BY <2>1, <2>2, <2>3
  <2>6. Before(live[e], live[c][j], live[c][i])
    BY <2>4, <2>5 DEF Before
  <2> QED BY <2>4, <2>6 DEF TotalOrder
<1> QED BY <1>6, <1>7, <1>10, <1>11
-----------------------------------------------------------------------------
\* No step of the server breaks KindInv.
LEMMA KindStep == IInv /\ KindInv /\ [Next]_vars => KindInv'
<1> SUFFICES ASSUME IInv, KindInv, [Next]_vars PROVE KindInv'
  OBVIOUS
<1> USE DEF IInv, TypeOK, KindInv, Step, counts
<1>1. ASSUME NEW c \in Conn, Environment(c) PROVE KindInv'
  BY <1>1 DEF Environment, Connect, PeerCloses, Stall, Drain
<1>2. ASSUME NEW c \in Conn, Accept(c) \/ Handshake(c) PROVE KindInv'
  BY <1>2 DEF Accept, Handshake, HandshakeOK, HandshakeFails
<1>3. ASSUME NEW c \in Conn,
             \/ Prompt(c) \/ AnswerEnds(c) \/ Answered(c) \/ AuthReply(c)
             \/ Reject(c) \/ Welcome(c)
      PROVE  KindInv'
  BY <1>3 DEF Prompt, AnswerEnds, Answered, AuthReply, Reject, Welcome
<1>4. ASSUME NEW c \in Conn, AddClient(c) \/ RemoveClient(c) \/ Lock(c) \/ Unlock(c)
      PROVE  KindInv'
  BY <1>4 DEF AddClient, RemoveClient, Lock, Unlock
<1>5. ASSUME NEW c \in Conn, SkipSlot(c) \/ WriteSlot(c) PROVE KindInv'
  BY <1>5 DEF SkipSlot, WriteSlot
<1>6. ASSUME NEW c \in Conn, SaveChatLog(c) PROVE KindInv'
  BY <1>6 DEF SaveChatLog, AfterSave, Kinds
<1>7. ASSUME NEW c \in Conn, HistLine(c) \/ HistEnd(c) \/ Shutdown(c) \/ Free(c)
      PROVE  KindInv'
  BY <1>7 DEF HistLine, HistEnd, Shutdown, Free
<1>8. ASSUME NEW c \in Conn, ReadLine(c) \/ ReadEnd(c) PROVE KindInv'
  BY <1>8 DEF ReadLine, ReadEnd
<1>9. ASSUME (\E c \in Conn : KilledWriting(c)) \/ SslRace \/ Idle \/ UNCHANGED vars
      PROVE  KindInv'
  BY <1>9 DEF KilledWriting, SslRace, Idle, vars
<1> QED
  BY <1>1, <1>2, <1>3, <1>4, <1>5, <1>6, <1>7, <1>8, <1>9 DEF Next, Serve

\* No step but WriteSlot breaks PastInv.
LEMMA PastStep ==
    ASSUME IInv, KindInv, PastInv, [Next]_vars, ~ \E c \in Conn : WriteSlot(c)
    PROVE  PastInv'
<1> USE DEF IInv, Step, record, counts, NotYet
<1>0. pc \in [Conn -> PCs]
  BY DEF TypeOK
<1>1. ASSUME NEW c \in Conn, Environment(c) PROVE PastInv'
  BY <1>0, <1>1, QuietKeepsPast DEF Environment, Connect, PeerCloses, Stall, Drain
<1>2. ASSUME NEW c \in Conn, Accept(c) \/ Handshake(c) PROVE PastInv'
  BY <1>0, <1>2, QuietKeepsPast DEF Accept, Handshake, HandshakeOK, HandshakeFails
<1>3. ASSUME NEW c \in Conn,
             \/ Prompt(c) \/ AnswerEnds(c) \/ Answered(c) \/ AuthReply(c)
             \/ Reject(c) \/ Welcome(c)
      PROVE  PastInv'
  BY <1>0, <1>3, QuietKeepsPast DEF Prompt, AnswerEnds, Answered, AuthReply, Reject, Welcome
<1>4. ASSUME NEW c \in Conn, AddClient(c) PROVE PastInv'
  <2>1. \A d \in Conn : \A m \in Heard(d) : m.from # c
    BY <1>4 DEF AddClient, PastInv
  <2>2. pc' = [pc EXCEPT ![c] = "lock"] /\ live' = live /\ kind' = kind /\ lines' = lines
    BY <1>4 DEF AddClient
  <2> QED BY <2>1, <2>2, NewMessageKeepsPast
<1>5. ASSUME NEW c \in Conn, RemoveClient(c) \/ Lock(c) \/ Unlock(c) \/ SkipSlot(c)
      PROVE  PastInv'
  BY <1>0, <1>5, QuietKeepsPast DEF RemoveClient, Lock, Unlock, SkipSlot
<1>6. ASSUME NEW c \in Conn, SaveChatLog(c) PROVE PastInv'
  <2>1. AfterSave(kind[c]) \in {"hist", "read", "remove"}
    BY DEF AfterSave, TypeOK, Kinds
  <2> QED BY <1>0, <1>6, <2>1, QuietKeepsPast DEF SaveChatLog
<1>7. ASSUME NEW c \in Conn, HistLine(c) \/ HistEnd(c) \/ Shutdown(c) \/ Free(c)
      PROVE  PastInv'
  BY <1>0, <1>7, QuietKeepsPast DEF HistLine, HistEnd, Shutdown, Free
<1>8. ASSUME NEW c \in Conn, ReadLine(c) PROVE PastInv'
  <2>1. /\ pc[c] = "read" /\ pc' = [pc EXCEPT ![c] = "lock"] /\ live' = live
        /\ lines'[c] = lines[c] + 1 /\ lines[c] \in Nat
        /\ \A d \in Conn \ {c} : kind'[d] = kind[d] /\ lines'[d] = lines[d]
    BY <1>8, ChatAssumption DEF ReadLine, TypeOK
  <2>2. kind[c] # "leave"
    BY <2>1 DEF KindInv
  <2>3. \A d \in Conn : \A m \in Heard(d) : m.from = c =>
           /\ m.n <= lines'[c] /\ m.n # lines'[c] /\ m.kind # "leave"
    BY <2>1, <2>2, HeardTyped DEF PastInv
  <2>4. Current(c)'.n = lines'[c]
    BY DEF Current
  <2>5. \A d \in Conn : \A m \in Heard(d) : m.from = c => m # Current(c)'
    BY <2>3, <2>4
  <2> QED BY <2>1, <2>3, <2>5, NewMessageKeepsPast
<1>9. ASSUME NEW c \in Conn, ReadEnd(c) PROVE PastInv'
  <2>1. /\ pc[c] = "read" /\ pc' = [pc EXCEPT ![c] = "lock"] /\ live' = live
        /\ lines' = lines /\ kind'[c] = "leave"
        /\ \A d \in Conn \ {c} : kind'[d] = kind[d]
    BY <1>9 DEF ReadEnd, TypeOK
  <2>2. kind[c] # "leave"
    BY <2>1 DEF KindInv
  <2>3. \A d \in Conn : \A m \in Heard(d) : m.from = c =>
           m.n <= lines'[c] /\ m.kind # "leave"
    BY <2>1, <2>2 DEF PastInv
  <2>4. Current(c)'.kind = "leave"
    BY <2>1 DEF Current
  <2>5. \A d \in Conn : \A m \in Heard(d) : m.from = c => m # Current(c)'
    BY <2>3, <2>4
  <2> QED BY <2>1, <2>3, <2>5, NewMessageKeepsPast
<1>10. ASSUME (\E c \in Conn : KilledWriting(c)) \/ SslRace \/ Idle \/ UNCHANGED vars
       PROVE  PastInv'
  BY <1>10, QuietKeepsPast DEF KilledWriting, SslRace, Idle, vars
<1> QED
  BY <1>1, <1>2, <1>3, <1>4, <1>5, <1>6, <1>7, <1>8, <1>9, <1>10 DEF Next, Serve

\* No step but WriteSlot breaks LastInv.
LEMMA LastStep ==
    ASSUME IInv, PastInv, LastInv, [Next]_vars, ~ \E c \in Conn : WriteSlot(c)
    PROVE  LastInv'
<1> USE DEF IInv, table, record, counts
<1>0. pc \in [Conn -> PCs]
  BY DEF TypeOK
<1>1. ASSUME NEW c \in Conn, Environment(c) PROVE LastInv'
  <2>1. CASE Connect(c)
    BY <2>1, OutsideKeepsLast DEF Connect
  <2>2. CASE PeerCloses(c) \/ Stall(c) \/ Drain(c)
    BY <2>2, QuietKeepsLast DEF PeerCloses, Stall, Drain
  <2> QED BY <1>1, <2>1, <2>2 DEF Environment
<1>2. ASSUME NEW c \in Conn, Accept(c) \/ Handshake(c) PROVE LastInv'
  BY <1>2, OutsideKeepsLast DEF Accept, Handshake, HandshakeOK, HandshakeFails
<1>3. ASSUME NEW c \in Conn,
             \/ Prompt(c) \/ AnswerEnds(c) \/ Answered(c) \/ AuthReply(c)
             \/ Reject(c) \/ Welcome(c)
      PROVE  LastInv'
  BY <1>3, OutsideKeepsLast DEF Prompt, AnswerEnds, Answered, AuthReply, Reject, Welcome
<1>4. ASSUME NEW c \in Conn, AddClient(c) \/ RemoveClient(c) PROVE LastInv'
  <2>1. \A a \in Conn : pc[a] # "send"
    BY <1>4, ChatAssumption DEF AddClient, RemoveClient, Unlocked, MutexInv
  <2> QED BY <1>0, <1>4, <2>1, NobodySends DEF AddClient, RemoveClient, Step
<1>5. ASSUME NEW c \in Conn, Lock(c) PROVE LastInv'
  <2>1. \A a \in Conn : pc[a] # "send"
    BY <1>5, ChatAssumption DEF Lock, Unlocked, MutexInv
  <2>2. /\ pc[c] = "lock" /\ \A a \in Conn : pc'[a] = "send" => a = c
        /\ clients' = clients /\ live' = live /\ kind' = kind /\ lines' = lines
    BY <1>0, <1>5, <2>1 DEF Lock, Step
  <2>3. Current(c).from = c /\ Current(c)' = Current(c)
    BY <2>2 DEF Current
  <2>4. \A d \in Conn : Current(c) \notin Heard(d)
    BY <2>2, <2>3 DEF PastInv
  <2>5. \A d \in Conn : \A i \in 1 .. Len(live[d]) : live[d][i] # Current(c)
    BY <2>4 DEF Heard
  <2>6. \A j \in Entries : clients[j] # None => clients[j] \in Conn
    BY DEF TypeOK
  <2>7. \A d \in Conn : Heard(d)' = Heard(d)
    BY <2>2 DEF Heard
  <2> QED BY <2>2, <2>3, <2>4, <2>5, <2>6, <2>7 DEF LastInv, Entries
<1>6. ASSUME NEW c \in Conn, SkipSlot(c) PROVE LastInv'
  <2>1. /\ pc' = pc /\ clients' = clients /\ live' = live /\ kind' = kind /\ lines' = lines
        /\ cursor'[c] = cursor[c] + 1 /\ cursor[c] \in Nat
        /\ \A a \in Conn \ {c} : cursor'[a] = cursor[a]
    BY <1>6, ChatAssumption DEF SkipSlot, AfterSkip, Step, TypeOK, Entries
  <2>2. \A j \in Entries : j >= cursor[c] + 1 => j >= cursor[c]
    BY <2>1 DEF Entries
  <2>3. \A a \in Conn : \A j \in Entries : j >= cursor'[a] => j >= cursor[a]
    BY <2>1, <2>2
  <2>4. \A a \in Conn : Current(a)' = Current(a) /\ Heard(a)' = Heard(a)
    BY <2>1 DEF Current, Heard
  <2>5. \A j \in Entries : clients[j] # None => clients[j] \in Conn
    BY DEF TypeOK
  <2> QED BY <2>1, <2>3, <2>4, <2>5 DEF LastInv, Entries
<1>7. ASSUME NEW c \in Conn, Unlock(c) PROVE LastInv'
  <2>1. \A a \in Conn : pc'[a] # "send"
    BY <1>0, <1>7 DEF Unlock, Step, MutexInv
  <2> QED BY <2>1, NobodySends
<1>8. ASSUME NEW c \in Conn, SaveChatLog(c) PROVE LastInv'
  BY <1>8, OutsideKeepsLast DEF SaveChatLog, AfterSave, TypeOK, Kinds
<1>9. ASSUME NEW c \in Conn,
             \/ HistLine(c) \/ HistEnd(c) \/ ReadEnd(c) \/ Shutdown(c) \/ Free(c)
      PROVE  LastInv'
  <2>1. CASE ReadEnd(c)
    <3>1. \A d \in Conn \ {c} : kind'[d] = kind[d] /\ lines'[d] = lines[d]
      BY <2>1 DEF ReadEnd, TypeOK
    <3> QED BY <2>1, <3>1, OutsideKeepsLast DEF ReadEnd
  <2> QED BY <1>9, <2>1, OutsideKeepsLast DEF HistLine, HistEnd, Shutdown, Free
<1>10. ASSUME NEW c \in Conn, ReadLine(c) PROVE LastInv'
  <2>1. \A d \in Conn \ {c} : kind'[d] = kind[d] /\ lines'[d] = lines[d]
    BY <1>10 DEF ReadLine, TypeOK
  <2> QED BY <1>10, <2>1, OutsideKeepsLast DEF ReadLine
<1>11. ASSUME (\E c \in Conn : KilledWriting(c)) \/ SslRace \/ Idle \/ UNCHANGED vars
       PROVE  LastInv'
  BY <1>11, QuietKeepsLast DEF KilledWriting, SslRace, Idle, vars
<1> QED
  BY <1>1, <1>2, <1>3, <1>4, <1>5, <1>6, <1>7, <1>8, <1>9, <1>10, <1>11 DEF Next, Serve

\* Only WriteSlot delivers anything.
LEMMA OnlyWritesDeliver ==
    ASSUME [Next]_vars, ~ \E c \in Conn : WriteSlot(c)
    PROVE  live' = live
BY DEF Next, Serve, Environment, Handshake, Connect, PeerCloses, Stall, Drain, Accept,
   HandshakeOK, HandshakeFails, Prompt, AnswerEnds, Answered, AuthReply, Reject, Welcome,
   AddClient, Lock, SkipSlot, Unlock, SaveChatLog, HistLine, HistEnd, ReadLine, ReadEnd,
   RemoveClient, Shutdown, Free, KilledWriting, SslRace, Idle, vars, record

\* The order is an invariant.
THEOREM Ordering == Spec => []OrderInv
<1>1. Init => OrderInv
  BY DEF Init, OrderInv, KindInv, PastInv, LastInv, TotalOrder, Heard
<1>2. IInv /\ OrderInv /\ [Next]_vars => OrderInv'
  <2> SUFFICES ASSUME IInv, OrderInv, [Next]_vars PROVE OrderInv'
    OBVIOUS
  <2>1. CASE \E c \in Conn : WriteSlot(c)
    BY <2>1, WriteKeepsOrder
  <2>2. CASE ~ \E c \in Conn : WriteSlot(c)
    <3>1. KindInv' /\ PastInv' /\ LastInv'
      BY <2>2, KindStep, PastStep, LastStep DEF OrderInv
    <3>2. TotalOrder'
      BY <2>2, OnlyWritesDeliver DEF OrderInv, TotalOrder, Before
    <3> QED BY <3>1, <3>2 DEF OrderInv
  <2> QED BY <2>1, <2>2
<1> QED BY <1>1, <1>2, Invariance, PTL DEF Spec

\* Two users who see two messages live see them in one order, and nobody sees a
\* message twice.
THEOREM OneOrderForAll == Spec => []TotalOrder
<1>1. OrderInv => TotalOrder
  BY DEF OrderInv
<1> QED BY <1>1, Ordering, PTL
-----------------------------------------------------------------------------
(* The log.  What follows holds as long as fopen does not fail for want of *)
(* a descriptor: none is given back when a user leaves, so the process     *)
(* must be allowed more than the connections it will ever accept.          *)

\* There is a descriptor for the log beside those of all connections.
Spared == Cardinality(Conn) < MaxFds

\* Then fopen succeeds whenever it is called.
LEMMA SparedLeft == Spared => FdLeft
<1> DEFINE held == {c \in Conn : fd[c] = "open"}
<1>1. held \subseteq Conn /\ IsFiniteSet(Conn)
  BY ChatAssumption
<1>2. IsFiniteSet(held) /\ Cardinality(held) <= Cardinality(Conn)
  BY <1>1, FS_Subset
<1>3. Cardinality(held) \in Nat /\ Cardinality(Conn) \in Nat /\ MaxFds \in Nat
  BY <1>1, <1>2, FS_CardinalityType, ChatAssumption
<1> QED BY <1>2, <1>3 DEF Spared, FdLeft

Joining(c) == [from |-> c, kind |-> "join", n |-> 0]

\* What the log holds of a thread, from where the thread is: nothing before it
\* has saved its join; what comes before the message it is sending; and the
\* message it has sent from then on.
StoryInv ==
    \A c \in Conn :
       /\ pc[c] \in NotYet => kind[c] = "join"
       /\ pc[c] = "hist" => kind[c] = "join"
       /\ kind[c] = "join" => lines[c] = 0
       /\ pc[c] \in NotYet \cup {"lock", "send", "save"} /\ kind[c] = "join" => Logged(c) = {}
       /\ pc[c] \in {"lock", "send", "save"} /\ kind[c] # "join" =>
             \E i \in Logged(c) : LoggedLast(c, i) /\ Follows(chatlog[i], Current(c))
       /\ pc[c] \in {"hist", "read", "remove"} =>
             \E i \in Logged(c) : LoggedLast(c, i) /\ chatlog[i] = Current(c)
       /\ pc[c] \in {"shutdown", "free"} /\ Logged(c) # {} =>
             \E i \in Logged(c) : LoggedLast(c, i) /\ chatlog[i] = Current(c)

\* Each line of a thread is its join, or follows the one before it.
ChainInv ==
    \A c \in Conn : \A i \in Logged(c) :
       \/ chatlog[i] = Joining(c) /\ \A j \in Logged(c) : i <= j
       \/ \E h \in Logged(c) : /\ h < i /\ \A j \in Logged(c) : j <= h \/ i <= j
                               /\ Follows(chatlog[h], chatlog[i])

\* A thread that has replayed the log has replayed its own join.
ReplayInv ==
    \A c \in Conn : pc[c] = "read" \/ kind[c] # "join" =>
       \E i \in 1 .. hist[c] : i \in Logged(c) /\ chatlog[i] = Joining(c)

LogInv == StoryInv /\ ChainInv /\ ReplayInv

\* A thread moves while nothing is logged and no message changes: within a stage
\* of its messages, out of the room, or away before it has sent any.
LEMMA MoveKeepsStory ==
    ASSUME TypeOK, StoryInv, UNCHANGED <<chatlog, kind, lines>>,
           NEW c \in Conn, NEW from, NEW to, Step(c, from, to),
           \/ from \in NotYet /\ to \in NotYet \cup {"lock", "shutdown", "done"}
           \/ from \in {"lock", "send", "save"} /\ to \in {"lock", "send", "save"}
           \/ from \in {"hist", "read", "remove"} /\ to \in {"read", "remove", "shutdown"}
           \/ from = "hist" /\ to = "hist"
           \/ from \in {"shutdown", "free"} /\ to \in {"free", "done"}
    PROVE  StoryInv'
<1>1. \A d \in Conn : /\ Logged(d)' = Logged(d) /\ Current(d)' = Current(d)
                      /\ \A i : LoggedLast(d, i)' = LoggedLast(d, i)
  BY DEF Logged, LoggedLast, Current
<1>2. pc[c] = from /\ pc'[c] = to /\ \A d \in Conn \ {c} : pc'[d] = pc[d]
  BY DEF Step, TypeOK
<1> SUFFICES ASSUME NEW d \in Conn
             PROVE  /\ pc'[d] \in NotYet => kind[d] = "join"
                    /\ pc'[d] = "hist" => kind[d] = "join"
                    /\ kind[d] = "join" => lines[d] = 0
                    /\ pc'[d] \in NotYet \cup {"lock", "send", "save"} /\ kind[d] = "join" =>
                          Logged(d) = {}
                    /\ pc'[d] \in {"lock", "send", "save"} /\ kind[d] # "join" =>
                          \E i \in Logged(d) : LoggedLast(d, i) /\ Follows(chatlog[i], Current(d))
                    /\ pc'[d] \in {"hist", "read", "remove"} =>
                          \E i \in Logged(d) : LoggedLast(d, i) /\ chatlog[i] = Current(d)
                    /\ pc'[d] \in {"shutdown", "free"} /\ Logged(d) # {} =>
                          \E i \in Logged(d) : LoggedLast(d, i) /\ chatlog[i] = Current(d)
  BY <1>1 DEF StoryInv
<1>3. CASE d # c
  BY <1>2, <1>3 DEF StoryInv
<1>4. CASE d = c
  <2>1. CASE from \in NotYet /\ to \in NotYet \cup {"lock", "shutdown", "done"}
    BY <1>2, <1>4, <2>1 DEF StoryInv, NotYet
  <2>2. CASE from \in {"lock", "send", "save"} /\ to \in {"lock", "send", "save"}
    BY <1>2, <1>4, <2>2 DEF StoryInv, NotYet
  <2>3. CASE \/ from \in {"hist", "read", "remove"} /\ to \in {"read", "remove", "shutdown"}
             \/ from = "hist" /\ to = "hist"
    BY <1>2, <1>4, <2>3 DEF StoryInv, NotYet
  <2>4. CASE from \in {"shutdown", "free"} /\ to \in {"free", "done"}
    BY <1>2, <1>4, <2>4 DEF StoryInv, NotYet
  <2> QED BY <2>1, <2>2, <2>3, <2>4
<1> QED BY <1>3, <1>4

\* Steps that move no thread.
LEMMA RestKeepsStory ==
    ASSUME StoryInv, UNCHANGED <<pc, chatlog, kind, lines>>
    PROVE  StoryInv'
BY DEF StoryInv, Logged, LoggedLast, Current

\* The next line, or the end of the input, makes a message that follows the last.
LEMMA ReadKeepsStory ==
    ASSUME TypeOK, KindInv, StoryInv, NEW c \in Conn, ReadLine(c) \/ ReadEnd(c)
    PROVE  StoryInv'
<1>1. /\ pc[c] = "read" /\ pc'[c] = "lock" /\ chatlog' = chatlog
      /\ kind'[c] # "join" /\ kind[c] \in {"join", "chat"} /\ lines[c] \in Nat
      /\ \A d \in Conn \ {c} : pc'[d] = pc[d] /\ kind'[d] = kind[d] /\ lines'[d] = lines[d]
  <2>1. pc[c] = "read" /\ pc' = [pc EXCEPT ![c] = "lock"] /\ chatlog' = chatlog
    BY DEF ReadLine, ReadEnd, Step, record
  <2>2. \/ kind' = [kind EXCEPT ![c] = "chat"] /\ lines' = [lines EXCEPT ![c] = @ + 1]
        \/ kind' = [kind EXCEPT ![c] = "leave"] /\ lines' = lines
    BY DEF ReadLine, ReadEnd, counts
  <2>3. pc \in [Conn -> PCs] /\ kind \in [Conn -> Kinds] /\ lines \in [Conn -> Nat]
    BY ChatAssumption DEF TypeOK
  <2>4. kind[c] \in {"join", "chat"}
    BY <2>1, <2>3 DEF KindInv, Kinds
  <2> QED BY <2>1, <2>2, <2>3, <2>4
<1>2. \/ kind'[c] = "chat" /\ lines'[c] = lines[c] + 1
      \/ kind'[c] = "leave" /\ lines'[c] = lines[c]
  BY DEF ReadLine, ReadEnd, TypeOK, counts
<1>3. \A d \in Conn : /\ Logged(d)' = Logged(d)
                      /\ \A i : LoggedLast(d, i)' = LoggedLast(d, i)
  BY <1>1 DEF Logged, LoggedLast
<1>4. \A d \in Conn \ {c} : Current(d)' = Current(d)
  BY <1>1 DEF Current
<1>5. Follows(Current(c), Current(c)')
  <2>1. /\ Current(c).kind = kind[c] /\ Current(c).n = lines[c]
        /\ Current(c)'.kind = kind'[c] /\ Current(c)'.n = lines'[c]
    BY DEF Current
  <2>2. PICK m, n : m = Current(c) /\ n = Current(c)'
    OBVIOUS
  <2>3. Follows(m, n)
    BY <1>1, <1>2, <2>1, <2>2 DEF Follows
  <2> QED BY <2>2, <2>3
<1>6. PICK i \in Logged(c) : LoggedLast(c, i) /\ chatlog[i] = Current(c)
  BY <1>1 DEF StoryInv
<1>7. PICK n : n = Current(c)'
  OBVIOUS
<1>8. Follows(chatlog[i], n)
  BY <1>5, <1>6, <1>7
<1>9. \E k \in Logged(c)' : LoggedLast(c, k)' /\ Follows(chatlog[k], Current(c))'
  BY <1>1, <1>3, <1>6, <1>7, <1>8 DEF Follows
<1>10. ASSUME NEW d \in Conn
       PROVE  /\ pc'[d] \in NotYet => kind'[d] = "join"
              /\ pc'[d] = "hist" => kind'[d] = "join"
              /\ kind'[d] = "join" => lines'[d] = 0
              /\ pc'[d] \in NotYet \cup {"lock", "send", "save"} /\ kind'[d] = "join" =>
                    Logged(d)' = {}
              /\ pc'[d] \in {"lock", "send", "save"} /\ kind'[d] # "join" =>
                    \E k \in Logged(d)' : LoggedLast(d, k)' /\ Follows(chatlog[k], Current(d))'
              /\ pc'[d] \in {"hist", "read", "remove"} =>
                    \E k \in Logged(d)' : LoggedLast(d, k)' /\ chatlog'[k] = Current(d)'
              /\ pc'[d] \in {"shutdown", "free"} /\ Logged(d)' # {} =>
                    \E k \in Logged(d)' : LoggedLast(d, k)' /\ chatlog'[k] = Current(d)'
  <2>1. CASE d = c
    BY <1>1, <1>9, <2>1 DEF NotYet
  <2>2. CASE d # c
    BY <1>1, <1>3, <1>4, <2>2 DEF StoryInv, Follows
  <2> QED BY <2>1, <2>2
<1> QED BY <1>10 DEF StoryInv

\* What SaveChatLog appends is the last line of its thread, and no other's.
LEMMA Saved ==
    ASSUME TypeOK, Spared, NEW c \in Conn, SaveChatLog(c)
    PROVE  LET new == Len(chatlog) + 1
           IN  /\ pc[c] = "save" /\ pc'[c] = AfterSave(kind[c]) /\ UNCHANGED <<kind, lines, hist>>
               /\ \A d \in Conn \ {c} : pc'[d] = pc[d]
               /\ \A d \in Conn : Current(d)' = Current(d)
               /\ new \in Nat /\ chatlog'[new] = Current(c)
               /\ \A i \in 1 .. Len(chatlog) : chatlog'[i] = chatlog[i] /\ i < new
               /\ \A d \in Conn \ {c} : Logged(d)' = Logged(d)
               /\ Logged(c)' = Logged(c) \cup {new}
<1> DEFINE new == Len(chatlog) + 1
<1>1. /\ pc[c] = "save" /\ pc'[c] = AfterSave(kind[c]) /\ UNCHANGED <<kind, lines, hist>>
      /\ \A d \in Conn \ {c} : pc'[d] = pc[d]
  BY DEF SaveChatLog, Step, TypeOK, counts
<1>2. chatlog' = Append(chatlog, Current(c)) /\ chatlog \in Seq(Message)
  BY SparedLeft DEF SaveChatLog, TypeOK
<1>0. Current(c).from = c
  BY DEF Current
<1>3. PICK m : m = Current(c) /\ m.from = c
  <2>1. PICK m : m = Current(c)
    OBVIOUS
  <2> QED BY <1>0, <2>1
<1>4. /\ Len(chatlog) \in Nat /\ Len(chatlog') = new /\ chatlog'[new] = m
      /\ \A i \in 1 .. Len(chatlog) : chatlog'[i] = chatlog[i] /\ i < new
  BY <1>2, <1>3
<1>5. 1 .. Len(chatlog') = (1 .. Len(chatlog)) \cup {new} /\ new \notin 1 .. Len(chatlog)
  BY <1>4
<1>6. \A d \in Conn : Logged(d)' = {i \in 1 .. Len(chatlog') : chatlog'[i].from = d}
  BY DEF Logged
<1>7. \A d \in Conn \ {c} : Logged(d)' = Logged(d)
  BY <1>3, <1>4, <1>5, <1>6 DEF Logged
<1>8. Logged(c)' = Logged(c) \cup {new}
  BY <1>3, <1>4, <1>5, <1>6 DEF Logged
<1>9. \A d \in Conn : Current(d)' = Current(d)
  BY <1>1 DEF Current
<1> QED BY <1>1, <1>3, <1>4, <1>7, <1>8, <1>9

\* What a thread saves is what its story goes on with.
LEMMA SaveKeepsLog ==
    ASSUME TypeOK, LogInv, Spared, NEW c \in Conn, SaveChatLog(c)
    PROVE  LogInv'
<1> USE DEF LogInv
<1>1. PICK new : /\ new = Len(chatlog) + 1
                 /\ pc[c] = "save" /\ pc'[c] = AfterSave(kind[c]) /\ UNCHANGED <<kind, lines, hist>>
                 /\ \A d \in Conn \ {c} : pc'[d] = pc[d]
                 /\ \A d \in Conn : Current(d)' = Current(d)
                 /\ new \in Nat /\ chatlog'[new] = Current(c)
                 /\ \A i \in 1 .. Len(chatlog) : chatlog'[i] = chatlog[i] /\ i < new
                 /\ \A d \in Conn \ {c} : Logged(d)' = Logged(d)
                 /\ Logged(c)' = Logged(c) \cup {new}
  BY Saved
<1>2. \A d \in Conn : \A i \in Logged(d) : i \in Nat /\ i < new /\ chatlog'[i] = chatlog[i]
  BY <1>1 DEF Logged
<1>3. LoggedLast(c, new)' /\ chatlog'[new] = Current(c)'
  BY <1>1, <1>2 DEF LoggedLast
<1>4. \A d \in Conn \ {c} : \A i : LoggedLast(d, i)' = LoggedLast(d, i)
  BY <1>1 DEF LoggedLast
<1>5. pc'[c] \in {"hist", "read", "remove"} /\ (pc'[c] = "hist" <=> kind[c] = "join")
  BY <1>1 DEF AfterSave, TypeOK, Kinds
<1>6. StoryInv'
  <2>1. ASSUME NEW d \in Conn
        PROVE  /\ pc'[d] \in NotYet => kind'[d] = "join"
               /\ pc'[d] = "hist" => kind'[d] = "join"
               /\ kind'[d] = "join" => lines'[d] = 0
               /\ pc'[d] \in NotYet \cup {"lock", "send", "save"} /\ kind'[d] = "join" =>
                     Logged(d)' = {}
               /\ pc'[d] \in {"lock", "send", "save"} /\ kind'[d] # "join" =>
                     \E k \in Logged(d)' : LoggedLast(d, k)' /\ Follows(chatlog[k], Current(d))'
               /\ pc'[d] \in {"hist", "read", "remove"} =>
                     \E k \in Logged(d)' : LoggedLast(d, k)' /\ chatlog'[k] = Current(d)'
               /\ pc'[d] \in {"shutdown", "free"} /\ Logged(d)' # {} =>
                     \E k \in Logged(d)' : LoggedLast(d, k)' /\ chatlog'[k] = Current(d)'
    <3>1. CASE d = c
      BY <1>1, <1>3, <1>5, <3>1 DEF StoryInv, NotYet
    <3>2. CASE d # c
      BY <1>1, <1>2, <1>4, <3>2 DEF StoryInv, Follows
    <3> QED BY <3>1, <3>2
  <2> QED BY <2>1 DEF StoryInv
<1>7. ChainInv'
  <2>1. ASSUME NEW d \in Conn, NEW i \in Logged(d)', i \in Logged(d)
        PROVE  \/ chatlog'[i] = Joining(d) /\ \A j \in Logged(d)' : i <= j
               \/ \E h \in Logged(d)' : /\ h < i /\ \A j \in Logged(d)' : j <= h \/ i <= j
                                        /\ Follows(chatlog[h], chatlog[i])'
    <3>1. i \in Nat /\ i < new /\ Logged(d) \subseteq Logged(d)'
          /\ Logged(d)' \subseteq Logged(d) \cup {new}
      BY <1>1, <1>2, <2>1
    <3>2. CASE chatlog[i] = Joining(d) /\ \A j \in Logged(d) : i <= j
      BY <1>1, <1>2, <2>1, <3>1, <3>2
    <3>3. ASSUME NEW h \in Logged(d), h < i, \A j \in Logged(d) : j <= h \/ i <= j,
                 Follows(chatlog[h], chatlog[i])
          PROVE  \E g \in Logged(d)' : /\ g < i /\ \A j \in Logged(d)' : j <= g \/ i <= j
                                       /\ Follows(chatlog[g], chatlog[i])'
      <4>1. Follows(chatlog[h], chatlog[i])'
        BY <1>2, <2>1, <3>3 DEF Follows
      <4>2. h \in Logged(d)' /\ h \in Nat /\ h < new
        BY <1>2, <3>1, <3>3
      <4>3. \A j \in Logged(d)' : j <= h \/ i <= j
        BY <1>1, <3>1, <3>3
      <4> QED BY <3>3, <4>1, <4>2, <4>3
    <3> QED BY <2>1, <3>2, <3>3 DEF ChainInv
  <2>2. CASE kind[c] = "join"
    <3>1. Logged(c) = {} /\ Current(c) = Joining(c)
      BY <1>1, <2>2 DEF StoryInv, Current, Joining
    <3>2. chatlog'[new] = Joining(c) /\ \A j \in Logged(c)' : new <= j
      BY <1>1, <3>1
    <3> QED BY <1>1, <2>1, <3>1, <3>2 DEF ChainInv, Joining
  <2>3. CASE kind[c] # "join"
    <3>1. PICK h \in Logged(c) : LoggedLast(c, h) /\ Follows(chatlog[h], Current(c))
      BY <1>1, <2>3 DEF StoryInv
    <3>2. PICK m : m = Current(c)
      OBVIOUS
    <3>3. Follows(chatlog[h], m)
      BY <3>1, <3>2
    <3>4. Follows(chatlog[h], chatlog[new])'
      BY <1>1, <1>2, <3>2, <3>3 DEF Follows
    <3>5. h < new /\ h \in Logged(c)' /\ \A j \in Logged(c)' : j <= h \/ new <= j
      BY <1>1, <1>2, <3>1 DEF LoggedLast
    <3>6. \A d \in Conn : \A i \in Logged(d)' : i \in Logged(d) \/ (d = c /\ i = new)
      BY <1>1
    <3>7. \A d \in Conn : Joining(d)' = Joining(d)
      BY DEF Joining
    <3> QED BY <2>1, <3>4, <3>5, <3>6, <3>7 DEF ChainInv
  <2> QED BY <2>2, <2>3
<1>8. ReplayInv'
  <2>1. ASSUME NEW d \in Conn, pc'[d] = "read" \/ kind[d] # "join"
        PROVE  \E i \in 1 .. hist[d] : i \in Logged(d)' /\ chatlog'[i] = Joining(d)
    <3>1. pc[d] = "read" \/ kind[d] # "join"
      BY <1>1, <1>5, <2>1
    <3>2. PICK i \in 1 .. hist[d] : i \in Logged(d) /\ chatlog[i] = Joining(d)
      BY <3>1 DEF ReplayInv
    <3> QED BY <1>1, <1>2, <3>2
  <2> QED BY <1>1, <2>1 DEF ReplayInv, Joining
<1> QED BY <1>6, <1>7, <1>8

\* The replay ends behind all lines of the log, the join of its thread among them.
LEMMA HistKeepsReplay ==
    ASSUME TypeOK, LogInv, Spared, NEW c \in Conn, HistLine(c) \/ HistEnd(c)
    PROVE  ReplayInv'
<1> USE DEF LogInv
<1>1. /\ pc[c] = "hist" /\ UNCHANGED <<chatlog, kind, lines>> /\ hist[c] \in Nat
      /\ hist'[c] \in Nat /\ hist[c] <= hist'[c]
      /\ \A d \in Conn \ {c} : pc'[d] = pc[d] /\ hist'[d] = hist[d]
  BY DEF HistLine, HistEnd, Step, TypeOK, counts, record
<1>2. \A d \in Conn : Logged(d)' = Logged(d)
  BY <1>1 DEF Logged
<1>3. pc'[c] = "read" => Len(chatlog) <= hist'[c]
  BY SparedLeft DEF HistLine, HistEnd, HistoryEnd, Step, TypeOK, counts
<1>4. kind[c] = "join" /\ \E i \in Logged(c) : chatlog[i] = Joining(c)
  BY <1>1 DEF StoryInv, Current, Joining
<1>5. Len(chatlog) \in Nat
  BY DEF TypeOK
<1>6. pc'[c] = "read" => \E i \in 1 .. hist'[c] : i \in Logged(c) /\ chatlog[i] = Joining(c)
  BY <1>1, <1>3, <1>4, <1>5 DEF Logged
<1> QED BY <1>1, <1>2, <1>4, <1>6 DEF ReplayInv, Joining

\* Steps that log nothing and leave the replays alone.
LEMMA RestKeepsReplay ==
    ASSUME ReplayInv, UNCHANGED <<chatlog, hist>>,
           \A d \in Conn : pc'[d] = "read" \/ kind'[d] # "join" =>
              pc[d] = "read" \/ kind[d] # "join"
    PROVE  ReplayInv'
BY DEF ReplayInv, Logged, Joining

\* Steps that log nothing leave what is logged in order.
LEMMA RestKeepsChain ==
    ASSUME ChainInv, UNCHANGED chatlog
    PROVE  ChainInv'
<1>1. \A d \in Conn : Logged(d)' = Logged(d) /\ Joining(d)' = Joining(d)
  BY DEF Logged, Joining
<1> QED BY <1>1 DEF ChainInv

\* Every step of the server.
LEMMA LogStep == IInv /\ KindInv /\ LogInv /\ Spared /\ [Next]_vars => LogInv'
<1> SUFFICES ASSUME IInv, KindInv, LogInv, Spared, [Next]_vars PROVE LogInv'
  OBVIOUS
<1> USE DEF IInv, LogInv
<1>0. ASSUME UNCHANGED <<chatlog, kind, lines, hist>>, StoryInv',
             \A d \in Conn : pc'[d] = "read" => pc[d] = "read"
      PROVE  LogInv'
  <2>1. ReplayInv'
    BY <1>0, RestKeepsReplay
  <2> QED BY <1>0, <2>1, RestKeepsChain
<1>a. ASSUME NEW c \in Conn, NEW from, NEW to, Step(c, from, to), to # "read"
      PROVE  \A d \in Conn : pc'[d] = "read" => pc[d] = "read"
  BY <1>a DEF Step, TypeOK
<1> USE DEF record, counts
<1>1. ASSUME NEW c \in Conn, Environment(c) PROVE LogInv'
  <2>1. CASE Connect(c)
    <3>1. StoryInv'
      BY <2>1, MoveKeepsStory DEF Connect, NotYet
    <3> QED BY <1>0, <1>a, <2>1, <3>1 DEF Connect
  <2>2. CASE PeerCloses(c) \/ Stall(c) \/ Drain(c)
    <3>1. UNCHANGED <<pc, chatlog, kind, lines, hist>>
      BY <2>2 DEF PeerCloses, Stall, Drain
    <3> QED BY <1>0, <3>1, RestKeepsStory
  <2> QED BY <1>1, <2>1, <2>2 DEF Environment
<1>2. ASSUME NEW c \in Conn, Accept(c) \/ Handshake(c) PROVE LogInv'
  <2>1. StoryInv'
    BY <1>2, MoveKeepsStory DEF Accept, Handshake, HandshakeOK, HandshakeFails, NotYet
  <2> QED BY <1>0, <1>a, <1>2, <2>1 DEF Accept, Handshake, HandshakeOK, HandshakeFails
<1>3. ASSUME NEW c \in Conn,
             \/ Prompt(c) \/ AnswerEnds(c) \/ Answered(c) \/ AuthReply(c)
             \/ Reject(c) \/ Welcome(c)
      PROVE  LogInv'
  <2>1. StoryInv'
    BY <1>3, MoveKeepsStory DEF Prompt, AnswerEnds, Answered, AuthReply, Reject, Welcome, NotYet
  <2> QED
    BY <1>0, <1>a, <1>3, <2>1 DEF Prompt, AnswerEnds, Answered, AuthReply, Reject, Welcome
<1>4. ASSUME NEW c \in Conn, AddClient(c) \/ RemoveClient(c) \/ Lock(c) \/ Unlock(c)
      PROVE  LogInv'
  <2>1. StoryInv'
    BY <1>4, MoveKeepsStory DEF AddClient, RemoveClient, Lock, Unlock, NotYet
  <2> QED BY <1>0, <1>a, <1>4, <2>1 DEF AddClient, RemoveClient, Lock, Unlock
<1>5. ASSUME NEW c \in Conn, SkipSlot(c) \/ WriteSlot(c) PROVE LogInv'
  <2>1. StoryInv'
    BY <1>5, MoveKeepsStory DEF SkipSlot, WriteSlot
  <2> QED BY <1>0, <1>a, <1>5, <2>1 DEF SkipSlot, WriteSlot
<1>6. ASSUME NEW c \in Conn, SaveChatLog(c) PROVE LogInv'
  BY <1>6, SaveKeepsLog
<1>7. ASSUME NEW c \in Conn, HistLine(c) \/ HistEnd(c) PROVE LogInv'
  <2>1. StoryInv'
    BY <1>7, MoveKeepsStory DEF HistLine, HistEnd
  <2>2. chatlog' = chatlog
    BY <1>7 DEF HistLine, HistEnd
  <2> QED BY <1>7, <2>1, <2>2, HistKeepsReplay, RestKeepsChain
<1>8. ASSUME NEW c \in Conn, ReadLine(c) \/ ReadEnd(c) PROVE LogInv'
  <2>1. StoryInv'
    BY <1>8, ReadKeepsStory
  <2>2. UNCHANGED <<chatlog, hist>>
    BY <1>8 DEF ReadLine, ReadEnd
  <2>3. pc[c] = "read" /\ \A d \in Conn \ {c} : pc'[d] = pc[d] /\ kind'[d] = kind[d]
    BY <1>8 DEF ReadLine, ReadEnd, Step, TypeOK
  <2> QED BY <2>1, <2>2, <2>3, RestKeepsReplay, RestKeepsChain
<1>9. ASSUME NEW c \in Conn, Shutdown(c) \/ Free(c) PROVE LogInv'
  <2>1. StoryInv'
    BY <1>9, MoveKeepsStory DEF Shutdown, Free
  <2> QED BY <1>0, <1>a, <1>9, <2>1 DEF Shutdown, Free
<1>10. ASSUME (\E c \in Conn : KilledWriting(c)) \/ SslRace \/ Idle \/ UNCHANGED vars
       PROVE  LogInv'
  <2>1. UNCHANGED <<pc, chatlog, kind, lines, hist>>
    BY <1>10 DEF KilledWriting, SslRace, Idle, vars
  <2> QED BY <1>0, <2>1, RestKeepsStory
<1> QED
  BY <1>1, <1>2, <1>3, <1>4, <1>5, <1>6, <1>7, <1>8, <1>9, <1>10 DEF Next, Serve

\* The log's invariant, where there are descriptors to spare.
THEOREM Logging == Spared => (Spec => []LogInv)
<1>1. Init => LogInv
  BY DEF Init, LogInv, StoryInv, ChainInv, ReplayInv, Logged, NotYet
<1>2. OrderInv => KindInv
  BY DEF OrderInv
<1>3. ASSUME Spared PROVE IInv /\ KindInv /\ LogInv /\ [Next]_vars => LogInv'
  BY <1>3, LogStep
<1> SUFFICES ASSUME Spared PROVE Spec => []LogInv
  OBVIOUS
<1> QED BY <1>1, <1>2, <1>3, Invariance, Ordering, PTL DEF Spec

\* With descriptors to spare, the log tells the story of each connection, under no
\* lock and whatever the threads interleave: its join, every line once and in
\* order, its leave.
THEOREM LogIsComplete == Spared => (Spec => []LogTellsEachStory)
<1>1. LogInv => LogTellsEachStory
  <2> SUFFICES ASSUME LogInv, NEW c \in Conn
               PROVE  /\ \A i \in Logged(c) :
                            \/ /\ chatlog[i] = Joining(c)
                               /\ \A j \in Logged(c) : i <= j
                            \/ \E h \in Logged(c) :
                                  /\ h < i /\ \A j \in Logged(c) : j <= h \/ i <= j
                                  /\ Follows(chatlog[h], chatlog[i])
                      /\ pc[c] \in {"read", "hist", "remove", "shutdown", "free"} =>
                            \A i \in Logged(c) : LoggedLast(c, i) => chatlog[i] = Current(c)
    BY DEF LogTellsEachStory, Joining
  <2>1. \A i, j : LoggedLast(c, i) /\ LoggedLast(c, j) => i = j
    BY DEF LoggedLast, Logged
  <2>2. pc[c] \in {"read", "hist", "remove", "shutdown", "free"} /\ Logged(c) # {} =>
           \E i \in Logged(c) : LoggedLast(c, i) /\ chatlog[i] = Current(c)
    BY DEF LogInv, StoryInv
  <2> QED BY <2>1, <2>2 DEF LogInv, ChainInv
<1> SUFFICES ASSUME Spared PROVE Spec => []LogTellsEachStory
  OBVIOUS
<1> QED BY <1>1, Logging, PTL

\* A user who has entered the room has been replayed the log up to and including
\* their own join, while others were appending to it.
THEOREM ReplayCoversJoin == Spared => (Spec => []HistoryCoversOwnJoin)
<1>1. LogInv => HistoryCoversOwnJoin
  BY DEF LogInv, ReplayInv, HistoryCoversOwnJoin, Joining
<1> SUFFICES ASSUME Spared PROVE Spec => []HistoryCoversOwnJoin
  OBVIOUS
<1> QED BY <1>1, Logging, PTL

-----------------------------------------------------------------------------
(* That ChatServer implements ChatRoom: a message is said to the room when *)
(* its broadcast takes the mutex, and who has not got it yet is owed it    *)
(* until the loop is there.                                                *)

\* The room's variables, as Room of ChatServer gives them.
Members == {c \in Conn : IsRegistered(c)}
Inbox   == [c \in Conn |-> live[c] \o Owed(c)]

\* The broadcast of a has still to come to an entry of d that is to get it.
Waits(a, d) == \E i \in Entries : i >= cursor[a] /\ Receives(a, i) /\ clients[i] = d

\* Without a broadcast nothing is owed, and what was said has arrived.
AllArrived ==
    TypeOK /\ (proc # "up" \/ clients_mutex = None) =>
       \A d \in Conn : Inbox[d] = live[d]

\* In a broadcast its message is owed to those it has still to come to.
RestIsOwed ==
    TypeOK /\ proc = "up" =>
       \A a \in Conn : clients_mutex = a =>
          \A d \in Conn :
             /\ Waits(a, d) => Inbox[d] = Append(live[d], Current(a))
             /\ ~ Waits(a, d) => Inbox[d] = live[d]
-----------------------------------------------------------------------------
(* What is owed. *)

\* What AllArrived says is so in every state.
LEMMA NothingOwed == AllArrived
<1> SUFFICES ASSUME TypeOK, proc # "up" \/ clients_mutex = None, NEW d \in Conn
             PROVE  Inbox[d] = live[d]
  BY DEF AllArrived
<1>1. Owed(d) = <<>>
  BY DEF Owed
<1>2. live[d] \in Seq(Message)
  BY DEF TypeOK
<1> QED BY <1>1, <1>2, ConcatEmptySeq DEF Inbox

\* And so is what RestIsOwed says.
LEMMA MessageOwed == RestIsOwed
<1> SUFFICES ASSUME TypeOK, proc = "up", NEW a \in Conn, clients_mutex = a, NEW d \in Conn
             PROVE  /\ Waits(a, d) => Inbox[d] = Append(live[d], Current(a))
                    /\ ~ Waits(a, d) => Inbox[d] = live[d]
  BY DEF RestIsOwed
<1>1. a # None
  BY ChatAssumption
<1>2. live[d] \in Seq(Message)
  BY DEF TypeOK
<1>3. ASSUME Waits(a, d)
      PROVE  Inbox[d] = Append(live[d], Current(a))
  <2>1. Owed(d) = <<Current(a)>>
    BY <1>1, <1>3 DEF Owed, Waits
  <2>2. Current(a) \in Message
    BY CurrentIsMessage DEF TypeOK
  <2>3. live[d] \o <<Current(a)>> = Append(live[d], Current(a))
    BY <1>2, <2>2
  <2> QED BY <2>1, <2>3 DEF Inbox
<1>4. ASSUME ~ Waits(a, d)
      PROVE  Inbox[d] = live[d]
  <2>1. Owed(d) = <<>>
    BY <1>1, <1>4 DEF Owed, Waits
  <2> QED BY <1>2, <2>1, ConcatEmptySeq DEF Inbox
<1> QED BY <1>3, <1>4

\* The message taken back from who was owed it leaves what they have.
LEMMA TakenBack ==
    ASSUME NEW s \in Seq(Message), NEW m \in Message
    PROVE  /\ Append(s, m) # <<>>
           /\ SubSeq(Append(s, m), 1, Len(Append(s, m)) - 1) = s
<1>1. Append(s, m) \in Seq(Message) /\ Len(Append(s, m)) = Len(s) + 1 /\ Len(s) \in Nat
      /\ \A i \in 1 .. Len(s) : Append(s, m)[i] = s[i]
  OBVIOUS
<1>2. Append(s, m) # <<>>
  BY <1>1
<1>3. Len(SubSeq(Append(s, m), 1, Len(s))) = Len(s)
      /\ SubSeq(Append(s, m), 1, Len(s)) \in Seq(Message)
      /\ \A i \in 1 .. Len(s) : SubSeq(Append(s, m), 1, Len(s))[i] = s[i]
  BY <1>1
<1>4. SubSeq(Append(s, m), 1, Len(s)) = s
  BY <1>3, SeqEqual
<1> QED BY <1>1, <1>2, <1>4
-----------------------------------------------------------------------------
(* The steps that the room sees. *)

\* The functions agree where their values do.
LEMMA InboxSame ==
    ASSUME \A d \in Conn : Inbox'[d] = Inbox[d]
    PROVE  Inbox' = Inbox
BY DEF Inbox

\* What the room does not see.
LEMMA Unseen ==
    ASSUME Members' = Members, Inbox' = Inbox, proc' = proc
    PROVE  UNCHANGED Room!vars
BY DEF Members, Inbox, Room!vars

\* add_client: the connection enters, unless the table is full.
LEMMA AddEnters ==
    ASSUME IInv, IInv', NEW c \in Conn, AddClient(c)
    PROVE  Room!Enter(c) \/ UNCHANGED Room!vars
<1>1. TypeOK /\ TypeOK'
  BY DEF IInv
<1>2. clients_mutex = None /\ clients_mutex' = None /\ proc = "up" /\ proc' = proc /\ live' = live
  BY DEF AddClient, Unlocked, Step, record
<1>3. Inbox' = Inbox
  <2>1. AllArrived'
    BY NothingOwed, PTL
  <2>2. \A d \in Conn : Inbox'[d] = live'[d]
    BY <1>1, <1>2, <2>1 DEF AllArrived
  <2>3. \A d \in Conn : Inbox[d] = live[d]
    BY <1>1, <1>2, NothingOwed DEF AllArrived
  <2> QED BY <1>2, <2>2, <2>3, InboxSame
<1>4. clients' = [i \in Entries |-> IF i \in FirstFree(clients) THEN c ELSE clients[i]]
  BY DEF AddClient
<1>5. CASE FirstFree(clients) = {}
  <2>1. clients' = clients
    BY <1>1, <1>4, <1>5 DEF TypeOK
  <2>2. Members' = Members
    BY <2>1 DEF Members, IsRegistered
  <2> QED BY <1>2, <1>3, <2>2, Unseen
<1>6. CASE FirstFree(clients) # {}
  <2>1. PICK f \in FirstFree(clients) : TRUE
    BY <1>6
  <2>2. f \in Entries /\ \A i \in FirstFree(clients) : clients[i] = None
    BY DEF FirstFree
  <2>3. None \notin Conn
    BY ChatAssumption
  <2>4. \A d \in Conn : IsRegistered(d)' <=> IsRegistered(d) \/ d = c
    BY <1>4, <2>2, <2>3 DEF IsRegistered
  <2>5. Members' = Members \cup {c}
    BY <2>4 DEF Members
  <2> QED BY <1>2, <1>3, <2>5 DEF Room!Enter, Members, Inbox
<1> QED BY <1>5, <1>6

\* remove_client: the connection leaves.
LEMMA RemoveLeaves ==
    ASSUME IInv, IInv', NEW c \in Conn, RemoveClient(c)
    PROVE  Room!Leave(c)
<1>1. TypeOK /\ TypeOK'
  BY DEF IInv
<1>2. clients_mutex = None /\ clients_mutex' = None /\ proc = "up" /\ proc' = proc /\ live' = live
  BY DEF RemoveClient, Unlocked, Step, record
<1>3. Inbox' = Inbox
  <2>1. AllArrived'
    BY NothingOwed, PTL
  <2>2. \A d \in Conn : Inbox'[d] = live'[d]
    BY <1>1, <1>2, <2>1 DEF AllArrived
  <2>3. \A d \in Conn : Inbox[d] = live[d]
    BY <1>1, <1>2, NothingOwed DEF AllArrived
  <2> QED BY <1>2, <2>2, <2>3, InboxSame
<1>4. clients' = [i \in Entries |->
                     IF /\ clients[i] = c
                        /\ \A j \in 1 .. i - 1 : clients[j] # c
                     THEN None ELSE clients[i]]
  BY DEF RemoveClient
<1>5. \A i \in Entries : clients[i] = c => \A j \in 1 .. i - 1 : clients[j] # c
  <2> SUFFICES ASSUME NEW i \in Entries, clients[i] = c, NEW j \in 1 .. i - 1, clients[j] = c
               PROVE  FALSE
    OBVIOUS
  <2>1. j \in Entries /\ j # i
    BY ChatAssumption DEF Entries
  <2>2. c # None
    BY ChatAssumption
  <2> QED BY <2>1, <2>2 DEF IInv, TableInv
<1>6. None \notin Conn
  BY ChatAssumption
<1>7. \A i \in Entries : clients'[i] = IF clients[i] = c THEN None ELSE clients[i]
  BY <1>4, <1>5
<1>8. \A d \in Conn : IsRegistered(d)' <=> IsRegistered(d) /\ d # c
  BY <1>6, <1>7 DEF IsRegistered
<1>9. Members' = Members \ {c}
  BY <1>8 DEF Members
<1> QED BY <1>2, <1>3, <1>9 DEF Room!Leave, Members, Inbox

\* pthread_mutex_lock of a broadcast: its message is said, to everybody or to
\* everybody but its author.
LEMMA LockSays ==
    ASSUME IInv, IInv', NEW c \in Conn, Lock(c)
    PROVE  Room!Say(Current(c), c)
<1> DEFINE m == Current(c)
           audience == IF kind[c] = "chat" THEN Members \ {c} ELSE Members
<1>1. TypeOK /\ TypeOK'
  BY DEF IInv
<1>2. /\ clients_mutex = None /\ clients_mutex' = c /\ proc = "up" /\ proc' = proc
      /\ live' = live /\ clients' = clients /\ kind' = kind /\ lines' = lines /\ cursor' = cursor
  BY DEF Lock, Unlocked, Step, record, counts
<1>3. cursor[c] = 1
  BY DEF IInv, LoopInv, Lock, Step
<1>4. \A d \in Conn : Waits(c, d)' <=> d \in audience
  <2> SUFFICES ASSUME NEW d \in Conn PROVE Waits(c, d)' <=> d \in audience
    OBVIOUS
  <2>1. d # None
    BY ChatAssumption
  <2>2. Waits(c, d)' <=> \E i \in Entries : i >= 1 /\ Receives(c, i) /\ clients[i] = d
    BY <1>2, <1>3 DEF Waits, Receives
  <2>3. \A i \in Entries : i >= 1
    BY DEF Entries
  <2>4. Waits(c, d)' <=> (\E i \in Entries : clients[i] = d) /\ (kind[c] = "chat" => d # c)
    BY <2>1, <2>2, <2>3 DEF Receives
  <2> QED BY <2>4 DEF Members, IsRegistered
<1>5. \A d \in Conn : Inbox'[d] = IF d \in audience THEN Append(Inbox[d], m) ELSE Inbox[d]
  <2>1. RestIsOwed'
    BY MessageOwed, PTL
  <2>2. Current(c)' = m
    BY <1>2 DEF Current
  <2>3. \A d \in Conn : /\ Waits(c, d)' => Inbox'[d] = Append(live'[d], Current(c)')
                        /\ ~ Waits(c, d)' => Inbox'[d] = live'[d]
    BY <1>1, <1>2, <2>1 DEF RestIsOwed
  <2>4. \A d \in Conn : Inbox[d] = live[d]
    BY <1>1, <1>2, NothingOwed DEF AllArrived
  <2> HIDE DEF audience, m
  <2> QED BY <1>2, <1>4, <2>2, <2>3, <2>4
<1>6. Inbox' = [d \in Conn |-> IF d \in audience THEN Append(Inbox[d], m) ELSE Inbox[d]]
  <2> HIDE DEF audience, m
  <2> QED BY <1>5 DEF Inbox
<1>7. audience \in {Members, Members \ {c}}
  OBVIOUS
<1>8. Members' = Members
  BY <1>2 DEF Members, IsRegistered
<1>9. \E S \in {Members, Members \ {c}} :
         Inbox' = [d \in Conn |-> IF d \in S THEN Append(Inbox[d], m) ELSE Inbox[d]]
  BY <1>6, <1>7
<1> HIDE DEF m, audience
<1>10. Room!Say(m, c)
  BY <1>2, <1>8, <1>9 DEF Room!Say, Members, Inbox
<1> QED BY <1>10 DEF m

\* The server dies: who is still owed the message does not get it.
LEMMA DeathCrashes ==
    ASSUME IInv, IInv', proc = "up", proc' # "up",
           UNCHANGED <<clients, clients_mutex, live, cursor, kind, lines>>
    PROVE  Room!Crash
<1>1. TypeOK /\ TypeOK'
  BY DEF IInv
<1>2. \A d \in Conn : Inbox'[d] = live[d]
  <2>1. AllArrived'
    BY NothingOwed, PTL
  <2> QED BY <1>1, <2>1 DEF AllArrived
<1>3. \A d \in Conn :
         \/ Inbox'[d] = Inbox[d]
         \/ Inbox[d] # <<>> /\ Inbox'[d] = SubSeq(Inbox[d], 1, Len(Inbox[d]) - 1)
  <2> SUFFICES ASSUME NEW d \in Conn, Inbox'[d] # Inbox[d]
               PROVE  Inbox[d] # <<>> /\ Inbox'[d] = SubSeq(Inbox[d], 1, Len(Inbox[d]) - 1)
    OBVIOUS
  <2>1. clients_mutex # None
    BY <1>1, <1>2, NothingOwed DEF AllArrived
  <2>2. PICK a \in Conn : clients_mutex = a
    BY <1>1, <2>1 DEF TypeOK
  <2>3. Inbox[d] = Append(live[d], Current(a))
    BY <1>1, <1>2, <2>2, MessageOwed DEF RestIsOwed
  <2>4. live[d] \in Seq(Message) /\ Current(a) \in Message
    BY <1>1, CurrentIsMessage DEF TypeOK
  <2> QED BY <1>2, <2>3, <2>4, TakenBack
<1>4. DOMAIN Inbox' = Conn
  BY DEF Inbox
<1>5. Members' = Members
  BY DEF Members, IsRegistered
<1> QED BY <1>3, <1>4, <1>5 DEF Room!Crash, Members, Inbox
-----------------------------------------------------------------------------
(* The steps that the room does not see. *)

\* A step outside the table, the loop and the holder's message.
LEMMA QuietUnseen ==
    ASSUME IInv, IInv',
           UNCHANGED <<proc, clients, clients_mutex, live, cursor>>,
           \A a \in Conn : clients_mutex = a => kind'[a] = kind[a] /\ lines'[a] = lines[a]
    PROVE  UNCHANGED Room!vars
<1>1. TypeOK /\ TypeOK'
  BY DEF IInv
<1>2. Members' = Members
  BY DEF Members, IsRegistered
<1>3. Inbox' = Inbox
  <2>1. AllArrived' /\ RestIsOwed'
    BY NothingOwed, MessageOwed, PTL
  <2>2. CASE proc # "up" \/ clients_mutex = None
    <3>1. \A d \in Conn : Inbox'[d] = live'[d] /\ Inbox[d] = live[d]
      BY <1>1, <2>1, <2>2, NothingOwed DEF AllArrived
    <3> QED BY <3>1, InboxSame
  <2>3. CASE proc = "up" /\ clients_mutex # None
    <3>1. PICK a \in Conn : clients_mutex = a
      BY <1>1, <2>3 DEF TypeOK
    <3>2. Current(a)' = Current(a) /\ \A d \in Conn : Waits(a, d)' <=> Waits(a, d)
      BY <3>1 DEF Current, Waits, Receives
    <3>3. \A d \in Conn : /\ Waits(a, d)' => Inbox'[d] = Append(live'[d], Current(a)')
                          /\ ~ Waits(a, d)' => Inbox'[d] = live'[d]
      BY <1>1, <2>1, <2>3, <3>1 DEF RestIsOwed
    <3>4. \A d \in Conn : /\ Waits(a, d) => Inbox[d] = Append(live[d], Current(a))
                          /\ ~ Waits(a, d) => Inbox[d] = live[d]
      BY <1>1, <2>3, <3>1, MessageOwed DEF RestIsOwed
    <3> QED BY <3>2, <3>3, <3>4, InboxSame
  <2> QED BY <2>2, <2>3
<1> QED BY <1>2, <1>3, Unseen

\* The loop passes an entry that is not to get the message.
LEMMA SkipUnseen ==
    ASSUME IInv, IInv', NEW c \in Conn, SkipSlot(c)
    PROVE  UNCHANGED Room!vars
<1>1. TypeOK /\ TypeOK'
  BY DEF IInv
<1>2. /\ proc = "up" /\ proc' = proc /\ clients' = clients /\ clients_mutex' = clients_mutex
      /\ live' = live /\ kind' = kind /\ lines' = lines
      /\ cursor[c] \in Nat /\ cursor'[c] = cursor[c] + 1 /\ ~ Receives(c, cursor[c])
  BY <1>1 DEF SkipSlot, Step, table, record, AfterSkip, TypeOK, Entries
<1>3. clients_mutex = c
  BY DEF IInv, MutexInv, SkipSlot, Step
<1>4. Members' = Members
  BY <1>2 DEF Members, IsRegistered
<1>5. Current(c)' = Current(c) /\ \A d \in Conn : Waits(c, d)' <=> Waits(c, d)
  <2>1. Current(c)' = Current(c) /\ \A i \in Entries : Receives(c, i)' <=> Receives(c, i)
    BY <1>2 DEF Current, Receives
  <2>2. \A i \in Entries : Receives(c, i) => (i >= cursor[c] + 1 <=> i >= cursor[c])
    BY <1>2 DEF Entries
  <2> QED BY <1>2, <2>1, <2>2 DEF Waits
<1>6. Inbox' = Inbox
  <2>1. RestIsOwed'
    BY MessageOwed, PTL
  <2>2. \A d \in Conn : /\ Waits(c, d)' => Inbox'[d] = Append(live'[d], Current(c)')
                        /\ ~ Waits(c, d)' => Inbox'[d] = live'[d]
    BY <1>1, <1>2, <1>3, <2>1 DEF RestIsOwed
  <2>3. \A d \in Conn : /\ Waits(c, d) => Inbox[d] = Append(live[d], Current(c))
                        /\ ~ Waits(c, d) => Inbox[d] = live[d]
    BY <1>1, <1>2, <1>3, MessageOwed DEF RestIsOwed
  <2> QED BY <1>2, <1>5, <2>2, <2>3, InboxSame
<1> QED BY <1>2, <1>4, <1>6, Unseen

\* The loop writes to an entry: what was owed to its connection has arrived,
\* and is not owed it again, since it is in the table once.
LEMMA WriteUnseen ==
    ASSUME IInv, IInv', NEW c \in Conn, WriteSlot(c)
    PROVE  UNCHANGED Room!vars
<1>1. TypeOK /\ TypeOK'
  BY DEF IInv
<1>2. PICK k \in Entries : k = cursor[c]
  BY DEF WriteSlot
<1>3. PICK r \in Conn : r = clients[k]
  BY <1>1, <1>2 DEF WriteSlot, Receives, TypeOK
<1>4. /\ proc = "up" /\ proc' = proc /\ clients' = clients /\ clients_mutex' = clients_mutex
      /\ kind' = kind /\ lines' = lines /\ cursor'[c] = k + 1 /\ Receives(c, k)
      /\ live' = [live EXCEPT ![r] = Append(@, Current(c))]
  BY <1>1, <1>2, <1>3 DEF WriteSlot, Step, table, TypeOK
<1>5. clients_mutex = c
  BY DEF IInv, MutexInv, WriteSlot, Step
<1>6. Members' = Members
  BY <1>4 DEF Members, IsRegistered
<1>7. Current(c)' = Current(c) /\ \A i \in Entries : Receives(c, i)' <=> Receives(c, i)
  BY <1>4 DEF Current, Receives
<1>8. Waits(c, r) /\ ~ Waits(c, r)'
  <2>1. k \in Nat /\ k >= k
    BY <1>2 DEF Entries
  <2>2. Waits(c, r)
    BY <1>2, <1>3, <1>4, <2>1 DEF Waits
  <2>3. \A i \in Entries : clients[i] = r => i = k
    BY <1>3, ChatAssumption DEF IInv, TableInv
  <2>4. ~ (k >= k + 1)
    BY <2>1
  <2> QED BY <1>4, <2>2, <2>3, <2>4 DEF Waits
<1>9. \A d \in Conn : d # r => (Waits(c, d)' <=> Waits(c, d))
  <2>1. \A i \in Entries : i # k => (i >= k + 1 <=> i >= k)
    BY <1>2 DEF Entries
  <2> QED BY <1>2, <1>3, <1>4, <1>7, <2>1 DEF Waits
<1>10. Inbox' = Inbox
  <2>1. RestIsOwed'
    BY MessageOwed, PTL
  <2>2. \A d \in Conn : /\ Waits(c, d)' => Inbox'[d] = Append(live'[d], Current(c)')
                        /\ ~ Waits(c, d)' => Inbox'[d] = live'[d]
    BY <1>1, <1>4, <1>5, <2>1 DEF RestIsOwed
  <2>3. \A d \in Conn : /\ Waits(c, d) => Inbox[d] = Append(live[d], Current(c))
                        /\ ~ Waits(c, d) => Inbox[d] = live[d]
    BY <1>1, <1>4, <1>5, MessageOwed DEF RestIsOwed
  <2>4. live'[r] = Append(live[r], Current(c)) /\ \A d \in Conn : d # r => live'[d] = live[d]
    BY <1>1, <1>4 DEF TypeOK
  <2>5. Inbox'[r] = Inbox[r]
    BY <1>8, <2>2, <2>3, <2>4
  <2>6. \A d \in Conn : d # r => Inbox'[d] = Inbox[d]
    BY <1>7, <1>9, <2>2, <2>3, <2>4
  <2> QED BY <2>5, <2>6, InboxSame
<1> QED BY <1>4, <1>6, <1>10, Unseen

\* The loop is at its end: nobody is owed anything.
LEMMA UnlockUnseen ==
    ASSUME IInv, IInv', NEW c \in Conn, Unlock(c)
    PROVE  UNCHANGED Room!vars
<1>1. TypeOK /\ TypeOK'
  BY DEF IInv
<1>2. /\ proc = "up" /\ proc' = proc /\ clients' = clients /\ clients_mutex' = None
      /\ live' = live /\ cursor[c] = MAX_CLIENTS + 1
  BY DEF Unlock, Step, record
<1>3. clients_mutex = c
  BY DEF IInv, MutexInv, Unlock, Step
<1>4. Members' = Members
  BY <1>2 DEF Members, IsRegistered
<1>5. \A d \in Conn : ~ Waits(c, d)
  <2>1. \A i \in Entries : ~ (i >= MAX_CLIENTS + 1)
    BY ChatAssumption DEF Entries
  <2> QED BY <1>2, <2>1 DEF Waits
<1>6. Inbox' = Inbox
  <2>1. AllArrived'
    BY NothingOwed, PTL
  <2>2. \A d \in Conn : Inbox'[d] = live'[d]
    BY <1>1, <1>2, <2>1 DEF AllArrived
  <2>3. \A d \in Conn : Inbox[d] = live[d]
    BY <1>1, <1>2, <1>3, <1>5, MessageOwed DEF RestIsOwed
  <2> QED BY <1>2, <2>2, <2>3, InboxSame
<1> QED BY <1>2, <1>4, <1>6, Unseen
-----------------------------------------------------------------------------
(* Every step. *)

\* The thread that reads a line or the end of its input is not in a broadcast.
LEMMA ReadUnseen ==
    ASSUME IInv, IInv', NEW c \in Conn, ReadLine(c) \/ ReadEnd(c)
    PROVE  UNCHANGED Room!vars
<1>1. UNCHANGED <<proc, clients, clients_mutex, live, cursor>>
  BY DEF ReadLine, ReadEnd, table, record, counts
<1>2. \A a \in Conn : a # c => kind'[a] = kind[a] /\ lines'[a] = lines[a]
  BY DEF ReadLine, ReadEnd, counts, IInv, TypeOK
<1>3. clients_mutex # c
  BY DEF IInv, MutexInv, ReadLine, ReadEnd, Step
<1> QED BY <1>1, <1>2, <1>3, QuietUnseen

\* A step of the server is one of the room, or leaves the room as it was.
LEMMA StepIsRooms ==
    IInv /\ IInv' /\ [Next]_vars => [Room!Next]_(Room!vars)
<1> SUFFICES ASSUME IInv, IInv', [Next]_vars PROVE [Room!Next]_(Room!vars)
  OBVIOUS
<1>1. CASE UNCHANGED <<proc, clients, clients_mutex, live, cursor, kind, lines>>
  BY <1>1, QuietUnseen
<1>2. ASSUME NEW c \in Conn, AddClient(c) PROVE [Room!Next]_(Room!vars)
  BY <1>2, AddEnters DEF Room!Next
<1>3. ASSUME NEW c \in Conn, RemoveClient(c) PROVE [Room!Next]_(Room!vars)
  BY <1>3, RemoveLeaves DEF Room!Next
<1>4. ASSUME NEW c \in Conn, Lock(c) PROVE [Room!Next]_(Room!vars)
  <2>1. Current(c) \in Message
    BY CurrentIsMessage DEF IInv
  <2> QED BY <1>4, <2>1, LockSays DEF Room!Next
<1>5. ASSUME NEW c \in Conn, SkipSlot(c) \/ WriteSlot(c) \/ Unlock(c)
      PROVE  [Room!Next]_(Room!vars)
  BY <1>5, SkipUnseen, WriteUnseen, UnlockUnseen
<1>6. ASSUME NEW c \in Conn, ReadLine(c) \/ ReadEnd(c) PROVE [Room!Next]_(Room!vars)
  BY <1>6, ReadUnseen
<1>7. ASSUME SslRace \/ \E c \in Conn : KilledWriting(c)
      PROVE  [Room!Next]_(Room!vars)
  <2>1. /\ proc = "up" /\ proc' # "up"
        /\ UNCHANGED <<clients, clients_mutex, live, cursor, kind, lines>>
    BY <1>7 DEF SslRace, KilledWriting, table, record, counts
  <2> QED BY <2>1, DeathCrashes DEF Room!Next
<1>8. \/ UNCHANGED <<proc, clients, clients_mutex, live, cursor, kind, lines>>
      \/ SslRace
      \/ \E c \in Conn : \/ AddClient(c) \/ RemoveClient(c) \/ Lock(c)
                         \/ SkipSlot(c) \/ WriteSlot(c) \/ Unlock(c)
                         \/ ReadLine(c) \/ ReadEnd(c) \/ KilledWriting(c)
  BY DEF Next, Serve, Environment, Handshake, Connect, PeerCloses, Stall, Drain, Accept,
     HandshakeOK, HandshakeFails, Prompt, AnswerEnds, Answered, AuthReply, Reject,
     Welcome, SaveChatLog, HistLine, HistEnd, Shutdown, Free, Idle, vars, table,
     record, counts
<1> QED BY <1>1, <1>2, <1>3, <1>4, <1>5, <1>6, <1>7, <1>8

\* Before anybody has come the room is empty.
LEMMA InitIsRooms == Init => Room!Init
<1> SUFFICES ASSUME Init PROVE Room!Init
  OBVIOUS
<1>1. \A c \in Conn : ~ IsRegistered(c)
  BY ChatAssumption DEF Init, IsRegistered
<1>2. \A c \in Conn : live[c] \o Owed(c) = <<>>
  BY ConcatEmptySeq DEF Init, Owed
<1> QED BY <1>1, <1>2 DEF Init, Room!Init

\* The server implements the room: whatever the threads interleave, a message
\* reaches its audience as if at once, and only a death of the process may cut
\* a broadcast short.
THEOREM ServerIsRoom == Spec => ImplementsRoom
<1>1. Spec => []IInv
  BY Invariance
<1> QED BY <1>1, InitIsRooms, StepIsRooms, PTL DEF Spec, ImplementsRoom, Room!Spec
=============================================================================
