------------------------- MODULE PlainServerProofs -------------------------
(***************************************************************************)
(* Theorems about PlainServer, for any connections, entries and lines: who *)
(* owns a descriptor number, what the table holds, and that nobody in the  *)
(* room misses a line.                                                     *)
(***************************************************************************)
EXTENDS PlainServer, FunctionTheorems, FiniteSetTheorems, TLAPS

USE PlainAssumption

\* The connections whose user is in the room, or about to be.
InRoom == {"hist", "join", "recv", "save", "chat"}

\* A number belongs to the connection that accept gave it to, until that is closed.
FdInv ==
    /\ \A c \in Conn : fdOf[c] = 0 <=> pc[c] = "off"
    /\ \A c \in Conn : pc[c] \in Holding => sock[fdOf[c]] = c
    /\ \A f \in Fd, c \in Conn : sock[f] = c => fdOf[c] = f /\ pc[c] \in Holding

\* The holders of the mutexes are where they use them, and the indices of the
\* others are at their beginnings.
MutexInv ==
    /\ \A c \in Conn : clients_mutex = c => pc[c] \in {"join", "chat", "leave"}
    /\ \A c \in Conn : clients_mutex # c => cursor[c] = 1
    /\ \A c \in Conn : file_mutex = c => pc[c] = "hist"
    /\ \A c \in Conn : file_mutex # c => hist[c] = 0
    /\ \A c \in Conn : hist[c] <= Len(chatlog)

InTable == {c \in Conn : pc[c] \in Entered}

\* The entries of the table stand for the connections that have entered it, one
\* each: slot says which for which.
Stands(slot) ==
    /\ slot \in [InTable -> 1 .. Len(clients)]
    /\ \A c \in InTable : clients[slot[c]] = fdOf[c]
    /\ \A c, d \in InTable : slot[c] = slot[d] => c = d
    /\ \A i \in 1 .. Len(clients) : \E c \in InTable : slot[c] = i

SlotInv == \E slot : Stands(slot)

\* A broadcast has reached everybody in front of its index.
LoopInv ==
    \A a, c \in Conn :
       /\ clients_mutex = a /\ pc[a] = "chat"
       /\ c # a /\ pc[c] \in InRoom /\ peer[c] = "open"
       /\ \E i \in 1 .. cursor[a] - 1 : i <= Len(clients) /\ clients[i] = fdOf[c]
       => Msg(a, "chat", lines[a]) \in got[c]

\* Line i of the log is c's own, or c has it, or its author is about to send it.
Has(c, i) ==
    LET m == chatlog[i] IN
       \/ m.from = c
       \/ pc[m.from] = "chat" /\ lines[m.from] = m.n
       \/ m \in got[c]

\* Those in the room have the log, as far as they have replayed it.
LogInv ==
    /\ \A i \in 1 .. Len(chatlog) : chatlog[i].kind = "chat"
    /\ \A c \in Conn, i \in 1 .. Len(chatlog) :
          /\ pc[c] \in InRoom /\ peer[c] = "open"
          /\ pc[c] = "hist" => i <= hist[c]
          => Has(c, i)

IInv == TypeOK /\ FdInv /\ MutexInv /\ SlotInv /\ LoopInv /\ LogInv
-----------------------------------------------------------------------------
(* Types. *)

\* Sending leaves what clients have got, and their ends, in their types; nobody
\* loses what he has got, and a closed end stays closed.
LEMMA SendTyped ==
    ASSUME TypeOK, NEW f \in Fd, NEW m, Send(f, m)
    PROVE  /\ got' \in [Conn -> SUBSET Recorded]
           /\ peer' \in [Conn -> {"open", "closed", "reset"}]
           /\ \A c \in Conn : got[c] \subseteq got'[c]
           /\ \A c \in Conn : peer'[c] = "open" => peer[c] = "open"
           /\ \A c \in Conn : got'[c] # got[c] => sock[f] = c
<1>1. CASE UNCHANGED wire
  BY <1>1 DEF TypeOK, wire
<1>2. CASE /\ sock[f] \in Conn
           /\ got' = [got EXCEPT ![sock[f]] = @ \cup ({m} \cap Recorded)]
           /\ UNCHANGED peer
  BY <1>2 DEF TypeOK
<1>3. CASE sock[f] \in Conn /\ peer[sock[f]] = "closed" /\ UNCHANGED got
           /\ peer' \in {peer, [peer EXCEPT ![sock[f]] = "reset"]}
  BY <1>3 DEF TypeOK
<1>4. QED
  BY <1>1, <1>2, <1>3 DEF TypeOK, Send

\* Sending to an open end arrives.
LEMMA SendArrives ==
    ASSUME TypeOK, NEW f \in Fd, NEW m \in Recorded, Send(f, m),
           NEW c \in Conn, sock[f] = c, peer'[c] = "open"
    PROVE  m \in got'[c]
<1>1. sock[f] # None /\ peer[c] = "open"
  BY SendTyped
<1>2. got' = [got EXCEPT ![c] = @ \cup ({m} \cap Recorded)]
  BY <1>1 DEF Send
<1>3. QED
  BY <1>2 DEF TypeOK

\* A connection between accept and its end has a number.
LEMMA HasFd ==
    ASSUME TypeOK, FdInv, NEW c \in Conn, pc[c] # "off"
    PROVE  fdOf[c] \in Fd
BY DEF TypeOK, FdInv

\* The last entry takes the place of the one removed.
LEMMA WithoutTyped ==
    ASSUME NEW S, NEW t \in Seq(S), NEW i \in 1 .. Len(t)
    PROVE  /\ Without(t, i) \in Seq(S)
           /\ Len(Without(t, i)) = Len(t) - 1
           /\ \A j \in 1 .. Len(t) - 1 : Without(t, i)[j] = IF j = i THEN t[Len(t)] ELSE t[j]
<1> DEFINE u == [t EXCEPT ![i] = t[Len(t)]]
<1>1. u \in Seq(S) /\ Len(u) = Len(t) /\ Len(t) \in Nat \ {0}
  OBVIOUS
<1>2. \A j \in 1 .. Len(t) : u[j] = IF j = i THEN t[Len(t)] ELSE t[j]
  OBVIOUS
<1>3. Without(t, i) = SubSeq(u, 1, Len(t) - 1)
  BY DEF Without
<1> HIDE DEF u
<1>4. QED
  BY <1>1, <1>2, <1>3

\* Every step keeps the types.
LEMMA TypeStep == IInv /\ [Next]_vars => TypeOK'
<1> SUFFICES ASSUME IInv, [Next]_vars PROVE TypeOK'
  OBVIOUS
<1> USE DEF IInv, Step, kernel, mutexes, counts, wire
<1>1. ASSUME NEW c \in Conn, PeerCloses(c) PROVE TypeOK'
  BY <1>1 DEF TypeOK, PeerCloses
<1>2. ASSUME NEW c \in Conn, Accept(c) PROVE TypeOK'
  BY <1>2 DEF TypeOK, Accept, PCs
<1>3. ASSUME NEW c \in Conn, AuthReply(c) PROVE TypeOK'
  BY <1>3, SendTyped, HasFd DEF TypeOK, AuthReply, PCs
<1>4. ASSUME NEW c \in Conn, Refuse(c) PROVE TypeOK'
  BY <1>4 DEF TypeOK, Refuse, PCs
<1>5. ASSUME NEW c \in Conn, Enter(c) PROVE TypeOK'
  <2>1. fdOf[c] \in Fd
    BY <1>5, HasFd DEF Enter
  <2>2. clients' \in Seq(Fd) /\ Len(clients') <= MAX_CLIENTS
    <3>1. clients \in Seq(Fd) /\ Len(clients) \in Nat /\ Len(clients) < MAX_CLIENTS
      BY <1>5 DEF TypeOK, Enter
    <3>2. clients' = Append(clients, fdOf[c])
      BY <1>5 DEF Enter
    <3>3. QED
      BY <2>1, <3>1, <3>2
  <2>3. QED
    BY <1>5, <2>2 DEF TypeOK, Enter, PCs
<1>6. ASSUME NEW c \in Conn, LockLog(c) PROVE TypeOK'
  BY <1>6 DEF TypeOK, LockLog, PCs
<1>7. ASSUME NEW c \in Conn, HistLine(c) PROVE TypeOK'
  <2>1. fdOf[c] \in Fd
    BY <1>7, HasFd DEF HistLine
  <2>2. got' \in [Conn -> SUBSET Recorded] /\ peer' \in [Conn -> {"open", "closed", "reset"}]
    BY <1>7, <2>1, SendTyped DEF HistLine
  <2>3. hist' \in [Conn -> Nat] /\ pc' \in [Conn -> PCs]
    BY <1>7 DEF TypeOK, HistLine, PCs
  <2>4. QED
    BY <1>7, <2>2, <2>3 DEF TypeOK, HistLine
<1>8. ASSUME NEW c \in Conn, HistEnd(c) PROVE TypeOK'
  BY <1>8 DEF TypeOK, HistEnd, Following, PCs
<1>9. ASSUME NEW c \in Conn, Receive(c) PROVE TypeOK'
  <2>1. lines' \in [Conn -> 0 .. MaxLines]
    <3>1. lines[c] + 1 \in 0 .. MaxLines
      BY <1>9 DEF TypeOK, Receive
    <3>2. QED
      BY <1>9, <3>1 DEF TypeOK, Receive
  <2>2. QED
    BY <1>9, <2>1 DEF TypeOK, Receive, Following, PCs
<1>10. ASSUME NEW c \in Conn, ReceiveEnds(c) PROVE TypeOK'
  BY <1>10 DEF TypeOK, ReceiveEnds, PCs
<1>11. ASSUME NEW c \in Conn, Save(c) PROVE TypeOK'
  <2>1. Msg(c, "chat", lines[c]) \in Message
    BY DEF TypeOK, Msg, Message, Kinds
  <2>2. chatlog' \in Seq(Message)
    BY <1>11, <2>1 DEF TypeOK, Save
  <2>3. QED
    BY <1>11, <2>2 DEF TypeOK, Save, Following, PCs
<1>12. ASSUME NEW c \in Conn, Lock(c) PROVE TypeOK'
  BY <1>12 DEF TypeOK, Lock, PCs
<1>13. ASSUME NEW c \in Conn, SendTo(c) PROVE TypeOK'
  <2>1. cursor' \in [Conn -> 1 .. MAX_CLIENTS + 1]
    <3>1. cursor[c] \in 1 .. MAX_CLIENTS + 1 /\ cursor[c] <= Len(clients)
      BY <1>13 DEF TypeOK, SendTo
    <3>2. Len(clients) \in Nat /\ Len(clients) <= MAX_CLIENTS
      BY DEF TypeOK
    <3>3. cursor[c] + 1 \in 1 .. MAX_CLIENTS + 1
      BY <3>1, <3>2
    <3>4. QED
      BY <1>13, <3>3 DEF TypeOK, SendTo
  <2>2. clients[cursor[c]] \in Fd
    BY <1>13 DEF TypeOK, SendTo
  <2>3. QED
    BY <1>13, <2>1, <2>2, SendTyped DEF TypeOK, SendTo
<1>14. ASSUME NEW c \in Conn, Unlock(c) PROVE TypeOK'
  BY <1>14 DEF TypeOK, Unlock, Following, PCs, MutexInv
<1>15. ASSUME NEW c \in Conn, Close(c) PROVE TypeOK'
  BY <1>15 DEF TypeOK, Close, Following, PCs
<1>16. ASSUME NEW c \in Conn, Remove(c) PROVE TypeOK'
  <2>1. PICK i \in 1 .. Len(clients) : clients' = Without(clients, i)
    BY <1>16 DEF Remove
  <2>2. clients' \in Seq(Fd) /\ Len(clients') <= MAX_CLIENTS
    BY <2>1, WithoutTyped DEF TypeOK
  <2>3. QED
    BY <1>16, <2>2 DEF TypeOK, Remove, Following, PCs
<1>17. ASSUME Killed PROVE TypeOK'
  BY <1>17 DEF TypeOK, Killed
<1>18. ASSUME UNCHANGED vars PROVE TypeOK'
  BY <1>18 DEF TypeOK, vars
<1>19. QED
  BY <1>1, <1>2, <1>3, <1>4, <1>5, <1>6, <1>7, <1>8, <1>9, <1>10, <1>11, <1>12, <1>13,
     <1>14, <1>15, <1>16, <1>17, <1>18 DEF Next, Serve, Idle
-----------------------------------------------------------------------------
(* Descriptors and mutexes. *)

\* A step from one point to another that both hold, or both do not hold, the
\* descriptor.
LEMMA FdKept ==
    ASSUME TypeOK, FdInv, UNCHANGED kernel, NEW c \in Conn, NEW to,
           pc' = [pc EXCEPT ![c] = to], pc[c] # "off", to # "off",
           to \in Holding <=> pc[c] \in Holding
    PROVE  FdInv'
BY DEF TypeOK, FdInv, kernel

\* Every step keeps a number with the connection that accept gave it to.
LEMMA FdStep == IInv /\ [Next]_vars => FdInv'
<1> SUFFICES ASSUME IInv, [Next]_vars PROVE FdInv'
  OBVIOUS
<1> USE DEF IInv, Step
<1>1. ASSUME NEW c \in Conn, PeerCloses(c) \/ SendTo(c) PROVE FdInv'
  BY <1>1 DEF FdInv, PeerCloses, SendTo, kernel
<1>2. ASSUME NEW c \in Conn, Accept(c) PROVE FdInv'
  <2>1. PICK f \in Fd : /\ sock[f] = None
                        /\ sock' = [sock EXCEPT ![f] = c]
                        /\ fdOf' = [fdOf EXCEPT ![c] = f]
    BY <1>2 DEF Accept
  <2>2. pc[c] = "off" /\ pc' = [pc EXCEPT ![c] = "auth"]
    BY <1>2 DEF Accept
  <2>3. \A d \in Conn : d # c => fdOf'[d] = fdOf[d] /\ pc'[d] = pc[d]
    BY <2>1, <2>2 DEF TypeOK
  <2>4. fdOf'[c] = f /\ pc'[c] = "auth" /\ sock'[f] = c /\ f # 0
    BY <2>1, <2>2 DEF TypeOK, Fd
  <2>5. \A e \in Fd : e # f => sock'[e] = sock[e]
    BY <2>1 DEF TypeOK
  <2>6. \A d \in Conn : pc[d] \in Holding => fdOf[d] \in Fd /\ fdOf[d] # f
    BY <2>1, HasFd DEF FdInv, Holding
  <2>7. \A e \in Fd : sock[e] # c
    BY <2>2 DEF FdInv, Holding
  <2>8. \A d \in Conn : fdOf'[d] = 0 <=> pc'[d] = "off"
    BY <2>3, <2>4 DEF FdInv
  <2>9. \A d \in Conn : pc'[d] \in Holding => sock'[fdOf'[d]] = d
    BY <2>3, <2>4, <2>5, <2>6 DEF FdInv
  <2>10. \A e \in Fd, d \in Conn : sock'[e] = d => fdOf'[d] = e /\ pc'[d] \in Holding
    BY <2>3, <2>4, <2>5, <2>7 DEF FdInv, Holding
  <2>11. QED
    BY <2>8, <2>9, <2>10 DEF FdInv
<1>3. ASSUME NEW c \in Conn, NEW to \in {"done", "remove"}, pc[c] \in Holding,
             pc' = [pc EXCEPT ![c] = to], sock' = [sock EXCEPT ![fdOf[c]] = None],
             fdOf' = fdOf
      PROVE  FdInv'
  <2>1. fdOf[c] \in Fd /\ pc[c] # "off"
    BY <1>3, HasFd DEF Holding
  <2>2. \A d \in Conn : d # c /\ pc[d] \in Holding => fdOf[d] # fdOf[c] /\ fdOf[d] \in Fd
    BY <1>3, HasFd DEF FdInv, Holding
  <2>3. pc'[c] = to /\ \A d \in Conn : d # c => pc'[d] = pc[d]
    BY <1>3 DEF TypeOK
  <2>4. sock'[fdOf[c]] = None /\ \A f \in Fd : f # fdOf[c] => sock'[f] = sock[f]
    BY <1>3, <2>1 DEF TypeOK
  <2>5. \A d \in Conn : fdOf'[d] = 0 <=> pc'[d] = "off"
    BY <1>3, <2>1, <2>3 DEF FdInv
  <2>6. \A d \in Conn : pc'[d] \in Holding => sock'[fdOf'[d]] = d
    BY <1>3, <2>2, <2>3, <2>4 DEF FdInv, Holding
  <2>7. \A f \in Fd, d \in Conn : sock'[f] = d => fdOf'[d] = f /\ pc'[d] \in Holding
    BY <1>3, <2>3, <2>4 DEF FdInv
  <2>8. QED
    BY <2>5, <2>6, <2>7 DEF FdInv
<1>4. ASSUME NEW c \in Conn, Refuse(c) \/ Close(c) PROVE FdInv'
  BY <1>3, <1>4 DEF Refuse, Close, Following, Holding
<1>5. ASSUME NEW c \in Conn,
             \/ AuthReply(c) \/ Enter(c) \/ LockLog(c) \/ HistLine(c) \/ HistEnd(c)
             \/ Receive(c) \/ ReceiveEnds(c) \/ Save(c) \/ Lock(c) \/ Unlock(c) \/ Remove(c)
      PROVE  FdInv'
  <2>1. CASE AuthReply(c)
    BY <2>1, FdKept DEF AuthReply, Holding
  <2>2. CASE Enter(c)
    BY <2>2, FdKept DEF Enter, Holding
  <2>3. CASE LockLog(c)
    BY <2>3, FdKept DEF LockLog, Holding
  <2>4. CASE HistLine(c)
    BY <2>4, FdKept DEF HistLine, Holding
  <2>5. CASE HistEnd(c)
    BY <2>5, FdKept DEF HistEnd, Following, Holding
  <2>6. CASE Receive(c)
    BY <2>6, FdKept DEF Receive, Following, Holding
  <2>7. CASE ReceiveEnds(c)
    BY <2>7, FdKept DEF ReceiveEnds, Holding
  <2>8. CASE Save(c)
    BY <2>8, FdKept DEF Save, Following, Holding
  <2>9. CASE Lock(c)
    BY <2>9, FdKept DEF Lock, Holding
  <2>10. CASE Unlock(c)
    BY <2>10, FdKept DEF Unlock, Following, Holding, MutexInv
  <2>11. CASE Remove(c)
    BY <2>11, FdKept DEF Remove, Following, Holding
  <2>12. QED
    BY <1>5, <2>1, <2>2, <2>3, <2>4, <2>5, <2>6, <2>7, <2>8, <2>9, <2>10, <2>11
<1>6. ASSUME Killed \/ UNCHANGED vars PROVE FdInv'
  BY <1>6 DEF FdInv, Killed, vars, kernel
<1>7. QED
  BY <1>1, <1>2, <1>4, <1>5, <1>6 DEF Next, Serve, Idle

\* A step of a connection that holds neither mutex, and takes none.
LEMMA MutexKept ==
    ASSUME TypeOK, MutexInv, UNCHANGED <<mutexes, cursor, hist>>, NEW c \in Conn, NEW to,
           pc' = [pc EXCEPT ![c] = to],
           clients_mutex = c => to \in {"join", "chat", "leave"},
           file_mutex = c => to = "hist",
           Len(chatlog) <= Len(chatlog'), Len(chatlog) \in Nat, Len(chatlog') \in Nat
    PROVE  MutexInv'
BY DEF TypeOK, MutexInv, mutexes

\* Every step keeps the mutexes with threads at the points that use them.
LEMMA MutexStep == IInv /\ [Next]_vars => MutexInv'
<1> SUFFICES ASSUME IInv, [Next]_vars PROVE MutexInv'
  OBVIOUS
<1> USE DEF IInv, Step, counts
<1>0. Len(chatlog) \in Nat
  BY DEF TypeOK
<1>1. ASSUME NEW c \in Conn, PeerCloses(c) PROVE MutexInv'
  BY <1>1 DEF MutexInv, PeerCloses, mutexes
<1>2. ASSUME NEW c \in Conn, Accept(c) PROVE MutexInv'
  BY <1>0, <1>2, MutexKept DEF Accept, MutexInv, mutexes
<1>3. ASSUME NEW c \in Conn, AuthReply(c) PROVE MutexInv'
  BY <1>0, <1>3, MutexKept DEF AuthReply, MutexInv, mutexes
<1>4. ASSUME NEW c \in Conn, Refuse(c) PROVE MutexInv'
  BY <1>0, <1>4, MutexKept DEF Refuse, MutexInv, mutexes
<1>5. ASSUME NEW c \in Conn, Enter(c) PROVE MutexInv'
  BY <1>0, <1>5, MutexKept DEF Enter, MutexInv, mutexes
<1>6. ASSUME NEW c \in Conn, LockLog(c) PROVE MutexInv'
  BY <1>6 DEF LockLog, MutexInv, TypeOK
<1>7. ASSUME NEW c \in Conn, HistLine(c) PROVE MutexInv'
  BY <1>0, <1>7 DEF HistLine, MutexInv, TypeOK, mutexes
<1>8. ASSUME NEW c \in Conn, HistEnd(c) PROVE MutexInv'
  BY <1>0, <1>8 DEF HistEnd, MutexInv, TypeOK, Following
<1>9. ASSUME NEW c \in Conn, Receive(c) PROVE MutexInv'
  BY <1>0, <1>9, MutexKept DEF Receive, MutexInv, mutexes
<1>10. ASSUME NEW c \in Conn, ReceiveEnds(c) PROVE MutexInv'
  BY <1>0, <1>10, MutexKept DEF ReceiveEnds, MutexInv, mutexes
<1>11. ASSUME NEW c \in Conn, Save(c) PROVE MutexInv'
  <2>1. Len(chatlog') = Len(chatlog) + 1
    BY <1>11 DEF Save, TypeOK
  <2>2. QED
    BY <1>0, <1>11, <2>1, MutexKept DEF Save, MutexInv, mutexes
<1>12. ASSUME NEW c \in Conn, Lock(c) PROVE MutexInv'
  BY <1>12 DEF Lock, MutexInv, TypeOK
<1>13. ASSUME NEW c \in Conn, SendTo(c) PROVE MutexInv'
  BY <1>13 DEF SendTo, MutexInv, TypeOK, mutexes
<1>14. ASSUME NEW c \in Conn, Unlock(c) PROVE MutexInv'
  BY <1>14 DEF Unlock, MutexInv, TypeOK, Following
<1>15. ASSUME NEW c \in Conn, Close(c) PROVE MutexInv'
  BY <1>0, <1>15, MutexKept DEF Close, MutexInv, mutexes
<1>16. ASSUME NEW c \in Conn, Remove(c) PROVE MutexInv'
  BY <1>0, <1>16, MutexKept DEF Remove, MutexInv, mutexes
<1>17. ASSUME Killed \/ UNCHANGED vars PROVE MutexInv'
  BY <1>17 DEF MutexInv, Killed, vars, mutexes
<1>18. QED
  BY <1>1, <1>2, <1>3, <1>4, <1>5, <1>6, <1>7, <1>8, <1>9, <1>10, <1>11, <1>12, <1>13,
     <1>14, <1>15, <1>16, <1>17 DEF Next, Serve, Idle
-----------------------------------------------------------------------------
(* The table. *)

\* Who is in the table, and by which number, does not change.
LEMMA SlotKept ==
    ASSUME SlotInv, clients' = clients, InTable' = InTable,
           \A c \in InTable : fdOf'[c] = fdOf[c]
    PROVE  SlotInv'
<1>1. PICK slot : Stands(slot)
  BY DEF SlotInv
<1>2. Stands(slot)'
  BY <1>1 DEF Stands
<1>3. QED
  BY <1>2 DEF SlotInv

\* A step from one point to another that both are between entering and removal,
\* or both are not.
LEMMA PointKept ==
    ASSUME TypeOK, SlotInv, clients' = clients, fdOf' = fdOf, NEW c \in Conn, NEW to,
           pc' = [pc EXCEPT ![c] = to], to \in Entered <=> pc[c] \in Entered
    PROVE  SlotInv'
<1>1. InTable' = InTable
  BY DEF InTable, TypeOK
<1>2. QED
  BY <1>1, SlotKept

\* The new entry is the last.
LEMMA EnterSlot ==
    ASSUME IInv, NEW c \in Conn, Enter(c)
    PROVE  SlotInv'
<1>1. PICK slot : Stands(slot)
  BY DEF IInv, SlotInv
<1>2. clients \in Seq(Fd) /\ Len(clients) \in Nat /\ fdOf[c] \in Fd
  BY HasFd DEF IInv, TypeOK, Enter, Step
<1>3. clients' = Append(clients, fdOf[c]) /\ fdOf' = fdOf
  BY DEF Enter, kernel
<1>4. Len(clients') = Len(clients) + 1 /\ clients'[Len(clients) + 1] = fdOf[c]
  BY <1>2, <1>3
<1>5. \A i \in 1 .. Len(clients) : clients'[i] = clients[i]
  BY <1>2, <1>3
<1>6. c \notin InTable /\ InTable' = InTable \cup {c}
  BY DEF InTable, IInv, TypeOK, Enter, Step, Entered
<1> DEFINE new == [d \in InTable' |-> IF d = c THEN Len(clients) + 1 ELSE slot[d]]
<1>7. new \in [InTable' -> 1 .. Len(clients')]
  BY <1>1, <1>2, <1>4, <1>6 DEF Stands
<1>8. \A d \in InTable' : clients'[new[d]] = fdOf'[d]
  BY <1>1, <1>2, <1>3, <1>4, <1>5, <1>6 DEF Stands
<1>9. \A d, e \in InTable' : new[d] = new[e] => d = e
  BY <1>1, <1>2, <1>6 DEF Stands
<1>10. \A i \in 1 .. Len(clients') : \E d \in InTable' : new[d] = i
  <2> SUFFICES ASSUME NEW i \in 1 .. Len(clients')
               PROVE  \E d \in InTable' : new[d] = i
    OBVIOUS
  <2>1. CASE i = Len(clients) + 1
    BY <2>1, <1>6
  <2>2. CASE i \in 1 .. Len(clients)
    <3>1. PICK d \in InTable : slot[d] = i
      BY <2>2, <1>1 DEF Stands
    <3>2. QED
      BY <3>1, <1>6
  <2>3. QED
    BY <2>1, <2>2, <1>2, <1>4
<1> HIDE DEF new
<1>11. PICK next : next = new
  OBVIOUS
<1>12. Stands(next)'
  BY <1>7, <1>8, <1>9, <1>10, <1>11 DEF Stands
<1>13. QED
  BY <1>12 DEF SlotInv

\* The entry removed may be one that stands for somebody else with the same
\* number, who gets the remover's; whoever has the last entry gets its new place.
LEMMA RemoveSlot ==
    ASSUME IInv, NEW c \in Conn, Remove(c)
    PROVE  SlotInv'
<1>1. PICK slot : Stands(slot)
  BY DEF IInv, SlotInv
<1>2. PICK i \in 1 .. Len(clients) : clients[i] = fdOf[c] /\ clients' = Without(clients, i)
  BY DEF Remove
<1> DEFINE n == Len(clients)
<1>3. clients \in Seq(Fd) /\ n \in Nat \ {0} /\ fdOf' = fdOf
  BY <1>2 DEF IInv, TypeOK, Remove, kernel
<1>4. Len(clients') = n - 1 /\ \A j \in 1 .. n - 1 : clients'[j] = IF j = i THEN clients[n] ELSE clients[j]
  BY <1>2, <1>3, WithoutTyped
<1>5. c \in InTable /\ InTable' = InTable \ {c}
  BY DEF InTable, IInv, TypeOK, Remove, Step, Entered, Following
<1> DEFINE swapped(d) == IF slot[d] = i THEN slot[c] ELSE slot[d]
<1>6. \A d \in InTable' : /\ d \in InTable /\ d # c
                          /\ swapped(d) \in 1 .. n
                          /\ swapped(d) # i
                          /\ clients[swapped(d)] = fdOf[d]
  BY <1>1, <1>2, <1>5 DEF Stands
<1>7. \A d, e \in InTable' : swapped(d) = swapped(e) => d = e
  BY <1>1, <1>5 DEF Stands
<1>8. \A j \in 1 .. n : j # i => \E d \in InTable' : swapped(d) = j
  <2> SUFFICES ASSUME NEW j \in 1 .. n, j # i PROVE \E d \in InTable' : swapped(d) = j
    OBVIOUS
  <2>1. PICK d \in InTable : slot[d] = j
    BY <1>1 DEF Stands
  <2>2. CASE d = c
    <3>1. PICK e \in InTable : slot[e] = i
      BY <1>1 DEF Stands
    <3>2. e # c /\ swapped(e) = j
      BY <2>1, <2>2, <3>1
    <3>3. QED
      BY <3>2, <1>5
  <2>3. CASE d # c
    BY <2>1, <2>3, <1>5
  <2>4. QED
    BY <2>2, <2>3
<1> HIDE DEF swapped
<1> DEFINE new == [d \in InTable' |-> IF swapped(d) = n THEN i ELSE swapped(d)]
<1>9. new \in [InTable' -> 1 .. Len(clients')]
  BY <1>3, <1>4, <1>6
<1>10. \A d \in InTable' : clients'[new[d]] = fdOf'[d]
  BY <1>3, <1>4, <1>6
<1>11. \A d, e \in InTable' : new[d] = new[e] => d = e
  BY <1>6, <1>7
<1>12. \A j \in 1 .. Len(clients') : \E d \in InTable' : new[d] = j
  BY <1>3, <1>4, <1>8
<1> HIDE DEF new
<1>13. PICK next : next = new
  OBVIOUS
<1>14. Stands(next)'
  BY <1>9, <1>10, <1>11, <1>12, <1>13 DEF Stands
<1>15. QED
  BY <1>14 DEF SlotInv

\* Every step keeps an entry for each connection that is in the table.
LEMMA SlotStep == IInv /\ [Next]_vars => SlotInv'
<1> SUFFICES ASSUME IInv, [Next]_vars PROVE SlotInv'
  OBVIOUS
<1> USE DEF IInv, Step, kernel
<1>1. ASSUME NEW c \in Conn, PeerCloses(c) \/ SendTo(c) PROVE SlotInv'
  BY <1>1, SlotKept DEF PeerCloses, SendTo, InTable
<1>2. ASSUME NEW c \in Conn, Accept(c) PROVE SlotInv'
  <2>1. InTable' = InTable
    BY <1>2 DEF Accept, InTable, TypeOK, Entered
  <2>2. \A d \in InTable : fdOf'[d] = fdOf[d]
    BY <1>2 DEF Accept, InTable, TypeOK, Entered
  <2>3. QED
    BY <1>2, <2>1, <2>2, SlotKept DEF Accept
<1>3. ASSUME NEW c \in Conn, AuthReply(c) \/ Refuse(c) \/ ReceiveEnds(c) \/ Lock(c) PROVE SlotInv'
  <2>1. CASE AuthReply(c)
    BY <2>1, PointKept DEF AuthReply, Entered
  <2>2. CASE Refuse(c)
    BY <2>2, PointKept DEF Refuse, Entered
  <2>3. CASE ReceiveEnds(c)
    BY <2>3, PointKept DEF ReceiveEnds, Entered
  <2>4. CASE Lock(c)
    BY <2>4, PointKept DEF Lock, Entered
  <2>5. QED
    BY <1>3, <2>1, <2>2, <2>3, <2>4
<1>4. ASSUME NEW c \in Conn, LockLog(c) \/ HistLine(c) \/ HistEnd(c) PROVE SlotInv'
  <2>1. CASE LockLog(c)
    BY <2>1, PointKept DEF LockLog, Entered
  <2>2. CASE HistLine(c)
    BY <2>2, PointKept DEF HistLine, Entered
  <2>3. CASE HistEnd(c)
    BY <2>3, PointKept DEF HistEnd, Following, Entered
  <2>4. QED
    BY <1>4, <2>1, <2>2, <2>3
<1>5. ASSUME NEW c \in Conn, Receive(c) \/ Save(c) \/ Unlock(c) \/ Close(c) PROVE SlotInv'
  <2>1. CASE Receive(c)
    BY <2>1, PointKept DEF Receive, Following, Entered
  <2>2. CASE Save(c)
    BY <2>2, PointKept DEF Save, Following, Entered
  <2>3. CASE Unlock(c)
    BY <2>3, PointKept DEF Unlock, Following, Entered, MutexInv
  <2>4. CASE Close(c)
    BY <2>4, PointKept DEF Close, Following, Entered
  <2>5. QED
    BY <1>5, <2>1, <2>2, <2>3, <2>4
<1>6. ASSUME Killed \/ UNCHANGED vars PROVE SlotInv'
  BY <1>6, SlotKept DEF Killed, vars, InTable
<1>7. QED
  BY <1>1, <1>2, <1>3, <1>4, <1>5, <1>6, EnterSlot, RemoveSlot DEF Next, Serve, Idle
-----------------------------------------------------------------------------
(* The broadcasts and the log. *)

\* Nobody loses what he has got, and an end that is open was open.
Monotone ==
    \A c \in Conn : got[c] \subseteq got'[c] /\ (peer'[c] = "open" => peer[c] = "open")

\* Every step only adds to what clients have got.
LEMMA NextMonotone == IInv /\ [Next]_vars => Monotone
<1> SUFFICES ASSUME IInv, [Next]_vars PROVE Monotone
  OBVIOUS
<1> USE DEF IInv, wire
<1>1. ASSUME NEW c \in Conn, PeerCloses(c) PROVE Monotone
  BY <1>1 DEF PeerCloses, Monotone, TypeOK
<1>2. ASSUME NEW c \in Conn, AuthReply(c) PROVE Monotone
  BY <1>2, SendTyped, HasFd DEF AuthReply, Step, Monotone
<1>3. ASSUME NEW c \in Conn, HistLine(c) PROVE Monotone
  BY <1>3, SendTyped, HasFd DEF HistLine, Step, Monotone
<1>4. ASSUME NEW c \in Conn, SendTo(c) PROVE Monotone
  <2>1. clients[cursor[c]] \in Fd
    BY <1>4 DEF TypeOK, SendTo
  <2>2. QED
    BY <1>4, <2>1, SendTyped DEF SendTo, Monotone
<1>5. CASE UNCHANGED wire
  BY <1>5 DEF Monotone
<1>6. QED
  BY <1>1, <1>2, <1>3, <1>4, <1>5 DEF Next, Serve, Idle, vars, Killed, Accept, Refuse, Enter,
     LockLog, HistEnd, Receive, ReceiveEnds, Save, Lock, Unlock, Close, Remove

\* A step that starts no broadcast and brings nobody into the room.
LEMMA LoopKept ==
    ASSUME LoopInv, Monotone, clients' = clients, cursor' = cursor,
           \A a \in Conn : clients_mutex' = a /\ pc'[a] = "chat" =>
              clients_mutex = a /\ pc[a] = "chat" /\ lines'[a] = lines[a],
           \A c \in Conn : pc'[c] \in InRoom => pc[c] \in InRoom /\ fdOf'[c] = fdOf[c]
    PROVE  LoopInv'
BY DEF LoopInv, Monotone

\* The next entry gets what the broadcast is about.
LEMMA SendToLoop ==
    ASSUME IInv, Monotone, NEW a \in Conn, SendTo(a)
    PROVE  LoopInv'
<1> DEFINE f == clients[cursor[a]]
<1>1. f \in Fd /\ cursor[a] \in 1 .. Len(clients) /\ Len(clients) \in Nat
  BY DEF IInv, TypeOK, SendTo
<1>2. /\ clients' = clients /\ pc' = pc /\ lines' = lines /\ fdOf' = fdOf /\ sock' = sock
      /\ clients_mutex' = clients_mutex /\ clients_mutex = a
      /\ cursor' = [cursor EXCEPT ![a] = @ + 1]
  BY DEF SendTo, kernel, mutexes
<1>3. cursor'[a] = cursor[a] + 1 /\ \A b \in Conn : b # a => cursor'[b] = cursor[b]
  BY <1>2 DEF IInv, TypeOK
<1>4. ASSUME NEW c \in Conn, pc[a] = "chat", c # a, pc[c] \in InRoom, peer'[c] = "open",
             fdOf[c] = f
      PROVE  Msg(a, "chat", lines[a]) \in got'[c]
  <2>1. sock[f] = c
    BY <1>4 DEF IInv, FdInv, InRoom, Holding
  <2>2. fdOf[a] # f
    BY <1>4, <2>1 DEF IInv, FdInv, Holding
  <2>3. Msg(a, "chat", lines[a]) \in Recorded
    BY DEF Msg, Recorded, IInv, TypeOK
  <2>4. Send(f, Msg(a, "chat", lines[a]))
    BY <1>4, <2>2 DEF SendTo, Announced
  <2>5. QED
    BY <1>1, <1>4, <2>1, <2>3, <2>4, SendArrives DEF IInv
<1> HIDE DEF f
<1>5. SUFFICES ASSUME NEW b \in Conn, NEW c \in Conn, clients_mutex = b, pc[b] = "chat", c # b,
                      pc[c] \in InRoom, peer'[c] = "open",
                      NEW i \in 1 .. cursor'[b] - 1, i <= Len(clients), clients[i] = fdOf[c]
               PROVE  Msg(b, "chat", lines[b]) \in got'[c]
  BY <1>2 DEF LoopInv, Msg
<1>6. b = a
  BY <1>2, <1>5
<1>7. CASE i = cursor[a]
  BY <1>4, <1>5, <1>6, <1>7 DEF f
<1>8. CASE i \in 1 .. cursor[a] - 1
  BY <1>5, <1>6, <1>8 DEF IInv, LoopInv, Monotone
<1>9. QED
  BY <1>1, <1>3, <1>6, <1>7, <1>8

\* Every step keeps a broadcast's progress: nobody comes in front of its index.
LEMMA LoopStep == IInv /\ [Next]_vars => LoopInv'
<1> SUFFICES ASSUME IInv, [Next]_vars PROVE LoopInv'
  OBVIOUS
<1>0. Monotone
  BY NextMonotone
<1> USE DEF IInv, Step, kernel, mutexes, counts
<1>1. ASSUME NEW c \in Conn, PeerCloses(c) PROVE LoopInv'
  BY <1>0, <1>1, LoopKept DEF PeerCloses
<1>2. ASSUME NEW c \in Conn, Accept(c) PROVE LoopInv'
  BY <1>0, <1>2, LoopKept DEF Accept, InRoom, TypeOK
<1>3. ASSUME NEW c \in Conn, AuthReply(c) \/ Refuse(c) PROVE LoopInv'
  BY <1>0, <1>3, LoopKept DEF AuthReply, Refuse, InRoom, TypeOK
<1>4. ASSUME NEW c \in Conn, Enter(c) \/ Remove(c) PROVE LoopInv'
  <2>1. clients_mutex' = None
    BY <1>4 DEF Enter, Remove
  <2>2. QED
    BY <2>1 DEF LoopInv
<1>5. ASSUME NEW c \in Conn, LockLog(c) \/ HistLine(c) \/ HistEnd(c) PROVE LoopInv'
  BY <1>0, <1>5, LoopKept DEF LockLog, HistLine, HistEnd, Following, InRoom, TypeOK
<1>6. ASSUME NEW c \in Conn, Receive(c) PROVE LoopInv'
  BY <1>0, <1>6, LoopKept DEF Receive, Following, InRoom, TypeOK
<1>7. ASSUME NEW c \in Conn, ReceiveEnds(c) PROVE LoopInv'
  BY <1>0, <1>7, LoopKept DEF ReceiveEnds, InRoom, TypeOK
<1>8. ASSUME NEW c \in Conn, Save(c) PROVE LoopInv'
  BY <1>0, <1>8, LoopKept DEF Save, Following, InRoom, TypeOK, MutexInv
<1>9. ASSUME NEW c \in Conn, Lock(c) PROVE LoopInv'
  <2>1. clients_mutex' = c /\ cursor'[c] = 1
    BY <1>9 DEF Lock, MutexInv
  <2>2. QED
    BY <2>1 DEF LoopInv
<1>10. ASSUME NEW c \in Conn, Unlock(c) PROVE LoopInv'
  <2>1. clients_mutex' = None
    BY <1>10 DEF Unlock
  <2>2. QED
    BY <2>1 DEF LoopInv
<1>11. ASSUME NEW c \in Conn, Close(c) PROVE LoopInv'
  BY <1>0, <1>11, LoopKept DEF Close, Following, InRoom, TypeOK
<1>12. ASSUME Killed \/ UNCHANGED vars PROVE LoopInv'
  BY <1>0, <1>12, LoopKept DEF Killed, vars
<1>13. QED
  BY <1>0, <1>1, <1>2, <1>3, <1>4, <1>5, <1>6, <1>7, <1>8, <1>9, <1>10, <1>11, <1>12,
     SendToLoop DEF Next, Serve, Idle

\* A step that writes no line, ends no broadcast, and brings nobody into the room
\* or further in the log.
LEMMA LogKept ==
    ASSUME LogInv, Monotone, chatlog' = chatlog,
           \A c \in Conn : pc'[c] \in InRoom =>
              pc[c] \in InRoom /\ (pc[c] = "hist" => pc'[c] = "hist" /\ hist'[c] = hist[c]),
           \A i \in 1 .. Len(chatlog) : chatlog[i].from \in Conn,
           \A a \in Conn : pc[a] = "chat" => pc'[a] = "chat" /\ lines'[a] = lines[a]
    PROVE  LogInv'
BY DEF LogInv, Has, Monotone

\* A line of the log is a message of somebody's.
LEMMA LogTyped ==
    ASSUME TypeOK, NEW i \in 1 .. Len(chatlog)
    PROVE  chatlog[i] \in Message /\ chatlog[i].from \in Conn
<1>1. chatlog \in Seq(Message)
  BY DEF TypeOK
<1>2. chatlog[i] \in Message
  BY <1>1
<1>3. QED
  BY <1>2 DEF Message

\* A line that is replayed arrives.
LEMMA HistLineLog ==
    ASSUME IInv, Monotone, NEW c \in Conn, HistLine(c)
    PROVE  LogInv'
<1> DEFINE n == hist[c] + 1
           m == chatlog[n]
<1>1. /\ n \in 1 .. Len(chatlog) /\ hist' = [hist EXCEPT ![c] = n] /\ pc' = pc
      /\ chatlog' = chatlog /\ lines' = lines /\ pc[c] = "hist"
  BY DEF IInv, TypeOK, HistLine, Step
<1>2. m \in Message /\ m.kind = "chat"
  BY <1>1, LogTyped DEF IInv, LogInv
<1>3. m \in Recorded
  BY <1>2 DEF Message, Recorded
<1>4. fdOf[c] \in Fd /\ sock[fdOf[c]] = c
  BY <1>1, HasFd DEF IInv, FdInv, Holding
<1>5. peer'[c] = "open" => m \in got'[c]
  BY <1>3, <1>4, SendArrives DEF IInv, HistLine
<1> HIDE DEF m
<1>6. ASSUME NEW d \in Conn, NEW i \in 1 .. Len(chatlog), pc[d] \in InRoom, peer'[d] = "open",
             pc[d] = "hist" => i <= hist'[d]
      PROVE  Has(d, i)'
  <2>1. CASE d = c /\ i = n
    BY <1>1, <1>5, <1>6, <2>1 DEF Has, m
  <2>2. CASE d # c \/ i # n
    <3>1. pc[d] = "hist" => i <= hist[d]
      BY <1>1, <1>6, <2>2 DEF IInv, TypeOK
    <3>2. Has(d, i)
      BY <1>6, <3>1 DEF IInv, LogInv, Monotone
    <3>3. QED
      BY <1>1, <3>2 DEF Has, Monotone
  <2>3. QED
    BY <2>1, <2>2
<1>7. QED
  BY <1>1, <1>6 DEF IInv, LogInv

\* A new line is its author's to send.
LEMMA SaveLog ==
    ASSUME IInv, Monotone, NEW c \in Conn, Save(c)
    PROVE  LogInv'
<1> DEFINE n == Len(chatlog)
           m == Msg(c, "chat", lines[c])
<1>1. /\ n \in Nat /\ chatlog' = Append(chatlog, m) /\ lines' = lines /\ hist' = hist
      /\ pc[c] = "save" /\ pc' = [pc EXCEPT ![c] = "chat"]
  BY DEF IInv, TypeOK, Save, Step, counts, Following
<1>2. Len(chatlog') = n + 1 /\ chatlog'[n + 1] = m /\ \A i \in 1 .. n : chatlog'[i] = chatlog[i]
  BY <1>1 DEF IInv, TypeOK
<1>3. m.from = c /\ m.kind = "chat" /\ m.n = lines[c]
  BY DEF Msg
<1> HIDE DEF m
<1>4. ASSUME NEW d \in Conn, NEW i \in 1 .. n + 1, pc'[d] \in InRoom, peer'[d] = "open",
             pc'[d] = "hist" => i <= hist[d]
      PROVE  Has(d, i)'
  <2>1. CASE i = n + 1
    BY <1>1, <1>2, <1>3, <2>1 DEF Has, IInv, TypeOK
  <2>2. CASE i \in 1 .. n
    <3>1. pc[d] \in InRoom /\ (pc[d] = "hist" => i <= hist[d])
      BY <1>1, <1>4 DEF IInv, TypeOK, InRoom
    <3>2. Has(d, i)
      BY <1>4, <2>2, <3>1 DEF IInv, LogInv, Monotone
    <3>3. chatlog[i].from \in Conn
      BY <2>2, LogTyped DEF IInv
    <3>4. QED
      BY <1>1, <1>2, <2>2, <3>2, <3>3 DEF Has, Monotone, IInv, TypeOK
  <2>3. QED
    BY <1>1, <2>1, <2>2
<1>5. \A i \in 1 .. n + 1 : chatlog'[i].kind = "chat"
  BY <1>1, <1>2, <1>3 DEF IInv, LogInv
<1>6. QED
  BY <1>1, <1>2, <1>4, <1>5 DEF LogInv

\* When a broadcast is over, everybody in the room was in front of its index.
LEMMA UnlockLog ==
    ASSUME IInv, Monotone, NEW a \in Conn, Unlock(a)
    PROVE  LogInv'
<1>1. /\ clients_mutex = a /\ cursor[a] > Len(clients) /\ chatlog' = chatlog /\ lines' = lines
      /\ hist' = hist /\ got' = got /\ peer' = peer /\ pc' = [pc EXCEPT ![a] = Following(pc[a])]
      /\ pc[a] \in {"join", "chat", "leave"}
  BY DEF IInv, MutexInv, Unlock, Step, wire
<1>2. ASSUME NEW c \in Conn, NEW i \in 1 .. Len(chatlog), pc'[c] \in InRoom, peer[c] = "open",
             pc'[c] = "hist" => i <= hist[c]
      PROVE  Has(c, i)'
  <2> DEFINE m == chatlog[i]
  <2>1. pc[c] \in InRoom /\ (pc[c] = "hist" => i <= hist[c])
    BY <1>1, <1>2 DEF IInv, TypeOK, InRoom, Following
  <2>2. Has(c, i)
    BY <1>2, <2>1 DEF IInv, LogInv
  <2>3. m \in Message /\ m.kind = "chat"
    BY LogTyped DEF IInv, LogInv
  <2>4. CASE m.from = a /\ pc[a] = "chat" /\ lines[a] = m.n /\ c # a
    <3>1. m = Msg(a, "chat", lines[a])
      BY <2>3, <2>4 DEF Message, Msg
    <3>2. PICK slot : Stands(slot)
      BY DEF IInv, SlotInv
    <3>3. c \in InTable
      BY <2>1 DEF InTable, InRoom, Entered
    <3>4. slot[c] \in 1 .. Len(clients) /\ clients[slot[c]] = fdOf[c]
      BY <3>2, <3>3 DEF Stands
    <3>5. Len(clients) \in Nat /\ cursor[a] \in Nat
      <4>1. clients \in Seq(Fd) /\ cursor[a] \in 1 .. MAX_CLIENTS + 1
        BY DEF IInv, TypeOK
      <4>2. QED
        BY <4>1
    <3>6. m \in got[c]
      BY <1>1, <1>2, <2>1, <2>4, <3>1, <3>4, <3>5 DEF IInv, LoopInv
    <3>7. QED
      BY <1>1, <3>6 DEF Has
  <2>5. CASE ~ (m.from = a /\ pc[a] = "chat" /\ lines[a] = m.n /\ c # a)
    BY <1>1, <2>2, <2>3, <2>5 DEF Has, IInv, TypeOK, Message
  <2>6. QED
    BY <2>4, <2>5
<1>3. QED
  BY <1>1, <1>2 DEF IInv, LogInv

\* Every step keeps those in the room supplied with the log.
LEMMA LogStep == IInv /\ [Next]_vars => LogInv'
<1> SUFFICES ASSUME IInv, [Next]_vars PROVE LogInv'
  OBVIOUS
<1>0. Monotone /\ \A i \in 1 .. Len(chatlog) : chatlog[i].from \in Conn
  BY NextMonotone, LogTyped DEF IInv
<1> USE DEF IInv, Step, counts
<1>1. ASSUME NEW c \in Conn, PeerCloses(c) \/ SendTo(c) PROVE LogInv'
  BY <1>0, <1>1, LogKept DEF PeerCloses, SendTo
<1>2. ASSUME NEW c \in Conn, Accept(c) PROVE LogInv'
  BY <1>0, <1>2, LogKept DEF Accept, InRoom, TypeOK
<1>3. ASSUME NEW c \in Conn, AuthReply(c) \/ Refuse(c) PROVE LogInv'
  BY <1>0, <1>3, LogKept DEF AuthReply, Refuse, InRoom, TypeOK
<1>4. ASSUME NEW c \in Conn, Enter(c) PROVE LogInv'
  <2>1. hist'[c] = 0 /\ chatlog' = chatlog /\ pc' = [pc EXCEPT ![c] = "hist"] /\ pc[c] = "enter"
        /\ hist' = hist /\ lines' = lines
    BY <1>4 DEF Enter, MutexInv
  <2>2. \A d \in Conn : pc'[d] \in InRoom => d = c \/ (pc[d] \in InRoom /\ pc'[d] = pc[d])
    BY <2>1 DEF InRoom, TypeOK
  <2>3. pc'[c] = "hist" /\ \A d \in Conn : pc[d] = "chat" => pc'[d] = "chat"
    BY <2>1 DEF TypeOK
  <2>4. ASSUME NEW d \in Conn, NEW i \in 1 .. Len(chatlog), pc'[d] \in InRoom,
               peer'[d] = "open", pc'[d] = "hist" => i <= hist'[d]
        PROVE  Has(d, i)'
    <3>1. d # c
      BY <2>1, <2>3, <2>4
    <3>2. Has(d, i)
      BY <1>0, <2>1, <2>2, <2>4, <3>1 DEF LogInv, Monotone
    <3>3. QED
      BY <1>0, <2>1, <2>3, <3>2 DEF Has, Monotone
  <2>5. QED
    BY <2>1, <2>4 DEF LogInv
<1>5. ASSUME NEW c \in Conn, LockLog(c) PROVE LogInv'
  BY <1>0, <1>5, LogKept DEF LockLog, InRoom, TypeOK
<1>6. ASSUME NEW c \in Conn, HistEnd(c) PROVE LogInv'
  <2>1. /\ hist[c] = Len(chatlog) /\ chatlog' = chatlog /\ pc' = [pc EXCEPT ![c] = "join"]
        /\ pc[c] = "hist" /\ lines' = lines /\ \A d \in Conn : d # c => hist'[d] = hist[d]
    BY <1>6 DEF HistEnd, Following, TypeOK
  <2>2. \A d \in Conn, i \in 1 .. Len(chatlog) :
           pc'[d] \in InRoom /\ (pc'[d] = "hist" => i <= hist'[d]) =>
              pc[d] \in InRoom /\ (pc[d] = "hist" => i <= hist[d])
    <3>1. ASSUME NEW i \in 1 .. Len(chatlog) PROVE i <= Len(chatlog)
      OBVIOUS
    <3>2. ASSUME NEW d \in Conn, d # c PROVE pc'[d] = pc[d] /\ hist'[d] = hist[d]
      BY <2>1, <3>2 DEF TypeOK
    <3>3. QED
      BY <2>1, <3>1, <3>2 DEF InRoom
  <2>3. \A a \in Conn : pc[a] = "chat" => pc'[a] = "chat"
    BY <2>1 DEF TypeOK
  <2>4. QED
    BY <1>0, <2>1, <2>2, <2>3 DEF LogInv, Has, Monotone
<1>7. ASSUME NEW c \in Conn, Receive(c) PROVE LogInv'
  BY <1>0, <1>7, LogKept DEF Receive, Following, InRoom, TypeOK
<1>8. ASSUME NEW c \in Conn, ReceiveEnds(c) PROVE LogInv'
  BY <1>0, <1>8, LogKept DEF ReceiveEnds, InRoom, TypeOK
<1>9. ASSUME NEW c \in Conn, Lock(c) PROVE LogInv'
  BY <1>0, <1>9, LogKept DEF Lock, InRoom, TypeOK
<1>10. ASSUME NEW c \in Conn, Close(c) \/ Remove(c) PROVE LogInv'
  BY <1>0, <1>10, LogKept DEF Close, Remove, Following, InRoom, TypeOK
<1>11. ASSUME Killed \/ UNCHANGED vars PROVE LogInv'
  BY <1>0, <1>11, LogKept DEF Killed, vars
<1>12. QED
  BY <1>0, <1>1, <1>2, <1>3, <1>4, <1>5, <1>6, <1>7, <1>8, <1>9, <1>10, <1>11,
     HistLineLog, SaveLog, UnlockLog DEF Next, Serve, Idle
-----------------------------------------------------------------------------
(* The theorems. *)

\* The server starts with no descriptor, an empty table and an empty log.
LEMMA InitInv == Init => IInv
<1> SUFFICES ASSUME Init PROVE IInv
  OBVIOUS
<1>1. MAX_CLIENTS + 1 \in Nat /\ 1 \in 1 .. MAX_CLIENTS + 1
  OBVIOUS
<1>2. TypeOK
  <2>1. cursor \in [Conn -> 1 .. MAX_CLIENTS + 1]
    BY <1>1 DEF Init
  <2>2. Len(clients) <= MAX_CLIENTS /\ clients \in Seq(Fd) /\ chatlog \in Seq(Message)
    BY DEF Init
  <2>3. sock \in [Fd -> Conn \cup {None}] /\ fdOf \in [Conn -> Fd \cup {0}]
    BY DEF Init
  <2>4. lines \in [Conn -> 0 .. MaxLines] /\ hist \in [Conn -> Nat]
    BY DEF Init
  <2>5. pc \in [Conn -> PCs] /\ got \in [Conn -> SUBSET Recorded]
        /\ peer \in [Conn -> {"open", "closed", "reset"}]
    BY DEF Init, PCs
  <2>6. QED
    BY <2>1, <2>2, <2>3, <2>4, <2>5 DEF Init, TypeOK
<1>3. FdInv
  BY DEF Init, FdInv, Holding
<1>4. MutexInv
  BY DEF Init, MutexInv
<1>5. InTable = {} /\ Len(clients) = 0
  BY DEF Init, InTable, Entered
<1>6. SlotInv
  <2>1. PICK slot : slot = [c \in InTable |-> 0]
    OBVIOUS
  <2>2. Stands(slot)
    BY <1>5, <2>1 DEF Stands
  <2>3. QED
    BY <2>2 DEF SlotInv
<1>7. LoopInv /\ LogInv
  BY DEF Init, LoopInv, LogInv, InRoom
<1>8. QED
  BY <1>2, <1>3, <1>4, <1>6, <1>7 DEF IInv

\* The invariant holds: the types, with an entry never written behind the table,
\* and the descriptors, mutexes, entries, broadcasts and replays as stated above.
THEOREM Invariance == Spec => []IInv
<1>1. IInv /\ [Next]_vars => IInv'
  BY TypeStep, FdStep, MutexStep, SlotStep, LoopStep, LogStep DEF IInv
<1>2. QED
  BY InitInv, <1>1, PTL DEF Spec

\* The types: the table of server.c is never written behind its last entry.
THEOREM TypeCorrect == Spec => []TypeOK
<1>1. IInv => TypeOK
  BY DEF IInv
<1>2. QED
  BY Invariance, <1>1, PTL

\* A thread's number is its own connection until it closes it, although the
\* number it keeps in the table may be another connection's by then.
THEOREM NumbersOwned == Spec => []DescriptorOwned
<1>1. IInv => DescriptorOwned
  BY DEF IInv, TypeOK, FdInv, DescriptorOwned
<1>2. QED
  BY Invariance, <1>1, PTL

\* A number is in the table as often as connections with it have entered and
\* have not been removed: those entries and connections stand for each other.
THEOREM TableCounts == Spec => []TableExact
<1>1. IInv => TableExact
  <2> SUFFICES ASSUME IInv, NEW f \in Fd
               PROVE  Cardinality({i \in 1 .. Len(clients) : clients[i] = f})
                        = Cardinality({c \in Conn : fdOf[c] = f /\ pc[c] \in Entered})
    BY DEF TableExact
  <2> DEFINE C == {c \in Conn : fdOf[c] = f /\ pc[c] \in Entered}
             E == {i \in 1 .. Len(clients) : clients[i] = f}
  <2>1. PICK slot : Stands(slot)
    BY DEF IInv, SlotInv
  <2>2. C \subseteq InTable /\ \A c \in InTable : fdOf[c] = f => c \in C
    BY DEF InTable
  <2> DEFINE part == [c \in C |-> slot[c]]
  <2>3. part \in [C -> E]
    BY <2>1, <2>2 DEF Stands
  <2>4. \A c, d \in C : part[c] = part[d] => c = d
    BY <2>1, <2>2 DEF Stands
  <2>5. \A i \in E : \E c \in C : part[c] = i
    BY <2>1, <2>2 DEF Stands
  <2>6. ExistsBijection(C, E)
    BY <2>3, <2>4, <2>5, Fun_IsBij DEF ExistsBijection
  <2>7. IsFiniteSet(C)
    BY FS_Subset
  <2>8. QED
    BY <2>6, <2>7, FS_Bijection
<1>2. QED
  BY Invariance, <1>1, PTL

\* Who is in the room has every line of the log that is not their own and whose
\* author has sent it: entering before the replay and writing before the
\* broadcast leave no gap between history and live lines.
THEOREM NobodyIsMissed == Spec => []NobodyMisses
<1>1. IInv => NobodyMisses
  BY DEF IInv, LogInv, NobodyMisses, InRoom, Has
<1>2. QED
  BY Invariance, <1>1, PTL

\* A connection that main is still authenticating is sent nothing, except where
\* the entry of a thread that has closed the same number is still in the table.
THEOREM StraysOnlyFromStaleEntry == Spec => StraysNeedStaleEntry
<1> DEFINE Stray(c) == pc[c] = "auth" /\ pc'[c] = "auth" /\ got'[c] # got[c]
           Stale(c) == \E d \in Conn : pc[d] = "remove" /\ fdOf[d] = fdOf[c]
<1>1. ASSUME IInv, [Next]_vars, NEW c \in Conn, Stray(c) PROVE Stale(c)
  <2> USE DEF IInv, Step
  <2>1. ASSUME NEW d \in Conn, AuthReply(d) \/ HistLine(d) PROVE FALSE
    <3>1. pc[d] \in Holding /\ pc[d] # "off" /\ (pc[d] = "auth" => pc'[d] = "enter")
      BY <1>1, <2>1 DEF AuthReply, HistLine, Holding, TypeOK
    <3>2. fdOf[d] \in Fd /\ sock[fdOf[d]] = d
      BY <1>1, <3>1, HasFd DEF FdInv
    <3>3. sock[fdOf[d]] = c
      BY <1>1, <2>1, <3>2, SendTyped DEF AuthReply, HistLine
    <3>4. QED
      BY <1>1, <2>1, <3>1, <3>2, <3>3 DEF AuthReply, HistLine
  <2>2. ASSUME NEW a \in Conn, SendTo(a) PROVE Stale(c)
    <3> DEFINE f == clients[cursor[a]]
    <3>1. cursor[a] \in 1 .. Len(clients) /\ f \in Fd
      <4>1. cursor[a] \in 1 .. MAX_CLIENTS + 1 /\ cursor[a] <= Len(clients) /\ clients \in Seq(Fd)
        BY <1>1, <2>2 DEF SendTo, TypeOK
      <4>2. QED
        BY <4>1
    <3>2. sock[f] = c
      BY <1>1, <2>2, <3>1, SendTyped DEF SendTo, wire
    <3>3. fdOf[c] = f
      BY <1>1, <3>1, <3>2 DEF FdInv
    <3>4. PICK slot : Stands(slot)
      BY <1>1 DEF SlotInv
    <3>5. PICK d \in InTable : slot[d] = cursor[a]
      BY <3>1, <3>4 DEF Stands
    <3>6. fdOf[d] = f /\ pc[d] \in Entered /\ d \in Conn
      BY <3>4, <3>5 DEF Stands, InTable
    <3>7. pc[d] \notin Holding
      BY <1>1, <3>2, <3>6 DEF FdInv, Entered
    <3>8. QED
      BY <3>3, <3>6, <3>7 DEF Entered, Holding
  <2>3. ASSUME NEW d \in Conn,
               \/ PeerCloses(d) \/ Accept(d) \/ Refuse(d) \/ Enter(d) \/ LockLog(d)
               \/ HistEnd(d) \/ Receive(d) \/ ReceiveEnds(d) \/ Save(d) \/ Lock(d)
               \/ Unlock(d) \/ Close(d) \/ Remove(d)
        PROVE  FALSE
    BY <1>1, <2>3 DEF PeerCloses, Accept, Refuse, Enter, LockLog, HistEnd, Receive,
       ReceiveEnds, Save, Lock, Unlock, Close, Remove, wire
  <2>4. ASSUME Killed \/ UNCHANGED vars PROVE FALSE
    BY <1>1, <2>4 DEF Killed, vars, wire
  <2>5. QED
    BY <1>1, <2>1, <2>2, <2>3, <2>4 DEF Next, Serve, Idle
<1>2. IInv /\ [Next]_vars => [\A c \in Conn : Stray(c) => Stale(c)]_vars
  BY <1>1
<1>3. QED
  BY Invariance, <1>2, PTL DEF Spec, StraysNeedStaleEntry
=============================================================================
