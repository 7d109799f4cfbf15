------------------------- MODULE PrinterPoolProofs --------------------------
(***************************************************************************)
(* Theorems about PrinterPool, for any workers, tasks and printers: who is *)
(* let through by the semaphore finds a printer of its own, and every step *)
(* of the pool is a step of the shop.                                      *)
(***************************************************************************)
EXTENDS PrinterPool, FiniteSetTheorems, TLAPS

USE PoolAssumption

\* A worker has the queue while it is in dequeue, with the front it has read.
QueueInv ==
    /\ \A w \in Worker : queue_mutex = w <=> pc[w] \in {"front", "take", "unlockq"}
    /\ \A w \in Worker : pc[w] = "take" => index[w] = front /\ HasTask(front)

\* A worker has the table while it looks for a printer or gives one back.
TableInv ==
    \A w \in Worker : printer_mutex = w <=> pc[w] \in {"look", "claim", "unlockp", "release"}

\* What has been looked at is busy, what is claimed is free, and what has been
\* claimed is busy and somebody's own.
OwnInv ==
    /\ \A w \in Worker : pc[w] = "look" =>
          \A p \in Printer : p < index[w] => printer_status[p] = 0
    /\ \A w \in Worker : pc[w] = "claim" =>
          index[w] \in Printer /\ printer_status[index[w]] = 1
    /\ \A w \in Worker : HasPrinter(w) =>
          printer_id[w] \in Printer /\ printer_status[printer_id[w]] = 0
    /\ \A v, w \in Worker :
          HasPrinter(v) /\ HasPrinter(w) /\ printer_id[v] = printer_id[w] => v = w

\* The free printers, and the workers that have counted on one of them or have
\* still to say that theirs is one.
Free    == {p \in Printer : printer_status[p] = 1}
Between == {w \in Worker : pc[w] \in {"lockp", "look", "claim", "post"}}

\* The semaphore counts the free printers that nobody counts on.
CountInv == Cardinality(Free) = printer_sem + Cardinality(Between)

\* The workers with a task that is not printed.
HasWork(w) ==
    \/ pc[w] \in {"wait", "lockp", "look", "claim", "unlockp", "print"}
    \/ pc[w] = "unlockq" /\ task_id[w] # -1

\* A task is taken once, and is not printed while it is somebody's.
TaskInv ==
    /\ \A w \in Worker : HasWork(w) => task_id[w] \in 1 .. front /\ task_id[w] \notin Printed
    /\ \A v, w \in Worker : HasWork(v) /\ HasWork(w) /\ task_id[v] = task_id[w] => v = w
    /\ \A t \in Printed : t <= front

IInv == TypeOK /\ QueueInv /\ TableInv /\ OwnInv /\ CountInv /\ TaskInv
-----------------------------------------------------------------------------
(* Counting. *)

\* Both sets are finite.
LEMMA Finite ==
    /\ IsFiniteSet(Printer) /\ Cardinality(Printer) = NUM_PRINTERS
    /\ IsFiniteSet(Free) /\ Cardinality(Free) \in 0 .. NUM_PRINTERS
    /\ IsFiniteSet(Between) /\ Cardinality(Between) \in Nat
<1>1. IsFiniteSet(Printer) /\ Cardinality(Printer) = NUM_PRINTERS
  BY FS_Interval DEF Printer
<1>2. IsFiniteSet(Free) /\ Cardinality(Free) <= Cardinality(Printer)
  BY <1>1, FS_Subset DEF Free
<1>3. IsFiniteSet(Between)
  BY FS_Subset DEF Between
<1>4. Cardinality(Free) \in Nat /\ Cardinality(Between) \in Nat
  BY <1>2, <1>3, FS_CardinalityType
<1>5. QED
  BY <1>1, <1>2, <1>3, <1>4

\* A worker that the semaphore has let through has not looked at every printer.
LEMMA LookFinds ==
    ASSUME IInv, NEW w \in Worker, pc[w] = "look"
    PROVE  index[w] \in Printer
<1>1. w \in Between
  BY DEF Between
<1>2. Cardinality(Between) # 0
  BY <1>1, Finite, FS_EmptySet
<1>3. Cardinality(Free) # 0
  BY <1>2, Finite DEF IInv, TypeOK, CountInv
<1>4. PICK p : p \in Free
  BY <1>3, Finite, FS_EmptySet
<1>5. p \in Printer /\ printer_status[p] = 1
  BY <1>4 DEF Free
<1>6. ~ (p < index[w])
  BY <1>5 DEF IInv, OwnInv
<1>7. index[w] \in Nat
  BY DEF IInv, TypeOK
<1>8. QED
  BY <1>5, <1>6, <1>7 DEF Printer

\* A worker comes in between, or leaves.
LEMMA Moves ==
    ASSUME NEW w \in Worker, NEW to \in PCs, pc \in [Worker -> PCs],
           pc' = [pc EXCEPT ![w] = to]
    PROVE  /\ w \in Between' <=> to \in {"lockp", "look", "claim", "post"}
           /\ \A v \in Worker : v # w => (v \in Between' <=> v \in Between)
           /\ w \in Between /\ w \in Between' => Between' = Between
           /\ w \notin Between /\ w \notin Between' => Between' = Between
           /\ w \notin Between /\ w \in Between' =>
                 Between' = Between \cup {w}
                 /\ Cardinality(Between') = Cardinality(Between) + 1
           /\ w \in Between /\ w \notin Between' =>
                 Between' = Between \ {w}
                 /\ Cardinality(Between') = Cardinality(Between) - 1
<1>1. w \in Between' <=> to \in {"lockp", "look", "claim", "post"}
  BY DEF Between
<1>2. \A v \in Worker : v # w => (v \in Between' <=> v \in Between)
  BY DEF Between
<1>3. Between \subseteq Worker /\ Between' \subseteq Worker
  BY DEF Between
<1>4. IsFiniteSet(Between)
  BY Finite
<1>5. w \notin Between /\ w \in Between' => Between' = Between \cup {w}
  BY <1>2, <1>3
<1>6. w \in Between /\ w \notin Between' => Between' = Between \ {w}
  BY <1>2, <1>3
<1>7. w \notin Between => Cardinality(Between \cup {w}) = Cardinality(Between) + 1
  BY <1>4, FS_AddElement
<1>8. w \in Between => Cardinality(Between \ {w}) = Cardinality(Between) - 1
  BY <1>4, FS_RemoveElement
<1>9. w \in Between /\ w \in Between' => Between' = Between
  BY <1>2, <1>3
<1>10. w \notin Between /\ w \notin Between' => Between' = Between
  BY <1>2, <1>3
<1>11. QED
  BY <1>1, <1>2, <1>5, <1>6, <1>7, <1>8, <1>9, <1>10

\* Somebody is between free and counted, so the semaphore does not count all.
LEMMA NotAllCounted ==
    ASSUME IInv, NEW w \in Between
    PROVE  printer_sem + 1 <= NUM_PRINTERS
<1>1. Cardinality(Between) # 0 /\ Cardinality(Between) \in Nat
  BY Finite, FS_EmptySet
<1>2. printer_sem + Cardinality(Between) \in 0 .. NUM_PRINTERS /\ printer_sem \in Nat
  BY Finite DEF IInv, TypeOK, CountInv
<1>3. QED
  BY <1>1, <1>2

\* A worker that prints has work.
LEMMA Printing ==
    ASSUME NEW w \in Worker, PrintTask(w)
    PROVE  HasWork(w) /\ HasPrinter(w)
<1>1. pc[w] = "print"
  BY DEF PrintTask, Step
<1>2. QED
  BY <1>1 DEF HasWork, HasPrinter
-----------------------------------------------------------------------------
(* Each part of the invariant. *)

\* Every step keeps the types.
LEMMA TypeStep == IInv /\ [Next]_vars => TypeOK'
<1> SUFFICES ASSUME IInv, [Next]_vars PROVE TypeOK'
  OBVIOUS
<1> USE DEF IInv, Step, queue, printers, locals, process
<1>1. ASSUME NEW w \in Worker, Create(w) \/ LockQueue(w) PROVE TypeOK'
  BY <1>1 DEF TypeOK, PCs, Create, LockQueue
<1>2. ASSUME NEW w \in Worker, ReadFront(w) PROVE TypeOK'
  <2>1. front \in Nat
    BY DEF TypeOK
  <2>2. QED
    BY <1>2, <2>1 DEF TypeOK, PCs, ReadFront
<1>3. ASSUME NEW w \in Worker, TakeTask(w) PROVE TypeOK'
  <2>1. index[w] = front /\ front + 1 \in Task /\ front + 1 \in 0 .. NUM_THREADS
    BY <1>3 DEF TypeOK, QueueInv, TakeTask, HasTask, Task
  <2>2. QED
    BY <1>3, <2>1 DEF TypeOK, PCs, TakeTask
<1>4. ASSUME NEW w \in Worker, UnlockQueue(w) PROVE TypeOK'
  BY <1>4 DEF TypeOK, PCs, UnlockQueue
<1>5. ASSUME NEW w \in Worker, SemWait(w) PROVE TypeOK'
  BY <1>5 DEF TypeOK, PCs, SemWait
<1>6. ASSUME NEW w \in Worker, LockPrinters(w) PROVE TypeOK'
  BY <1>6 DEF TypeOK, PCs, LockPrinters
<1>7. ASSUME NEW w \in Worker, Look(w) PROVE TypeOK'
  <2>1. index[w] \in Nat /\ index[w] + 1 \in Nat
    BY DEF TypeOK
  <2>2. index' \in [Worker -> Nat]
    BY <1>7, <2>1 DEF TypeOK, Look
  <2>3. pc' \in [Worker -> PCs] /\ printer_id' \in [Worker -> Printer \cup {-1}]
    BY <1>7 DEF TypeOK, PCs, Look
  <2>4. QED
    BY <1>7, <2>2, <2>3 DEF TypeOK, Look
<1>8. ASSUME NEW w \in Worker, Claim(w) PROVE TypeOK'
  <2>1. index[w] \in Printer
    BY <1>8 DEF OwnInv, Claim
  <2>2. QED
    BY <1>8, <2>1 DEF TypeOK, PCs, Claim
<1>9. ASSUME NEW w \in Worker, UnlockPrinters(w) \/ LockRelease(w) PROVE TypeOK'
  BY <1>9 DEF TypeOK, PCs, UnlockPrinters, LockRelease
<1>10. ASSUME NEW w \in Worker, PrintTask(w) PROVE TypeOK'
  <2>1. task_id[w] \in Task
    <3>1. task_id[w] \in 1 .. front /\ front \in 0 .. NUM_THREADS
      <4>1. HasWork(w)
        BY <1>10, Printing
      <4>2. QED
        BY <4>1 DEF TypeOK, TaskInv
    <3>2. QED
      BY <3>1 DEF Task
  <2>2. output' \in Seq(Task)
    BY <1>10, <2>1 DEF TypeOK, PrintTask
  <2>3. QED
    BY <1>10, <2>2 DEF TypeOK, PCs, PrintTask
<1>11. ASSUME NEW w \in Worker, Release(w) PROVE TypeOK'
  BY <1>11 DEF TypeOK, PCs, Release
<1>12. ASSUME NEW w \in Worker, SemPost(w) PROVE TypeOK'
  <2>1. printer_sem + 1 <= NUM_PRINTERS
    BY <1>12, NotAllCounted DEF SemPost, Between
  <2>2. QED
    BY <1>12, <2>1 DEF TypeOK, PCs, SemPost
<1>13. ASSUME Join \/ UNCHANGED vars PROVE TypeOK'
  BY <1>13 DEF TypeOK, Join, vars
<1>14. QED
  BY <1>1, <1>2, <1>3, <1>4, <1>5, <1>6, <1>7, <1>8, <1>9, <1>10, <1>11, <1>12, <1>13
     DEF Next, Work, Idle

\* Every step keeps the queue with the worker that holds its mutex.
LEMMA QueueStep == IInv /\ [Next]_vars => QueueInv'
<1> SUFFICES ASSUME IInv, [Next]_vars PROVE QueueInv'
  OBVIOUS
<1> USE DEF IInv, TypeOK, QueueInv, Step, queue, locals
<1>1. ASSUME NEW w \in Worker, Create(w) \/ LockQueue(w) \/ UnlockQueue(w) PROVE QueueInv'
  BY <1>1 DEF Create, LockQueue, QueueFree, UnlockQueue
<1>2. ASSUME NEW w \in Worker, ReadFront(w) \/ TakeTask(w) PROVE QueueInv'
  BY <1>2 DEF ReadFront, TakeTask
<1>3. ASSUME NEW w \in Worker, SemWait(w) \/ LockPrinters(w) \/ Look(w) \/ Claim(w)
      PROVE  QueueInv'
  BY <1>3 DEF SemWait, LockPrinters, Look, Claim
<1>4. ASSUME NEW w \in Worker, UnlockPrinters(w) \/ PrintTask(w) \/ LockRelease(w)
                               \/ Release(w) \/ SemPost(w)
      PROVE  QueueInv'
  BY <1>4 DEF UnlockPrinters, PrintTask, LockRelease, Release, SemPost
<1>5. ASSUME Join \/ UNCHANGED vars PROVE QueueInv'
  BY <1>5 DEF Join, vars
<1>6. QED
  BY <1>1, <1>2, <1>3, <1>4, <1>5 DEF Next, Work, Idle

\* Every step keeps the table with the worker that holds its mutex.
LEMMA TableStep == IInv /\ [Next]_vars => TableInv'
<1> SUFFICES ASSUME IInv, [Next]_vars PROVE TableInv'
  OBVIOUS
<1> USE DEF IInv, TypeOK, TableInv, Step, printers
<1>1. ASSUME NEW w \in Worker, Create(w) \/ LockQueue(w) \/ UnlockQueue(w) \/ ReadFront(w)
                               \/ TakeTask(w) \/ SemWait(w)
      PROVE  TableInv'
  BY <1>1 DEF Create, LockQueue, UnlockQueue, ReadFront, TakeTask, SemWait
<1>2. ASSUME NEW w \in Worker, LockPrinters(w) \/ LockRelease(w) PROVE TableInv'
  BY <1>2 DEF LockPrinters, LockRelease, PrintersFree
<1>3. ASSUME NEW w \in Worker, Look(w) \/ Claim(w) PROVE TableInv'
  BY <1>3 DEF Look, Claim
<1>4. ASSUME NEW w \in Worker, UnlockPrinters(w) \/ PrintTask(w) \/ Release(w) \/ SemPost(w)
      PROVE  TableInv'
  BY <1>4 DEF UnlockPrinters, PrintTask, Release, SemPost
<1>5. ASSUME Join \/ UNCHANGED vars PROVE TableInv'
  BY <1>5 DEF Join, vars
<1>6. QED
  BY <1>1, <1>2, <1>3, <1>4, <1>5 DEF Next, Work, Idle

\* A step of a worker that changes neither the printers nor who has them.
LEMMA OwnKept ==
    ASSUME TypeOK, OwnInv, NEW w \in Worker, NEW to \in PCs, pc' = [pc EXCEPT ![w] = to],
           UNCHANGED <<printer_status, printer_id>>,
           \A v \in Worker : pc[v] \in {"look", "claim"} => index'[v] = index[v],
           to \notin {"look", "claim"},
           to \in {"unlockp", "print", "lockr", "release"} => HasPrinter(w)
    PROVE  OwnInv'
<1>1. \A v \in Worker : HasPrinter(v)' => HasPrinter(v)
  BY DEF TypeOK, HasPrinter
<1>2. \A v \in Worker : pc'[v] \in {"look", "claim"} => pc'[v] = pc[v]
  BY DEF TypeOK
<1>3. QED
  BY <1>1, <1>2 DEF OwnInv

\* Every step keeps a printer for each worker that has one.
LEMMA OwnStep == IInv /\ [Next]_vars => OwnInv'
<1> SUFFICES ASSUME IInv, [Next]_vars PROVE OwnInv'
  OBVIOUS
<1> USE DEF IInv, Step, locals, printers
<1>1. ASSUME NEW w \in Worker, Create(w) \/ LockQueue(w) \/ UnlockQueue(w) PROVE OwnInv'
  BY <1>1, OwnKept DEF Create, LockQueue, UnlockQueue, PCs
<1>2. ASSUME NEW w \in Worker, ReadFront(w) \/ TakeTask(w) PROVE OwnInv'
  BY <1>2, OwnKept DEF ReadFront, TakeTask, PCs, TypeOK
<1>3. ASSUME NEW w \in Worker, SemWait(w) \/ SemPost(w) PROVE OwnInv'
  BY <1>3, OwnKept DEF SemWait, SemPost, PCs
<1>4. ASSUME NEW w \in Worker, UnlockPrinters(w) \/ PrintTask(w) \/ LockRelease(w)
      PROVE  OwnInv'
  BY <1>4, OwnKept DEF UnlockPrinters, PrintTask, LockRelease, PCs, HasPrinter
<1>5. ASSUME NEW w \in Worker, LockPrinters(w) PROVE OwnInv'
  <2>1. index'[w] = 0 /\ \A v \in Worker : v # w => index'[v] = index[v] /\ pc'[v] = pc[v]
    BY <1>5 DEF LockPrinters, TypeOK
  <2>2. pc'[w] = "look" /\ printer_status' = printer_status /\ printer_id' = printer_id
    BY <1>5 DEF LockPrinters, TypeOK
  <2>3. \A p \in Printer : ~ (p < 0)
    BY DEF Printer
  <2>4. QED
    BY <2>1, <2>2, <2>3 DEF OwnInv, HasPrinter
<1>6. ASSUME NEW w \in Worker, Look(w) PROVE OwnInv'
  <2>1. pc[w] = "look" /\ index[w] \in Printer /\ printer_status' = printer_status
    BY <1>6, LookFinds DEF Look
  <2>2. \A v \in Worker : v # w => index'[v] = index[v] /\ pc'[v] = pc[v]
                                   /\ printer_id'[v] = printer_id[v]
    BY <1>6 DEF Look, TypeOK
  <2>3. CASE printer_status[index[w]] = 1
    <3>1. pc'[w] = "claim" /\ index'[w] = index[w]
      BY <1>6, <2>1, <2>3 DEF Look, TypeOK
    <3>2. QED
      BY <2>1, <2>2, <2>3, <3>1 DEF OwnInv, HasPrinter
  <2>4. CASE printer_status[index[w]] # 1
    <3>1. pc'[w] = "look" /\ index'[w] = index[w] + 1
      BY <1>6, <2>1, <2>4 DEF Look, TypeOK
    <3>2. printer_status[index[w]] = 0
      BY <2>1, <2>4 DEF TypeOK
    <3>3. \A p \in Printer : p < index[w] + 1 => printer_status[p] = 0
      BY <2>1, <3>2 DEF OwnInv, Printer
    <3>4. QED
      BY <2>1, <2>2, <3>1, <3>3 DEF OwnInv, HasPrinter
  <2>5. QED
    BY <2>3, <2>4
<1>7. ASSUME NEW w \in Worker, Claim(w) PROVE OwnInv'
  <2> DEFINE p == index[w]
  <2>1. pc[w] = "claim" /\ pc'[w] = "unlockp" /\ p \in Printer /\ printer_status[p] = 1
    BY <1>7 DEF Claim, TypeOK, OwnInv
  <2>2. \A v \in Worker : v # w => index'[v] = index[v] /\ pc'[v] = pc[v]
                                   /\ printer_id'[v] = printer_id[v]
    BY <1>7 DEF Claim, TypeOK
  <2>3. printer_id'[w] = p /\ printer_status'[p] = 0
        /\ \A q \in Printer : q # p => printer_status'[q] = printer_status[q]
    BY <1>7, <2>1 DEF Claim, TypeOK
  <2>4. \A v \in Worker : v # w => pc[v] \notin {"look", "claim"}
    BY <2>1 DEF TableInv
  <2>5. \A v \in Worker : HasPrinter(v) => printer_id[v] # p
    BY <2>1 DEF OwnInv
  <2> HIDE DEF p
  <2>6. QED
    BY <2>1, <2>2, <2>3, <2>4, <2>5 DEF OwnInv, HasPrinter
<1>8. ASSUME NEW w \in Worker, Release(w) PROVE OwnInv'
  <2> DEFINE p == printer_id[w]
  <2>1. pc[w] = "release" /\ pc'[w] = "post" /\ p \in Printer
    BY <1>8 DEF Release, TypeOK
  <2>2. \A v \in Worker : v # w => pc'[v] = pc[v]
    BY <1>8 DEF Release, TypeOK
  <2>3. printer_id' = printer_id /\ index' = index
        /\ \A q \in Printer : q # p => printer_status'[q] = printer_status[q]
    BY <1>8, <2>1 DEF Release, TypeOK
  <2>4. \A v \in Worker : v # w => pc[v] \notin {"look", "claim"}
    BY <2>1 DEF TableInv
  <2>5. \A v \in Worker : v # w /\ HasPrinter(v) => printer_id[v] # p
    BY <2>1 DEF OwnInv, HasPrinter
  <2> HIDE DEF p
  <2>6. QED
    BY <2>1, <2>2, <2>3, <2>4, <2>5 DEF OwnInv, HasPrinter
<1>9. ASSUME Join \/ UNCHANGED vars PROVE OwnInv'
  BY <1>9 DEF Join, vars, OwnInv, HasPrinter
<1>10. QED
  BY <1>1, <1>2, <1>3, <1>4, <1>5, <1>6, <1>7, <1>8, <1>9 DEF Next, Work, Idle

\* A step of a worker that stays between, or out.
LEMMA CountKept ==
    ASSUME TypeOK, CountInv, NEW w \in Worker, NEW to \in PCs, pc' = [pc EXCEPT ![w] = to],
           UNCHANGED <<printer_status, printer_sem>>,
           w \in Between <=> to \in {"lockp", "look", "claim", "post"}
    PROVE  CountInv'
<1>1. Between' = Between
  BY Moves DEF TypeOK
<1>2. Free' = Free
  BY DEF Free
<1>3. QED
  BY <1>1, <1>2 DEF CountInv

\* Every step keeps the semaphore's count true.
LEMMA CountStep == IInv /\ [Next]_vars => CountInv'
<1> SUFFICES ASSUME IInv, [Next]_vars PROVE CountInv'
  OBVIOUS
<1> USE DEF IInv, Step, printers
<1>0. pc \in [Worker -> PCs] /\ printer_sem \in Nat
      /\ Cardinality(Free) \in Nat /\ Cardinality(Between) \in Nat /\ IsFiniteSet(Free)
  BY Finite DEF TypeOK
<1>1. ASSUME NEW w \in Worker, Create(w) \/ LockQueue(w) \/ UnlockQueue(w) \/ ReadFront(w)
                               \/ TakeTask(w)
      PROVE  CountInv'
  BY <1>1, CountKept DEF Create, LockQueue, UnlockQueue, ReadFront, TakeTask, Between, PCs
<1>2. ASSUME NEW w \in Worker, LockPrinters(w) \/ UnlockPrinters(w) \/ PrintTask(w)
                               \/ LockRelease(w)
      PROVE  CountInv'
  BY <1>2, CountKept DEF LockPrinters, UnlockPrinters, PrintTask, LockRelease, Between, PCs
<1>3. ASSUME NEW w \in Worker, Look(w) PROVE CountInv'
  BY <1>3, CountKept, LookFinds DEF Look, Between, PCs
<1>4. ASSUME NEW w \in Worker, SemWait(w) PROVE CountInv'
  <2>1. Cardinality(Between') = Cardinality(Between) + 1
    BY <1>0, <1>4, Moves DEF SemWait, Between, PCs
  <2>2. Free' = Free /\ printer_sem' = printer_sem - 1
    BY <1>4 DEF SemWait, Free
  <2>3. QED
    BY <1>0, <2>1, <2>2 DEF CountInv
<1>5. ASSUME NEW w \in Worker, Claim(w) PROVE CountInv'
  <2>1. Cardinality(Between') = Cardinality(Between) - 1
    BY <1>0, <1>5, Moves DEF Claim, Between, PCs
  <2>2. index[w] \in Free
    BY <1>5 DEF Claim, OwnInv, Free
  <2>3. Free' = Free \ {index[w]}
    BY <1>5 DEF Claim, OwnInv, Free, TypeOK
  <2>4. Cardinality(Free') = Cardinality(Free) - 1
    BY <1>0, <2>2, <2>3, FS_RemoveElement
  <2>5. QED
    BY <1>0, <1>5, <2>1, <2>4 DEF CountInv, Claim
<1>6. ASSUME NEW w \in Worker, Release(w) PROVE CountInv'
  <2>1. Cardinality(Between') = Cardinality(Between) + 1
    BY <1>0, <1>6, Moves DEF Release, Between, PCs
  <2>2. printer_id[w] \notin Free
    BY <1>6 DEF Release, OwnInv, HasPrinter, Free
  <2>3. Free' = Free \cup {printer_id[w]}
    BY <1>6 DEF Release, Free, TypeOK
  <2>4. Cardinality(Free') = Cardinality(Free) + 1
    BY <1>0, <2>2, <2>3, FS_AddElement
  <2>5. QED
    BY <1>0, <1>6, <2>1, <2>4 DEF CountInv, Release
<1>7. ASSUME NEW w \in Worker, SemPost(w) PROVE CountInv'
  <2>1. Cardinality(Between') = Cardinality(Between) - 1
    BY <1>0, <1>7, Moves DEF SemPost, Between, PCs
  <2>2. Free' = Free /\ printer_sem' = printer_sem + 1
    BY <1>7 DEF SemPost, Free
  <2>3. QED
    BY <1>0, <2>1, <2>2 DEF CountInv
<1>8. ASSUME Join \/ UNCHANGED vars PROVE CountInv'
  BY <1>8 DEF Join, vars, CountInv, Free, Between
<1>9. QED
  BY <1>1, <1>2, <1>3, <1>4, <1>5, <1>6, <1>7, <1>8 DEF Next, Work, Idle

\* What has been printed grows by the task that is reported.
LEMMA PrintedGrows ==
    ASSUME TypeOK, NEW t \in Task, output' = Append(output, t)
    PROVE  Printed' = Printed \cup {t}
<1>1. output \in Seq(Task) /\ Len(output) \in Nat
  BY DEF TypeOK
<1>2. Len(output') = Len(output) + 1 /\ output'[Len(output) + 1] = t
      /\ \A i \in 1 .. Len(output) : output'[i] = output[i]
  BY <1>1
<1>3. 1 .. Len(output') = 1 .. Len(output) \cup {Len(output) + 1}
      /\ Len(output) + 1 \notin 1 .. Len(output)
  BY <1>1, <1>2
<1>4. QED
  BY <1>2, <1>3 DEF Printed

\* A step that prints nothing and gives nobody work.
LEMMA TaskKept ==
    ASSUME TaskInv, UNCHANGED <<front, output>>,
           \A v \in Worker : HasWork(v)' => HasWork(v) /\ task_id'[v] = task_id[v]
    PROVE  TaskInv'
BY DEF TaskInv, Printed

\* Every step keeps a task for each worker that has work.
LEMMA TaskStep == IInv /\ [Next]_vars => TaskInv'
<1> SUFFICES ASSUME IInv, [Next]_vars PROVE TaskInv'
  OBVIOUS
<1> USE DEF IInv, Step, queue, locals, process
<1>1. ASSUME NEW w \in Worker, Create(w) \/ LockQueue(w) \/ UnlockQueue(w) PROVE TaskInv'
  BY <1>1, TaskKept DEF Create, LockQueue, UnlockQueue, HasWork, TypeOK
<1>2. ASSUME NEW w \in Worker, ReadFront(w) PROVE TaskInv'
  BY <1>2, TaskKept DEF ReadFront, HasWork, TypeOK
<1>3. ASSUME NEW w \in Worker, TakeTask(w) PROVE TaskInv'
  <2>1. front \in Nat /\ index[w] = front /\ pc[w] = "take" /\ pc'[w] = "unlockq"
    BY <1>3 DEF TakeTask, TypeOK, QueueInv
  <2>2. task_id'[w] = front + 1 /\ front' = front + 1 /\ Printed' = Printed
    BY <1>3, <2>1 DEF TakeTask, TypeOK, Printed
  <2>3. \A v \in Worker : v # w => (HasWork(v)' <=> HasWork(v)) /\ task_id'[v] = task_id[v]
    BY <1>3 DEF TakeTask, TypeOK, HasWork
  <2>4. \A v \in Worker : HasWork(v) => task_id[v] \in 1 .. front /\ task_id[v] \notin Printed
    BY DEF TaskInv
  <2>5. \A t \in Printed : t <= front /\ t \in Nat
    BY DEF TaskInv, Printed, TypeOK, Task
  <2>6. ASSUME NEW v \in Worker, HasWork(v)'
        PROVE  task_id'[v] \in 1 .. front' /\ task_id'[v] \notin Printed'
    BY <2>1, <2>2, <2>3, <2>4, <2>5, <2>6
  <2>7. \A u, v \in Worker : HasWork(u)' /\ HasWork(v)' /\ task_id'[u] = task_id'[v] => u = v
    <3>1. \A v \in Worker : v # w /\ HasWork(v)' => task_id'[v] # task_id'[w]
      BY <2>1, <2>2, <2>3, <2>4
    <3>2. QED
      BY <2>3, <3>1 DEF TaskInv
  <2>8. \A t \in Printed' : t <= front'
    BY <2>1, <2>2, <2>5
  <2>9. QED
    BY <2>6, <2>7, <2>8 DEF TaskInv
<1>4. ASSUME NEW w \in Worker, SemWait(w) \/ LockPrinters(w) \/ Look(w) PROVE TaskInv'
  BY <1>4, TaskKept DEF SemWait, LockPrinters, Look, HasWork, TypeOK
<1>5. ASSUME NEW w \in Worker, Claim(w) \/ UnlockPrinters(w) PROVE TaskInv'
  BY <1>5, TaskKept DEF Claim, UnlockPrinters, HasWork, TypeOK
<1>6. ASSUME NEW w \in Worker, PrintTask(w) PROVE TaskInv'
  <2>1. HasWork(w)
    BY <1>6, Printing
  <2>2. task_id[w] \in 1 .. front /\ front \in 0 .. NUM_THREADS
    BY <2>1 DEF TypeOK, TaskInv
  <2>3. Printed' = Printed \cup {task_id[w]}
    BY <1>6, <2>2, PrintedGrows DEF PrintTask, Task
  <2>4. \A v \in Worker : HasWork(v)' => HasWork(v) /\ v # w
    BY <1>6 DEF PrintTask, HasWork, TypeOK
  <2>5. task_id' = task_id /\ front' = front
    BY <1>6 DEF PrintTask
  <2>6. \A t \in Printed' : t <= front'
    BY <2>2, <2>3, <2>5 DEF TaskInv
  <2>7. \A v \in Worker : HasWork(v)' => task_id'[v] \in 1 .. front' /\ task_id'[v] \notin Printed'
    BY <2>1, <2>3, <2>4, <2>5 DEF TaskInv
  <2>8. \A u, v \in Worker : HasWork(u)' /\ HasWork(v)' /\ task_id'[u] = task_id'[v] => u = v
    BY <2>4, <2>5 DEF TaskInv
  <2>9. QED
    BY <2>6, <2>7, <2>8 DEF TaskInv
<1>7. ASSUME NEW w \in Worker, LockRelease(w) \/ Release(w) \/ SemPost(w) PROVE TaskInv'
  BY <1>7, TaskKept DEF LockRelease, Release, SemPost, HasWork, TypeOK
<1>8. ASSUME Join \/ UNCHANGED vars PROVE TaskInv'
  BY <1>8, TaskKept DEF Join, vars, HasWork
<1>9. QED
  BY <1>1, <1>2, <1>3, <1>4, <1>5, <1>6, <1>7, <1>8 DEF Next, Work, Idle
-----------------------------------------------------------------------------
(* The theorems. *)

\* The pool starts with every printer free and counted, and no worker.
LEMMA InitInv == Init => IInv
<1> SUFFICES ASSUME Init PROVE IInv
  OBVIOUS
<1>1. TypeOK
  BY DEF Init, TypeOK, PCs
<1>2. QueueInv /\ TableInv /\ OwnInv
  BY DEF Init, QueueInv, TableInv, OwnInv, HasPrinter
<1>3. CountInv
  <2>1. Free = Printer /\ Between = {}
    BY DEF Init, Free, Between
  <2>2. QED
    BY <2>1, Finite, FS_EmptySet DEF CountInv, Init
<1>4. Printed = {}
  BY DEF Init, Printed
<1>5. TaskInv
  BY <1>4 DEF Init, TaskInv, HasWork
<1>6. QED
  BY <1>1, <1>2, <1>3, <1>5 DEF IInv

\* Every step keeps the invariant.
LEMMA NextInv == IInv /\ [Next]_vars => IInv'
BY TypeStep, QueueStep, TableStep, OwnStep, CountStep, TaskStep DEF IInv

\* The invariant holds: the types, the holders of the mutexes, each worker's own
\* printer and task, and the semaphore's count.
THEOREM Invariance == Spec => []IInv
BY InitInv, NextInv, PTL DEF Spec

\* Whoever the semaphore lets through finds a printer and has it alone: the post
\* comes after the release, so the semaphore never counts a busy printer.
THEOREM EachHasAPrinter == Spec => []PrinterFound
<1>1. IInv => PrinterFound
  BY DEF IInv, OwnInv, PrinterFound, Printer
<1>2. QED
  BY Invariance, <1>1, PTL
-----------------------------------------------------------------------------
(* Every step of the pool is a step of the shop, or none. *)

\* The workers the shop sees at work, and what JobOf says of them.
AtWork(w) == pc[w] \in {"unlockp", "print"}

Jobs ==
    /\ \A w \in Worker : AtWork(w) => JobOf(printer_id[w]) = task_id[w]
    /\ \A p \in Printer :
          (\A w \in Worker : AtWork(w) => printer_id[w] # p) => JobOf(p) = Nobody

\* A printer's job is its worker's, for there is one.
LEMMA JobsAre == IInv => Jobs
<1> SUFFICES ASSUME IInv PROVE Jobs
  OBVIOUS
<1>1. ASSUME NEW w \in Worker, AtWork(w) PROVE JobOf(printer_id[w]) = task_id[w]
  <2> DEFINE at == {v \in Worker : pc[v] \in {"unlockp", "print"} /\ printer_id[v] = printer_id[w]}
  <2>1. at = {w}
    BY <1>1 DEF AtWork, IInv, OwnInv, HasPrinter
  <2>2. JobOf(printer_id[w]) = IF at = {} THEN Nobody ELSE task_id[CHOOSE v \in at : TRUE]
    BY DEF JobOf
  <2> HIDE DEF at
  <2>3. (CHOOSE v \in at : TRUE) = w
    BY <2>1
  <2>4. QED
    BY <2>1, <2>2, <2>3
<1>2. ASSUME NEW p \in Printer, \A w \in Worker : AtWork(w) => printer_id[w] # p
      PROVE  JobOf(p) = Nobody
  BY <1>2 DEF JobOf, AtWork
<1>3. QED
  BY <1>1, <1>2 DEF Jobs

\* A step that neither claims nor prints is none of the shop's.
LEMMA ShopStutters ==
    ASSUME IInv, IInv', output' = output,
           \A w \in Worker : /\ AtWork(w)' <=> AtWork(w)
                             /\ AtWork(w) => /\ task_id'[w] = task_id[w]
                                             /\ printer_id'[w] = printer_id[w]
    PROVE  UNCHANGED Shop!vars
<1>1. Jobs /\ Jobs'
  BY JobsAre, PTL
<1>2. Begun' = Begun /\ Printed' = Printed
  BY DEF Begun, Printed, AtWork
<1>3. ASSUME NEW p \in Printer PROVE JobOf(p)' = JobOf(p)
  BY <1>1 DEF Jobs
<1>4. QED
  BY <1>2, <1>3 DEF Shop!vars

\* Claiming a printer begins the worker's task on it.
LEMMA ClaimBegins ==
    ASSUME IInv, IInv', NEW w \in Worker, Claim(w)
    PROVE  Shop!Begin(task_id[w], index[w]) /\ task_id[w] \in Task /\ index[w] \in Printer
<1>0. PICK t, p : t = task_id[w] /\ p = index[w]
  OBVIOUS
<1>1. pc[w] = "claim" /\ pc' = [pc EXCEPT ![w] = "unlockp"] /\ pc'[w] = "unlockp"
  BY DEF Claim, Step, IInv, TypeOK
<1>2. p \in Printer /\ printer_status[p] = 1
  BY <1>0, <1>1 DEF IInv, OwnInv
<1>3. t \in Task /\ t \notin Printed
  <2>1. HasWork(w)
    BY <1>1 DEF HasWork
  <2>2. t \in 1 .. front /\ front \in 0 .. NUM_THREADS /\ t \notin Printed
    BY <1>0, <2>1 DEF IInv, TaskInv, TypeOK
  <2>3. QED
    BY <2>2 DEF Task
<1>4. task_id' = task_id /\ output' = output /\ printer_id'[w] = p
      /\ \A v \in Worker : v # w => printer_id'[v] = printer_id[v] /\ pc'[v] = pc[v]
  BY <1>0 DEF Claim, Step, locals, process, IInv, TypeOK
<1>5. \A v \in Worker : AtWork(v) => v # w /\ HasWork(v) /\ HasPrinter(v)
  BY <1>1 DEF AtWork, HasWork, HasPrinter
<1>6. \A v \in Worker : AtWork(v)' <=> v = w \/ AtWork(v)
  BY <1>1, <1>4 DEF AtWork
<1>7. \A v \in Worker : AtWork(v) => printer_id[v] # p /\ printer_id[v] \in Printer
  BY <1>2, <1>5 DEF IInv, OwnInv
<1>8. \A v \in Worker : AtWork(v) => task_id[v] # t
  <2>1. HasWork(w)
    BY <1>1 DEF HasWork
  <2>2. QED
    BY <1>0, <1>5, <2>1 DEF IInv, TaskInv
<1>9. Jobs /\ Jobs'
  BY JobsAre, PTL
<1>10. Begun = {task_id[v] : v \in {u \in Worker : AtWork(u)}}
       /\ Begun' = {task_id'[v] : v \in {u \in Worker : AtWork(u)'}}
  BY DEF Begun, AtWork
<1>11. t \notin Begun /\ Begun' = Begun \cup {t}
  BY <1>0, <1>4, <1>6, <1>8, <1>10
<1>12. Printed' = Printed
  BY <1>4 DEF Printed
<1>13. JobOf(p) = Nobody /\ JobOf(p)' = t
  <2>1. JobOf(p) = Nobody
    BY <1>2, <1>7, <1>9 DEF Jobs
  <2>2. JobOf(printer_id[w])' = task_id'[w]
    BY <1>6, <1>9 DEF Jobs
  <2>3. QED
    BY <1>0, <1>4, <2>1, <2>2
<1>14. \A q \in Printer : q # p => JobOf(q)' = JobOf(q)
  BY <1>4, <1>5, <1>6, <1>9 DEF Jobs
<1>15. [q \in Printer |-> JobOf(q)]' = [[q \in Printer |-> JobOf(q)] EXCEPT ![p] = t]
  BY <1>2, <1>13, <1>14
<1>16. ((Task \ Begun) \ Printed)' = ((Task \ Begun) \ Printed) \ {t}
  BY <1>11, <1>12
<1>17. QED
  BY <1>0, <1>2, <1>3, <1>11, <1>12, <1>13, <1>15, <1>16 DEF Shop!Begin

\* Printing ends the job of the worker's printer.
LEMMA PrintEnds ==
    ASSUME IInv, IInv', NEW w \in Worker, PrintTask(w)
    PROVE  Shop!End(printer_id[w]) /\ printer_id[w] \in Printer
<1>0. PICK t, p : t = task_id[w] /\ p = printer_id[w]
  OBVIOUS
<1>1. pc[w] = "print" /\ pc' = [pc EXCEPT ![w] = "lockr"] /\ pc'[w] = "lockr"
  BY DEF PrintTask, Step, IInv, TypeOK
<1>2. p \in Printer
  BY <1>0, Printing DEF IInv, OwnInv
<1>3. t \in Task
  <2>1. t \in 1 .. front /\ front \in 0 .. NUM_THREADS
    BY <1>0, Printing DEF IInv, TaskInv, TypeOK
  <2>2. QED
    BY <2>1 DEF Task
<1>4. task_id' = task_id /\ printer_id' = printer_id
      /\ \A v \in Worker : v # w => pc'[v] = pc[v]
  BY DEF PrintTask, Step, locals, IInv, TypeOK
<1>5. AtWork(w) /\ \A v \in Worker : AtWork(v) => HasWork(v) /\ HasPrinter(v)
  BY <1>1 DEF AtWork, HasWork, HasPrinter
<1>6. \A v \in Worker : AtWork(v)' <=> v # w /\ AtWork(v)
  BY <1>1, <1>4 DEF AtWork
<1>7. \A v \in Worker : v # w /\ AtWork(v) => printer_id[v] # p /\ task_id[v] # t
  BY <1>0, <1>5 DEF IInv, OwnInv, TaskInv
<1>8. Printed' = Printed \cup {t}
  BY <1>0, <1>3, PrintedGrows DEF PrintTask, IInv
<1>9. Jobs /\ Jobs'
  BY JobsAre, PTL
<1>10. Begun = {task_id[v] : v \in {u \in Worker : AtWork(u)}}
       /\ Begun' = {task_id'[v] : v \in {u \in Worker : AtWork(u)'}}
  BY DEF Begun, AtWork
<1>11. t \in Begun /\ Begun' = Begun \ {t}
  BY <1>0, <1>4, <1>5, <1>6, <1>7, <1>10
<1>12. JobOf(p) = t /\ JobOf(p)' = Nobody
  BY <1>0, <1>2, <1>4, <1>5, <1>6, <1>7, <1>9 DEF Jobs
<1>13. \A q \in Printer : q # p => JobOf(q)' = JobOf(q)
  BY <1>0, <1>4, <1>6, <1>9 DEF Jobs
<1>14. [q \in Printer |-> JobOf(q)]' = [[q \in Printer |-> JobOf(q)] EXCEPT ![p] = Nobody]
  BY <1>2, <1>12, <1>13
<1>15. ((Task \ Begun) \ Printed)' = (Task \ Begun) \ Printed
  BY <1>8, <1>11
<1>16. QED
  BY <1>0, <1>2, <1>3, <1>8, <1>12, <1>14, <1>15 DEF Shop!End

\* The shop opens with every task waiting and no job.
LEMMA ShopOpens == Init => Shop!Init
<1> SUFFICES ASSUME Init PROVE Shop!Init
  OBVIOUS
<1>1. Begun = {} /\ Printed = {}
  BY DEF Init, Begun, Printed
<1>2. \A p \in Printer : JobOf(p) = Nobody
  BY DEF Init, JobOf
<1>3. QED
  BY <1>1, <1>2 DEF Shop!Init

\* A step of the pool begins a task, ends one, or is nothing to the shop.
LEMMA ShopStep == IInv /\ IInv' /\ [Next]_vars => [Shop!Next]_(Shop!vars)
<1> SUFFICES ASSUME IInv, IInv', [Next]_vars PROVE [Shop!Next]_(Shop!vars)
  OBVIOUS
<1>0. pc \in [Worker -> PCs]
  BY DEF IInv, TypeOK
<1> USE DEF Step, locals, process
<1>1. ASSUME NEW w \in Worker, Claim(w) PROVE Shop!Next
  BY <1>1, ClaimBegins DEF Shop!Next
<1>2. ASSUME NEW w \in Worker, PrintTask(w) PROVE Shop!Next
  BY <1>2, PrintEnds DEF Shop!Next
<1>3. ASSUME NEW w \in Worker, Create(w) \/ LockQueue(w) \/ UnlockQueue(w) \/ SemWait(w)
                               \/ LockPrinters(w)
      PROVE  UNCHANGED Shop!vars
  BY <1>0, <1>3, ShopStutters DEF Create, LockQueue, UnlockQueue, SemWait, LockPrinters, AtWork
<1>4. ASSUME NEW w \in Worker, UnlockPrinters(w) \/ LockRelease(w) \/ Release(w) \/ SemPost(w)
      PROVE  UNCHANGED Shop!vars
  BY <1>0, <1>4, ShopStutters DEF UnlockPrinters, LockRelease, Release, SemPost, AtWork
<1>5. ASSUME NEW w \in Worker, ReadFront(w) \/ TakeTask(w) PROVE UNCHANGED Shop!vars
  <2>1. \A v \in Worker : v # w => task_id'[v] = task_id[v] /\ pc'[v] = pc[v]
    BY <1>0, <1>5 DEF ReadFront, TakeTask, IInv, TypeOK
  <2>2. ~ AtWork(w) /\ ~ AtWork(w)' /\ output' = output /\ printer_id' = printer_id
    BY <1>0, <1>5 DEF ReadFront, TakeTask, AtWork
  <2>3. QED
    BY <2>1, <2>2, ShopStutters DEF AtWork
<1>6. ASSUME NEW w \in Worker, Look(w) PROVE UNCHANGED Shop!vars
  <2>1. index[w] \in Printer
    BY <1>6, LookFinds DEF Look
  <2>2. \A v \in Worker : v # w => printer_id'[v] = printer_id[v] /\ pc'[v] = pc[v]
    BY <1>0, <1>6 DEF Look, IInv, TypeOK
  <2>3. ~ AtWork(w) /\ ~ AtWork(w)' /\ output' = output /\ task_id' = task_id
    BY <1>0, <1>6, <2>1 DEF Look, AtWork
  <2>4. QED
    BY <2>2, <2>3, ShopStutters DEF AtWork
<1>7. ASSUME Join \/ UNCHANGED vars PROVE UNCHANGED Shop!vars
  BY <1>7, ShopStutters DEF Join, vars, AtWork
<1>8. QED
  BY <1>1, <1>2, <1>3, <1>4, <1>5, <1>6, <1>7 DEF Next, Work, Idle

\* The safety of PrintShop: no task is printed twice, or on a busy printer.
\* That all come out is liveness, which run printers checks.
THEOREM StepsAreTheShops == Spec => Shop!Init /\ [][Shop!Next]_(Shop!vars)
BY Invariance, ShopOpens, ShopStep, PTL DEF Spec
=============================================================================
