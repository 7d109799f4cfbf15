---------------------------- MODULE PrinterPool ----------------------------
(***************************************************************************)
(* assignment8/printer.c: worker threads take tasks from a queue, under    *)
(* queue_mutex, and print each on one of a few printers.  The semaphore    *)
(* printer_sem counts the printers; which one is free is looked up in      *)
(* printer_status under printer_mutex.  The semaphore is posted after the  *)
(* printer is released, with no lock held.                                 *)
(***************************************************************************)
EXTENDS Integers, Sequences, FiniteSets

CONSTANTS
    Worker,        \* the worker threads
    NUM_THREADS,   \* the tasks, numbered from 1
    NUM_PRINTERS,  \* the printers, numbered from 0
    Nobody         \* no thread

ASSUME PoolAssumption ==
    /\ NUM_THREADS \in Nat
    /\ NUM_PRINTERS \in Nat \ {0}
    /\ IsFiniteSet(Worker)
    /\ Nobody \notin Worker

VARIABLES
    front,          \* the index dequeue takes next; rear is NUM_THREADS
    queue_mutex,    \* the holder of each mutex
    printer_mutex,
    printer_sem,    \* the value of the semaphore
    printer_status, \* 1 free, 0 busy
    pc,             \* where each worker is
    index,          \* the front it has read, or its loop index over printers
    task_id,        \* its locals
    printer_id,
    main,           \* where main is
    output          \* the tasks whose printing was reported as over

vars == <<front, queue_mutex, printer_mutex, printer_sem, printer_status, pc,
          index, task_id, printer_id, main, output>>

Task    == 1 .. NUM_THREADS
Printer == 0 .. NUM_PRINTERS - 1

PCs == {"new", "lockq", "front", "take", "unlockq", "wait", "lockp", "look",
        "claim", "unlockp", "print", "lockr", "release", "post", "exit"}

\* Types of the variables: the semaphore stays between none and all the printers.
TypeOK ==
    /\ front \in 0 .. NUM_THREADS
    /\ queue_mutex \in Worker \cup {Nobody}
    /\ printer_mutex \in Worker \cup {Nobody}
    /\ printer_sem \in 0 .. NUM_PRINTERS
    /\ printer_status \in [Printer -> 0 .. 1]
    /\ pc \in [Worker -> PCs]
    /\ index \in [Worker -> Nat]
    /\ task_id \in [Worker -> Task \cup {-1}]
    /\ printer_id \in [Worker -> Printer \cup {-1}]
    /\ main \in {"create", "completed"}
    /\ output \in Seq(Task)

\* main has initialised the semaphore and filled the queue.
Init ==
    /\ front = 0
    /\ queue_mutex = Nobody
    /\ printer_mutex = Nobody
    /\ printer_sem = NUM_PRINTERS
    /\ printer_status = [p \in Printer |-> 1]
    /\ pc = [w \in Worker |-> "new"]
    /\ index = [w \in Worker |-> 0]
    /\ task_id = [w \in Worker |-> -1]
    /\ printer_id = [w \in Worker |-> -1]
    /\ main = "create"
    /\ output = <<>>
-----------------------------------------------------------------------------
queue    == <<front, queue_mutex>>
printers == <<printer_mutex, printer_status>>
locals   == <<index, task_id, printer_id>>
process  == <<main, output>>

Step(w, from, to) ==
    /\ pc[w] = from
    /\ pc' = [pc EXCEPT ![w] = to]

Create(w) ==
    /\ main = "create"
    /\ Step(w, "new", "lockq")
    /\ UNCHANGED <<queue, printers, printer_sem, locals, process>>

\* Every worker has been joined; the semaphore and the mutexes are destroyed.
Join ==
    /\ main = "create"
    /\ \A w \in Worker : pc[w] = "exit"
    /\ main' = "completed"
    /\ UNCHANGED <<queue, printers, printer_sem, pc, locals, output>>
-----------------------------------------------------------------------------
(* A worker takes a task. *)

QueueFree == queue_mutex = Nobody

LockQueue(w) ==
    /\ QueueFree
    /\ Step(w, "lockq", "front")
    /\ queue_mutex' = w
    /\ UNCHANGED <<front, printers, printer_sem, locals, process>>

\* dequeue reads front, and is done at once when the queue is empty.
HasTask(i) == i < NUM_THREADS

ReadFront(w) ==
    /\ Step(w, "front", IF HasTask(front) THEN "take" ELSE "unlockq")
    /\ index' = [index EXCEPT ![w] = front]
    /\ task_id' = [task_id EXCEPT ![w] = -1]
    /\ UNCHANGED <<queue, printers, printer_sem, printer_id, process>>

TakeTask(w) ==
    /\ Step(w, "take", "unlockq")
    /\ task_id' = [task_id EXCEPT ![w] = index[w] + 1]
    /\ front' = index[w] + 1
    /\ index' = [index EXCEPT ![w] = 0]
    /\ UNCHANGED <<queue_mutex, printers, printer_sem, printer_id, process>>

UnlockQueue(w) ==
    /\ Step(w, "unlockq", IF task_id[w] = -1 THEN "exit" ELSE "wait")
    /\ queue_mutex' = Nobody
    /\ UNCHANGED <<front, printers, printer_sem, locals, process>>
-----------------------------------------------------------------------------
(* It takes a printer, prints, and gives the printer back. *)

SemWait(w) ==
    /\ printer_sem > 0
    /\ Step(w, "wait", "lockp")
    /\ printer_sem' = printer_sem - 1
    /\ UNCHANGED <<queue, printers, locals, process>>

PrintersFree == printer_mutex = Nobody

LockPrinters(w) ==
    /\ PrintersFree
    /\ Step(w, "lockp", "look")
    /\ printer_mutex' = w
    /\ index' = [index EXCEPT ![w] = 0]
    /\ UNCHANGED <<queue, printer_status, printer_sem, task_id, printer_id, process>>

\* get_available_printer goes over the printers: -1 when it has seen them all.
Look(w) ==
    LET i == index[w]
        free == i \in Printer /\ printer_status[i] = 1
    IN  /\ Step(w, "look", IF free THEN "claim"
                           ELSE IF i \in Printer THEN "look" ELSE "unlockp")
        /\ index' = IF free THEN index ELSE [index EXCEPT ![w] = i + 1]
        /\ printer_id' = [printer_id EXCEPT ![w] = -1]
        /\ UNCHANGED <<queue, printers, printer_sem, task_id, process>>

Claim(w) ==
    /\ Step(w, "claim", "unlockp")
    /\ printer_status' = [printer_status EXCEPT ![index[w]] = 0]
    /\ printer_id' = [printer_id EXCEPT ![w] = index[w]]
    /\ index' = [index EXCEPT ![w] = 0]
    /\ UNCHANGED <<queue, printer_mutex, printer_sem, task_id, process>>

UnlockPrinters(w) ==
    /\ Step(w, "unlockp", "print")
    /\ printer_mutex' = Nobody
    /\ UNCHANGED <<queue, printer_status, printer_sem, locals, process>>

\* From "acquired" to "released", the sleep included.
PrintTask(w) ==
    /\ Step(w, "print", "lockr")
    /\ output' = Append(output, task_id[w])
    /\ UNCHANGED <<queue, printers, printer_sem, locals, main>>

LockRelease(w) ==
    /\ PrintersFree
    /\ Step(w, "lockr", "release")
    /\ printer_mutex' = w
    /\ UNCHANGED <<queue, printer_status, printer_sem, locals, process>>

\* release_printer and the unlock; a printer -1 would be outside the array.
Release_Mut(w) ==
    /\ Step(w, "release", "post")
    /\ printer_mutex' = Nobody
    /\ UNCHANGED <<queue, printer_status, printer_sem, locals, process>>
Release(w) ==
    /\ printer_id[w] \in Printer
    /\ Step(w, "release", "post")
    /\ printer_status' = [printer_status EXCEPT ![printer_id[w]] = 1]
    /\ printer_mutex' = Nobody
    /\ UNCHANGED <<queue, printer_sem, locals, process>>

SemPost_Mut(w) ==
    /\ Step(w, "post", "lockq")
    /\ UNCHANGED <<queue, printers, printer_sem, locals, process>>
SemPost(w) ==
    /\ Step(w, "post", "lockq")
    /\ printer_sem' = printer_sem + 1
    /\ UNCHANGED <<queue, printers, locals, process>>

Idle == main = "completed" /\ UNCHANGED vars
-----------------------------------------------------------------------------
Work(w) ==
    \/ Create(w)
    \/ LockQueue(w) \/ ReadFront(w) \/ TakeTask(w) \/ UnlockQueue(w)
    \/ SemWait(w) \/ LockPrinters(w) \/ Look(w) \/ Claim(w)
    \/ UnlockPrinters(w) \/ PrintTask(w)
    \/ LockRelease(w) \/ Release(w) \/ SemPost(w)

Next == (\E w \in Worker : Work(w)) \/ Join \/ Idle

Spec == Init /\ [][Next]_vars

\* The kernel runs every thread that can run; each lock is taken a bounded
\* number of times, so weak fairness suffices for the locks too.
FairSpec == Spec /\ WF_vars(Join) /\ \A w \in Worker : WF_vars(Work(w))
-----------------------------------------------------------------------------
(* Properties. *)

\* The workers that have a printer, from claiming to giving it back.
HasPrinter(w) == pc[w] \in {"unlockp", "print", "lockr", "release"}

\* A worker let through by the semaphore finds a printer, marks it, and has it
\* for itself: the count never promises more printers than printer_status has.
PrinterFound ==
    \A v, w \in Worker :
       HasPrinter(w) =>
          /\ printer_id[w] # -1
          /\ printer_status[printer_id[w]] = 0
          /\ HasPrinter(v) /\ printer_id[v] = printer_id[w] => v = w

\* A task is waiting until a worker has claimed a printer for it.
Begun == {task_id[w] : w \in {v \in Worker : pc[v] \in {"unlockp", "print"}}}
Printed == {output[i] : i \in 1 .. Len(output)}
JobOf(p) ==
    LET at == {w \in Worker : pc[w] \in {"unlockp", "print"} /\ printer_id[w] = p}
    IN  IF at = {} THEN Nobody ELSE task_id[CHOOSE w \in at : TRUE]

Shop == INSTANCE PrintShop
          WITH waiting <- (Task \ Begun) \ Printed,
               job     <- [p \in Printer |-> JobOf(p)],
               printed <- Printed,
               None    <- Nobody

\* Queue, semaphore, table and mutexes together print every task once, one at
\* a time on each printer, and all of them in the end.
ImplementsShop == Shop!Spec
=============================================================================
