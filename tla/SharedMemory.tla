---------------------------- MODULE SharedMemory ----------------------------
(***************************************************************************)
(* assignment8: a spinlock in a mapped file that two programs share, the   *)
(* spinlock one kernel module exports to another, and a System V segment   *)
(* between a writer and a reader.  Each program is a text of instructions; *)
(* a process at its first instruction may not have been started yet.       *)
(***************************************************************************)
EXTENDS Naturals, Sequences, FiniteSets

VARIABLES
    program,  \* which of the three exercises runs
    at,       \* the instruction a process is at
    dead,     \* the processes that were killed or left with an error
    file,     \* /tmp/spinlock_shm: none, empty, sized
    word,     \* the lock: 1 is free, as the library of the shipped programs has it
    holding,  \* history: the processes between lock and unlock
    reset,    \* history: the lock was initialised while somebody held it
    segment,  \* the segment of SHM_KEY: none, there, or marked for removal
    attached, \* the processes it is mapped in
    content,  \* what it holds
    shown     \* what each process has printed

vars == <<at, dead, file, word, holding, reset, segment, attached, content, shown>>

Proc == 1 .. 3
-----------------------------------------------------------------------------
(* The texts. *)

\* spinlock_proc1.c, of which two may run, and spinlock_proc2.c.
SpinProc1 == <<"open or create", "truncate", "init", "lock", "sleep", "unlock">>
SpinProc2 == <<"open", "lock", "unlock">>

\* spinlock1.c and spinlock2.c, up to the unloading of both.
ModA == <<"init", "lock", "sleep", "unlock", "unload">>
ModB == <<"resolve", "lock", "unlock", "leave">>

\* ex3_writer.c and ex3_read.c.
Writer == <<"get or create", "attach", "write", "sleep", "detach", "remove">>
Reader == <<"get", "attach", "read", "detach">>

Text == [spin    |-> <<SpinProc1, SpinProc1, SpinProc2>>,
         modules |-> <<ModA, ModB, <<>>>>,
         shm     |-> <<Writer, Reader, Reader>>]

Programs == DOMAIN Text
-----------------------------------------------------------------------------
Init ==
    /\ at = [p \in Proc |-> 1]
    /\ dead = {}
    /\ file = "none"
    /\ word = 0
    /\ holding = {}
    /\ reset = FALSE
    /\ segment = "none"
    /\ attached = {}
    /\ content = ""
    /\ shown = [p \in Proc |-> "nothing"]

Done(p) == at[p] > Len(Text[program][p])

Is(p, step) == p \notin dead /\ ~ Done(p) /\ Text[program][p][at[p]] = step

Advance(p) == at' = [at EXCEPT ![p] = @ + 1]

lock  == <<file, word, holding, reset>>
share == <<segment, attached, content, shown>>

\* The process goes on if what it opens is there and prints an error if not.
Leave(p) == dead' = dead \cup {p}

Open(p) ==
    /\ Is(p, "open or create") \/ Is(p, "open")
    /\ IF Is(p, "open") /\ file = "none"
       THEN Leave(p) /\ UNCHANGED <<at, file>>
       ELSE /\ Advance(p)
            /\ file' = IF file = "none" THEN "empty" ELSE file
            /\ UNCHANGED dead
    /\ UNCHANGED <<word, holding, reset, share>>

\* ftruncate fills a new file with zeros and leaves one of that size alone.
Truncate(p) ==
    /\ Is(p, "truncate")
    /\ file' = "sized"
    /\ Advance(p)
    /\ UNCHANGED <<dead, word, holding, reset, share>>

InitLock(p) ==
    /\ Is(p, "init")
    /\ word' = 1
    /\ reset' = (reset \/ holding # {})
    /\ Advance(p)
    /\ UNCHANGED <<dead, file, holding, share>>

\* The loader lets mod_b wait for mod_a's initialisation, which is over when
\* mod_a is about to be unloaded; without mod_a it refuses.
Resolve(p) ==
    /\ Is(p, "resolve")
    /\ IF at[1] = 1 \/ Done(1)
       THEN Leave(p) /\ UNCHANGED at
       ELSE Is(1, "unload") /\ Advance(p) /\ UNCHANGED dead
    /\ UNCHANGED <<lock, share>>

\* A lock of trylock, whose result is not looked at.
SpinLock_Mut(p) ==
    /\ Is(p, "lock")
    /\ file # "empty"
    /\ word' = 0
    /\ holding' = holding \cup {p}
    /\ Advance(p)
    /\ UNCHANGED <<dead, file, reset, share>>
SpinLock(p) ==
    /\ Is(p, "lock")
    /\ file # "empty"
    /\ word = 1
    /\ word' = 0
    /\ holding' = holding \cup {p}
    /\ Advance(p)
    /\ UNCHANGED <<dead, file, reset, share>>

\* spinlock_proc2 has mapped a file of no bytes: SIGBUS.
BusError(p) ==
    /\ Is(p, "lock")
    /\ file = "empty"
    /\ Leave(p)
    /\ UNCHANGED <<at, lock, share>>

SpinUnlock(p) ==
    /\ Is(p, "unlock")
    /\ word' = 1
    /\ holding' = holding \ {p}
    /\ Advance(p)
    /\ UNCHANGED <<dead, file, reset, share>>

\* sleep, getchar and msleep; mod_a goes when mod_b does not use it.
Pass(p) ==
    /\ \/ Is(p, "sleep") \/ Is(p, "leave")
       \/ Is(p, "unload") /\ (at[2] = 1 \/ Done(2) \/ 2 \in dead)
    /\ Advance(p)
    /\ UNCHANGED <<dead, lock, share>>

\* shmget: a segment that is marked has lost its key.
Get(p) ==
    /\ Is(p, "get or create") \/ Is(p, "get")
    /\ IF segment # "there" /\ Is(p, "get")
       THEN Leave(p) /\ UNCHANGED <<at, segment>>
       ELSE Advance(p) /\ segment' = "there" /\ UNCHANGED dead
    /\ UNCHANGED <<lock, attached, content, shown>>

\* shmat, by the number the process has: it works while the memory exists.
Attach(p) ==
    /\ Is(p, "attach")
    /\ IF segment = "none" THEN Leave(p) /\ UNCHANGED <<at, attached>>
       ELSE Advance(p) /\ attached' = attached \cup {p} /\ UNCHANGED dead
    /\ UNCHANGED <<lock, segment, content, shown>>

Write(p) ==
    /\ Is(p, "write")
    /\ content' = "hello"
    /\ Advance(p)
    /\ UNCHANGED <<dead, lock, segment, attached, shown>>

Read(p) ==
    /\ Is(p, "read")
    /\ shown' = [shown EXCEPT ![p] = content]
    /\ Advance(p)
    /\ UNCHANGED <<dead, lock, segment, attached, content>>

\* The memory of a marked segment goes with the last to detach.
Unmap(p) ==
    /\ attached' = attached \ {p}
    /\ segment' = IF segment = "marked" /\ attached' = {} THEN "none" ELSE segment
    /\ content' = IF segment' = "none" THEN "" ELSE content

Detach(p) ==
    /\ Is(p, "detach")
    /\ Unmap(p)
    /\ Advance(p)
    /\ UNCHANGED <<dead, lock, shown>>

Remove(p) ==
    /\ Is(p, "remove")
    /\ segment' = IF attached = {} THEN "none" ELSE "marked"
    /\ content' = IF attached = {} THEN "" ELSE content
    /\ Advance(p)
    /\ UNCHANGED <<dead, lock, attached, shown>>

\* A process, not a module, is killed from the keyboard: the lock and the
\* segment are left as they are.
Kill(p) ==
    /\ program # "modules"
    /\ p \notin dead
    /\ ~ Done(p)
    /\ Leave(p)
    /\ Unmap(p)
    /\ holding' = holding \ {p}
    /\ UNCHANGED <<at, file, word, reset, shown>>

Step(p) ==
    \/ Open(p) \/ Truncate(p) \/ InitLock(p) \/ Resolve(p) \/ SpinLock(p) \/ BusError(p)
    \/ SpinUnlock(p) \/ Pass(p) \/ Get(p) \/ Attach(p) \/ Write(p) \/ Read(p)
    \/ Detach(p) \/ Remove(p)

Next == \E p \in Proc : Step(p) \/ Kill(p)

\* What is left waits for a lock whose holder is dead, or that nobody set free.
Over == \A p \in Proc : p \in dead \/ Done(p) \/ (Is(p, "lock") /\ word = 0)
-----------------------------------------------------------------------------
(* Properties. *)

\* Two processes hold the spinlock at once only if spinlock_proc1 was started
\* while another held it and initialised it again; mod_b never meets a lock that
\* mod_a holds.
SpinExclusion ==
    /\ Cardinality(holding) > 1 => program = "spin" /\ reset
    /\ program = "modules" => \A p \in Proc : Is(p, "lock") => word = 1

\* A reader that gets in shows the message, or nothing if the writer has not come
\* so far; and the writer, unless it is killed, leaves no segment behind.
SegmentServed ==
    program = "shm" =>
       /\ \A p \in Proc : shown[p] = "hello" => at[1] > 3
       /\ \A p \in Proc : p \in attached => segment # "none"
       /\ (Done(1) /\ attached = {}) => segment = "none"
=============================================================================
