------------------------------ MODULE Threads ------------------------------
(***************************************************************************)
(* The thread exercises of assignment7 and assignment8: counters with and  *)
(* without a mutex, a condition variable, two mutexes taken crosswise, a   *)
(* semaphore, and a thread made by clone.  Each program is a text of       *)
(* instructions for its main thread, number 0, and for those it creates;   *)
(* the instructions are the actions.  What a thread does between two       *)
(* instructions touches nothing that is shared.                            *)
(***************************************************************************)
EXTENDS Naturals, Sequences, FiniteSets

CONSTANTS
    None,            \* nobody holds a mutex
    NUM_THREADS,     \* threads of a counter and of the semaphore exercise
    NUM_INCREMENTS,
    MAX_CONCURRENT

VARIABLES
    program,  \* the program that runs
    pc,       \* the instruction a thread is at; 0 before it is created
    reg,      \* what it has loaded last
    mem,      \* the shared variables
    owner,    \* the holder of each mutex
    asleep,   \* the threads in pthread_cond_wait
    sem,      \* the semaphore
    freed,    \* the stack given to clone has been freed
    outcome   \* "failed": a create failed and the program exited; "fault"

vars == <<pc, reg, mem, owner, asleep, sem, freed, outcome>>

Thread == 0 .. NUM_THREADS
Var    == {"counter", "buffer", "data_ready"}
Mutex  == {"mutex1", "mutex2"}
-----------------------------------------------------------------------------
(* The texts. *)

\* main creates threads 1 .. n and joins them in that order.
Team(create, n) ==
    [i \in 1 .. 2 * n |-> IF i <= n THEN <<create, i>> ELSE <<"join", i - n>>]

Times(n, body) == [i \in 1 .. n * Len(body) |-> body[((i - 1) % Len(body)) + 1]]

Two(t, first, second) ==
    CASE t = 0 -> Team("create", 2) [] t = 1 -> first [] t = 2 -> second [] OTHER -> <<>>

\* assignment7/ex2.c and assignment8/ex1.c, which are the same; main exits when
\* a thread cannot be created.  counter++ is a load and a store.
increment_Mut == <<<<"load", "counter">>, <<"lock", "mutex1">>,
                   <<"store", "counter">>, <<"unlock", "mutex1">>>>
increment == <<<<"lock", "mutex1">>, <<"load", "counter">>,
               <<"store", "counter">>, <<"unlock", "mutex1">>>>
MutexCounter(t) ==
    IF t = 0 THEN Team("create or exit", NUM_THREADS) ELSE Times(NUM_INCREMENTS, increment)
MutexCounter8(t) == MutexCounter(t)

\* assignment7/ex2_race_condition.c and assignment8/ex1_race_condition.c.
RaceCounter(t) ==
    IF t = 0 THEN Team("create or exit", NUM_THREADS)
    ELSE Times(NUM_INCREMENTS, <<<<"load", "counter">>, <<"store", "counter">>>>)
RaceCounter8(t) == RaceCounter(t)

\* assignment7/ex3.c: the producer is thread 1.
producer == <<<<"lock", "mutex1">>, <<"set", "buffer">>, <<"set", "data_ready">>,
              <<"signal", "cond">>, <<"unlock", "mutex1">>>>
consumer == <<<<"lock", "mutex1">>, <<"await", "data_ready">>,
              <<"load", "buffer">>, <<"unlock", "mutex1">>>>
Condition(t) == Two(t, producer, consumer)

\* pthread_cond.c: the consumer is created first, and there is no buffer.
CondProducer == <<<<"lock", "mutex1">>, <<"set", "data_ready">>,
                  <<"signal", "cond">>, <<"unlock", "mutex1">>>>
CondConsumer == <<<<"lock", "mutex1">>, <<"await", "data_ready">>,
                  <<"unlock", "mutex1">>>>
PthreadCond(t) == Two(t, CondConsumer, CondProducer)

\* demo_deadlock.c.
thread1_func == <<<<"lock", "mutex1">>, <<"lock", "mutex2">>,
                  <<"unlock", "mutex2">>, <<"unlock", "mutex1">>>>
thread2_func == <<<<"lock", "mutex2">>, <<"lock", "mutex1">>,
                  <<"unlock", "mutex1">>, <<"unlock", "mutex2">>>>
Deadlock(t) == Two(t, thread1_func, thread2_func)

\* assignment8/ex2.c.
Limited(t) ==
    IF t = 0 THEN Team("create", NUM_THREADS)
    ELSE <<<<"sem_wait", "sem">>, <<"work", "inside">>, <<"sem_post", "sem">>>>

\* clone.c: nobody joins the thread, which returns on a stack that main frees.
Clone(t) ==
    CASE t = 0 -> <<<<"create", 1>>, <<"sem_wait", "sem">>, <<"free", 1>>, <<"work", "exit">>>>
      [] t = 1 -> <<<<"work", "hello">>, <<"sem_post", "sem">>, <<"return", 1>>>>
      [] OTHER -> <<>>

\* assignment7/ex1.c: each thread reads its own variable of main.
Hello(t) ==
    CASE t = 0 -> Team("create or exit", 2)
      [] t \in {1, 2} -> <<<<"work", "hello">>>>
      [] OTHER -> <<>>

Text(t) ==
    CASE program = "mutex"        -> MutexCounter(t)
      [] program = "mutex8"       -> MutexCounter8(t)
      [] program = "race"         -> RaceCounter(t)
      [] program = "race8"        -> RaceCounter8(t)
      [] program = "condition"    -> Condition(t)
      [] program = "pthread_cond" -> PthreadCond(t)
      [] program = "deadlock"     -> Deadlock(t)
      [] program = "semaphore"    -> Limited(t)
      [] program = "clone"        -> Clone(t)
      [] program = "hello"        -> Hello(t)

Programs == {"mutex", "mutex8", "race", "race8", "condition", "pthread_cond", "deadlock",
             "semaphore", "clone", "hello"}
-----------------------------------------------------------------------------
Init ==
    /\ pc = [t \in Thread |-> IF t = 0 THEN 1 ELSE 0]
    /\ reg = [t \in Thread |-> 0]
    /\ mem = [v \in Var |-> 0]
    /\ owner = [m \in Mutex |-> None]
    /\ asleep = {}
    /\ sem = IF program = "semaphore" THEN MAX_CONCURRENT ELSE 0
    /\ freed = FALSE
    /\ outcome = "running"

Ended(t) == pc[t] > Len(Text(t))

\* When main returns the process is gone.
Running == outcome = "running" /\ ~ Ended(0)

Is(t, op) ==
    /\ Running
    /\ pc[t] # 0
    /\ ~ Ended(t)
    /\ Text(t)[pc[t]][1] = op

Arg(t) == Text(t)[pc[t]][2]

Advance(t) == pc' = [pc EXCEPT ![t] = @ + 1]

\* pthread_create and clone; where main does not look at the result, a thread
\* that could not be created is left out.
Create(t) ==
    /\ Is(t, "create") \/ Is(t, "create or exit")
    /\ pc' = [pc EXCEPT ![t] = @ + 1, ![Arg(t)] = 1]
    /\ UNCHANGED <<reg, mem, owner, asleep, sem, freed, outcome>>

CreateFails(t) ==
    /\ Is(t, "create or exit")
    /\ outcome' = "failed"
    /\ UNCHANGED <<pc, reg, mem, owner, asleep, sem, freed>>

Join(t) ==
    /\ Is(t, "join")
    /\ Ended(Arg(t))
    /\ Advance(t)
    /\ UNCHANGED <<reg, mem, owner, asleep, sem, freed, outcome>>

Lock(t) ==
    /\ Is(t, "lock")
    /\ owner[Arg(t)] = None
    /\ owner' = [owner EXCEPT ![Arg(t)] = t]
    /\ Advance(t)
    /\ UNCHANGED <<reg, mem, asleep, sem, freed, outcome>>

Unlock(t) ==
    /\ Is(t, "unlock")
    /\ owner' = [owner EXCEPT ![Arg(t)] = None]
    /\ Advance(t)
    /\ UNCHANGED <<reg, mem, asleep, sem, freed, outcome>>

Load(t) ==
    /\ Is(t, "load")
    /\ reg' = [reg EXCEPT ![t] = mem[Arg(t)]]
    /\ Advance(t)
    /\ UNCHANGED <<mem, owner, asleep, sem, freed, outcome>>

Store(t) ==
    /\ Is(t, "store") \/ Is(t, "set")
    /\ mem' = [mem EXCEPT ![Arg(t)] = IF Is(t, "store") THEN reg[t] + 1 ELSE 1]
    /\ Advance(t)
    /\ UNCHANGED <<reg, owner, asleep, sem, freed, outcome>>

\* while (data_ready == 0) pthread_cond_wait(&cond, &lock), in four steps: the
\* variable is set; it is not, and the thread sleeps without the mutex; it is
\* woken, for no reason at times; it takes the mutex again.
AwaitOver(t) ==
    /\ Is(t, "await")
    /\ owner["mutex1"] = t
    /\ mem[Arg(t)] # 0
    /\ Advance(t)
    /\ UNCHANGED <<reg, mem, owner, asleep, sem, freed, outcome>>

Sleep(t) ==
    /\ Is(t, "await")
    /\ owner["mutex1"] = t
    /\ mem[Arg(t)] = 0
    /\ owner' = [owner EXCEPT !["mutex1"] = None]
    /\ asleep' = asleep \cup {t}
    /\ UNCHANGED <<pc, reg, mem, sem, freed, outcome>>

WakeSpuriously(t) ==
    /\ Running
    /\ t \in asleep
    /\ asleep' = asleep \ {t}
    /\ UNCHANGED <<pc, reg, mem, owner, sem, freed, outcome>>

Relock(t) ==
    /\ Is(t, "await")
    /\ t \notin asleep
    /\ owner["mutex1"] = None
    /\ owner' = [owner EXCEPT !["mutex1"] = t]
    /\ UNCHANGED <<pc, reg, mem, asleep, sem, freed, outcome>>

\* pthread_cond_signal wakes one thread at least, of those that sleep now.
Signal_Mut(t) ==
    /\ Is(t, "signal")
    /\ Advance(t)
    /\ UNCHANGED <<reg, mem, owner, asleep, sem, freed, outcome>>
Signal(t) ==
    /\ Is(t, "signal")
    /\ \E woken \in SUBSET asleep :
          /\ asleep # {} => woken # {}
          /\ asleep' = asleep \ woken
    /\ Advance(t)
    /\ UNCHANGED <<reg, mem, owner, sem, freed, outcome>>

SemWait(t) ==
    /\ Is(t, "sem_wait")
    /\ sem > 0
    /\ sem' = sem - 1
    /\ Advance(t)
    /\ UNCHANGED <<reg, mem, owner, asleep, freed, outcome>>

SemPost(t) ==
    /\ Is(t, "sem_post")
    /\ sem' = sem + 1
    /\ Advance(t)
    /\ UNCHANGED <<reg, mem, owner, asleep, freed, outcome>>

Work(t) ==
    /\ Is(t, "work")
    /\ Advance(t)
    /\ UNCHANGED <<reg, mem, owner, asleep, sem, freed, outcome>>

Free(t) ==
    /\ Is(t, "free")
    /\ freed' = TRUE
    /\ Advance(t)
    /\ UNCHANGED <<reg, mem, owner, asleep, sem, outcome>>

\* The thread leaves its function, on its stack.
ReturnOn(t) ==
    /\ Is(t, "return")
    /\ outcome' = IF freed THEN "fault" ELSE outcome
    /\ Advance(t)
    /\ UNCHANGED <<reg, mem, owner, asleep, sem, freed>>

Step(t) ==
    \/ Create(t) \/ CreateFails(t) \/ Join(t) \/ Lock(t) \/ Unlock(t)
    \/ Load(t) \/ Store(t) \/ AwaitOver(t) \/ Sleep(t) \/ Relock(t) \/ Signal(t)
    \/ SemWait(t) \/ SemPost(t) \/ Work(t) \/ Free(t) \/ ReturnOn(t)

Next == \E t \in Thread : Step(t) \/ WakeSpuriously(t)

\* The two threads of the demonstration each hold what the other waits for.
Crossed == program = "deadlock" /\ owner["mutex1"] = 1 /\ owner["mutex2"] = 2

Over == ~ Running \/ Crossed
-----------------------------------------------------------------------------
(* Properties. *)

\* What a program has when main returns: with the mutex every increment counts;
\* without it some are lost, but two are not (the first of all and the last, at
\* worst); what the consumer took is what the producer made.
ResultsExact ==
    Ended(0) =>
       LET all == NUM_THREADS * NUM_INCREMENTS IN
       /\ program \in {"mutex", "mutex8"} => mem["counter"] = all
       /\ program \in {"race", "race8"} =>
             /\ mem["counter"] <= all
             /\ mem["counter"] >= IF NUM_INCREMENTS = 1 THEN 1 ELSE 2
       /\ program = "condition" => reg[2] = 1

\* No more threads than MAX_CONCURRENT are inside at once, and main does not
\* free the stack of its thread before that has posted: only the return is left.
SemaphoresHold ==
    /\ program = "semaphore" =>
          Cardinality({t \in Thread \ {0} : pc[t] \in {2, 3}}) <= MAX_CONCURRENT
    /\ program = "clone" /\ freed => pc[1] > 2
=============================================================================
