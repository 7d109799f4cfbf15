---------------------------- MODULE ProgramsProofs ----------------------------
(***************************************************************************)
(* The invariants of the small programs, for every value of the constants. *)
(* One of them runs, so a step of Programs is a step of one module and     *)
(* leaves the variables of the others alone; each invariant is about those *)
(* of one module and the program that runs.  Those of Threads and Relay    *)
(* are in ThreadsProofs.                                                   *)
(***************************************************************************)
EXTENDS Programs, Sequences, FiniteSetTheorems, SequenceTheorems, TLAPS

USE ProgramsAssumption

\* What a step is to each of the modules.
LEMMA StepsAlone ==
    ASSUME [Next]_vars
    PROVE  /\ program' = program
           /\ Ev!Next \/ UNCHANGED epoll
           /\ De!Next \/ UNCHANGED demo
           /\ Le!Next \/ UNCHANGED leds
           /\ (program \in Pr!Programs /\ Pr!Next) \/ UNCHANGED processes
           /\ (program \in Si!Programs /\ Si!Next) \/ UNCHANGED signals
           /\ (program \in Sh!Programs /\ Sh!Next) \/ UNCHANGED sharers
           /\ (program \in Th!Programs /\ Th!Next) \/ UNCHANGED threads
           /\ (program \in Re!Programs /\ Re!Next) \/ UNCHANGED relay
           /\ (program \in Cl!Programs /\ Cl!Next) \/ UNCHANGED client
<1>1. ASSUME NEW t \in Th!Thread, Thread(t) \/ Spurious(t) PROVE Th!Next /\ Alone(Th!Programs)
  BY <1>1 DEF Thread, Spurious, Th!Next
<1>2. ASSUME NEW p \in Pr!Process, Process(p) PROVE Pr!Next /\ Alone(Pr!Programs)
  BY <1>2 DEF Process, Pr!Next
<1>3. ASSUME NEW p \in Sh!Proc, Sharer(p) \/ Killed(p) PROVE Sh!Next /\ Alone(Sh!Programs)
  BY <1>3 DEF Sharer, Killed, Sh!Next
<1>4. Turn \/ Input => Ev!Next
  BY DEF Turn, Input, Ev!Next
<1>5. CASE \E t \in Th!Thread : Thread(t) \/ Spurious(t)
  BY <1>1, <1>5 DEF Thread, Spurious, Alone
<1>6. CASE \E p \in Pr!Process : Process(p)
  BY <1>2, <1>6 DEF Process, Alone
<1>7. CASE \E p \in Sh!Proc : Sharer(p) \/ Killed(p)
  BY <1>3, <1>7 DEF Sharer, Killed, Alone
<1>8. CASE Signal \/ Turn \/ Input \/ Module \/ Drivers \/ Server \/ Client
  BY <1>4, <1>8 DEF Signal, Turn, Input, Module, Drivers, Server, Client, Alone
<1>9. CASE Idle \/ UNCHANGED vars
  BY <1>9 DEF Idle, vars
<1> QED BY <1>5, <1>6, <1>7, <1>8, <1>9 DEF Next
-----------------------------------------------------------------------------
(* The event loop, the tasklet and the first LED drivers. *)

\* The event loop: what the pipe holds beside a batch that will read it.
LoopInv ==
    /\ pipe \in Nat /\ pipe <= 2
    /\ point # "handle" => batch = {} /\ pipe <= 1
    /\ point = "start" => pipe = 0
    /\ "stdin" \in batch => pipe <= IF "pipe" \in batch THEN 1 ELSE 0
    /\ "pipe" \notin batch => pipe <= 1

\* A batch that is handled has a place in the pipe for what it answers.
LEMMA LoopStep == LoopInv /\ Ev!Next => LoopInv'
<1> SUFFICES ASSUME LoopInv, Ev!Next PROVE LoopInv'
  OBVIOUS
<1>1. CASE Ev!Start
  BY <1>1 DEF LoopInv, Ev!Start
<1>5. CASE Ev!Type \/ Ev!Interrupted
  BY <1>5 DEF LoopInv, Ev!Type, Ev!Interrupted
<1>2. CASE Ev!Wait
  BY <1>2 DEF LoopInv, Ev!Wait, Ev!Ready
<1>3. CASE Ev!HandleStdin
  BY <1>3 DEF LoopInv, Ev!HandleStdin, Ev!Handled
<1>4. CASE Ev!HandlePipe
  BY <1>4 DEF LoopInv, Ev!HandlePipe, Ev!Handled
<1> QED BY <1>1, <1>2, <1>3, <1>4, <1>5 DEF Ev!Next, Ev!Step

\* However much is typed, the event loop's pipe to itself never fills.
THEOREM PipeHasRoom == Spec => []PipeNeverFull
<1>1. Init => LoopInv
  BY DEF Init, Ev!Init, LoopInv
<1>2. LoopInv /\ [Next]_vars => LoopInv'
  BY StepsAlone, LoopStep DEF LoopInv, epoll
<1>3. LoopInv => PipeNeverFull
  BY DEF LoopInv, PipeNeverFull, Ev!PipeNeverFull
<1> QED BY <1>1, <1>2, <1>3, PTL DEF Spec

\* The tasklet's module: the queue's life follows the module's, and a tasklet that
\* outlives the queue was late.
WorkInv ==
    /\ tasklet \in {"idle", "scheduled", "queue"}
    /\ my_work \in {"none", "idle", "queued", "running"}
    /\ phase \in {"create", "init work", "schedule", "live", "drain", "kill", "unloaded"}
    /\ phase = "create" => my_wq = "null"
    /\ phase \in {"init work", "schedule", "live"} => my_wq = "there"
    /\ phase = "drain" => my_wq = "draining"
    /\ phase = "kill" => my_wq = "freed" /\ my_work = "idle"
    /\ phase \in {"create", "init work", "schedule", "unloaded"} =>
          tasklet = "idle" /\ my_work \in {"none", "idle"}
    /\ phase \in {"schedule", "live", "drain"} => my_work # "none"
    /\ phase \in {"drain", "kill"} /\ tasklet # "idle" => late
    /\ fault => late

\* Exit drains the queue before it frees it, and waits for the tasklet behind.
LEMMA WorkStep == WorkInv /\ De!Next => WorkInv'
<1> SUFFICES ASSUME WorkInv, De!Next PROVE WorkInv'
  OBVIOUS
<1>1. CASE De!CreateQueue
  BY <1>1 DEF WorkInv, De!CreateQueue
<1>2. CASE De!InitWork
  BY <1>2 DEF WorkInv, De!InitWork
<1>3. CASE De!ScheduleTasklet
  BY <1>3 DEF WorkInv, De!ScheduleTasklet
<1>4. CASE De!TestQueue
  BY <1>4 DEF WorkInv, De!TestQueue
<1>5. CASE De!QueueWork
  BY <1>5 DEF WorkInv, De!QueueWork
<1>6. CASE De!RunWork
  BY <1>6 DEF WorkInv, De!RunWork
<1>7. CASE De!Drain
  BY <1>7 DEF WorkInv, De!Drain
<1>8. CASE De!FreeQueue
  BY <1>8 DEF WorkInv, De!FreeQueue
<1>9. CASE De!KillTasklet
  BY <1>9 DEF WorkInv, De!KillTasklet
<1> QED BY <1>1, <1>2, <1>3, <1>4, <1>5, <1>6, <1>7, <1>8, <1>9 DEF De!Next, De!Step

\* The work item runs inside the queue's and the module's life, and freed memory is
\* used only if the module is removed before its tasklet has run.
THEOREM WorkIsFlushed == Spec => []WorkInsideModule
<1>1. Init => WorkInv
  BY DEF Init, De!Init, WorkInv
<1>2. WorkInv /\ [Next]_vars => WorkInv'
  BY StepsAlone, WorkStep DEF WorkInv, demo
<1>3. WorkInv => WorkInsideModule
  BY DEF WorkInv, WorkInsideModule, De!WorkInsideModule
<1> QED BY <1>1, <1>2, <1>3, PTL DEF Spec

\* The first LED drivers.
LineInv ==
    /\ requested \in {None, "led_dt", "led_button"} /\ bound \in {None, "led_dt"}
    /\ bound # None => requested = bound
    /\ bound = "led_dt" => pin = 1 \/ cleared

\* Whatever the drivers that share the pin do in between, the line belongs to the
\* one that is bound, and shows it.
THEOREM LineIsBound == Spec => []LineFollowsBinding
<1>1. Init => LineInv
  BY DEF Init, Le!Init, LineInv
<1>2. LineInv /\ [Next]_vars => LineInv'
  <2> SUFFICES ASSUME LineInv, Le!Next \/ UNCHANGED leds PROVE LineInv'
    BY StepsAlone
  <2> QED
    BY DEF LineInv, leds, Le!Next, Le!led_gpio_init, Le!led_gpio_exit, Le!gpio_led_request,
           Le!gpio_led_direction, Le!gpio_led_remove, Le!btn_led_get, Le!btn_led_get_button
<1>3. LineInv => LineFollowsBinding
  BY DEF LineInv, LineFollowsBinding, Le!LineFollowsBinding
<1> QED BY <1>1, <1>2, <1>3, PTL DEF Spec
-----------------------------------------------------------------------------
(* The processes. *)

\* The processes: how far a parent that waits has come tells who is left.
FamilyInv ==
    program \in Pr!Programs =>
       /\ at \in [Pr!Process -> Nat \ {0}]
       /\ life \in [Pr!Process -> {"none", "running", "zombie", "gone"}]
       /\ life[0] \in {"running", "gone"}
       /\ program = "two" =>
             /\ at[0] <= 5
             /\ at[0] = 1 => life[1] = "none"
             /\ at[0] <= 2 => life[2] = "none"
             /\ at[0] >= 2 => life[1] # "none"
             /\ at[0] >= 3 => life[2] # "none"
             /\ at[0] = 4 => life[1] = "gone" \/ life[2] = "gone"
             /\ at[0] = 5 => life[1] = "gone" /\ life[2] = "gone"
       /\ program = "exec" =>
             at[0] <= 3 /\ life[2] = "none" /\ (at[0] = 3 => life[1] \in {"none", "gone"})
       /\ program = "kill_timeout" =>
             at[0] <= 5 /\ life[2] = "none" /\ (at[0] = 5 => life[1] \in {"none", "gone"})
       /\ astray => program = "kill_timeout" /\ 1 \in unforked
       /\ Pr!OrphansHaveInit

\* The texts of the processes are functions of their numbers.
LEMMA ByNumber ==
    ASSUME NEW T
    PROVE  Pr!ByProcess(T)[0] = T[1] /\ Pr!ByProcess(T)[1] = T[2] /\ Pr!ByProcess(T)[2] = T[3]
BY DEF Pr!ByProcess, Pr!Process

\* A text of no, one, two and four instructions, and what its k-th is.
Says0(s) == s = <<>>
Says1(s, a, m) == s = <<<<a, m>>>>
Says2(s, a, m, b, n) == s = <<<<a, m>>, <<b, n>>>>
Says4(s, a, m, b, n, c, i, d, j) == s = <<<<a, m>>, <<b, n>>, <<c, i>>, <<d, j>>>>

OnLine(s, k, n, op, a) == k = n /\ s[k][1] = op /\ s[k][2] = a

\* A text of no line, and of one, two and four, is at one of them or has ended.
LEMMA Read0 ==
    ASSUME NEW s, Says0(s)
    PROVE  Len(s) = 0
BY DEF Says0

\* A text of one line is at it.
LEMMA Read1 ==
    ASSUME NEW s, NEW a, NEW m, Says1(s, a, m)
    PROVE  Len(s) = 1 /\ \A k \in Nat \ {0} : k <= 1 => OnLine(s, k, 1, a, m)
<1>1. Len(s) = 1 /\ s[1] = <<a, m>>
  BY DEF Says1
<1>2. s[1][1] = a /\ s[1][2] = m
  BY <1>1
<1> QED BY ONLY <1>1, <1>2 DEF OnLine

\* A text of two lines is at one of them.
LEMMA Read2 ==
    ASSUME NEW s, NEW a, NEW m, NEW b, NEW n, Says2(s, a, m, b, n)
    PROVE  /\ Len(s) = 2
           /\ \A k \in Nat \ {0} : k <= 2 => OnLine(s, k, 1, a, m) \/ OnLine(s, k, 2, b, n)
<1>1. Len(s) = 2 /\ s[1] = <<a, m>> /\ s[2] = <<b, n>>
  BY DEF Says2
<1>2. s[1][1] = a /\ s[1][2] = m /\ s[2][1] = b /\ s[2][2] = n
  BY <1>1
<1>3. Len(s) = 2
  BY <1>1
<1>4. ASSUME NEW k \in Nat \ {0}, k <= 2 PROVE k = 1 \/ k = 2
  BY <1>4
<1> QED BY <1>2, <1>3, <1>4 DEF OnLine

\* A text of four lines is at one of them.
LEMMA Read4 ==
    ASSUME NEW s, NEW a, NEW m, NEW b, NEW n, NEW c, NEW i, NEW d, NEW j,
           Says4(s, a, m, b, n, c, i, d, j)
    PROVE  /\ Len(s) = 4
           /\ \A k \in Nat \ {0} : k <= 4 =>
                \/ OnLine(s, k, 1, a, m) \/ OnLine(s, k, 2, b, n)
                \/ OnLine(s, k, 3, c, i) \/ OnLine(s, k, 4, d, j)
<1>1. /\ Len(s) = 4 /\ s[1] = <<a, m>> /\ s[2] = <<b, n>> /\ s[3] = <<c, i>>
      /\ s[4] = <<d, j>>
  BY DEF Says4
<1>2. /\ s[1][1] = a /\ s[1][2] = m /\ s[2][1] = b /\ s[2][2] = n
      /\ s[3][1] = c /\ s[3][2] = i /\ s[4][1] = d /\ s[4][2] = j
  BY <1>1
<1>3. Len(s) = 4
  BY <1>1
<1>4. ASSUME NEW k \in Nat \ {0}, k <= 4 PROVE k = 1 \/ k = 2 \/ k = 3 \/ k = 4
  BY <1>4
<1> QED BY <1>2, <1>3, <1>4 DEF OnLine

\* Which instruction of which program a process can be at.
LEMMA Instructions ==
    ASSUME program \in Pr!Programs, at \in [Pr!Process -> Nat \ {0}], NEW p \in Pr!Process
    PROVE  /\ Pr!Is(p, "fork") \/ Pr!Is(p, "fork or exit") =>
                 /\ p = 0 /\ Pr!Arg(p) = at[0] /\ at[0] \in {1, 2}
                 /\ at[0] = 2 => program = "two"
           /\ Pr!Is(p, "fork") => program \notin {"two", "exec"}
           /\ Pr!Is(p, "wait") => /\ p = 0
                                  /\ \/ program = "two" /\ at[0] \in {3, 4}
                                     \/ program = "exec" /\ at[0] = 2
                                     \/ program = "kill_timeout" /\ at[0] = 4
           /\ Pr!Is(p, "kill") => p = 0 /\ program = "kill_timeout" /\ at[0] = 3 /\ Pr!Arg(p) = 1
           /\ Pr!Is(p, "getppid") => p # 0 /\ program \notin {"exec", "kill_timeout"}
           /\ Pr!Is(p, "sleep") \/ Pr!Is(p, "print") \/ Pr!Is(p, "execl") =>
                 (p = 0 => /\ program \notin {"two", "exec"}
                           /\ program = "kill_timeout" => at[0] = 2)
           /\ program \in {"two", "kill_timeout"} => Len(Pr!Text[program][0]) = 4
           /\ program = "exec" => Len(Pr!Text[program][0]) = 2
<1> DEFINE text == Pr!Text[program]
           Op(o) == text[p][at[p]][1] = o
           Has == at[p] <= Len(text[p])
<1>0. program \in {"fork", "two", "exec", "kill_timeout", "orphan", "zombie", "fork2"}
  BY DEF Pr!Programs, Pr!Text
<1>1. /\ p = 0 \/ p = 1 \/ p = 2 
      /\ at[p] \in Nat \ {0} /\ at[0] \in Nat \ {0}
  BY DEF Pr!Process
<1>2. CASE program = "fork"
  <2>1. Says2(text[0], "fork or exit", 1, "print", 0)
    BY <1>2, ByNumber DEF Pr!Text, Pr!Ex1, Says2
  <2>2. Says1(text[1], "getppid", 1)
    BY <1>2, ByNumber DEF Pr!Text, Pr!Ex1, Says1
  <2>3. Says0(text[2])
    BY <1>2, ByNumber DEF Pr!Text, Pr!Ex1, Says0
  <2>4. /\ Len(text[0]) = 2
        /\ p = 0 /\ Has =>
             \/ OnLine(text[0], at[0], 1, "fork or exit", 1)
             \/ OnLine(text[0], at[0], 2, "print", 0)
    BY <1>1, <2>1, Read2
  <2>5. /\ Len(text[1]) = 1
        /\ p = 1 /\ Has => OnLine(text[1], at[1], 1, "getppid", 1)
    BY <1>1, <2>2, Read1
  <2>6. /\ Len(text[2]) = 0
        /\ p = 2 /\ Has => FALSE
    BY <1>1, <2>3, Read0
  <2> QED BY <1>1, <1>2, <2>4, <2>5, <2>6 DEF Pr!Is, Pr!Arg, OnLine
<1>3. CASE program = "two"
  <2>1. Says4(text[0], "fork or exit", 1, "fork or exit", 2, "wait", 0, "wait", 0)
    BY <1>3, ByNumber DEF Pr!Text, Pr!TwoForks, Says4
  <2>2. Says1(text[1], "getppid", 1)
    BY <1>3, ByNumber DEF Pr!Text, Pr!TwoForks, Says1
  <2>3. Says1(text[2], "getppid", 2)
    BY <1>3, ByNumber DEF Pr!Text, Pr!TwoForks, Says1
  <2>4. /\ Len(text[0]) = 4
        /\ p = 0 /\ Has =>
             \/ OnLine(text[0], at[0], 1, "fork or exit", 1)
             \/ OnLine(text[0], at[0], 2, "fork or exit", 2)
             \/ OnLine(text[0], at[0], 3, "wait", 0)
             \/ OnLine(text[0], at[0], 4, "wait", 0)
    <3>1. /\ Len(text[0]) = 4
          /\ \A k \in Nat \ {0} : k <= 4 =>
                \/ OnLine(text[0], k, 1, "fork or exit", 1)
                \/ OnLine(text[0], k, 2, "fork or exit", 2)
                \/ OnLine(text[0], k, 3, "wait", 0)
                \/ OnLine(text[0], k, 4, "wait", 0)
      BY ONLY <2>1, Read4
    <3>2. p = 0 /\ Has => at[0] \in Nat \ {0} /\ at[0] <= 4
      BY <1>1, <3>1
    <3> QED BY ONLY <3>1, <3>2
  <2>5. /\ Len(text[1]) = 1
        /\ p = 1 /\ Has => OnLine(text[1], at[1], 1, "getppid", 1)
    BY <1>1, <2>2, Read1
  <2>6. /\ Len(text[2]) = 1
        /\ p = 2 /\ Has => OnLine(text[2], at[2], 1, "getppid", 2)
    BY <1>1, <2>3, Read1
  <2> QED BY <1>1, <1>3, <2>4, <2>5, <2>6 DEF Pr!Is, Pr!Arg, OnLine
<1>4. CASE program = "exec"
  <2>1. Says2(text[0], "fork or exit", 1, "wait", 0)
    BY <1>4, ByNumber DEF Pr!Text, Pr!Exec, Says2
  <2>2. Says1(text[1], "execl", 1)
    BY <1>4, ByNumber DEF Pr!Text, Pr!Exec, Says1
  <2>3. Says0(text[2])
    BY <1>4, ByNumber DEF Pr!Text, Pr!Exec, Says0
  <2>4. /\ Len(text[0]) = 2
        /\ p = 0 /\ Has =>
             \/ OnLine(text[0], at[0], 1, "fork or exit", 1)
             \/ OnLine(text[0], at[0], 2, "wait", 0)
    BY <1>1, <2>1, Read2
  <2>5. /\ Len(text[1]) = 1
        /\ p = 1 /\ Has => OnLine(text[1], at[1], 1, "execl", 1)
    BY <1>1, <2>2, Read1
  <2>6. /\ Len(text[2]) = 0
        /\ p = 2 /\ Has => FALSE
    BY <1>1, <2>3, Read0
  <2> QED BY <1>1, <1>4, <2>4, <2>5, <2>6 DEF Pr!Is, Pr!Arg, OnLine
<1>5. CASE program = "kill_timeout"
  <2>1. Says4(text[0], "fork", 1, "sleep", 5, "kill", 1, "wait", 0)
    BY <1>5, ByNumber DEF Pr!Text, Pr!KillTimeout, Says4
  <2>2. Says1(text[1], "loop", 1)
    BY <1>5, ByNumber DEF Pr!Text, Pr!KillTimeout, Says1
  <2>3. Says0(text[2])
    BY <1>5, ByNumber DEF Pr!Text, Pr!KillTimeout, Says0
  <2>4. /\ Len(text[0]) = 4
        /\ p = 0 /\ Has =>
             \/ OnLine(text[0], at[0], 1, "fork", 1)
             \/ OnLine(text[0], at[0], 2, "sleep", 5)
             \/ OnLine(text[0], at[0], 3, "kill", 1)
             \/ OnLine(text[0], at[0], 4, "wait", 0)
    BY <1>1, <2>1, Read4
  <2>5. /\ Len(text[1]) = 1
        /\ p = 1 /\ Has => OnLine(text[1], at[1], 1, "loop", 1)
    BY <1>1, <2>2, Read1
  <2>6. /\ Len(text[2]) = 0
        /\ p = 2 /\ Has => FALSE
    BY <1>1, <2>3, Read0
  <2> QED BY <1>1, <1>5, <2>4, <2>5, <2>6 DEF Pr!Is, Pr!Arg, OnLine
<1>6. CASE program = "orphan"
  <2>1. Says1(text[0], "fork", 1)
    BY <1>6, ByNumber DEF Pr!Text, Pr!Orphan, Says1
  <2>2. Says2(text[1], "sleep", 10, "getppid", 1)
    BY <1>6, ByNumber DEF Pr!Text, Pr!Orphan, Says2
  <2>3. Says0(text[2])
    BY <1>6, ByNumber DEF Pr!Text, Pr!Orphan, Says0
  <2>4. /\ Len(text[0]) = 1
        /\ p = 0 /\ Has => OnLine(text[0], at[0], 1, "fork", 1)
    BY <1>1, <2>1, Read1
  <2>5. /\ Len(text[1]) = 2
        /\ p = 1 /\ Has =>
             \/ OnLine(text[1], at[1], 1, "sleep", 10)
             \/ OnLine(text[1], at[1], 2, "getppid", 1)
    BY <1>1, <2>2, Read2
  <2>6. /\ Len(text[2]) = 0
        /\ p = 2 /\ Has => FALSE
    BY <1>1, <2>3, Read0
  <2> QED BY <1>1, <1>6, <2>4, <2>5, <2>6 DEF Pr!Is, Pr!Arg, OnLine
<1>7. CASE program = "zombie"
  <2>1. Says2(text[0], "fork", 1, "sleep", 20)
    BY <1>7, ByNumber DEF Pr!Text, Pr!Zombie, Says2
  <2>2. Says1(text[1], "print", 1)
    BY <1>7, ByNumber DEF Pr!Text, Pr!Zombie, Says1
  <2>3. Says0(text[2])
    BY <1>7, ByNumber DEF Pr!Text, Pr!Zombie, Says0
  <2>4. /\ Len(text[0]) = 2
        /\ p = 0 /\ Has =>
             \/ OnLine(text[0], at[0], 1, "fork", 1)
             \/ OnLine(text[0], at[0], 2, "sleep", 20)
    BY <1>1, <2>1, Read2
  <2>5. /\ Len(text[1]) = 1
        /\ p = 1 /\ Has => OnLine(text[1], at[1], 1, "print", 1)
    BY <1>1, <2>2, Read1
  <2>6. /\ Len(text[2]) = 0
        /\ p = 2 /\ Has => FALSE
    BY <1>1, <2>3, Read0
  <2> QED BY <1>1, <1>7, <2>4, <2>5, <2>6 DEF Pr!Is, Pr!Arg, OnLine
<1>8. CASE program = "fork2"
  <2>1. Says2(text[0], "fork or exit", 1, "sleep", 10)
    BY <1>8, ByNumber DEF Pr!Text, Pr!Ex2, Says2
  <2>2. Says1(text[1], "print", 1)
    BY <1>8, ByNumber DEF Pr!Text, Pr!Ex2, Says1
  <2>3. Says0(text[2])
    BY <1>8, ByNumber DEF Pr!Text, Pr!Ex2, Says0
  <2>4. /\ Len(text[0]) = 2
        /\ p = 0 /\ Has =>
             \/ OnLine(text[0], at[0], 1, "fork or exit", 1)
             \/ OnLine(text[0], at[0], 2, "sleep", 10)
    BY <1>1, <2>1, Read2
  <2>5. /\ Len(text[1]) = 1
        /\ p = 1 /\ Has => OnLine(text[1], at[1], 1, "print", 1)
    BY <1>1, <2>2, Read1
  <2>6. /\ Len(text[2]) = 0
        /\ p = 2 /\ Has => FALSE
    BY <1>1, <2>3, Read0
  <2> QED BY <1>1, <1>8, <2>4, <2>5, <2>6 DEF Pr!Is, Pr!Arg, OnLine
<1> QED BY <1>0, <1>2, <1>3, <1>4, <1>5, <1>6, <1>7, <1>8

\* A fork, a wait, a death and all else keep the account of the children.
LEMMA FamilyStep ==
    FamilyInv /\ program \in Pr!Programs /\ Pr!Next /\ program' = program => FamilyInv'
<1> SUFFICES ASSUME FamilyInv, program \in Pr!Programs, program' = program,
                    NEW p \in Pr!Process, Pr!Step(p)
             PROVE  FamilyInv'
  BY DEF Pr!Next
<1> USE DEF FamilyInv, Pr!OrphansHaveInit, Pr!Process, Pr!Child, Pr!Advance
<1>0. life[p] = "running"
  BY DEF Pr!Step, Pr!Fork, Pr!ForkFails, Pr!Wait, Pr!Kill, Pr!GetPpid, Pr!Work, Pr!Exit, Pr!Is
<1>20. /\ at \in [Pr!Process -> Nat \ {0}]
       /\ life \in [Pr!Process -> {"none", "running", "zombie", "gone"}]
  BY DEF FamilyInv
<1>1. CASE Pr!Fork(p)
  <2>1. p = 0 /\ Pr!Arg(p) = at[0] /\ at[0] \in {1, 2} /\ (at[0] = 2 => program = "two")
    BY <1>1, Instructions DEF Pr!Fork
  <2>0. 0 \in Pr!Process /\ at[0] \in Pr!Process /\ at[0] + 1 \in Nat \ {0}
    BY <2>1
  <2>2. /\ at' = [at EXCEPT ![0] = at[0] + 1] /\ life' = [life EXCEPT ![at[0]] = "running"]
        /\ UNCHANGED <<ppid, unforked, astray>>
    BY <1>1, <2>1 DEF Pr!Fork
  <2>3. CASE at[0] = 1
    <3>1. at'[0] = 2 /\ life'[0] = "running" /\ life'[1] = "running" /\ life'[2] = life[2]
      BY <1>0, <2>1, <2>2, <2>3
    <3>2. /\ at' \in [Pr!Process -> Nat \ {0}]
          /\ life' \in [Pr!Process -> {"none", "running", "zombie", "gone"}]
      BY ONLY <1>20, <2>2, <2>3, <2>0
    <3> QED BY ONLY FamilyInv, program \in Pr!Programs,
                    program' = program, <1>0, <2>1, <2>2, <2>3, <3>1, <3>2
            DEF FamilyInv, Pr!OrphansHaveInit, Pr!Child
  <2>4. CASE at[0] = 2
    <3>1. at'[0] = 3 /\ life'[0] = "running" /\ life'[2] = "running" /\ life'[1] = life[1]
      BY <1>0, <2>1, <2>2, <2>4
    <3>2. /\ at' \in [Pr!Process -> Nat \ {0}]
          /\ life' \in [Pr!Process -> {"none", "running", "zombie", "gone"}]
      BY ONLY <1>20, <2>2, <2>4, <2>0
    <3> QED BY ONLY FamilyInv, program \in Pr!Programs,
                    program' = program, <1>0, <2>1, <2>2, <2>4, <3>1, <3>2
            DEF FamilyInv, Pr!OrphansHaveInit, Pr!Child
  <2> QED BY <2>1, <2>3, <2>4
<1>2. CASE Pr!ForkFails(p)
  <2>1. /\ p = 0 /\ Pr!Arg(p) = at[0] /\ at[0] \in {1, 2} /\ (at[0] = 2 => program = "two")
        /\ Pr!Is(p, "fork") => program \notin {"two", "exec"}
    BY <1>2, Instructions DEF Pr!ForkFails
  <2>2. CASE Pr!Is(p, "fork")
    <3>1. /\ at' = [at EXCEPT ![0] = at[0] + 1] /\ unforked' = unforked \cup {at[0]}
          /\ UNCHANGED <<life, ppid, astray>>
      BY <1>2, <2>1, <2>2 DEF Pr!ForkFails
    <3>2. at'[0] = 2 /\ at[0] = 1 /\ at' \in [Pr!Process -> Nat \ {0}]
      BY <2>1, <2>2, <3>1
    <3> QED BY ONLY FamilyInv, program \in Pr!Programs, program' = program, <2>1, <2>2, <3>1, <3>2
            DEF FamilyInv, Pr!OrphansHaveInit, Pr!Child
  <2>3. CASE ~ Pr!Is(p, "fork")
    <3>1. Pr!Die(0) /\ unforked' = unforked \cup {at[0]} /\ UNCHANGED <<at, ppid, astray>>
      BY <1>2, <2>1, <2>3 DEF Pr!ForkFails
    <3>2. /\ life' \in [Pr!Process -> {"none", "running", "zombie", "gone"}]
          /\ life'[0] = "gone"
          /\ \A c \in Pr!Child : life'[c] = IF life[c] = "zombie" THEN "gone" ELSE life[c]
      BY <3>1 DEF Pr!Die
    <3> QED BY ONLY FamilyInv, program \in Pr!Programs, program' = program, <2>1, <2>3, <3>1, <3>2
            DEF FamilyInv, Pr!OrphansHaveInit, Pr!Child
  <2> QED BY <2>2, <2>3
<1>3. CASE Pr!Wait(p)
  <2>1. /\ p = 0
        /\ \/ program = "two" /\ at[0] \in {3, 4}
           \/ program = "exec" /\ at[0] = 2
           \/ program = "kill_timeout" /\ at[0] = 4
    BY <1>3, Instructions DEF Pr!Wait
  <2> QED BY <1>0, <1>3, <2>1 DEF Pr!Wait
<1>4. CASE Pr!Kill(p)
  <2>1. p = 0 /\ program = "kill_timeout" /\ at[0] = 3 /\ Pr!Arg(p) = 1
    BY <1>4, Instructions DEF Pr!Kill
  <2> QED BY <1>0, <1>4, <2>1 DEF Pr!Kill
<1>5. CASE Pr!GetPpid(p)
  <2>1. p # 0 /\ program \notin {"exec", "kill_timeout"}
    BY <1>5, Instructions DEF Pr!GetPpid
  <2> QED BY <1>0, <1>5, <2>1 DEF Pr!GetPpid
<1>6. CASE Pr!Work(p)
  <2>1. p = 0 => program \notin {"two", "exec"} /\ (program = "kill_timeout" => at[0] = 2)
    BY <1>6, Instructions DEF Pr!Work
  <2> QED BY <1>0, <1>6, <2>1 DEF Pr!Work
<1>7. CASE Pr!Exit(p)
  <2>1. Pr!Die(p) /\ UNCHANGED <<at, ppid, unforked, astray>>
    BY <1>7 DEF Pr!Exit
  <2>2. CASE p = 0
    <3>1. /\ life' \in [Pr!Process -> {"none", "running", "zombie", "gone"}]
          /\ life'[0] = "gone"
          /\ \A c \in Pr!Child : life'[c] = IF life[c] = "zombie" THEN "gone" ELSE life[c]
      BY ONLY <1>20, <2>1, <2>2 DEF Pr!Die, Pr!Process, Pr!Child
    <3> QED BY ONLY FamilyInv, program \in Pr!Programs, program' = program, <2>1, <3>1
            DEF FamilyInv, Pr!OrphansHaveInit, Pr!Child
  <2>3. CASE p # 0
    <3>1. /\ life' \in [Pr!Process -> {"none", "running", "zombie", "gone"}]
          /\ life'[0] = life[0] /\ p \in Pr!Child
          /\ life'[p] = IF life[0] = "running" THEN "zombie" ELSE "gone"
          /\ \A c \in Pr!Child \ {p} : life'[c] = life[c]
      BY ONLY <1>20, <2>1, <2>3, p \in Pr!Process DEF Pr!Die, Pr!Process, Pr!Child
    <3> QED BY ONLY FamilyInv, program \in Pr!Programs, program' = program, <1>0, <2>1, <3>1
            DEF FamilyInv, Pr!OrphansHaveInit, Pr!Child
  <2> QED BY <2>2, <2>3
<1> QED BY <1>1, <1>2, <1>3, <1>4, <1>5, <1>6, <1>7 DEF Pr!Step

\* A parent that waits leaves no child behind and kills none but its own, unless
\* the fork it does not check has failed; a child is told init only behind one that
\* did not wait.
THEOREM ChildrenAreReaped == Spec => []ChildrenSeenThrough
<1>1. Init => FamilyInv
  BY DEF Init, Pr!Init, FamilyInv, Pr!OrphansHaveInit, Pr!Process, Pr!Child
<1>2. FamilyInv /\ [Next]_vars => FamilyInv'
  <2>1. FamilyInv /\ UNCHANGED <<program, processes>> => FamilyInv'
    BY DEF FamilyInv, processes, Pr!OrphansHaveInit
  <2> QED BY <2>1, StepsAlone, FamilyStep DEF processes
<1>3. FamilyInv => ChildrenSeenThrough
  <2> SUFFICES ASSUME FamilyInv, program \in Pr!Programs
               PROVE  Pr!ChildrenSeenThrough /\ Pr!OrphansHaveInit
    BY DEF ChildrenSeenThrough
  <2>1. 0 \in Pr!Process /\ at \in [Pr!Process -> Nat \ {0}]
    BY DEF FamilyInv, Pr!Process
  <2>2. /\ program \in {"two", "kill_timeout"} => Len(Pr!Text[program][0]) = 4
        /\ program = "exec" => Len(Pr!Text[program][0]) = 2
    BY <2>1, Instructions
  <2>3. program \in Pr!Waiting /\ at[0] > Len(Pr!Text[program][0]) =>
          /\ program = "two" \/ program = "exec" \/ program = "kill_timeout"
          /\ at[0] = IF program = "exec" THEN 3 ELSE 5
    BY <2>1, <2>2 DEF FamilyInv, Pr!Waiting
  <2> QED BY <2>3 DEF FamilyInv, Pr!ChildrenSeenThrough, Pr!Child
<1> QED BY <1>1, <1>2, <1>3, PTL DEF Spec
-----------------------------------------------------------------------------
(* Shared memory. *)

\* A text of two to six steps, and its k-th.
Tells2(s, a1, a2) == s = <<a1, a2>>
Tells3(s, a1, a2, a3) == s = <<a1, a2, a3>>
Tells4(s, a1, a2, a3, a4) == s = <<a1, a2, a3, a4>>
Tells5(s, a1, a2, a3, a4, a5) == s = <<a1, a2, a3, a4, a5>>
Tells6(s, a1, a2, a3, a4, a5, a6) == s = <<a1, a2, a3, a4, a5, a6>>

At(s, k, n, op) == k = n /\ s[k] = op

\* A text of two.
LEMMA Tell2 ==
    ASSUME NEW s, NEW a1, NEW a2, Tells2(s, a1, a2)
    PROVE  /\ Len(s) = 2
           /\ \A k \in Nat \ {0} : k <= 2 => At(s, k, 1, a1) \/ At(s, k, 2, a2)
<1>1. Len(s) = 2 /\ s[1] = a1 /\ s[2] = a2
  BY DEF Tells2
<1>2. ASSUME NEW k \in Nat \ {0}, k <= 2 PROVE k = 1 \/ k = 2
  BY <1>2
<1> QED BY <1>1, <1>2 DEF At

\* A text of three.
LEMMA Tell3 ==
    ASSUME NEW s, NEW a1, NEW a2, NEW a3, Tells3(s, a1, a2, a3)
    PROVE  /\ Len(s) = 3
           /\ \A k \in Nat \ {0} : k <= 3 =>
                At(s, k, 1, a1) \/ At(s, k, 2, a2) \/ At(s, k, 3, a3)
<1>1. Len(s) = 3 /\ s[1] = a1 /\ s[2] = a2 /\ s[3] = a3
  BY DEF Tells3
<1>2. ASSUME NEW k \in Nat \ {0}, k <= 3 PROVE k = 1 \/ k = 2 \/ k = 3
  BY <1>2
<1> QED BY <1>1, <1>2 DEF At

\* A text of four.
LEMMA Tell4 ==
    ASSUME NEW s, NEW a1, NEW a2, NEW a3, NEW a4, Tells4(s, a1, a2, a3, a4)
    PROVE  /\ Len(s) = 4
           /\ \A k \in Nat \ {0} : k <= 4 =>
                \/ At(s, k, 1, a1) \/ At(s, k, 2, a2) \/ At(s, k, 3, a3)
                \/ At(s, k, 4, a4)
<1>1. Len(s) = 4 /\ s[1] = a1 /\ s[2] = a2 /\ s[3] = a3 /\ s[4] = a4
  BY DEF Tells4
<1>2. ASSUME NEW k \in Nat \ {0}, k <= 4 PROVE k = 1 \/ k = 2 \/ k = 3 \/ k = 4
  BY <1>2
<1> QED BY <1>1, <1>2 DEF At

\* A text of five.
LEMMA Tell5 ==
    ASSUME NEW s, NEW a1, NEW a2, NEW a3, NEW a4, NEW a5, Tells5(s, a1, a2, a3, a4, a5)
    PROVE  /\ Len(s) = 5
           /\ \A k \in Nat \ {0} : k <= 5 =>
                \/ At(s, k, 1, a1) \/ At(s, k, 2, a2) \/ At(s, k, 3, a3)
                \/ At(s, k, 4, a4) \/ At(s, k, 5, a5)
<1>1. Len(s) = 5 /\ s[1] = a1 /\ s[2] = a2 /\ s[3] = a3 /\ s[4] = a4 /\ s[5] = a5
  BY DEF Tells5
<1>2. ASSUME NEW k \in Nat \ {0}, k <= 5 PROVE k = 1 \/ k = 2 \/ k = 3 \/ k = 4 \/ k = 5
  BY <1>2
<1> QED BY <1>1, <1>2 DEF At

\* A text of six.
LEMMA Tell6 ==
    ASSUME NEW s, NEW a1, NEW a2, NEW a3, NEW a4, NEW a5, NEW a6, Tells6(s, a1, a2, a3, a4, a5, a6)
    PROVE  /\ Len(s) = 6
           /\ \A k \in Nat \ {0} : k <= 6 =>
                \/ At(s, k, 1, a1) \/ At(s, k, 2, a2) \/ At(s, k, 3, a3)
                \/ At(s, k, 4, a4) \/ At(s, k, 5, a5) \/ At(s, k, 6, a6)
<1>1. Len(s) = 6 /\ s[1] = a1 /\ s[2] = a2 /\ s[3] = a3 /\ s[4] = a4 /\ s[5] = a5 /\ s[6] = a6
  BY DEF Tells6
<1>2. ASSUME NEW k \in Nat \ {0}, k <= 6 PROVE k = 1 \/ k = 2 \/ k = 3 \/ k = 4 \/ k = 5 \/ k = 6
  BY <1>2
<1> QED BY <1>1, <1>2 DEF At

\* What each process of a program is told to do, line by line: the spinlock's.
LEMMA SpinText ==
    ASSUME program = "spin", where \in [Sh!Proc -> Nat \ {0}]
    PROVE  /\ Sh!Done(1) <=> where[1] > 6
           /\ ~ Sh!Done(1) =>
                \/ At(Sh!Text[program][1], where[1], 1, "open or create")
                \/ At(Sh!Text[program][1], where[1], 2, "truncate")
                \/ At(Sh!Text[program][1], where[1], 3, "init")
                \/ At(Sh!Text[program][1], where[1], 4, "lock")
                \/ At(Sh!Text[program][1], where[1], 5, "sleep")
                \/ At(Sh!Text[program][1], where[1], 6, "unlock")
           /\ Sh!Done(2) <=> where[2] > 6
           /\ ~ Sh!Done(2) =>
                \/ At(Sh!Text[program][2], where[2], 1, "open or create")
                \/ At(Sh!Text[program][2], where[2], 2, "truncate")
                \/ At(Sh!Text[program][2], where[2], 3, "init")
                \/ At(Sh!Text[program][2], where[2], 4, "lock")
                \/ At(Sh!Text[program][2], where[2], 5, "sleep")
                \/ At(Sh!Text[program][2], where[2], 6, "unlock")
           /\ Sh!Done(3) <=> where[3] > 3
           /\ ~ Sh!Done(3) =>
                \/ At(Sh!Text[program][3], where[3], 1, "open")
                \/ At(Sh!Text[program][3], where[3], 2, "lock")
                \/ At(Sh!Text[program][3], where[3], 3, "unlock")
<1>1. Tells6(Sh!Text[program][1], "open or create", "truncate", "init", "lock", "sleep", "unlock")
  BY DEF Tells6, Sh!Text, Sh!SpinProc1
<1>2. Tells6(Sh!Text[program][2], "open or create", "truncate", "init", "lock", "sleep", "unlock")
  BY DEF Tells6, Sh!Text, Sh!SpinProc1
<1>3. Tells3(Sh!Text[program][3], "open", "lock", "unlock")
  BY DEF Tells3, Sh!Text, Sh!SpinProc2
<1>4. where[1] \in Nat \ {0} /\ where[2] \in Nat \ {0} /\ where[3] \in Nat \ {0}
  BY DEF Sh!Proc
<1>5. /\ Sh!Done(1) <=> where[1] > 6
      /\ ~ Sh!Done(1) =>
           \/ At(Sh!Text[program][1], where[1], 1, "open or create")
           \/ At(Sh!Text[program][1], where[1], 2, "truncate")
           \/ At(Sh!Text[program][1], where[1], 3, "init")
           \/ At(Sh!Text[program][1], where[1], 4, "lock")
           \/ At(Sh!Text[program][1], where[1], 5, "sleep")
           \/ At(Sh!Text[program][1], where[1], 6, "unlock")
  <2>1. /\ Len(Sh!Text[program][1]) = 6
        /\ where[1] <= 6 =>
             \/ At(Sh!Text[program][1], where[1], 1, "open or create")
             \/ At(Sh!Text[program][1], where[1], 2, "truncate")
             \/ At(Sh!Text[program][1], where[1], 3, "init")
             \/ At(Sh!Text[program][1], where[1], 4, "lock")
             \/ At(Sh!Text[program][1], where[1], 5, "sleep")
             \/ At(Sh!Text[program][1], where[1], 6, "unlock")
    BY ONLY <1>1, <1>4, Tell6
  <2>2. Len(Sh!Text[program][1]) = 6
    BY ONLY <2>1
  <2>3. /\ Sh!Done(1) <=> where[1] > 6
        /\ ~ Sh!Done(1) => where[1] <= 6
    BY ONLY <1>4, <2>2 DEF Sh!Done
  <2> QED BY ONLY <2>1, <2>3
<1>6. /\ Sh!Done(2) <=> where[2] > 6
      /\ ~ Sh!Done(2) =>
           \/ At(Sh!Text[program][2], where[2], 1, "open or create")
           \/ At(Sh!Text[program][2], where[2], 2, "truncate")
           \/ At(Sh!Text[program][2], where[2], 3, "init")
           \/ At(Sh!Text[program][2], where[2], 4, "lock")
           \/ At(Sh!Text[program][2], where[2], 5, "sleep")
           \/ At(Sh!Text[program][2], where[2], 6, "unlock")
  <2>1. /\ Len(Sh!Text[program][2]) = 6
        /\ where[2] <= 6 =>
             \/ At(Sh!Text[program][2], where[2], 1, "open or create")
             \/ At(Sh!Text[program][2], where[2], 2, "truncate")
             \/ At(Sh!Text[program][2], where[2], 3, "init")
             \/ At(Sh!Text[program][2], where[2], 4, "lock")
             \/ At(Sh!Text[program][2], where[2], 5, "sleep")
             \/ At(Sh!Text[program][2], where[2], 6, "unlock")
    BY ONLY <1>2, <1>4, Tell6
  <2>2. Len(Sh!Text[program][2]) = 6
    BY ONLY <2>1
  <2>3. /\ Sh!Done(2) <=> where[2] > 6
        /\ ~ Sh!Done(2) => where[2] <= 6
    BY ONLY <1>4, <2>2 DEF Sh!Done
  <2> QED BY ONLY <2>1, <2>3
<1>7. /\ Sh!Done(3) <=> where[3] > 3
      /\ ~ Sh!Done(3) =>
           \/ At(Sh!Text[program][3], where[3], 1, "open")
           \/ At(Sh!Text[program][3], where[3], 2, "lock")
           \/ At(Sh!Text[program][3], where[3], 3, "unlock")
  <2>1. /\ Len(Sh!Text[program][3]) = 3
        /\ where[3] <= 3 =>
             \/ At(Sh!Text[program][3], where[3], 1, "open")
             \/ At(Sh!Text[program][3], where[3], 2, "lock")
             \/ At(Sh!Text[program][3], where[3], 3, "unlock")
    BY ONLY <1>3, <1>4, Tell3
  <2>2. Len(Sh!Text[program][3]) = 3
    BY ONLY <2>1
  <2>3. /\ Sh!Done(3) <=> where[3] > 3
        /\ ~ Sh!Done(3) => where[3] <= 3
    BY ONLY <1>4, <2>2 DEF Sh!Done
  <2> QED BY ONLY <2>1, <2>3
<1> QED BY <1>5, <1>6, <1>7

\* The two modules'.
LEMMA ModulesText ==
    ASSUME program = "modules", where \in [Sh!Proc -> Nat \ {0}]
    PROVE  /\ Sh!Done(1) <=> where[1] > 5
           /\ ~ Sh!Done(1) =>
                \/ At(Sh!Text[program][1], where[1], 1, "init")
                \/ At(Sh!Text[program][1], where[1], 2, "lock")
                \/ At(Sh!Text[program][1], where[1], 3, "sleep")
                \/ At(Sh!Text[program][1], where[1], 4, "unlock")
                \/ At(Sh!Text[program][1], where[1], 5, "unload")
           /\ Sh!Done(2) <=> where[2] > 4
           /\ ~ Sh!Done(2) =>
                \/ At(Sh!Text[program][2], where[2], 1, "resolve")
                \/ At(Sh!Text[program][2], where[2], 2, "lock")
                \/ At(Sh!Text[program][2], where[2], 3, "unlock")
                \/ At(Sh!Text[program][2], where[2], 4, "leave")
           /\ Sh!Done(3)
<1>1. Tells5(Sh!Text[program][1], "init", "lock", "sleep", "unlock", "unload")
  BY DEF Tells5, Sh!Text, Sh!ModA
<1>2. Tells4(Sh!Text[program][2], "resolve", "lock", "unlock", "leave")
  BY DEF Tells4, Sh!Text, Sh!ModB
<1>3. Len(Sh!Text[program][3]) = 0
  BY DEF Sh!Text
<1>4. where[1] \in Nat \ {0} /\ where[2] \in Nat \ {0} /\ where[3] \in Nat \ {0}
  BY DEF Sh!Proc
<1>5. /\ Sh!Done(1) <=> where[1] > 5
      /\ ~ Sh!Done(1) =>
           \/ At(Sh!Text[program][1], where[1], 1, "init")
           \/ At(Sh!Text[program][1], where[1], 2, "lock")
           \/ At(Sh!Text[program][1], where[1], 3, "sleep")
           \/ At(Sh!Text[program][1], where[1], 4, "unlock")
           \/ At(Sh!Text[program][1], where[1], 5, "unload")
  <2>1. /\ Len(Sh!Text[program][1]) = 5
        /\ where[1] <= 5 =>
             \/ At(Sh!Text[program][1], where[1], 1, "init")
             \/ At(Sh!Text[program][1], where[1], 2, "lock")
             \/ At(Sh!Text[program][1], where[1], 3, "sleep")
             \/ At(Sh!Text[program][1], where[1], 4, "unlock")
             \/ At(Sh!Text[program][1], where[1], 5, "unload")
    BY ONLY <1>1, <1>4, Tell5
  <2>2. Len(Sh!Text[program][1]) = 5
    BY ONLY <2>1
  <2>3. /\ Sh!Done(1) <=> where[1] > 5
        /\ ~ Sh!Done(1) => where[1] <= 5
    BY ONLY <1>4, <2>2 DEF Sh!Done
  <2> QED BY ONLY <2>1, <2>3
<1>6. /\ Sh!Done(2) <=> where[2] > 4
      /\ ~ Sh!Done(2) =>
           \/ At(Sh!Text[program][2], where[2], 1, "resolve")
           \/ At(Sh!Text[program][2], where[2], 2, "lock")
           \/ At(Sh!Text[program][2], where[2], 3, "unlock")
           \/ At(Sh!Text[program][2], where[2], 4, "leave")
  <2>1. /\ Len(Sh!Text[program][2]) = 4
        /\ where[2] <= 4 =>
             \/ At(Sh!Text[program][2], where[2], 1, "resolve")
             \/ At(Sh!Text[program][2], where[2], 2, "lock")
             \/ At(Sh!Text[program][2], where[2], 3, "unlock")
             \/ At(Sh!Text[program][2], where[2], 4, "leave")
    BY ONLY <1>2, <1>4, Tell4
  <2>2. Len(Sh!Text[program][2]) = 4
    BY ONLY <2>1
  <2>3. /\ Sh!Done(2) <=> where[2] > 4
        /\ ~ Sh!Done(2) => where[2] <= 4
    BY ONLY <1>4, <2>2 DEF Sh!Done
  <2> QED BY ONLY <2>1, <2>3
<1>7. Sh!Done(3)
  BY <1>3, <1>4 DEF Sh!Done
<1> QED BY <1>5, <1>6, <1>7

\* The segment's writer and readers'.
LEMMA SegmentText ==
    ASSUME program = "shm", where \in [Sh!Proc -> Nat \ {0}]
    PROVE  /\ Sh!Done(1) <=> where[1] > 6
           /\ ~ Sh!Done(1) =>
                \/ At(Sh!Text[program][1], where[1], 1, "get or create")
                \/ At(Sh!Text[program][1], where[1], 2, "attach")
                \/ At(Sh!Text[program][1], where[1], 3, "write")
                \/ At(Sh!Text[program][1], where[1], 4, "sleep")
                \/ At(Sh!Text[program][1], where[1], 5, "detach")
                \/ At(Sh!Text[program][1], where[1], 6, "remove")
           /\ Sh!Done(2) <=> where[2] > 4
           /\ ~ Sh!Done(2) =>
                \/ At(Sh!Text[program][2], where[2], 1, "get")
                \/ At(Sh!Text[program][2], where[2], 2, "attach")
                \/ At(Sh!Text[program][2], where[2], 3, "read")
                \/ At(Sh!Text[program][2], where[2], 4, "detach")
           /\ Sh!Done(3) <=> where[3] > 4
           /\ ~ Sh!Done(3) =>
                \/ At(Sh!Text[program][3], where[3], 1, "get")
                \/ At(Sh!Text[program][3], where[3], 2, "attach")
                \/ At(Sh!Text[program][3], where[3], 3, "read")
                \/ At(Sh!Text[program][3], where[3], 4, "detach")
<1>1. Tells6(Sh!Text[program][1], "get or create", "attach", "write", "sleep", "detach", "remove")
  BY DEF Tells6, Sh!Text, Sh!Writer
<1>2. Tells4(Sh!Text[program][2], "get", "attach", "read", "detach")
  BY DEF Tells4, Sh!Text, Sh!Reader
<1>3. Tells4(Sh!Text[program][3], "get", "attach", "read", "detach")
  BY DEF Tells4, Sh!Text, Sh!Reader
<1>4. where[1] \in Nat \ {0} /\ where[2] \in Nat \ {0} /\ where[3] \in Nat \ {0}
  BY DEF Sh!Proc
<1>5. /\ Sh!Done(1) <=> where[1] > 6
      /\ ~ Sh!Done(1) =>
           \/ At(Sh!Text[program][1], where[1], 1, "get or create")
           \/ At(Sh!Text[program][1], where[1], 2, "attach")
           \/ At(Sh!Text[program][1], where[1], 3, "write")
           \/ At(Sh!Text[program][1], where[1], 4, "sleep")
           \/ At(Sh!Text[program][1], where[1], 5, "detach")
           \/ At(Sh!Text[program][1], where[1], 6, "remove")
  <2>1. /\ Len(Sh!Text[program][1]) = 6
        /\ where[1] <= 6 =>
             \/ At(Sh!Text[program][1], where[1], 1, "get or create")
             \/ At(Sh!Text[program][1], where[1], 2, "attach")
             \/ At(Sh!Text[program][1], where[1], 3, "write")
             \/ At(Sh!Text[program][1], where[1], 4, "sleep")
             \/ At(Sh!Text[program][1], where[1], 5, "detach")
             \/ At(Sh!Text[program][1], where[1], 6, "remove")
    BY ONLY <1>1, <1>4, Tell6
  <2>2. Len(Sh!Text[program][1]) = 6
    BY ONLY <2>1
  <2>3. /\ Sh!Done(1) <=> where[1] > 6
        /\ ~ Sh!Done(1) => where[1] <= 6
    BY ONLY <1>4, <2>2 DEF Sh!Done
  <2> QED BY ONLY <2>1, <2>3
<1>6. /\ Sh!Done(2) <=> where[2] > 4
      /\ ~ Sh!Done(2) =>
           \/ At(Sh!Text[program][2], where[2], 1, "get")
           \/ At(Sh!Text[program][2], where[2], 2, "attach")
           \/ At(Sh!Text[program][2], where[2], 3, "read")
           \/ At(Sh!Text[program][2], where[2], 4, "detach")
  <2>1. /\ Len(Sh!Text[program][2]) = 4
        /\ where[2] <= 4 =>
             \/ At(Sh!Text[program][2], where[2], 1, "get")
             \/ At(Sh!Text[program][2], where[2], 2, "attach")
             \/ At(Sh!Text[program][2], where[2], 3, "read")
             \/ At(Sh!Text[program][2], where[2], 4, "detach")
    BY ONLY <1>2, <1>4, Tell4
  <2>2. Len(Sh!Text[program][2]) = 4
    BY ONLY <2>1
  <2>3. /\ Sh!Done(2) <=> where[2] > 4
        /\ ~ Sh!Done(2) => where[2] <= 4
    BY ONLY <1>4, <2>2 DEF Sh!Done
  <2> QED BY ONLY <2>1, <2>3
<1>7. /\ Sh!Done(3) <=> where[3] > 4
      /\ ~ Sh!Done(3) =>
           \/ At(Sh!Text[program][3], where[3], 1, "get")
           \/ At(Sh!Text[program][3], where[3], 2, "attach")
           \/ At(Sh!Text[program][3], where[3], 3, "read")
           \/ At(Sh!Text[program][3], where[3], 4, "detach")
  <2>1. /\ Len(Sh!Text[program][3]) = 4
        /\ where[3] <= 4 =>
             \/ At(Sh!Text[program][3], where[3], 1, "get")
             \/ At(Sh!Text[program][3], where[3], 2, "attach")
             \/ At(Sh!Text[program][3], where[3], 3, "read")
             \/ At(Sh!Text[program][3], where[3], 4, "detach")
    BY ONLY <1>3, <1>4, Tell4
  <2>2. Len(Sh!Text[program][3]) = 4
    BY ONLY <2>1
  <2>3. /\ Sh!Done(3) <=> where[3] > 4
        /\ ~ Sh!Done(3) => where[3] <= 4
    BY ONLY <1>4, <2>2 DEF Sh!Done
  <2> QED BY ONLY <2>1, <2>3
<1> QED BY <1>5, <1>6, <1>7

\* The three exercises: the processes and what is held, mapped and shown.
SharersType ==
    /\ where \in [Sh!Proc -> Nat \ {0}]
    /\ holding \subseteq Sh!Proc /\ attached \subseteq Sh!Proc /\ dead \subseteq Sh!Proc
    /\ content \in {"", "hello"} /\ shown \in [Sh!Proc -> {"nothing", "", "hello"}]

\* The spinlock in the file: who holds it follows from where they are, and unless
\* it was initialised again the word says that somebody does.
SpinInv ==
    program = "spin" =>
       /\ \A p \in Sh!Proc : p \in holding <=>
             p \notin dead /\ where[p] \in IF p = 3 THEN {3} ELSE {5, 6}
       /\ reset \/ \A p \in holding : word = 0 /\ \A q \in holding : q = p

\* The two modules: the one comes after the other's initialisation.
ModulesInv ==
    program = "modules" =>
       /\ where[3] = 1 /\ where[1] <= 6 /\ where[2] <= 5
       /\ file = "none" /\ dead \subseteq {2} /\ (2 \in dead => where[2] = 1)
       /\ where[1] < 5 => where[2] = 1
       /\ where[1] = 6 => where[2] \in {1, 5}
       /\ where[1] = 2 \/ (where[1] >= 5 /\ where[2] # 3) => word = 1
       /\ \A p \in Sh!Proc : p \in holding <=>
             (p = 1 /\ where[1] \in {3, 4}) \/ (p = 2 /\ where[2] = 3)

\* The segment: who has it mapped follows from where they are, and it lives from
\* the writer's first step to its last and the last detachment.
SegmentInv ==
    program = "shm" =>
       /\ where[1] <= 7
       /\ \A p \in Sh!Proc : p \in attached <=>
             p \notin dead /\ where[p] \in IF p = 1 THEN {3, 4, 5} ELSE {3, 4}
       /\ segment = IF where[1] = 1 THEN "none"
                    ELSE IF where[1] <= 6 THEN "there"
                    ELSE IF attached = {} THEN "none" ELSE "marked"
       /\ where[1] = 1 => attached = {}
       /\ holding = {}
       /\ content = "hello" => where[1] > 3
       /\ \A p \in Sh!Proc : shown[p] = "hello" => where[1] > 3

SharersInv == program \in Sh!Programs => SharersType /\ SpinInv /\ ModulesInv /\ SegmentInv

\* One process goes on by an instruction, and the others stay.
LEMMA AdvanceWhere ==
    ASSUME where \in [Sh!Proc -> Nat \ {0}], NEW p \in Sh!Proc, Sh!Advance(p)
    PROVE  /\ where' \in [Sh!Proc -> Nat \ {0}]
           /\ where'[p] = where[p] + 1
           /\ \A q \in Sh!Proc : q # p => where'[q] = where[q]
<1>1. where[p] + 1 \in Nat \ {0}
  OBVIOUS
<1>2. where' = [where EXCEPT ![p] = where[p] + 1]
  BY DEF Sh!Advance
<1> QED BY <1>1, <1>2

\* Every step but a process's last keeps the types.
LEMMA SharersTypeStep ==
    ASSUME SharersType, NEW p \in Sh!Proc, Sh!Step(p) \/ Sh!Kill(p)
    PROVE  SharersType'
<1> USE AdvanceWhere DEF SharersType, Sh!Leave, Sh!lock, Sh!share
<1>1. CASE Sh!Open(p)
  BY <1>1 DEF Sh!Open
<1>2. CASE Sh!Truncate(p) \/ Sh!InitLock(p) \/ Sh!SpinLock(p) \/ Sh!SpinUnlock(p) \/ Sh!Pass(p)
  BY <1>2 DEF Sh!Truncate, Sh!InitLock, Sh!SpinLock, Sh!SpinUnlock, Sh!Pass
<1>3. CASE Sh!Resolve(p) \/ Sh!BusError(p)
  BY <1>3 DEF Sh!Resolve, Sh!BusError
<1>4. CASE Sh!Get(p)
  BY <1>4 DEF Sh!Get
<1>5. CASE Sh!Attach(p)
  BY <1>5 DEF Sh!Attach
<1>6. CASE Sh!Write(p) \/ Sh!Read(p)
  BY <1>6 DEF Sh!Write, Sh!Read
<1>7. CASE Sh!Detach(p)
  BY <1>7 DEF Sh!Detach, Sh!Unmap
<1>8. CASE Sh!Remove(p)
  BY <1>8 DEF Sh!Remove
<1>9. CASE Sh!Kill(p)
  BY <1>9 DEF Sh!Kill, Sh!Unmap
<1> QED BY <1>1, <1>2, <1>3, <1>4, <1>5, <1>6, <1>7, <1>8, <1>9 DEF Sh!Step

\* What a step of the spinlock programs can be.
LEMMA SpinAt ==
    ASSUME program = "spin", where \in [Sh!Proc -> Nat \ {0}], NEW p \in Sh!Proc, NEW o, Sh!Is(p, o)
    PROVE  \/ /\ p # 3
              /\ \/ where[p] = 1 /\ o = "open or create"
                 \/ where[p] = 2 /\ o = "truncate"
                 \/ where[p] = 3 /\ o = "init"
                 \/ where[p] = 4 /\ o = "lock"
                 \/ where[p] = 5 /\ o = "sleep"
                 \/ where[p] = 6 /\ o = "unlock"
           \/ /\ p = 3
              /\ \/ where[p] = 1 /\ o = "open"
                 \/ where[p] = 2 /\ o = "lock"
                 \/ where[p] = 3 /\ o = "unlock"
<1>1. ~ Sh!Done(p) /\ Sh!Text[program][p][where[p]] = o
  BY DEF Sh!Is
<1>2. CASE p = 1
  <2>1. ~ Sh!Done(1) /\ Sh!Text[program][1][where[1]] = o
    BY <1>1, <1>2
  <2>2. \/ where[1] = 1 /\ o = "open or create"
        \/ where[1] = 2 /\ o = "truncate"
        \/ where[1] = 3 /\ o = "init"
        \/ where[1] = 4 /\ o = "lock"
        \/ where[1] = 5 /\ o = "sleep"
        \/ where[1] = 6 /\ o = "unlock"
    BY <2>1, SpinText DEF At
  <2>3. p # 3
    BY <1>2
  <2> QED BY ONLY <1>2, <2>2, <2>3
<1>3. CASE p = 2
  <2>1. ~ Sh!Done(2) /\ Sh!Text[program][2][where[2]] = o
    BY <1>1, <1>3
  <2>2. \/ where[2] = 1 /\ o = "open or create"
        \/ where[2] = 2 /\ o = "truncate"
        \/ where[2] = 3 /\ o = "init"
        \/ where[2] = 4 /\ o = "lock"
        \/ where[2] = 5 /\ o = "sleep"
        \/ where[2] = 6 /\ o = "unlock"
    BY <2>1, SpinText DEF At
  <2>3. p # 3
    BY <1>3
  <2> QED BY ONLY <1>3, <2>2, <2>3
<1>4. CASE p = 3
  <2>1. ~ Sh!Done(3) /\ Sh!Text[program][3][where[3]] = o
    BY <1>1, <1>4
  <2>2. \/ where[3] = 1 /\ o = "open"
        \/ where[3] = 2 /\ o = "lock"
        \/ where[3] = 3 /\ o = "unlock"
    BY <2>1, SpinText DEF At
  <2> QED BY ONLY <1>4, <2>2
<1>5. p = 1 \/ p = 2 \/ p = 3
  BY DEF Sh!Proc
<1> QED BY ONLY <1>2, <1>3, <1>4, <1>5

\* The word says who holds the lock unless somebody writes it anew.
LEMMA SpinStep ==
    ASSUME program = "spin", program' = program, SharersType, SpinInv,
           NEW p \in Sh!Proc, Sh!Step(p) \/ Sh!Kill(p)
    PROVE  SpinInv'
<1>1. /\ where \in [Sh!Proc -> Nat \ {0}] /\ holding \subseteq Sh!Proc
      /\ \A q \in Sh!Proc : where[q] \in Nat
  BY DEF SharersType
<1> USE DEF SpinInv
<1>2. CASE Sh!Open(p)
  <2>1. /\ where[p] = 1 /\ UNCHANGED <<word, holding, reset>>
        /\ (Sh!Advance(p) /\ UNCHANGED dead) \/ (UNCHANGED where /\ Sh!Leave(p))
    BY <1>1, <1>2, SpinAt, ZenonT(60) DEF Sh!Is, Sh!Open
  <2> QED BY <1>1, <2>1, AdvanceWhere DEF Sh!Leave
<1>3. CASE Sh!Truncate(p)
  <2>1. where[p] = 2 /\ p # 3 /\ UNCHANGED <<word, holding, reset, dead>> /\ Sh!Advance(p)
    BY <1>1, <1>3, SpinAt DEF Sh!Is, Sh!Truncate
  <2> QED BY <1>1, <2>1, AdvanceWhere
<1>4. CASE Sh!InitLock(p)
  <2>1. where[p] = 3 /\ p # 3 /\ UNCHANGED <<holding, dead>> /\ Sh!Advance(p)
    BY <1>1, <1>4, SpinAt DEF Sh!Is, Sh!InitLock
  <2>2. reset' \/ holding' = {}
    BY <1>4 DEF Sh!InitLock
  <2> QED BY <1>1, <2>1, <2>2, AdvanceWhere
<1>5. CASE Sh!SpinLock(p)
  <2>1. where[p] = (IF p = 3 THEN 2 ELSE 4) /\ p \notin dead
    BY <1>1, <1>5, SpinAt DEF Sh!SpinLock, Sh!Is
  <2>2. /\ word = 1 /\ word' = 0 /\ holding' = holding \cup {p} /\ UNCHANGED <<reset, dead>>
        /\ Sh!Advance(p)
    BY <1>5 DEF Sh!SpinLock
  <2> QED BY <1>1, <2>1, <2>2, AdvanceWhere
<1>6. CASE Sh!BusError(p)
  <2>1. where[p] = IF p = 3 THEN 2 ELSE 4
    BY <1>1, <1>6, SpinAt, ZenonT(60) DEF Sh!Is, Sh!BusError
  <2> QED BY <1>1, <1>6, <2>1 DEF Sh!BusError, Sh!Leave, Sh!lock
<1>7. CASE Sh!SpinUnlock(p)
  <2>1. where[p] = (IF p = 3 THEN 3 ELSE 6) /\ p \notin dead
    BY <1>1, <1>7, SpinAt DEF Sh!SpinUnlock, Sh!Is
  <2>2. holding' = holding \ {p} /\ UNCHANGED <<reset, dead>> /\ Sh!Advance(p)
    BY <1>7 DEF Sh!SpinUnlock
  <2> QED BY <1>1, <2>1, <2>2, AdvanceWhere
<1>8. CASE Sh!Pass(p)
  <2>1. where[p] = 5 /\ p # 3
    BY <1>1, <1>8, SpinAt, ZenonT(60) DEF Sh!Is, Sh!Pass
  <2>2. UNCHANGED <<word, holding, reset, dead>> /\ Sh!Advance(p)
    BY <1>8 DEF Sh!Pass, Sh!lock
  <2> QED BY <1>1, <2>1, <2>2, AdvanceWhere
<1>9. CASE Sh!Kill(p)
  <2>1. /\ dead' = dead \cup {p} /\ holding' = holding \ {p}
        /\ UNCHANGED <<where, word, reset>>
    BY <1>9 DEF Sh!Kill, Sh!Leave
  <2> QED BY <1>1, <2>1
<1>10. ~ (\/ Sh!Resolve(p) \/ Sh!Get(p) \/ Sh!Attach(p) \/ Sh!Write(p) \/ Sh!Read(p)
          \/ Sh!Detach(p) \/ Sh!Remove(p))
  BY <1>1, SpinAt DEF Sh!Is, Sh!Resolve, Sh!Get, Sh!Attach, Sh!Write, Sh!Read, Sh!Detach, Sh!Remove
<1> QED BY <1>2, <1>3, <1>4, <1>5, <1>6, <1>7, <1>8, <1>9, <1>10 DEF Sh!Step

\* What a step of the two modules can be.
LEMMA ModulesAt ==
    ASSUME program = "modules", where \in [Sh!Proc -> Nat \ {0}],
           NEW p \in Sh!Proc, NEW o, Sh!Is(p, o)
    PROVE  \/ /\ p = 1
              /\ \/ where[p] = 1 /\ o = "init"
                 \/ where[p] = 2 /\ o = "lock"
                 \/ where[p] = 3 /\ o = "sleep"
                 \/ where[p] = 4 /\ o = "unlock"
                 \/ where[p] = 5 /\ o = "unload"
           \/ /\ p = 2
              /\ \/ where[p] = 1 /\ o = "resolve"
                 \/ where[p] = 2 /\ o = "lock"
                 \/ where[p] = 3 /\ o = "unlock"
                 \/ where[p] = 4 /\ o = "leave"
<1>1. ~ Sh!Done(p) /\ Sh!Text[program][p][where[p]] = o
  BY DEF Sh!Is
<1>2. CASE p = 1
  <2>1. ~ Sh!Done(1) /\ Sh!Text[program][1][where[1]] = o
    BY <1>1, <1>2
  <2>2. \/ where[1] = 1 /\ o = "init"
        \/ where[1] = 2 /\ o = "lock"
        \/ where[1] = 3 /\ o = "sleep"
        \/ where[1] = 4 /\ o = "unlock"
        \/ where[1] = 5 /\ o = "unload"
    BY <2>1, ModulesText DEF At
  <2> QED BY ONLY <1>2, <2>2
<1>3. CASE p = 2
  <2>1. ~ Sh!Done(2) /\ Sh!Text[program][2][where[2]] = o
    BY <1>1, <1>3
  <2>2. \/ where[2] = 1 /\ o = "resolve"
        \/ where[2] = 2 /\ o = "lock"
        \/ where[2] = 3 /\ o = "unlock"
        \/ where[2] = 4 /\ o = "leave"
    BY <2>1, ModulesText DEF At
  <2> QED BY ONLY <1>3, <2>2
<1>4. CASE p = 3
  BY <1>1, <1>4, ModulesText
<1>5. p = 1 \/ p = 2 \/ p = 3
  BY DEF Sh!Proc
<1> QED BY ONLY <1>2, <1>3, <1>4, <1>5

\* The second module waits for what the first has written.
LEMMA ModulesStep ==
    ASSUME program = "modules", program' = program, SharersType, ModulesInv,
           NEW p \in Sh!Proc, Sh!Step(p) \/ Sh!Kill(p)
    PROVE  ModulesInv'
<1>0. 1 \in Sh!Proc /\ 2 \in Sh!Proc /\ 3 \in Sh!Proc
  BY DEF Sh!Proc
<1>1. /\ where \in [Sh!Proc -> Nat \ {0}] /\ holding \subseteq Sh!Proc
      /\ where[1] \in Nat \ {0} /\ where[2] \in Nat \ {0}
      /\ 1 \in Sh!Proc /\ 2 \in Sh!Proc /\ 3 \in Sh!Proc
  BY <1>0 DEF SharersType
<1>2. (Sh!Done(1) <=> where[1] > 5) /\ (Sh!Done(2) <=> where[2] > 4)
  BY ModulesText DEF SharersType
<1> USE DEF ModulesInv
<1>3. CASE Sh!InitLock(p)
  <2>1. p = 1 /\ where[1] = 1
    BY <1>1, <1>3, ModulesAt DEF Sh!InitLock, Sh!Is
  <2>2. word' = 1 /\ UNCHANGED <<file, dead, holding>> /\ Sh!Advance(p)
    BY <1>3 DEF Sh!InitLock
  <2> QED BY <1>1, <2>1, <2>2, AdvanceWhere
<1>4. CASE Sh!Resolve(p)
  <2>1. p = 2 /\ where[2] = 1
    BY <1>1, <1>4, ModulesAt DEF Sh!Resolve, Sh!Is
  <2>2. Sh!Is(1, "unload") => where[1] = 5
    BY <1>1, ModulesAt DEF Sh!Is
  <2>3. UNCHANGED <<file, word, holding>>
    BY <1>4 DEF Sh!Resolve, Sh!lock
  <2>4. CASE where[1] = 1 \/ Sh!Done(1)
    <3>1. dead' = dead \cup {2} /\ UNCHANGED where
      BY <1>4, <2>1, <2>4 DEF Sh!Resolve, Sh!Leave
    <3> QED BY <1>1, <2>1, <2>3, <3>1
  <2>5. CASE ~ (where[1] = 1 \/ Sh!Done(1))
    <3>1. where[1] = 5 /\ Sh!Advance(p) /\ UNCHANGED dead
      BY <1>4, <2>2, <2>5 DEF Sh!Resolve
    <3>2. where'[1] = 5 /\ where'[2] = 2 /\ where'[3] = 1
      BY <1>1, <2>1, <3>1, AdvanceWhere
    <3>3. word = 1
      BY <2>1, <3>1
    <3>4. holding = {}
      BY <1>1, <2>1, <3>1
    <3>5. \A q \in Sh!Proc : q \notin holding' /\ ~ (q = 1 /\ where'[1] \in {3, 4})
                                /\ ~ (q = 2 /\ where'[2] = 3)
      BY <2>3, <3>2, <3>4
    <3>6. dead' = dead /\ word' = 1 /\ file' = "none"
      BY <2>3, <3>1, <3>3
    <3>7. dead \subseteq {2} /\ (2 \in dead => where'[2] = 1)
      <4>1. 2 \notin dead
        BY <1>4, <2>1 DEF Sh!Resolve, Sh!Is
      <4> QED BY <4>1
    <3> QED BY <3>2, <3>5, <3>6, <3>7
  <2> QED BY <2>4, <2>5
<1>5. CASE Sh!SpinLock(p)
  <2>1. (p = 1 \/ p = 2) /\ where[p] = 2
    BY <1>1, <1>5, ModulesAt DEF Sh!SpinLock, Sh!Is
  <2>2. holding' = holding \cup {p} /\ UNCHANGED <<file, dead>> /\ Sh!Advance(p)
    BY <1>5 DEF Sh!SpinLock
  <2> QED BY <1>1, <2>1, <2>2, AdvanceWhere
<1>6. CASE Sh!SpinUnlock(p)
  <2>1. (p = 1 /\ where[1] = 4) \/ (p = 2 /\ where[2] = 3)
    BY <1>1, <1>6, ModulesAt DEF Sh!SpinUnlock, Sh!Is
  <2>2. word' = 1 /\ holding' = holding \ {p} /\ UNCHANGED <<file, dead>> /\ Sh!Advance(p)
    BY <1>6 DEF Sh!SpinUnlock
  <2> QED BY <1>1, <2>1, <2>2, AdvanceWhere
<1>7. CASE Sh!Pass(p)
  <2>1. \/ p = 1 /\ where[1] = 3
        \/ p = 2 /\ where[2] = 4
        \/ p = 1 /\ where[1] = 5 /\ (where[2] = 1 \/ where[2] = 5)
    BY <1>1, <1>2, <1>7, ModulesAt DEF Sh!Pass, Sh!Is
  <2>2. UNCHANGED <<file, word, holding, dead>> /\ Sh!Advance(p)
    BY <1>7 DEF Sh!Pass, Sh!lock
  <2> QED BY <1>1, <2>1, <2>2, AdvanceWhere
<1>8. ~ Sh!BusError(p) /\ ~ Sh!Kill(p)
  BY DEF Sh!BusError, Sh!Kill
<1>9. ~ (\/ Sh!Open(p) \/ Sh!Truncate(p) \/ Sh!Get(p) \/ Sh!Attach(p) \/ Sh!Write(p)
         \/ Sh!Read(p) \/ Sh!Detach(p) \/ Sh!Remove(p))
  BY <1>1, ModulesAt DEF Sh!Is, Sh!Open, Sh!Truncate, Sh!Get, Sh!Attach, Sh!Write, Sh!Read,
     Sh!Detach, Sh!Remove
<1> QED BY <1>3, <1>4, <1>5, <1>6, <1>7, <1>8, <1>9 DEF Sh!Step

\* What a step at the segment can be.
LEMMA SegmentAt ==
    ASSUME program = "shm", where \in [Sh!Proc -> Nat \ {0}], NEW p \in Sh!Proc, NEW o, Sh!Is(p, o)
    PROVE  \/ /\ p = 1
              /\ \/ where[p] = 1 /\ o = "get or create"
                 \/ where[p] = 2 /\ o = "attach"
                 \/ where[p] = 3 /\ o = "write"
                 \/ where[p] = 4 /\ o = "sleep"
                 \/ where[p] = 5 /\ o = "detach"
                 \/ where[p] = 6 /\ o = "remove"
           \/ /\ p # 1
              /\ \/ where[p] = 1 /\ o = "get"
                 \/ where[p] = 2 /\ o = "attach"
                 \/ where[p] = 3 /\ o = "read"
                 \/ where[p] = 4 /\ o = "detach"
<1>1. ~ Sh!Done(p) /\ Sh!Text[program][p][where[p]] = o
  BY DEF Sh!Is
<1>2. CASE p = 1
  <2>1. ~ Sh!Done(1) /\ Sh!Text[program][1][where[1]] = o
    BY <1>1, <1>2
  <2>2. \/ where[1] = 1 /\ o = "get or create"
        \/ where[1] = 2 /\ o = "attach"
        \/ where[1] = 3 /\ o = "write"
        \/ where[1] = 4 /\ o = "sleep"
        \/ where[1] = 5 /\ o = "detach"
        \/ where[1] = 6 /\ o = "remove"
    BY <2>1, SegmentText DEF At
  <2> QED BY ONLY <1>2, <2>2
<1>3. ASSUME p = 2
      PROVE  \/ where[p] = 1 /\ o = "get"
             \/ where[p] = 2 /\ o = "attach"
             \/ where[p] = 3 /\ o = "read"
             \/ where[p] = 4 /\ o = "detach"
  <2>1. ~ Sh!Done(2) /\ Sh!Text[program][2][where[2]] = o
    BY <1>1, <1>3
  <2>2. \/ where[2] = 1 /\ o = "get"
        \/ where[2] = 2 /\ o = "attach"
        \/ where[2] = 3 /\ o = "read"
        \/ where[2] = 4 /\ o = "detach"
    BY <2>1, SegmentText DEF At
  <2> QED BY ONLY <1>3, <2>2
<1>4. ASSUME p = 3
      PROVE  \/ where[p] = 1 /\ o = "get"
             \/ where[p] = 2 /\ o = "attach"
             \/ where[p] = 3 /\ o = "read"
             \/ where[p] = 4 /\ o = "detach"
  <2>1. ~ Sh!Done(3) /\ Sh!Text[program][3][where[3]] = o
    BY <1>1, <1>4
  <2>2. \/ where[3] = 1 /\ o = "get"
        \/ where[3] = 2 /\ o = "attach"
        \/ where[3] = 3 /\ o = "read"
        \/ where[3] = 4 /\ o = "detach"
    BY <2>1, SegmentText DEF At
  <2> QED BY ONLY <1>4, <2>2
<1>5. p = 1 \/ p = 2 \/ p = 3
  BY DEF Sh!Proc
<1>6. p # 1 => p = 2 \/ p = 3
  BY <1>5
<1> QED BY <1>2, <1>3, <1>4, <1>6

\* The writer marks the segment last, and it goes with the last detachment.
LEMMA SegmentStep ==
    ASSUME program = "shm", program' = program, SharersType, SegmentInv,
           NEW p \in Sh!Proc, Sh!Step(p) \/ Sh!Kill(p)
    PROVE  SegmentInv'
<1>0. 1 \in Sh!Proc
  BY DEF Sh!Proc
<1>1. /\ where \in [Sh!Proc -> Nat \ {0}] /\ 1 \in Sh!Proc /\ where[1] \in Nat \ {0}
      /\ attached \subseteq Sh!Proc /\ content \in {"", "hello"}
      /\ shown \in [Sh!Proc -> {"nothing", "", "hello"}]
  BY <1>0 DEF SharersType
<1>2. Sh!Done(1) <=> where[1] > 6
  BY SegmentText DEF SharersType
<1>3. /\ \A q \in Sh!Proc : where[q] \in Nat
      /\ Sh!Advance(p) => \A q \in Sh!Proc : where'[q] = IF q = p THEN where[q] + 1 ELSE where[q]
  BY <1>1, AdvanceWhere
<1>20. /\ where[1] \in Nat \ {0}
       /\ Sh!Advance(p) => where'[1] = IF p = 1 THEN where[1] + 1 ELSE where[1]
  BY <1>0, <1>1, <1>3
<1>4. \A q \in Sh!Proc : q \in attached <=>
            q \notin dead /\ where[q] \in IF q = 1 THEN {3, 4, 5} ELSE {3, 4}
  BY DEF SegmentInv
<1>5. where[1] <= 7 /\ (where[1] = 1 => attached = {})
  BY DEF SegmentInv
<1>6. segment = IF where[1] = 1 THEN "none"
                ELSE IF where[1] <= 6 THEN "there"
                ELSE IF attached = {} THEN "none" ELSE "marked"
  BY DEF SegmentInv
<1>7. /\ holding = {} /\ (content = "hello" => where[1] > 3)
      /\ \A q \in Sh!Proc : shown[q] = "hello" => where[1] > 3
  BY DEF SegmentInv
<1>8. CASE Sh!Get(p)
  <2>1. where[p] = 1 /\ (p # 1 <=> Sh!Is(p, "get"))
    BY <1>1, <1>8, SegmentAt DEF Sh!Get, Sh!Is
  <2>2. CASE segment # "there" /\ p # 1
    <3>1. /\ UNCHANGED <<where, holding, attached, segment, content, shown>>
          /\ dead' = dead \cup {p}
      BY <1>8, <2>1, <2>2 DEF Sh!Get, Sh!Leave, Sh!lock
    <3>2. \A q \in Sh!Proc : q \in attached' <=>
            q \notin dead' /\ where'[q] \in IF q = 1 THEN {3, 4, 5} ELSE {3, 4}
      BY <1>3, <1>4, <2>1, <3>1
    <3>3. where'[1] <= 7 /\ (where'[1] = 1 => attached' = {})
      BY <1>20, <1>5, <2>1, <3>1
    <3>4. segment' = IF where'[1] = 1 THEN "none"
                   ELSE IF where'[1] <= 6 THEN "there"
                   ELSE IF attached' = {} THEN "none" ELSE "marked"
      BY <1>20, <1>5, <1>6, <2>1, <3>1, <3>3
    <3>5. /\ holding' = {} /\ (content' = "hello" => where'[1] > 3)
            /\ \A q \in Sh!Proc : shown'[q] = "hello" => where'[1] > 3
      BY <1>20, <1>7, <2>1, <3>1
    <3> QED BY <3>2, <3>3, <3>4, <3>5 DEF SegmentInv
  <2>3. CASE ~ (segment # "there" /\ p # 1)
    <3>1. /\ UNCHANGED <<holding, attached, content, shown, dead>> /\ segment' = "there"
          /\ Sh!Advance(p)
      BY <1>8, <2>1, <2>3 DEF Sh!Get, Sh!lock
    <3>2. \A q \in Sh!Proc : q \in attached' <=>
            q \notin dead' /\ where'[q] \in IF q = 1 THEN {3, 4, 5} ELSE {3, 4}
      BY <1>3, <1>4, <2>1, <2>3, <3>1
    <3>3. where'[1] <= 7 /\ (where'[1] = 1 => attached' = {})
      BY <1>20, <1>5, <2>1, <2>3, <3>1
    <3>4. segment' = IF where'[1] = 1 THEN "none"
                   ELSE IF where'[1] <= 6 THEN "there"
                   ELSE IF attached' = {} THEN "none" ELSE "marked"
      BY <1>20, <1>5, <1>6, <2>1, <2>3, <3>1, <3>3
    <3>5. /\ holding' = {} /\ (content' = "hello" => where'[1] > 3)
            /\ \A q \in Sh!Proc : shown'[q] = "hello" => where'[1] > 3
      BY <1>20, <1>7, <2>1, <2>3, <3>1
    <3> QED BY <3>2, <3>3, <3>4, <3>5 DEF SegmentInv
  <2> QED BY <2>2, <2>3
<1>9. CASE Sh!Attach(p)
  <2>1. where[p] = 2 /\ p \notin dead
    BY <1>1, <1>9, SegmentAt DEF Sh!Attach, Sh!Is
  <2>2. CASE segment = "none"
    <3>1. /\ UNCHANGED <<where, holding, attached, segment, content, shown>>
          /\ dead' = dead \cup {p}
      BY <1>9, <2>2 DEF Sh!Attach, Sh!Leave, Sh!lock
    <3>2. \A q \in Sh!Proc : q \in attached' <=>
            q \notin dead' /\ where'[q] \in IF q = 1 THEN {3, 4, 5} ELSE {3, 4}
      BY <1>3, <1>4, <2>1, <3>1
    <3>3. where'[1] <= 7 /\ (where'[1] = 1 => attached' = {})
      BY <1>20, <1>5, <2>1, <3>1
    <3>4. segment' = IF where'[1] = 1 THEN "none"
                   ELSE IF where'[1] <= 6 THEN "there"
                   ELSE IF attached' = {} THEN "none" ELSE "marked"
      BY <1>20, <1>5, <1>6, <2>1, <3>1, <3>3
    <3>5. /\ holding' = {} /\ (content' = "hello" => where'[1] > 3)
            /\ \A q \in Sh!Proc : shown'[q] = "hello" => where'[1] > 3
      BY <1>20, <1>7, <2>1, <3>1
    <3> QED BY <3>2, <3>3, <3>4, <3>5 DEF SegmentInv
  <2>3. CASE segment # "none"
    <3>1. /\ UNCHANGED <<holding, segment, content, shown, dead>>
          /\ attached' = attached \cup {p} /\ Sh!Advance(p)
      BY <1>9, <2>3 DEF Sh!Attach, Sh!lock
    <3>2. \A q \in Sh!Proc : q \in attached' <=>
            q \notin dead' /\ where'[q] \in IF q = 1 THEN {3, 4, 5} ELSE {3, 4}
      BY <1>3, <1>4, <2>1, <2>3, <3>1
    <3>3. where'[1] <= 7 /\ (where'[1] = 1 => attached' = {})
      BY <1>20, <1>5, <1>6, <2>1, <2>3, <3>1
    <3>4. segment' = IF where'[1] = 1 THEN "none"
                   ELSE IF where'[1] <= 6 THEN "there"
                   ELSE IF attached' = {} THEN "none" ELSE "marked"
      BY <1>20, <1>5, <1>6, <2>1, <2>3, <3>1, <3>3
    <3>5. /\ holding' = {} /\ (content' = "hello" => where'[1] > 3)
            /\ \A q \in Sh!Proc : shown'[q] = "hello" => where'[1] > 3
      BY <1>20, <1>7, <2>1, <2>3, <3>1
    <3> QED BY <3>2, <3>3, <3>4, <3>5 DEF SegmentInv
  <2> QED BY <2>2, <2>3
<1>10. CASE Sh!Write(p)
  <2>1. p = 1 /\ where[1] = 3
    BY <1>1, <1>10, SegmentAt DEF Sh!Write, Sh!Is
  <2>2. UNCHANGED <<dead, holding, segment, attached, shown>> /\ Sh!Advance(p)
    BY <1>10 DEF Sh!Write, Sh!lock
  <2>3. \A q \in Sh!Proc : q \in attached' <=>
          q \notin dead' /\ where'[q] \in IF q = 1 THEN {3, 4, 5} ELSE {3, 4}
    BY <1>3, <1>4, <2>1, <2>2
  <2>4. where'[1] <= 7 /\ (where'[1] = 1 => attached' = {})
    BY <1>20, <1>5, <2>1, <2>2
  <2>5. segment' = IF where'[1] = 1 THEN "none"
                 ELSE IF where'[1] <= 6 THEN "there"
                 ELSE IF attached' = {} THEN "none" ELSE "marked"
    BY <1>20, <1>5, <1>6, <2>1, <2>2, <2>4
  <2>6. /\ holding' = {} /\ (content' = "hello" => where'[1] > 3)
          /\ \A q \in Sh!Proc : shown'[q] = "hello" => where'[1] > 3
    BY <1>20, <1>7, <2>1, <2>2
  <2> QED BY <2>3, <2>4, <2>5, <2>6 DEF SegmentInv
<1>11. CASE Sh!Read(p)
  <2>1. p # 1 /\ where[p] = 3
    BY <1>1, <1>11, SegmentAt DEF Sh!Read, Sh!Is
  <2>2. /\ UNCHANGED <<dead, holding, segment, attached, content>> /\ Sh!Advance(p)
        /\ shown' = [shown EXCEPT ![p] = content]
    BY <1>11 DEF Sh!Read, Sh!lock
  <2>3. \A q \in Sh!Proc : q \in attached' <=>
          q \notin dead' /\ where'[q] \in IF q = 1 THEN {3, 4, 5} ELSE {3, 4}
    BY <1>3, <1>4, <2>1, <2>2
  <2>4. where'[1] <= 7 /\ (where'[1] = 1 => attached' = {})
    BY <1>20, <1>5, <2>1, <2>2
  <2>5. segment' = IF where'[1] = 1 THEN "none"
                 ELSE IF where'[1] <= 6 THEN "there"
                 ELSE IF attached' = {} THEN "none" ELSE "marked"
    BY <1>20, <1>5, <1>6, <2>1, <2>2, <2>4
  <2>6. /\ holding' = {} /\ (content' = "hello" => where'[1] > 3)
          /\ \A q \in Sh!Proc : shown'[q] = "hello" => where'[1] > 3
    BY <1>20, <1>7, <2>1, <2>2
  <2> QED BY <2>3, <2>4, <2>5, <2>6 DEF SegmentInv
<1>12. CASE Sh!Pass(p)
  <2>1. p = 1 /\ where[1] = 4
    BY <1>1, <1>12, SegmentAt DEF Sh!Pass, Sh!Is
  <2>2. UNCHANGED <<dead, holding, segment, attached, content, shown>> /\ Sh!Advance(p)
    BY <1>12 DEF Sh!Pass, Sh!lock, Sh!share
  <2>3. \A q \in Sh!Proc : q \in attached' <=>
          q \notin dead' /\ where'[q] \in IF q = 1 THEN {3, 4, 5} ELSE {3, 4}
    BY <1>3, <1>4, <2>1, <2>2
  <2>4. where'[1] <= 7 /\ (where'[1] = 1 => attached' = {})
    BY <1>20, <1>5, <2>1, <2>2
  <2>5. segment' = IF where'[1] = 1 THEN "none"
                 ELSE IF where'[1] <= 6 THEN "there"
                 ELSE IF attached' = {} THEN "none" ELSE "marked"
    BY <1>20, <1>5, <1>6, <2>1, <2>2, <2>4
  <2>6. /\ holding' = {} /\ (content' = "hello" => where'[1] > 3)
          /\ \A q \in Sh!Proc : shown'[q] = "hello" => where'[1] > 3
    BY <1>20, <1>7, <2>1, <2>2
  <2> QED BY <2>3, <2>4, <2>5, <2>6 DEF SegmentInv
<1>13. CASE Sh!Detach(p)
  <2>1. where[p] = IF p = 1 THEN 5 ELSE 4
    BY <1>1, <1>13, SegmentAt DEF Sh!Detach, Sh!Is
  <2>2. /\ UNCHANGED <<dead, holding, shown>> /\ Sh!Advance(p)
        /\ attached' = attached \ {p}
        /\ segment' = IF segment = "marked" /\ attached' = {} THEN "none" ELSE segment
        /\ content' = "hello" => content = "hello"
    BY <1>13 DEF Sh!Detach, Sh!Unmap, Sh!lock
  <2>3. \A q \in Sh!Proc : q \in attached' <=>
          q \notin dead' /\ where'[q] \in IF q = 1 THEN {3, 4, 5} ELSE {3, 4}
    BY <1>3, <1>4, <2>1, <2>2
  <2>4. where'[1] <= 7 /\ (where'[1] = 1 => attached' = {})
    BY <1>20, <1>5, <2>1, <2>2
  <2>5. segment' = IF where'[1] = 1 THEN "none"
                 ELSE IF where'[1] <= 6 THEN "there"
                 ELSE IF attached' = {} THEN "none" ELSE "marked"
    BY <1>20, <1>5, <1>6, <2>1, <2>2, <2>4
  <2>6. /\ holding' = {} /\ (content' = "hello" => where'[1] > 3)
          /\ \A q \in Sh!Proc : shown'[q] = "hello" => where'[1] > 3
    BY <1>20, <1>7, <2>1, <2>2
  <2> QED BY <2>3, <2>4, <2>5, <2>6 DEF SegmentInv
<1>14. CASE Sh!Remove(p)
  <2>1. p = 1 /\ where[1] = 6
    BY <1>1, <1>14, SegmentAt DEF Sh!Remove, Sh!Is
  <2>2. /\ UNCHANGED <<dead, holding, attached, shown>> /\ Sh!Advance(p)
        /\ segment' = IF attached = {} THEN "none" ELSE "marked"
        /\ content' = "hello" => content = "hello"
    BY <1>14 DEF Sh!Remove, Sh!lock
  <2>3. \A q \in Sh!Proc : q \in attached' <=>
          q \notin dead' /\ where'[q] \in IF q = 1 THEN {3, 4, 5} ELSE {3, 4}
    BY <1>3, <1>4, <2>1, <2>2
  <2>4. where'[1] <= 7 /\ (where'[1] = 1 => attached' = {})
    BY <1>20, <1>5, <2>1, <2>2
  <2>5. segment' = IF where'[1] = 1 THEN "none"
                 ELSE IF where'[1] <= 6 THEN "there"
                 ELSE IF attached' = {} THEN "none" ELSE "marked"
    BY <1>20, <1>5, <1>6, <2>1, <2>2, <2>4
  <2>6. /\ holding' = {} /\ (content' = "hello" => where'[1] > 3)
          /\ \A q \in Sh!Proc : shown'[q] = "hello" => where'[1] > 3
    BY <1>20, <1>7, <2>1, <2>2
  <2> QED BY <2>3, <2>4, <2>5, <2>6 DEF SegmentInv
<1>15. CASE Sh!Kill(p)
  <2>1. p = 1 => where[1] <= 6
    <3>1. ~ Sh!Done(p)
      BY <1>15 DEF Sh!Kill
    <3> QED BY <1>20, <1>2, <3>1
  <2>2. /\ dead' = dead \cup {p} /\ UNCHANGED <<where, shown>>
        /\ attached' = attached \ {p} /\ holding' = holding \ {p}
        /\ segment' = IF segment = "marked" /\ attached' = {} THEN "none" ELSE segment
        /\ content' = "hello" => content = "hello"
    BY <1>15 DEF Sh!Kill, Sh!Leave, Sh!Unmap
  <2>3. \A q \in Sh!Proc : q \in attached' <=>
          q \notin dead' /\ where'[q] \in IF q = 1 THEN {3, 4, 5} ELSE {3, 4}
    BY <1>3, <1>4, <2>1, <2>2
  <2>4. where'[1] <= 7 /\ (where'[1] = 1 => attached' = {})
    BY <1>20, <1>5, <2>1, <2>2
  <2>5. segment' = IF where'[1] = 1 THEN "none"
                 ELSE IF where'[1] <= 6 THEN "there"
                 ELSE IF attached' = {} THEN "none" ELSE "marked"
    BY <1>20, <1>5, <1>6, <2>1, <2>2, <2>4
  <2>6. /\ holding' = {} /\ (content' = "hello" => where'[1] > 3)
          /\ \A q \in Sh!Proc : shown'[q] = "hello" => where'[1] > 3
    BY <1>20, <1>7, <2>1, <2>2
  <2> QED BY <2>3, <2>4, <2>5, <2>6 DEF SegmentInv
<1>16. ~ (\/ Sh!Open(p) \/ Sh!Truncate(p) \/ Sh!InitLock(p) \/ Sh!Resolve(p) \/ Sh!SpinLock(p)
          \/ Sh!BusError(p) \/ Sh!SpinUnlock(p))
  BY <1>1, SegmentAt DEF Sh!Is, Sh!Open, Sh!Truncate, Sh!InitLock, Sh!Resolve, Sh!SpinLock,
     Sh!BusError, Sh!SpinUnlock
<1> QED BY <1>8, <1>9, <1>10, <1>11, <1>12, <1>13, <1>14, <1>15, <1>16 DEF Sh!Step

\* Two processes are in the spinlock's section at once only if it was initialised
\* while held, and the writer's segment is removed and is there for whom it is mapped in.
THEOREM SharingIsSafe == Spec => []SharedIsHeld
<1>1. Init => SharersInv
  <2> SUFFICES ASSUME Init PROVE SharersType /\ SpinInv /\ ModulesInv /\ SegmentInv
    BY DEF SharersInv
  <2>1. /\ where = [p \in Sh!Proc |-> 1] /\ holding = {} /\ attached = {} /\ dead = {}
        /\ content = "" /\ shown = [p \in Sh!Proc |-> "nothing"] /\ file = "none"
        /\ segment = "none"
    BY DEF Init, Sh!Init
  <2>2. 1 \in Sh!Proc /\ 2 \in Sh!Proc /\ 3 \in Sh!Proc
    BY DEF Sh!Proc
  <2>3. \A p \in Sh!Proc : where[p] = 1 /\ shown[p] = "nothing"
    BY <2>1
  <2>4. SharersType
    <3>1. 1 \in Nat \ {0} /\ {} \subseteq Sh!Proc
      OBVIOUS
    <3> QED BY ONLY <2>1, <3>1 DEF SharersType
  <2>5. /\ holding = {} /\ attached = {} /\ dead = {} /\ content = ""
        /\ file = "none" /\ segment = "none"
    BY <2>1
  <2>6. where[1] = 1 /\ where[2] = 1 /\ where[3] = 1
    BY <2>2, <2>3
  <2>7. SpinInv
    <3>1. \A q \in Sh!Proc : q \notin holding /\ ~ (where[q] \in IF q = 3 THEN {3} ELSE {5, 6})
      <4>1. ASSUME NEW q \in Sh!Proc PROVE q \notin holding /\ where[q] = 1
        BY <2>3, <2>5
      <4>2. 1 \notin {3} /\ 1 \notin {5, 6}
        OBVIOUS
      <4> QED BY ONLY <4>1, <4>2
    <3>2. \A q \in holding : FALSE
      BY ONLY <2>5
    <3> QED BY ONLY <3>1, <3>2 DEF SpinInv
  <2>8. ModulesInv
    <3>1. \A q \in Sh!Proc : q \notin holding
      BY ONLY <2>5
    <3>2. dead \subseteq {2} /\ 2 \notin dead
      BY ONLY <2>5
    <3>3. /\ where[1] <= 6 /\ where[2] <= 5 /\ ~ (where[1] \in {3, 4}) /\ where[2] # 3
          /\ ~ (where[1] >= 5) /\ where[1] # 2 /\ where[1] # 6
      BY <2>6
    <3>4. \A q \in Sh!Proc : ~ ((q = 1 /\ where[1] \in {3, 4}) \/ (q = 2 /\ where[2] = 3))
      BY <3>3
    <3>5. file = "none" /\ where[2] = 1 /\ where[3] = 1
      BY <2>5, <2>6
    <3> QED BY ONLY <3>1, <3>2, <3>3, <3>4, <3>5 DEF ModulesInv
  <2>9. SegmentInv
    <3>1. \A q \in Sh!Proc :
             q \notin attached /\ ~ (where[q] \in IF q = 1 THEN {3, 4, 5} ELSE {3, 4})
      <4>1. ASSUME NEW q \in Sh!Proc PROVE q \notin attached /\ where[q] = 1
        BY <2>3, <2>5
      <4>2. 1 \notin {3, 4, 5} /\ 1 \notin {3, 4}
        OBVIOUS
      <4> QED BY ONLY <4>1, <4>2
    <3>2. content # "hello" /\ \A q \in Sh!Proc : shown[q] # "hello"
      BY ONLY <2>3, <2>5
    <3>3. where[1] = 1 /\ where[1] <= 7
      BY <2>6
    <3>4. segment = "none" /\ attached = {} /\ holding = {}
      BY <2>5
    <3> QED BY ONLY <3>1, <3>2, <3>3, <3>4 DEF SegmentInv
  <2> QED BY <2>4, <2>7, <2>8, <2>9
<1>2. SharersInv /\ [Next]_vars => SharersInv'
  <2>1. SharersInv /\ program' = program /\ UNCHANGED sharers => SharersInv'
    <3> SUFFICES ASSUME SharersInv, program' = program, UNCHANGED sharers, program \in Sh!Programs
                 PROVE  SharersInv'
      BY DEF SharersInv
    <3>1. SharersType /\ SpinInv /\ ModulesInv /\ SegmentInv
      BY DEF SharersInv
    <3>2. UNCHANGED <<where, holding, attached, dead, shown, content, reset, word, file, segment>>
      BY DEF sharers
    <3>3. SharersType' = SharersType
      BY <3>2 DEF SharersType
    <3>4. SpinInv'
      BY <3>1, <3>2 DEF SpinInv
    <3>5. ModulesInv'
      BY <3>1, <3>2 DEF ModulesInv
    <3>6. SegmentInv'
      BY <3>1, <3>2 DEF SegmentInv
    <3> QED BY <3>1, <3>3, <3>4, <3>5, <3>6 DEF SharersInv
  <2>2. SharersInv /\ program' = program /\ program \in Sh!Programs /\ Sh!Next => SharersInv'
    <3> SUFFICES ASSUME SharersInv, program' = program, program \in Sh!Programs,
                        NEW p \in Sh!Proc, Sh!Step(p) \/ Sh!Kill(p)
                 PROVE  SharersInv'
      BY DEF Sh!Next
    <3>1. SharersType /\ SpinInv /\ ModulesInv /\ SegmentInv
      BY DEF SharersInv
    <3>2. SpinInv'
      BY <3>1, SpinStep DEF SpinInv
    <3>3. ModulesInv'
      BY <3>1, ModulesStep DEF ModulesInv
    <3>4. SegmentInv'
      BY <3>1, SegmentStep DEF SegmentInv
    <3> QED BY <3>1, <3>2, <3>3, <3>4, SharersTypeStep DEF SharersInv
  <2> QED BY <2>1, <2>2, StepsAlone
<1>3. SharersInv => SharedIsHeld
  <2> SUFFICES ASSUME SharersInv, program \in Sh!Programs
               PROVE  Sh!SpinExclusion /\ Sh!SegmentServed
    BY DEF SharedIsHeld
  <2>0. SharersType /\ SpinInv /\ ModulesInv /\ SegmentInv
    BY DEF SharersInv
  <2>1. program \in {"spin", "modules", "shm"}
    BY DEF Sh!Programs, Sh!Text
  <2>2. where \in [Sh!Proc -> Nat \ {0}] /\ holding \subseteq Sh!Proc
    BY <2>0 DEF SharersType
  <2>3. ASSUME ~ (program = "spin" /\ reset) PROVE Cardinality(holding) <= 1
    <3>1. CASE program = "shm"
      <4>1. holding = {}
        BY <2>0, <3>1 DEF SegmentInv
      <4> QED BY <4>1, FS_EmptySet
    <3>2. CASE program # "shm"
      <4>1. ASSUME NEW q \in holding, NEW r \in holding PROVE q = r
        <5>1. CASE program = "spin"
          BY <2>0, <2>3, <4>1, <5>1 DEF SpinInv
        <5>2. CASE program = "modules"
          BY <2>0, <2>2, <4>1, <5>2 DEF ModulesInv
        <5> QED BY <2>1, <3>2, <5>1, <5>2
      <4>2. CASE holding = {}
        BY <4>2, FS_EmptySet
      <4>3. ASSUME NEW q \in holding PROVE Cardinality(holding) <= 1
        <5>1. holding = {q}
          BY <4>1, <4>3
        <5> QED BY <5>1, FS_Singleton
      <4> QED BY <4>2, <4>3
    <3> QED BY <3>1, <3>2
  <2>4. Sh!SpinExclusion
    <3>1. ASSUME program = "modules", NEW q \in Sh!Proc, Sh!Is(q, "lock") PROVE word = 1
      <4>1. (q = 1 /\ where[1] = 2) \/ (q = 2 /\ where[2] = 2)
        BY <2>2, <3>1, ModulesAt DEF Sh!Is
      <4>2. /\ where[1] < 5 => where[2] = 1
            /\ where[1] = 2 \/ (where[1] >= 5 /\ where[2] # 3) => word = 1
        BY <2>0, <3>1 DEF ModulesInv
      <4>3. where[1] \in Nat /\ where[2] \in Nat
        <5>1. 1 \in Sh!Proc /\ 2 \in Sh!Proc
          BY DEF Sh!Proc
        <5> QED BY <2>2, <5>1
      <4> QED BY <4>1, <4>2, <4>3
    <3>2. Cardinality(holding) \in Nat
      <4>1. IsFiniteSet(Sh!Proc)
        <5>1. 1 \in Int /\ 3 \in Int
          OBVIOUS
        <5> QED BY <5>1, FS_Interval DEF Sh!Proc
      <4>2. IsFiniteSet(holding)
        BY <2>2, <4>1, FS_Subset
      <4> QED BY <4>2, FS_CardinalityType
    <3>3. Cardinality(holding) > 1 => program = "spin" /\ reset
      BY <2>3, <3>2
    <3>4. program = "modules" => \A q \in Sh!Proc : Sh!Is(q, "lock") => word = 1
      BY <3>1
    <3>5. Sh!Cardinality(holding) = Cardinality(holding)
      BY DEF Sh!Cardinality, Cardinality
    <3> QED BY <3>3, <3>4, <3>5 DEF Sh!SpinExclusion
  <2>5. Sh!SegmentServed
    <3> SUFFICES ASSUME program = "shm"
                 PROVE  /\ \A p \in Sh!Proc : shown[p] = "hello" => where[1] > 3
                        /\ \A p \in Sh!Proc : p \in attached => segment # "none"
                        /\ (Sh!Done(1) /\ attached = {}) => segment = "none"
      BY DEF Sh!SegmentServed
    <3>1. Sh!Done(1) <=> where[1] > 6
      BY <2>2, SegmentText
    <3>2. where[1] \in Nat \ {0} /\ 1 \in Sh!Proc
      <4>1. 1 \in Sh!Proc
        BY DEF Sh!Proc
      <4> QED BY <2>2, <4>1
    <3>3. /\ where[1] <= 7 /\ (where[1] = 1 => attached = {})
          /\ segment = IF where[1] = 1 THEN "none"
                       ELSE IF where[1] <= 6 THEN "there"
                       ELSE IF attached = {} THEN "none" ELSE "marked"
          /\ \A p \in Sh!Proc : shown[p] = "hello" => where[1] > 3
      BY <2>0 DEF SegmentInv
    <3> QED BY <3>1, <3>2, <3>3
  <2> QED BY <2>4, <2>5
<1> QED BY <1>1, <1>2, <1>3, PTL DEF Spec
-----------------------------------------------------------------------------
(* Signals. *)

\* Where a program stands tells what it has installed and blocked.
GapInv ==
    /\ line \in Nat \ {0} /\ delivered \in Nat /\ waiting \in BOOLEAN
    /\ handler \in [Si!Sig -> {"default", "count", "stop", "initial", "debug", "print", "exit"}]
    /\ waiting => (program = "receiver" /\ line = 6) \/ (program = "user" /\ line = 3)
    /\ program # "sigaction" => flags = {}
    /\ program \in {"count", "sigaction", "menu"} /\ line >= 2 =>
          handler["INT"] # "default" \/ ("RESETHAND" \in flags /\ delivered >= 1)
    /\ program \in {"receiver", "user"} /\ line >= 2 => handler["USR1"] # "default"
    /\ program = "user" /\ line >= 3 => handler["USR2"] # "default"
    /\ program = "list" /\ line >= 2 => "INT" \in blocked /\ "USR1" \in blocked
    /\ program = "check" /\ line \in {2, 3} => "INT" \in blocked
    /\ Si!KilledNeedsGap

\* A signal sent while blocked waits for the unblocking, which is behind the
\* instalment of the second handler.
HeardInv ==
    /\ program # "receiver" => \A s \in Si!Sig : handler[s] # "initial"
    /\ program = "receiver" =>
          /\ line = 1 => "USR1" \notin queued /\ "USR1" \notin blocked
          /\ line >= 5 => handler["USR1"] = "debug"
          /\ "USR1" \in queued /\ handler["USR1"] = "initial" => "USR1" \in blocked
    /\ Si!BlockedIsHeardLate

\* What a handler is about to store is behind what was delivered by as many as are
\* on the stack with it.
CountInv ==
    program \in {"count", "sigaction"} =>
       /\ line \in {1, 2} /\ count \in Nat /\ delivered \in Nat
       /\ frames \in Seq([sig : {"INT"}, does : {"count"}, loaded : Nat])
       /\ count + Len(frames) <= delivered
       /\ \A i \in 1 .. Len(frames) : frames[i].loaded + i <= delivered
       /\ handler["INT"] \in {"default", "count"}
       /\ fate = "exited" => delivered >= 3
       /\ "NODEFER" \notin flags =>
             /\ Len(frames) <= 1
             /\ count + Len(frames) = delivered
             /\ \A i \in 1 .. Len(frames) : frames[i].loaded = count
             /\ delivered <= 3
             /\ fate = "running" => count <= 2

SignalsInv == program \in Si!Programs => GapInv /\ HeardInv /\ CountInv

\* An instruction with no, one and two arguments.
Ins1(a) == <<a>>
Ins2(a, b) == <<a, b>>
Ins3(a, b, c) == <<a, b, c>>

\* The parts of an instruction, and of the one main is at.
LEMMA InsParts ==
    ASSUME NEW a, NEW b, NEW c
    PROVE  /\ Ins1(a)[1] = a
           /\ Ins2(a, b)[1] = a /\ Ins2(a, b)[2] = b
           /\ Ins3(a, b, c)[1] = a /\ Ins3(a, b, c)[2] = b /\ Ins3(a, b, c)[3] = c
BY DEF Ins1, Ins2, Ins3

\* What an instruction of main is, by the program and the line.
Says(op, k, i) == line = k /\ op = i[1] /\ Si!Text[program][line] = i

\* What a line says gives the parts of the instruction.
LEMMA SaysParts ==
    ASSUME NEW op, NEW k, NEW a, NEW b, NEW c
    PROVE  /\ Says(op, k, Ins1(a)) => line = k /\ op = a
           /\ Says(op, k, Ins2(a, b)) => line = k /\ op = a /\ Si!Arg = b
           /\ Says(op, k, Ins3(a, b, c)) =>
                 line = k /\ op = a /\ Si!Arg = b /\ Si!Text[program][line][3] = c
BY InsParts DEF Says, Si!Arg

\* The texts of the signal exercises, line by line.
LEMMA CountLine ==
    ASSUME program = "count", line \in Nat \ {0}
    PROVE  /\ Len(Si!Text[program]) = 2
           /\ \A op : Si!Is(op) =>
                \/ line = 1 /\ op = "handle" /\ Si!Arg = "INT"
                   /\ Si!Text[program][line][3] = "count"
                \/ line = 2 /\ op = "spin"
<1>1. Tells2(Si!Text[program], Ins3("handle", "INT", "count"), Ins1("spin"))
  BY DEF Tells2, Ins1, Ins3, Si!Text, Si!CountInt
<1>2. /\ Len(Si!Text[program]) = 2
      /\ line <= 2 =>
           \/ At(Si!Text[program], line, 1, Ins3("handle", "INT", "count"))
           \/ At(Si!Text[program], line, 2, Ins1("spin"))
  BY ONLY <1>1, Tell2, line \in Nat \ {0}
<1>3. Len(Si!Text[program]) = 2
  BY <1>2
<1>4. ASSUME NEW op, Si!Is(op)
      PROVE  \/ line = 1 /\ op = "handle" /\ Si!Arg = "INT" /\ Si!Text[program][line][3] = "count"
             \/ line = 2 /\ op = "spin"
  <2>1. line <= 2 /\ Si!Text[program][line][1] = op
    BY ONLY <1>3, <1>4 DEF Si!Is
  <2>2. \/ Says(op, 1, Ins3("handle", "INT", "count"))
        \/ Says(op, 2, Ins1("spin"))
    BY ONLY <1>2, <2>1 DEF Says, At
  <2> QED BY ONLY <2>2, SaysParts
<1> QED BY <1>3, <1>4

\* The same with sigaction.
LEMMA SigactionLine ==
    ASSUME program = "sigaction", line \in Nat \ {0}
    PROVE  /\ Len(Si!Text[program]) = 2
           /\ \A op : Si!Is(op) =>
                \/ line = 1 /\ op = "handle" /\ Si!Arg = "INT"
                   /\ Si!Text[program][line][3] = "count"
                \/ line = 2 /\ op = "spin"
<1>1. Tells2(Si!Text[program], Ins3("handle", "INT", "count"), Ins1("spin"))
  BY DEF Tells2, Ins1, Ins3, Si!Text, Si!SigAction
<1>2. /\ Len(Si!Text[program]) = 2
      /\ line <= 2 =>
           \/ At(Si!Text[program], line, 1, Ins3("handle", "INT", "count"))
           \/ At(Si!Text[program], line, 2, Ins1("spin"))
  BY ONLY <1>1, Tell2, line \in Nat \ {0}
<1>3. Len(Si!Text[program]) = 2
  BY <1>2
<1>4. ASSUME NEW op, Si!Is(op)
      PROVE  \/ line = 1 /\ op = "handle" /\ Si!Arg = "INT" /\ Si!Text[program][line][3] = "count"
             \/ line = 2 /\ op = "spin"
  <2>1. line <= 2 /\ Si!Text[program][line][1] = op
    BY ONLY <1>3, <1>4 DEF Si!Is
  <2>2. \/ Says(op, 1, Ins3("handle", "INT", "count"))
        \/ Says(op, 2, Ins1("spin"))
    BY ONLY <1>2, <2>1 DEF Says, At
  <2> QED BY ONLY <2>2, SaysParts
<1> QED BY <1>3, <1>4

\* The one that lists the signals it blocks.
LEMMA ListLine ==
    ASSUME program = "list", line \in Nat \ {0}
    PROVE  /\ Len(Si!Text[program]) = 2
           /\ \A op : Si!Is(op) =>
                \/ line = 1 /\ op = "block" /\ Si!Arg = {"INT", "USR1"}
                \/ line = 2 /\ op = "list"
<1>1. Tells2(Si!Text[program], Ins2("block", {"INT", "USR1"}), Ins1("list"))
  BY DEF Tells2, Ins1, Ins2, Si!Text, Si!ListMask
<1>2. /\ Len(Si!Text[program]) = 2
      /\ line <= 2 =>
           \/ At(Si!Text[program], line, 1, Ins2("block", {"INT", "USR1"}))
           \/ At(Si!Text[program], line, 2, Ins1("list"))
  BY ONLY <1>1, Tell2, line \in Nat \ {0}
<1>3. Len(Si!Text[program]) = 2
  BY <1>2
<1>4. ASSUME NEW op, Si!Is(op)
      PROVE  \/ line = 1 /\ op = "block" /\ Si!Arg = {"INT", "USR1"}
             \/ line = 2 /\ op = "list"
  <2>1. line <= 2 /\ Si!Text[program][line][1] = op
    BY ONLY <1>3, <1>4 DEF Si!Is
  <2>2. \/ Says(op, 1, Ins2("block", {"INT", "USR1"}))
        \/ Says(op, 2, Ins1("list"))
    BY ONLY <1>2, <2>1 DEF Says, At
  <2> QED BY ONLY <2>2, SaysParts
<1> QED BY <1>3, <1>4

\* The one that leaves if a signal is pending.
LEMMA CheckLine ==
    ASSUME program = "check", line \in Nat \ {0}
    PROVE  /\ Len(Si!Text[program]) = 4
           /\ \A op : Si!Is(op) =>
                \/ line = 1 /\ op = "block" /\ Si!Arg = {"INT"}
                \/ line = 2 /\ op = "sleep"
                \/ line = 3 /\ op = "exit if pending" /\ Si!Arg = "INT"
                \/ line = 4 /\ op = "unblock" /\ Si!Arg = {"INT"}
<1>1. Tells4(Si!Text[program], Ins2("block", {"INT"}), Ins1("sleep"),
           Ins2("exit if pending", "INT"), Ins2("unblock", {"INT"}))
  BY DEF Tells4, Ins1, Ins2, Si!Text, Si!CheckPending
<1>2. /\ Len(Si!Text[program]) = 4
      /\ line <= 4 =>
           \/ At(Si!Text[program], line, 1, Ins2("block", {"INT"}))
           \/ At(Si!Text[program], line, 2, Ins1("sleep"))
           \/ At(Si!Text[program], line, 3, Ins2("exit if pending", "INT"))
           \/ At(Si!Text[program], line, 4, Ins2("unblock", {"INT"}))
  BY ONLY <1>1, Tell4, line \in Nat \ {0}
<1>3. Len(Si!Text[program]) = 4
  BY <1>2
<1>4. ASSUME NEW op, Si!Is(op)
      PROVE  \/ line = 1 /\ op = "block" /\ Si!Arg = {"INT"}
             \/ line = 2 /\ op = "sleep"
             \/ line = 3 /\ op = "exit if pending" /\ Si!Arg = "INT"
             \/ line = 4 /\ op = "unblock" /\ Si!Arg = {"INT"}
  <2>1. line <= 4 /\ Si!Text[program][line][1] = op
    BY ONLY <1>3, <1>4 DEF Si!Is
  <2>2. \/ Says(op, 1, Ins2("block", {"INT"}))
        \/ Says(op, 2, Ins1("sleep"))
        \/ Says(op, 3, Ins2("exit if pending", "INT"))
        \/ Says(op, 4, Ins2("unblock", {"INT"}))
    BY ONLY <1>2, <2>1 DEF Says, At
  <2> QED BY ONLY <2>2, SaysParts
<1> QED BY <1>3, <1>4

\* The one with a menu.
LEMMA MenuLine ==
    ASSUME program = "menu", line \in Nat \ {0}
    PROVE  /\ Len(Si!Text[program]) = 2
           /\ \A op : Si!Is(op) =>
                \/ line = 1 /\ op = "handle" /\ Si!Arg = "INT" /\ Si!Text[program][line][3] = "stop"
                \/ line = 2 /\ op = "menu"
<1>1. Tells2(Si!Text[program], Ins3("handle", "INT", "stop"), Ins1("menu"))
  BY DEF Tells2, Ins1, Ins3, Si!Text, Si!Menu
<1>2. /\ Len(Si!Text[program]) = 2
      /\ line <= 2 =>
           \/ At(Si!Text[program], line, 1, Ins3("handle", "INT", "stop"))
           \/ At(Si!Text[program], line, 2, Ins1("menu"))
  BY ONLY <1>1, Tell2, line \in Nat \ {0}
<1>3. Len(Si!Text[program]) = 2
  BY <1>2
<1>4. ASSUME NEW op, Si!Is(op)
      PROVE  \/ line = 1 /\ op = "handle" /\ Si!Arg = "INT" /\ Si!Text[program][line][3] = "stop"
             \/ line = 2 /\ op = "menu"
  <2>1. line <= 2 /\ Si!Text[program][line][1] = op
    BY ONLY <1>3, <1>4 DEF Si!Is
  <2>2. \/ Says(op, 1, Ins3("handle", "INT", "stop"))
        \/ Says(op, 2, Ins1("menu"))
    BY ONLY <1>2, <2>1 DEF Says, At
  <2> QED BY ONLY <2>2, SaysParts
<1> QED BY <1>3, <1>4

\* The receiver.
LEMMA ReceiverLine ==
    ASSUME program = "receiver", line \in Nat \ {0}
    PROVE  /\ Len(Si!Text[program]) = 6
           /\ \A op : Si!Is(op) =>
                \/ line = 1 /\ op = "handle" /\ Si!Arg = "USR1"
                   /\ Si!Text[program][line][3] = "initial"
                \/ line = 2 /\ op = "block" /\ Si!Arg = {"USR1"}
                \/ line = 3 /\ op = "sleep"
                \/ line = 4 /\ op = "handle" /\ Si!Arg = "USR1"
                   /\ Si!Text[program][line][3] = "debug"
                \/ line = 5 /\ op = "unblock" /\ Si!Arg = {"USR1"}
                \/ line = 6 /\ op = "pause"
<1>1. Tells6(Si!Text[program], Ins3("handle", "USR1", "initial"), Ins2("block", {"USR1"}),
           Ins1("sleep"), Ins3("handle", "USR1", "debug"),
           Ins2("unblock", {"USR1"}), Ins1("pause"))
  BY DEF Tells6, Ins1, Ins2, Ins3, Si!Text, Si!Receiver
<1>2. /\ Len(Si!Text[program]) = 6
      /\ line <= 6 =>
           \/ At(Si!Text[program], line, 1, Ins3("handle", "USR1", "initial"))
           \/ At(Si!Text[program], line, 2, Ins2("block", {"USR1"}))
           \/ At(Si!Text[program], line, 3, Ins1("sleep"))
           \/ At(Si!Text[program], line, 4, Ins3("handle", "USR1", "debug"))
           \/ At(Si!Text[program], line, 5, Ins2("unblock", {"USR1"}))
           \/ At(Si!Text[program], line, 6, Ins1("pause"))
  BY ONLY <1>1, Tell6, line \in Nat \ {0}
<1>3. Len(Si!Text[program]) = 6
  BY <1>2
<1>4. ASSUME NEW op, Si!Is(op)
      PROVE  \/ line = 1 /\ op = "handle" /\ Si!Arg = "USR1"
                /\ Si!Text[program][line][3] = "initial"
             \/ line = 2 /\ op = "block" /\ Si!Arg = {"USR1"}
             \/ line = 3 /\ op = "sleep"
             \/ line = 4 /\ op = "handle" /\ Si!Arg = "USR1" /\ Si!Text[program][line][3] = "debug"
             \/ line = 5 /\ op = "unblock" /\ Si!Arg = {"USR1"}
             \/ line = 6 /\ op = "pause"
  <2>1. line <= 6 /\ Si!Text[program][line][1] = op
    BY ONLY <1>3, <1>4 DEF Si!Is
  <2>2. \/ Says(op, 1, Ins3("handle", "USR1", "initial"))
        \/ Says(op, 2, Ins2("block", {"USR1"}))
        \/ Says(op, 3, Ins1("sleep"))
        \/ Says(op, 4, Ins3("handle", "USR1", "debug"))
        \/ Says(op, 5, Ins2("unblock", {"USR1"}))
        \/ Says(op, 6, Ins1("pause"))
    BY ONLY <1>2, <2>1 DEF Says, At
  <2> QED BY ONLY <2>2, SaysParts
<1> QED BY <1>3, <1>4

\* The one that waits for the signals of a user.
LEMMA UserLine ==
    ASSUME program = "user", line \in Nat \ {0}
    PROVE  /\ Len(Si!Text[program]) = 3
           /\ \A op : Si!Is(op) =>
                \/ line = 1 /\ op = "handle" /\ Si!Arg = "USR1"
                   /\ Si!Text[program][line][3] = "print"
                \/ line = 2 /\ op = "handle" /\ Si!Arg = "USR2"
                   /\ Si!Text[program][line][3] = "exit"
                \/ line = 3 /\ op = "pause for ever"
<1>1. Tells3(Si!Text[program], Ins3("handle", "USR1", "print"), Ins3("handle", "USR2", "exit"),
           Ins1("pause for ever"))
  BY DEF Tells3, Ins1, Ins3, Si!Text, Si!UserSignals
<1>2. /\ Len(Si!Text[program]) = 3
      /\ line <= 3 =>
           \/ At(Si!Text[program], line, 1, Ins3("handle", "USR1", "print"))
           \/ At(Si!Text[program], line, 2, Ins3("handle", "USR2", "exit"))
           \/ At(Si!Text[program], line, 3, Ins1("pause for ever"))
  BY ONLY <1>1, Tell3, line \in Nat \ {0}
<1>3. Len(Si!Text[program]) = 3
  BY <1>2
<1>4. ASSUME NEW op, Si!Is(op)
      PROVE  \/ line = 1 /\ op = "handle" /\ Si!Arg = "USR1" /\ Si!Text[program][line][3] = "print"
             \/ line = 2 /\ op = "handle" /\ Si!Arg = "USR2" /\ Si!Text[program][line][3] = "exit"
             \/ line = 3 /\ op = "pause for ever"
  <2>1. line <= 3 /\ Si!Text[program][line][1] = op
    BY ONLY <1>3, <1>4 DEF Si!Is
  <2>2. \/ Says(op, 1, Ins3("handle", "USR1", "print"))
        \/ Says(op, 2, Ins3("handle", "USR2", "exit"))
        \/ Says(op, 3, Ins1("pause for ever"))
    BY ONLY <1>2, <2>1 DEF Says, At
  <2> QED BY ONLY <2>2, SaysParts
<1> QED BY <1>3, <1>4

\* Which instruction of which program main can be at.
LEMMA HandleLine ==
    ASSUME program \in Si!Programs, line \in Nat \ {0}, Si!Is("handle")
    PROVE  \/ /\ program \in {"count", "sigaction"} /\ line = 1
              /\ Si!Arg = "INT" /\ Si!Text[program][line][3] = "count"
           \/ /\ program = "menu" /\ line = 1
              /\ Si!Arg = "INT" /\ Si!Text[program][line][3] = "stop"
           \/ /\ program = "receiver" /\ Si!Arg = "USR1"
              /\ \/ line = 1 /\ Si!Text[program][line][3] = "initial"
                 \/ line = 4 /\ Si!Text[program][line][3] = "debug"
           \/ /\ program = "user"
              /\ \/ line = 1 /\ Si!Arg = "USR1" /\ Si!Text[program][line][3] = "print"
                 \/ line = 2 /\ Si!Arg = "USR2" /\ Si!Text[program][line][3] = "exit"
<1>1. \/ program = "count" \/ program = "sigaction" \/ program = "list" \/ program = "check"
      \/ program = "menu" \/ program = "receiver" \/ program = "user"
  BY DEF Si!Programs, Si!Text
<1>2. program = "count" =>
        line = 1 /\ Si!Arg = "INT" /\ Si!Text[program][line][3] = "count"
  BY CountLine DEF Si!Is
<1>3. program = "sigaction" =>
        line = 1 /\ Si!Arg = "INT" /\ Si!Text[program][line][3] = "count"
  BY SigactionLine DEF Si!Is
<1>4. program # "list"
  BY ListLine DEF Si!Is
<1>5. program # "check"
  BY CheckLine DEF Si!Is
<1>6. program = "menu" =>
        line = 1 /\ Si!Arg = "INT" /\ Si!Text[program][line][3] = "stop"
  BY MenuLine DEF Si!Is
<1>7. program = "receiver" =>
        \/ line = 1 /\ Si!Arg = "USR1" /\ Si!Text[program][line][3] = "initial"
        \/ line = 4 /\ Si!Arg = "USR1" /\ Si!Text[program][line][3] = "debug"
  BY ReceiverLine DEF Si!Is
<1>8. program = "user" =>
        \/ line = 1 /\ Si!Arg = "USR1" /\ Si!Text[program][line][3] = "print"
        \/ line = 2 /\ Si!Arg = "USR2" /\ Si!Text[program][line][3] = "exit"
  BY UserLine DEF Si!Is
<1> QED BY ONLY <1>1, <1>2, <1>3, <1>4, <1>5, <1>6, <1>7, <1>8

\* Which programs block signals, unblock them, let time pass, look, choose and wait.
LEMMA BlockLine ==
    ASSUME program \in Si!Programs, line \in Nat \ {0}, Si!Is("block")
    PROVE  \/ program = "list" /\ line = 1 /\ Si!Arg = {"INT", "USR1"}
           \/ program = "check" /\ line = 1 /\ Si!Arg = {"INT"}
           \/ program = "receiver" /\ line = 2 /\ Si!Arg = {"USR1"}
<1>1. \/ program = "count" \/ program = "sigaction" \/ program = "list" \/ program = "check"
      \/ program = "menu" \/ program = "receiver" \/ program = "user"
  BY DEF Si!Programs, Si!Text
<1>2. program # "count"
  BY CountLine DEF Si!Is
<1>3. program # "sigaction"
  BY SigactionLine DEF Si!Is
<1>4. program = "list" =>
        line = 1 /\ Si!Arg = {"INT", "USR1"}
  BY ListLine DEF Si!Is
<1>5. program = "check" =>
        line = 1 /\ Si!Arg = {"INT"}
  BY CheckLine DEF Si!Is
<1>6. program # "menu"
  BY MenuLine DEF Si!Is
<1>7. program = "receiver" =>
        line = 2 /\ Si!Arg = {"USR1"}
  BY ReceiverLine DEF Si!Is
<1>8. program # "user"
  BY UserLine DEF Si!Is
<1> QED BY ONLY <1>1, <1>2, <1>3, <1>4, <1>5, <1>6, <1>7, <1>8

\* Which of them unblock.
LEMMA UnblockLine ==
    ASSUME program \in Si!Programs, line \in Nat \ {0}, Si!Is("unblock")
    PROVE  (program = "check" /\ line = 4) \/ (program = "receiver" /\ line = 5)
<1>1. \/ program = "count" \/ program = "sigaction" \/ program = "list" \/ program = "check"
      \/ program = "menu" \/ program = "receiver" \/ program = "user"
  BY DEF Si!Programs, Si!Text
<1>2. program # "count"
  BY CountLine DEF Si!Is
<1>3. program # "sigaction"
  BY SigactionLine DEF Si!Is
<1>4. program # "list"
  BY ListLine DEF Si!Is
<1>5. program = "check" =>
        line = 4
  BY CheckLine DEF Si!Is
<1>6. program # "menu"
  BY MenuLine DEF Si!Is
<1>7. program = "receiver" =>
        line = 5
  BY ReceiverLine DEF Si!Is
<1>8. program # "user"
  BY UserLine DEF Si!Is
<1> QED BY ONLY <1>1, <1>2, <1>3, <1>4, <1>5, <1>6, <1>7, <1>8

\* Which of them let time pass.
LEMMA PassLine ==
    ASSUME program \in Si!Programs, line \in Nat \ {0}, Si!Is("sleep") \/ Si!Is("list")
    PROVE  (program \in {"list", "check"} /\ line = 2) \/ (program = "receiver" /\ line = 3)
<1>1. \/ program = "count" \/ program = "sigaction" \/ program = "list" \/ program = "check"
      \/ program = "menu" \/ program = "receiver" \/ program = "user"
  BY DEF Si!Programs, Si!Text
<1>2. program # "count"
  BY CountLine DEF Si!Is
<1>3. program # "sigaction"
  BY SigactionLine DEF Si!Is
<1>4. program = "list" =>
        line = 2
  BY ListLine DEF Si!Is
<1>5. program = "check" =>
        line = 2
  BY CheckLine DEF Si!Is
<1>6. program # "menu"
  BY MenuLine DEF Si!Is
<1>7. program = "receiver" =>
        line = 3
  BY ReceiverLine DEF Si!Is
<1>8. program # "user"
  BY UserLine DEF Si!Is
<1> QED BY ONLY <1>1, <1>2, <1>3, <1>4, <1>5, <1>6, <1>7, <1>8

\* Which of them looks at what is pending.
LEMMA CheckingLine ==
    ASSUME program \in Si!Programs, line \in Nat \ {0}, Si!Is("exit if pending")
    PROVE  program = "check" /\ line = 3
<1>1. \/ program = "count" \/ program = "sigaction" \/ program = "list" \/ program = "check"
      \/ program = "menu" \/ program = "receiver" \/ program = "user"
  BY DEF Si!Programs, Si!Text
<1>2. program # "count"
  BY CountLine DEF Si!Is
<1>3. program # "sigaction"
  BY SigactionLine DEF Si!Is
<1>4. program # "list"
  BY ListLine DEF Si!Is
<1>5. program = "check" =>
        line = 3
  BY CheckLine DEF Si!Is
<1>6. program # "menu"
  BY MenuLine DEF Si!Is
<1>7. program # "receiver"
  BY ReceiverLine DEF Si!Is
<1>8. program # "user"
  BY UserLine DEF Si!Is
<1> QED BY ONLY <1>1, <1>2, <1>3, <1>4, <1>5, <1>6, <1>7, <1>8

\* Which of them lets one choose.
LEMMA ChooseLine ==
    ASSUME program \in Si!Programs, line \in Nat \ {0}, Si!Is("menu")
    PROVE  program = "menu"
<1>1. \/ program = "count" \/ program = "sigaction" \/ program = "list" \/ program = "check"
      \/ program = "menu" \/ program = "receiver" \/ program = "user"
  BY DEF Si!Programs, Si!Text
<1>2. program # "count"
  BY CountLine DEF Si!Is
<1>3. program # "sigaction"
  BY SigactionLine DEF Si!Is
<1>4. program # "list"
  BY ListLine DEF Si!Is
<1>5. program # "check"
  BY CheckLine DEF Si!Is
<1>6. program = "menu" =>
        line = 2
  BY MenuLine DEF Si!Is
<1>7. program # "receiver"
  BY ReceiverLine DEF Si!Is
<1>8. program # "user"
  BY UserLine DEF Si!Is
<1> QED BY ONLY <1>1, <1>2, <1>3, <1>4, <1>5, <1>6, <1>7, <1>8

\* Which of them wait.
LEMMA PauseLine ==
    ASSUME program \in Si!Programs, line \in Nat \ {0}, Si!Is("pause") \/ Si!Is("pause for ever")
    PROVE  (program = "receiver" /\ line = 6) \/ (program = "user" /\ line = 3)
<1>1. \/ program = "count" \/ program = "sigaction" \/ program = "list" \/ program = "check"
      \/ program = "menu" \/ program = "receiver" \/ program = "user"
  BY DEF Si!Programs, Si!Text
<1>2. program # "count"
  BY CountLine DEF Si!Is
<1>3. program # "sigaction"
  BY SigactionLine DEF Si!Is
<1>4. program # "list"
  BY ListLine DEF Si!Is
<1>5. program # "check"
  BY CheckLine DEF Si!Is
<1>6. program # "menu"
  BY MenuLine DEF Si!Is
<1>7. program = "receiver" =>
        line = 6
  BY ReceiverLine DEF Si!Is
<1>8. program = "user" =>
        line = 3
  BY UserLine DEF Si!Is
<1> QED BY ONLY <1>1, <1>2, <1>3, <1>4, <1>5, <1>6, <1>7, <1>8

\* What the programs are about, and what a step leaves alone.
LEMMA AboutParts ==
    ASSUME program \in Si!Programs, NEW s \in Si!About[program]
    PROVE  /\ s \in Si!Sig
           /\ program \in {"count", "sigaction", "check", "menu"} => s = "INT"
           /\ program = "list" => s \in {"INT", "USR1"}
           /\ program = "receiver" => s = "USR1"
           /\ program = "user" => s \in {"USR1", "USR2"}
           /\ program \in {"count", "sigaction", "list", "check", "menu", "receiver", "user"}
BY DEF Si!Programs, Si!Text, Si!About, Si!Sig

\* Main installs and blocks what its text says before it goes on; deliveries only
\* take a handler away where the flags say so.
LEMMA GapStep ==
    GapInv /\ program \in Si!Programs /\ Si!Next /\ program' = program => GapInv'
<1> SUFFICES ASSUME GapInv, program \in Si!Programs, Si!Next, program' = program
             PROVE  GapInv'
  OBVIOUS
<1>1. line \in Nat \ {0}
  BY DEF GapInv
<1>2. CASE Si!Handle
  <2>1. Si!Is("handle") /\ Si!KilledNeedsGap
    BY <1>2 DEF Si!Handle, GapInv
  <2>2. fate' = "running"
    BY <1>2 DEF Si!Handle, Si!Is
  <2>3. handler' = [handler EXCEPT ![Si!Arg] = Si!Text[program][line][3]]
        /\ line' = line + 1 /\ UNCHANGED <<waiting, flags, blocked, delivered>>
    BY <1>2 DEF Si!Handle, Si!masks
  <2>4. Si!Sig = {"INT", "USR1", "USR2"}
    BY DEF Si!Sig
  <2>5. Si!KilledNeedsGap'
    BY <2>2 DEF Si!KilledNeedsGap
  <2>6. \/ /\ program \in {"count", "sigaction"} /\ line = 1
           /\ Si!Arg = "INT" /\ Si!Text[program][line][3] = "count"
        \/ /\ program = "menu" /\ line = 1
           /\ Si!Arg = "INT" /\ Si!Text[program][line][3] = "stop"
        \/ /\ program = "receiver" /\ Si!Arg = "USR1"
           /\ \/ line = 1 /\ Si!Text[program][line][3] = "initial"
              \/ line = 4 /\ Si!Text[program][line][3] = "debug"
        \/ /\ program = "user"
           /\ \/ line = 1 /\ Si!Arg = "USR1" /\ Si!Text[program][line][3] = "print"
              \/ line = 2 /\ Si!Arg = "USR2" /\ Si!Text[program][line][3] = "exit"
    BY <1>1, <2>1, HandleLine
  <2> QED BY ONLY GapInv, <2>3, <2>4, <2>5, <2>6, program' = program DEF GapInv
<1>3. CASE Si!Block
  <2>1. Si!Is("block")
    BY <1>3 DEF Si!Block
  <2>2. fate' = "running"
    BY <1>3 DEF Si!Block, Si!Is
  <2>3. blocked' = blocked \cup Si!Arg
        /\ line' = line + 1 /\ UNCHANGED <<waiting, flags, handler, delivered>>
    BY <1>3 DEF Si!Block, Si!handlers
  <2>4. Si!KilledNeedsGap'
    BY <2>2 DEF Si!KilledNeedsGap
  <2>5. \/ program = "list" /\ line = 1 /\ Si!Arg = {"INT", "USR1"}
        \/ program = "check" /\ line = 1 /\ Si!Arg = {"INT"}
        \/ program = "receiver" /\ line = 2 /\ Si!Arg = {"USR1"}
    BY <1>1, <2>1, BlockLine
  <2> QED BY ONLY GapInv, <2>3, <2>4, <2>5, program' = program DEF GapInv
<1>4. CASE Si!Unblock
  <2>1. Si!Is("unblock")
    BY <1>4 DEF Si!Unblock
  <2>2. fate' = "running"
    BY <1>4 DEF Si!Unblock, Si!Is
  <2>3. line' = line + 1 /\ UNCHANGED <<waiting, flags, handler, delivered>>
    BY <1>4 DEF Si!Unblock, Si!handlers
  <2>4. Si!KilledNeedsGap'
    BY <2>2 DEF Si!KilledNeedsGap
  <2>5. (program = "check" /\ line = 4) \/ (program = "receiver" /\ line = 5)
    BY <1>1, <2>1, UnblockLine
  <2> QED BY ONLY GapInv, <2>3, <2>4, <2>5, program' = program DEF GapInv
<1>5. CASE Si!Pass
  <2>1. Si!Is("sleep") \/ Si!Is("list")
    BY <1>5 DEF Si!Pass
  <2>2. fate' = "running"
    BY <1>5 DEF Si!Pass, Si!Is
  <2>3. line' = line + 1 /\ UNCHANGED <<waiting, flags, handler, blocked, delivered>>
    BY <1>5 DEF Si!Pass, Si!handlers, Si!masks
  <2>4. Si!KilledNeedsGap'
    BY <2>2 DEF Si!KilledNeedsGap
  <2>5. (program \in {"list", "check"} /\ line = 2) \/ (program = "receiver" /\ line = 3)
    BY <1>1, <2>1, PassLine
  <2> QED BY ONLY GapInv, <2>3, <2>4, <2>5, program' = program DEF GapInv
<1>6. CASE Si!Check
  <2>1. Si!Is("exit if pending")
    BY <1>6 DEF Si!Check
  <2>2. fate' # "killed"
    BY <1>6 DEF Si!Check, Si!Is
  <2>3. line' \in {line, line + 1} /\ UNCHANGED <<waiting, flags, handler, blocked, delivered>>
    BY <1>6 DEF Si!Check, Si!handlers, Si!masks
  <2>4. Si!KilledNeedsGap'
    BY <2>2 DEF Si!KilledNeedsGap
  <2>5. program = "check" /\ line = 3
    BY <1>1, <2>1, CheckingLine
  <2> QED BY ONLY GapInv, <2>3, <2>4, <2>5, program' = program DEF GapInv
<1>7. CASE Si!Choose \/ Si!Return \/ \E s \in Si!About[program] : Si!Send(s)
  <2>1. fate' # "killed"
    BY <1>7 DEF Si!Choose, Si!Return, Si!Send, Si!Is
  <2>2. UNCHANGED <<line, waiting, flags, handler, blocked, delivered>>
    BY <1>7 DEF Si!Choose, Si!Return, Si!Send, Si!handlers, Si!masks
  <2>3. Si!KilledNeedsGap'
    BY <2>1 DEF Si!KilledNeedsGap
  <2> QED BY ONLY GapInv, <2>2, <2>3, program' = program DEF GapInv
<1>8. CASE Si!Pause
  <2>1. Si!Is("pause") \/ Si!Is("pause for ever")
    BY <1>8 DEF Si!Pause
  <2>2. fate' = "running"
    BY <1>8 DEF Si!Pause, Si!Is
  <2>3. waiting' = TRUE /\ UNCHANGED <<line, flags, handler, blocked, delivered>>
    BY <1>8 DEF Si!Pause, Si!handlers, Si!masks
  <2>4. Si!KilledNeedsGap'
    BY <2>2 DEF Si!KilledNeedsGap
  <2>5. (program = "receiver" /\ line = 6) \/ (program = "user" /\ line = 3)
    BY <1>1, <2>1, PauseLine
  <2> QED BY ONLY GapInv, <2>3, <2>4, <2>5, program' = program DEF GapInv
<1>9. CASE Si!HandlerEnds
  <2>1. fate' # "killed"
    BY <1>9 DEF Si!HandlerEnds
  <2>2. /\ ~ waiting' /\ waiting' \in BOOLEAN
        /\ line' = line \/ (waiting /\ line' = line + 1)
        /\ UNCHANGED <<flags, handler, blocked, delivered>>
    BY <1>9 DEF Si!HandlerEnds, Si!masks
  <2>3. Si!KilledNeedsGap'
    BY <2>1 DEF Si!KilledNeedsGap
  <2>4. CASE line' = line
    BY ONLY GapInv, <2>2, <2>3, <2>4, program' = program DEF GapInv
  <2>5. CASE waiting /\ line' = line + 1
    <3>1. CASE program = "receiver" /\ line = 6
      BY ONLY GapInv, <2>2, <2>3, <2>5, <3>1, program' = program DEF GapInv
    <3>2. CASE program = "user" /\ line = 3
      BY ONLY GapInv, <2>2, <2>3, <2>5, <3>2, program' = program DEF GapInv
    <3> QED BY <2>5, <3>1, <3>2 DEF GapInv
  <2> QED BY <2>2, <2>4, <2>5
<1>10. ASSUME NEW s \in Si!About[program], Si!Deliver(s) PROVE GapInv'
  <2>1. fate' # "killed"
    BY <1>10 DEF Si!Deliver, Si!Deliverable
  <2>2. UNCHANGED <<line, waiting, flags, blocked>> /\ delivered' = delivered + 1
    BY <1>10 DEF Si!Deliver
  <2>3. handler' = IF "RESETHAND" \in flags THEN [handler EXCEPT ![s] = "default"] ELSE handler
    BY <1>10 DEF Si!Deliver
  <2>4. Si!KilledNeedsGap'
    BY <2>1 DEF Si!KilledNeedsGap
  <2>5. CASE "RESETHAND" \in flags
    <3>1. program = "sigaction"
      BY <2>5 DEF GapInv
    <3>2. handler' \in [Si!Sig -> {"default", "count", "stop", "initial", "debug", "print", "exit"}]
      BY <2>3, <2>5 DEF GapInv
    <3> QED BY ONLY GapInv, <2>2, <2>4, <2>5, <3>1, <3>2, program' = program DEF GapInv
  <2>6. CASE "RESETHAND" \notin flags
    <3>1. handler' = handler
      BY <2>3, <2>6
    <3> QED BY ONLY GapInv, <2>2, <2>4, <2>6, <3>1, program' = program DEF GapInv
  <2> QED BY <2>5, <2>6
<1>11. ASSUME NEW s \in Si!About[program], Si!DeliverDefault(s) PROVE GapInv'
  <2>1. handler[s] = "default" /\ s \notin blocked
    BY <1>11 DEF Si!DeliverDefault, Si!Deliverable
  <2>2. UNCHANGED <<line, waiting, flags, handler, blocked, delivered>>
    BY <1>11 DEF Si!DeliverDefault, Si!handlers, Si!masks
  <2>3. \/ line = 1
        \/ program = "user" /\ line = 2
        \/ "RESETHAND" \in flags /\ delivered >= 1
        \/ program = "check" /\ line > 3
    BY <1>1, <2>1, AboutParts DEF GapInv
  <2>4. Si!KilledNeedsGap'
    BY <2>2, <2>3 DEF Si!KilledNeedsGap
  <2> QED BY ONLY GapInv, <2>2, <2>4, program' = program DEF GapInv
<1> QED BY <1>2, <1>3, <1>4, <1>5, <1>6, <1>7, <1>8, <1>9, <1>10, <1>11 DEF Si!Next, Si!Main

\* What is sent while it is blocked stays until the unblocking.
LEMMA HeardStep ==
    GapInv /\ HeardInv /\ program \in Si!Programs /\ Si!Next /\ program' = program => HeardInv'
<1> SUFFICES ASSUME GapInv, HeardInv, program \in Si!Programs, Si!Next, program' = program
             PROVE  HeardInv'
  OBVIOUS
<1>1. line \in Nat \ {0}
  BY DEF GapInv
<1>2. CASE Si!Handle
  <2>1. Si!Is("handle")
    BY <1>2 DEF Si!Handle
  <2>2. handler' = [handler EXCEPT ![Si!Arg] = Si!Text[program][line][3]]
        /\ line' = line + 1 /\ UNCHANGED <<blocked, queued, heard>>
    BY <1>2 DEF Si!Handle, Si!masks
  <2>3. Si!BlockedIsHeardLate'
    BY <2>2 DEF HeardInv, Si!BlockedIsHeardLate
  <2>4. \/ /\ program \in {"count", "sigaction"} /\ line = 1
           /\ Si!Arg = "INT" /\ Si!Text[program][line][3] = "count"
        \/ /\ program = "menu" /\ line = 1
           /\ Si!Arg = "INT" /\ Si!Text[program][line][3] = "stop"
        \/ /\ program = "receiver" /\ Si!Arg = "USR1"
           /\ \/ line = 1 /\ Si!Text[program][line][3] = "initial"
              \/ line = 4 /\ Si!Text[program][line][3] = "debug"
        \/ /\ program = "user"
           /\ \/ line = 1 /\ Si!Arg = "USR1" /\ Si!Text[program][line][3] = "print"
              \/ line = 2 /\ Si!Arg = "USR2" /\ Si!Text[program][line][3] = "exit"
    BY <1>1, <2>1, HandleLine
  <2>5. handler \in [Si!Sig -> {"default", "count", "stop", "initial", "debug", "print", "exit"}]
        /\ Si!Sig = {"INT", "USR1", "USR2"}
    BY DEF GapInv, Si!Sig
  <2> QED BY ONLY HeardInv, <2>2, <2>3, <2>4, <2>5, program' = program DEF HeardInv
<1>3. CASE Si!Block
  <2>1. Si!Is("block")
    BY <1>3 DEF Si!Block
  <2>2. blocked' = blocked \cup Si!Arg
        /\ line' = line + 1 /\ UNCHANGED <<queued, handler, heard>>
    BY <1>3 DEF Si!Block, Si!handlers
  <2>3. Si!BlockedIsHeardLate'
    BY <2>2 DEF HeardInv, Si!BlockedIsHeardLate
  <2>4. \/ program = "list" /\ line = 1 /\ Si!Arg = {"INT", "USR1"}
        \/ program = "check" /\ line = 1 /\ Si!Arg = {"INT"}
        \/ program = "receiver" /\ line = 2 /\ Si!Arg = {"USR1"}
    BY <1>1, <2>1, BlockLine
  <2> QED BY ONLY HeardInv, <2>2, <2>3, <2>4, program' = program DEF HeardInv
<1>4. CASE Si!Unblock
  <2>1. Si!Is("unblock")
    BY <1>4 DEF Si!Unblock
  <2>2. line' = line + 1 /\ UNCHANGED <<queued, handler, heard>>
    BY <1>4 DEF Si!Unblock, Si!handlers
  <2>3. Si!BlockedIsHeardLate'
    BY <2>2 DEF HeardInv, Si!BlockedIsHeardLate
  <2>4. (program = "check" /\ line = 4) \/ (program = "receiver" /\ line = 5)
    BY <1>1, <2>1, UnblockLine
  <2> QED BY ONLY HeardInv, <2>2, <2>3, <2>4, program' = program DEF HeardInv
<1>5. CASE Si!Pass
  <2>1. Si!Is("sleep") \/ Si!Is("list")
    BY <1>5 DEF Si!Pass
  <2>2. line' = line + 1 /\ UNCHANGED <<blocked, queued, handler, heard>>
    BY <1>5 DEF Si!Pass, Si!handlers, Si!masks
  <2>3. Si!BlockedIsHeardLate'
    BY <2>2 DEF HeardInv, Si!BlockedIsHeardLate
  <2>4. (program \in {"list", "check"} /\ line = 2) \/ (program = "receiver" /\ line = 3)
    BY <1>1, <2>1, PassLine
  <2> QED BY ONLY HeardInv, <2>2, <2>3, <2>4, program' = program DEF HeardInv
<1>6. CASE Si!Check
  <2>1. Si!Is("exit if pending")
    BY <1>6 DEF Si!Check
  <2>2. UNCHANGED <<handler, heard>>
    BY <1>6 DEF Si!Check, Si!handlers
  <2>3. Si!BlockedIsHeardLate'
    BY <2>2 DEF HeardInv, Si!BlockedIsHeardLate
  <2>4. program = "check"
    BY <1>1, <2>1, CheckingLine
  <2> QED BY ONLY HeardInv, <2>2, <2>3, <2>4, program' = program DEF HeardInv
<1>7. CASE Si!Choose \/ Si!Return \/ Si!Pause \/ \E s \in Si!About[program] : Si!DeliverDefault(s)
  <2>1. UNCHANGED <<line, handler, blocked, queued, heard>>
    BY <1>7 DEF Si!Choose, Si!Return, Si!Pause, Si!DeliverDefault, Si!handlers, Si!masks
  <2>2. Si!BlockedIsHeardLate'
    BY <2>1 DEF HeardInv, Si!BlockedIsHeardLate
  <2> QED BY ONLY HeardInv, <2>1, <2>2, program' = program DEF HeardInv
<1>8. CASE Si!HandlerEnds
  <2>1. /\ line' = line \/ (waiting /\ line' = line + 1)
        /\ UNCHANGED <<handler, blocked, queued, heard>>
    BY <1>8 DEF Si!HandlerEnds, Si!masks
  <2>2. Si!BlockedIsHeardLate'
    BY <2>1 DEF HeardInv, Si!BlockedIsHeardLate
  <2>3. waiting => (program = "receiver" /\ line = 6) \/ (program = "user" /\ line = 3)
    BY DEF GapInv
  <2> QED BY ONLY HeardInv, <1>1, <2>1, <2>2, <2>3, program' = program DEF HeardInv
<1>9. ASSUME NEW s \in Si!About[program], Si!Send(s) PROVE HeardInv'
  <2>1. queued' = (IF s \in blocked THEN queued \cup {s} ELSE queued)
        /\ UNCHANGED <<line, handler, blocked, heard>>
    BY <1>9 DEF Si!Send
  <2>2. Si!BlockedIsHeardLate'
    BY <2>1 DEF HeardInv, Si!BlockedIsHeardLate
  <2> QED BY ONLY HeardInv, <2>1, <2>2, program' = program DEF HeardInv
<1>10. ASSUME NEW s \in Si!About[program], Si!Deliver(s) PROVE HeardInv'
  <2>1. /\ s \notin blocked /\ queued' = queued \ {s}
        /\ heard' = heard \cup {<<handler[s], s \in queued>>}
        /\ UNCHANGED <<line, blocked>>
    BY <1>10 DEF Si!Deliver, Si!Deliverable
  <2>2. handler' = IF "RESETHAND" \in flags THEN [handler EXCEPT ![s] = "default"] ELSE handler
    BY <1>10 DEF Si!Deliver
  <2>3. s \in Si!Sig /\ (program = "receiver" => s = "USR1")
    BY AboutParts
  <2>4. handler[s] = "initial" => s \notin queued
    BY <2>1, <2>3 DEF HeardInv
  <2>5. <<handler[s], s \in queued>> # <<"initial", TRUE>>
    BY <2>4
  <2>6. Si!BlockedIsHeardLate'
    BY <2>1, <2>5 DEF HeardInv, Si!BlockedIsHeardLate
  <2>7. CASE "RESETHAND" \in flags
    <3>1. program # "receiver"
      BY <2>7 DEF GapInv
    <3>2. \A r \in Si!Sig : handler'[r] # "initial"
      <4>1. handler \in [Si!Sig ->
                            {"default", "count", "stop", "initial", "debug", "print", "exit"}]
            /\ \A r \in Si!Sig : handler[r] # "initial"
        BY <3>1 DEF GapInv, HeardInv
      <4>2. handler' = [handler EXCEPT ![s] = "default"]
        BY <2>2, <2>7
      <4> QED BY ONLY <4>1, <4>2
    <3> QED BY ONLY <2>6, <3>1, <3>2, program' = program DEF HeardInv
  <2>8. CASE "RESETHAND" \notin flags
    <3>1. handler' = handler
      BY <2>2, <2>8
    <3> QED BY ONLY HeardInv, <2>1, <2>6, <3>1, program' = program DEF HeardInv
  <2> QED BY <2>7, <2>8
<1> QED BY <1>2, <1>3, <1>4, <1>5, <1>6, <1>7, <1>8, <1>9, <1>10 DEF Si!Next, Si!Main

\* The counting programs have two lines and are told of one signal.
LEMMA Counting ==
    ASSUME GapInv, program \in {"count", "sigaction"}
    PROVE  /\ program \in Si!Programs /\ ~ waiting /\ Len(Si!Text[program]) = 2
           /\ \A s \in Si!About[program] : s = "INT"
<1>1. program \in Si!Programs
  BY DEF Si!Programs, Si!Text
<1>2. line \in Nat \ {0} /\ ~ waiting
  BY DEF GapInv
<1>3. Len(Si!Text[program]) = 2
  BY <1>2, CountLine, SigactionLine
<1> QED BY <1>1, <1>2, <1>3, AboutParts

\* The stack of the counting handlers.
Counters == [sig : {"INT"}, does : {"count"}, loaded : Nat]

\* A handler that is called loads the count behind everything that was delivered.
LEMMA Called ==
    ASSUME NEW f \in Seq(Counters), NEW c \in Nat, NEW d \in Nat, c + Len(f) <= d,
           \A i \in 1 .. Len(f) : f[i].loaded + i <= d,
           NEW g, g = Append(f, [sig |-> "INT", does |-> "count", loaded |-> c])
    PROVE  /\ g \in Seq(Counters) /\ Len(g) = Len(f) + 1
           /\ g[Len(f) + 1].loaded = c
           /\ \A i \in 1 .. Len(g) : g[i].loaded + i <= d + 1
<1>1. [sig |-> "INT", does |-> "count", loaded |-> c] \in Counters
  BY DEF Counters
<1>2. /\ g \in Seq(Counters) /\ Len(g) = Len(f) + 1
      /\ g[Len(f) + 1] = [sig |-> "INT", does |-> "count", loaded |-> c]
      /\ \A i \in 1 .. Len(f) : g[i] = f[i]
  BY <1>1
<1>3. g[Len(f) + 1].loaded = c
  BY <1>2
<1>4. ASSUME NEW i \in 1 .. Len(g) PROVE g[i].loaded + i <= d + 1
  <2>1. CASE i = Len(f) + 1
    BY <1>3, <2>1
  <2>2. CASE i # Len(f) + 1
    <3>1. i \in 1 .. Len(f) /\ g[i] = f[i]
      BY <1>2, <2>2
    <3>2. f[i] \in Counters
      BY <3>1
    <3>3. f[i].loaded + i <= d /\ f[i].loaded \in Nat
      BY <3>1, <3>2 DEF Counters
    <3> QED BY <3>1, <3>3
  <2> QED BY <2>1, <2>2
<1> QED BY <1>2, <1>3, <1>4

\* One that returns leaves the others where they are.
LEMMA Returned ==
    ASSUME NEW f \in Seq(Counters), f # <<>>
    PROVE  /\ SubSeq(f, 1, Len(f) - 1) \in Seq(Counters)
           /\ Len(SubSeq(f, 1, Len(f) - 1)) = Len(f) - 1
           /\ \A i \in 1 .. Len(f) - 1 : SubSeq(f, 1, Len(f) - 1)[i] = f[i]
           /\ Len(f) \in Nat \ {0}
           /\ f[Len(f)].does = "count" /\ f[Len(f)].loaded \in Nat
<1>1. Len(f) \in Nat \ {0}
  OBVIOUS
<1>2. f[Len(f)] \in Counters
  BY <1>1
<1>3. \A i \in 1 .. Len(f) - 1 : f[i] \in Counters
  BY <1>1
<1>4. Len(f) - 1 \in Int /\ 1 \in Int
  BY <1>1
<1>5. /\ SubSeq(f, 1, Len(f) - 1) \in Seq(Counters)
      /\ Len(SubSeq(f, 1, Len(f) - 1)) = IF 1 <= Len(f) - 1 THEN Len(f) - 1 - 1 + 1 ELSE 0
      /\ \A i \in 1 .. Len(f) - 1 - 1 + 1 : SubSeq(f, 1, Len(f) - 1)[i] = f[1 + i - 1]
  BY ONLY <1>3, <1>4, SubSeqProperties
<1>6. \A n \in Nat \ {0} :
         /\ (IF 1 <= n - 1 THEN n - 1 - 1 + 1 ELSE 0) = n - 1
         /\ n - 1 - 1 + 1 = n - 1
         /\ \A i \in 1 .. n - 1 : 1 + i - 1 = i
  OBVIOUS
<1>7. Len(SubSeq(f, 1, Len(f) - 1)) = Len(f) - 1
  BY ONLY <1>1, <1>5, <1>6
<1>8. ASSUME NEW i \in 1 .. Len(f) - 1 PROVE SubSeq(f, 1, Len(f) - 1)[i] = f[i]
  <2>1. 1 + i - 1 = i /\ i \in 1 .. Len(f) - 1 - 1 + 1
    BY ONLY <1>1, <1>6, <1>8
  <2> QED BY ONLY <1>5, <2>1
<1> QED BY <1>1, <1>2, <1>5, <1>7, <1>8 DEF Counters

\* A count is stored for each signal that was delivered, and the third ends it all.
LEMMA CountStep ==
    GapInv /\ CountInv /\ program \in Si!Programs /\ Si!Next /\ program' = program => CountInv'
<1> SUFFICES ASSUME GapInv, CountInv, program \in {"count", "sigaction"}, Si!Next,
                    program' = program
             PROVE  CountInv'
  BY DEF CountInv
<1>1. /\ line \in {1, 2} /\ count \in Nat /\ delivered \in Nat
      /\ frames \in Seq(Counters)
      /\ count + Len(frames) <= delivered
      /\ \A i \in 1 .. Len(frames) : frames[i].loaded + i <= delivered
      /\ handler["INT"] \in {"default", "count"}
      /\ fate = "exited" => delivered >= 3
      /\ "NODEFER" \notin flags =>
            /\ Len(frames) <= 1
            /\ count + Len(frames) = delivered
            /\ \A i \in 1 .. Len(frames) : frames[i].loaded = count
            /\ delivered <= 3
            /\ fate = "running" => count <= 2
  BY DEF CountInv, Counters
<1>2. /\ line \in Nat \ {0} /\ program \in Si!Programs /\ ~ waiting
      /\ Len(Si!Text[program]) = 2
      /\ \A s \in Si!About[program] : s = "INT"
  BY <1>1, Counting
<1>3. CASE Si!Handle
  <2>1. Si!Is("handle")
    BY <1>3 DEF Si!Handle
  <2>2. line = 1 /\ Si!Arg = "INT" /\ Si!Text[program][line][3] = "count"
    BY <1>2, <2>1, HandleLine
  <2>3. handler' = [handler EXCEPT !["INT"] = "count"] /\ line' = 2
    BY <1>3, <2>2 DEF Si!Handle
  <2>4. handler'["INT"] = "count"
    <3>1. "INT" \in DOMAIN handler
      BY DEF GapInv, Si!Sig
    <3> QED BY <2>3, <3>1
  <2>5. UNCHANGED <<flags, frames, count, delivered, fate>>
    BY <1>3 DEF Si!Handle
  <2> QED BY ONLY <1>1, <2>3, <2>4, <2>5, program' = program DEF CountInv, Counters
<1>4. ~ (Si!Block \/ Si!Unblock \/ Si!Pass \/ Si!Check \/ Si!Choose \/ Si!Pause)
  <2>1. ~ Si!Block
    BY <1>2, BlockLine DEF Si!Block
  <2>2. ~ Si!Unblock
    BY <1>2, UnblockLine DEF Si!Unblock
  <2>3. ~ Si!Pass
    <3>1. ~ (Si!Is("sleep") \/ Si!Is("list"))
      <4>1. ASSUME Si!Is("sleep") \/ Si!Is("list")
            PROVE  (program \in {"list", "check"} /\ line = 2) \/ (program = "receiver" /\ line = 3)
        BY <1>2, <4>1, PassLine
      <4> QED BY <4>1
    <3> QED BY <3>1 DEF Si!Pass
  <2>4. ~ Si!Check
    BY <1>2, CheckingLine DEF Si!Check
  <2>5. ~ Si!Choose
    BY <1>2, ChooseLine DEF Si!Choose
  <2>6. ~ Si!Pause
    <3>1. ~ (Si!Is("pause") \/ Si!Is("pause for ever"))
      <4>1. ASSUME Si!Is("pause") \/ Si!Is("pause for ever")
            PROVE  (program = "receiver" /\ line = 6) \/ (program = "user" /\ line = 3)
        BY <1>2, <4>1, PauseLine
      <4> QED BY <4>1
    <3> QED BY <3>1 DEF Si!Pause
  <2> QED BY <2>1, <2>2, <2>3, <2>4, <2>5, <2>6
<1>5. ~ Si!Return
  BY <1>1, <1>2 DEF Si!Return
<1>6. CASE \E s \in Si!About[program] : Si!Send(s)
  <2>1. UNCHANGED <<line, handler, flags, frames, count, delivered, fate>>
    BY <1>6 DEF Si!Send
  <2> QED BY ONLY CountInv, <2>1, program' = program DEF CountInv
<1>7. CASE \E s \in Si!About[program] : Si!DeliverDefault(s)
  <2>1. UNCHANGED <<line, handler, flags, frames, count, delivered>> /\ fate' = "killed"
    BY <1>7 DEF Si!DeliverDefault, Si!handlers
  <2> QED BY ONLY CountInv, <2>1, program' = program DEF CountInv
<1>8. CASE Si!Deliver("INT")
  <2>1. /\ fate = "running" /\ handler["INT"] # "default"
        /\ "NODEFER" \in flags \/ \A i \in 1 .. Len(frames) : frames[i].sig # "INT"
        /\ delivered' = delivered + 1
        /\ frames' = Append(frames, [sig |-> "INT", does |-> "count", loaded |-> count])
        /\ UNCHANGED <<line, flags, count, fate>>
    <3>1. handler["INT"] = "count"
      BY <1>1, <1>8 DEF Si!Deliver
    <3> QED BY <1>8, <3>1 DEF Si!Deliver, Si!Deliverable
  <2>2. /\ frames' \in Seq(Counters) /\ Len(frames') = Len(frames) + 1
        /\ frames'[Len(frames) + 1].loaded = count
        /\ \A i \in 1 .. Len(frames') : frames'[i].loaded + i <= delivered + 1
    <3>1. /\ frames \in Seq(Counters) /\ count \in Nat /\ delivered \in Nat
          /\ count + Len(frames) <= delivered
          /\ \A i \in 1 .. Len(frames) : frames[i].loaded + i <= delivered
      BY ONLY <1>1, <2>1
    <3>2. frames' = Append(frames, [sig |-> "INT", does |-> "count", loaded |-> count])
      BY <2>1
    <3> HIDE <2>1
    <3> QED BY ONLY <3>1, <3>2, Called
  <2>3. handler'["INT"] \in {"default", "count"}
    <3>1. handler' = IF "RESETHAND" \in flags THEN [handler EXCEPT !["INT"] = "default"]
                     ELSE handler
      BY <1>8 DEF Si!Deliver
    <3>2. "INT" \in DOMAIN handler
      BY DEF GapInv, Si!Sig
    <3> QED BY <1>1, <3>1, <3>2
  <2>4. Len(frames) \in Nat
    BY <1>1
  <2>5. ASSUME "NODEFER" \notin flags PROVE Len(frames) = 0
    <3>1. CASE Len(frames) = 1
      <4>1. frames[1] \in Counters
        <5>1. frames \in Seq(Counters) /\ 1 \in 1 .. Len(frames)
          BY <1>1, <3>1
        <5> QED BY ONLY <5>1
      <4>2. frames[1].sig = "INT"
        BY <4>1 DEF Counters
      <4>3. 1 \in 1 .. Len(frames)
        BY <3>1
      <4> QED BY <2>1, <2>5, <4>2, <4>3
    <3>2. Len(frames) <= 1
      BY <1>1, <2>5
    <3>3. \A n \in Nat : n <= 1 /\ n # 1 => n = 0
      OBVIOUS
    <3> QED BY ONLY <2>4, <3>1, <3>2, <3>3
  <2>6. ASSUME "NODEFER" \notin flags
        PROVE  /\ Len(frames') = 1 /\ count + 1 = delivered + 1 /\ count <= 2
               /\ \A i \in 1 .. Len(frames') : frames'[i].loaded = count
    BY <1>1, <2>1, <2>2, <2>5, <2>6
  <2>7. /\ line' \in {1, 2} /\ count' \in Nat /\ delivered' \in Nat
        /\ count' + Len(frames') <= delivered'
        /\ fate' = "exited" => delivered' >= 3
    BY <1>1, <2>1, <2>2, <2>4
  <2>8. "NODEFER" \notin flags' =>
            /\ Len(frames') <= 1
            /\ count' + Len(frames') = delivered'
            /\ \A i \in 1 .. Len(frames') : frames'[i].loaded = count'
            /\ delivered' <= 3
            /\ fate' = "running" => count' <= 2
    BY <1>1, <2>1, <2>6
  <2> QED BY ONLY <2>1, <2>2, <2>3, <2>7, <2>8, program' = program DEF CountInv, Counters
<1>9. CASE Si!HandlerEnds
  <2>1. fate = "running" /\ frames # <<>>
    BY <1>9 DEF Si!HandlerEnds
  <2>2. frames' = SubSeq(frames, 1, Len(frames) - 1)
        /\ UNCHANGED <<line, handler, flags, delivered>>
    BY <1>2, <1>9 DEF Si!HandlerEnds
  <2>3. /\ frames \in Seq(Counters) /\ count \in Nat /\ delivered \in Nat
        /\ count + Len(frames) <= delivered
        /\ \A i \in 1 .. Len(frames) : frames[i].loaded + i <= delivered
    BY <1>1
  <2>4. /\ SubSeq(frames, 1, Len(frames) - 1) \in Seq(Counters)
        /\ Len(SubSeq(frames, 1, Len(frames) - 1)) = Len(frames) - 1
        /\ \A i \in 1 .. Len(frames) - 1 : SubSeq(frames, 1, Len(frames) - 1)[i] = frames[i]
        /\ Len(frames) \in Nat \ {0}
        /\ frames[Len(frames)].does = "count" /\ frames[Len(frames)].loaded \in Nat
    BY ONLY <2>1, <2>3, Returned
  <2>5. count' \in {frames[Len(frames)].loaded + 1, count + 1}
        /\ fate' = IF count' >= 3 THEN "exited" ELSE fate
    BY <1>9, <2>4 DEF Si!HandlerEnds
  <2>6. /\ frames' \in Seq(Counters) /\ Len(frames') = Len(frames) - 1
        /\ Len(frames) \in Nat \ {0}
        /\ count' \in Nat /\ count' + Len(frames') <= delivered
        /\ \A i \in 1 .. Len(frames') :
              frames'[i] = frames[i] /\ frames'[i].loaded + i <= delivered
    <3>1. /\ frames' \in Seq(Counters) /\ Len(frames') = Len(frames) - 1
          /\ \A i \in 1 .. Len(frames) - 1 : frames'[i] = frames[i]
      BY ONLY <2>2, <2>4
    <3>2. frames[Len(frames)].loaded + Len(frames) <= delivered
      BY ONLY <2>3, <2>4
    <3>3. \A n \in Nat \ {0} : \A k \in Nat : k + n <= delivered => k + 1 + (n - 1) <= delivered
      BY ONLY <2>3
    <3>4. count' \in Nat /\ count' + Len(frames') <= delivered
      BY ONLY <2>3, <2>4, <2>5, <3>1, <3>2, <3>3
    <3>5. ASSUME NEW i \in 1 .. Len(frames')
          PROVE  frames'[i] = frames[i] /\ frames'[i].loaded + i <= delivered
      <4>1. i \in 1 .. Len(frames) - 1 /\ i \in 1 .. Len(frames)
        BY ONLY <2>4, <3>1, <3>5
      <4> QED BY ONLY <2>3, <3>1, <4>1
    <3> QED BY <2>4, <3>1, <3>4, <3>5
  <2>7. ASSUME "NODEFER" \notin flags
        PROVE  Len(frames') = 0 /\ count' = count + 1 /\ count + 1 = delivered
    <3>1. Len(frames) = 1
      BY <1>1, <2>6, <2>7
    <3>2. frames[1].loaded = count
      BY <1>1, <2>7, <3>1
    <3> QED BY <1>1, <2>5, <2>6, <2>7, <3>1, <3>2
  <2>8. fate' = "exited" => delivered' >= 3
    <3>1. fate' = "exited" => count' >= 3
      BY <2>1, <2>5
    <3>2. Len(frames') \in Nat /\ count' \in Nat /\ delivered \in Nat
          /\ count' + Len(frames') <= delivered
      BY <1>1, <2>6
    <3>3. count' <= delivered
      BY ONLY <3>2
    <3> QED BY <2>2, <3>1, <3>2, <3>3
  <2>9. "NODEFER" \notin flags' =>
            /\ Len(frames') <= 1
            /\ count' + Len(frames') = delivered'
            /\ \A i \in 1 .. Len(frames') : frames'[i].loaded = count'
            /\ delivered' <= 3
            /\ fate' = "running" => count' <= 2
    BY <1>1, <2>1, <2>2, <2>5, <2>7
  <2> QED BY ONLY <1>1, <2>2, <2>6, <2>8, <2>9, program' = program DEF CountInv, Counters
<1>10. ASSUME NEW s \in Si!About[program], Si!Deliver(s) PROVE Si!Deliver("INT")
  BY <1>2, <1>10
<1> QED BY <1>3, <1>4, <1>5, <1>6, <1>7, <1>8, <1>9, <1>10 DEF Si!Next, Si!Main

\* At the start nothing is installed.
LEMMA GapInit == Init /\ program \in Si!Programs => GapInv
<1> SUFFICES ASSUME Init, program \in Si!Programs PROVE GapInv
  OBVIOUS
<1>1. /\ line = 1 /\ ~ waiting /\ waiting \in BOOLEAN /\ handler = [s \in Si!Sig |-> "default"]
      /\ blocked = {} /\ delivered = 0 /\ fate = "running"
      /\ flags \in IF program = "sigaction" THEN SUBSET {"RESETHAND", "NODEFER"} ELSE {{}}
  BY DEF Init, Si!Init
<1>2. Si!KilledNeedsGap
  BY <1>1 DEF Si!KilledNeedsGap
<1>3. handler \in [Si!Sig -> {"default", "count", "stop", "initial", "debug", "print", "exit"}]
  BY <1>1
<1>4. program # "sigaction" => flags = {}
  BY <1>1
<1> QED BY ONLY <1>1, <1>2, <1>3, <1>4 DEF GapInv

\* A signal kills a program only outside the time its handler or its block is in
\* place.
THEOREM KillsOutsideHandler == Spec => []KilledNeedsGap
<1>1. Init => (program \in Si!Programs => GapInv)
  BY GapInit
<1>2. (program \in Si!Programs => GapInv) /\ [Next]_vars
         => (program \in Si!Programs => GapInv)'
  <2> SUFFICES ASSUME program \in Si!Programs, GapInv, [Next]_vars PROVE GapInv'
    BY StepsAlone
  <2>1. program' = program
    BY StepsAlone
  <2>2. CASE Si!Next
    BY <2>1, <2>2, GapStep
  <2>3. CASE UNCHANGED signals
    <3>1. UNCHANGED <<line, waiting, handler, flags, blocked, delivered, fate>>
      BY <2>3 DEF signals
    <3> QED BY <2>1, <3>1 DEF GapInv, Si!KilledNeedsGap
  <2> QED BY <2>2, <2>3, StepsAlone
<1>3. (program \in Si!Programs => GapInv) => KilledNeedsGap
  BY DEF GapInv, KilledNeedsGap
<1> QED BY <1>1, <1>2, <1>3, PTL DEF Spec

\* However signals interrupt the handlers of others, the third exits, none is
\* forgotten where handlers are not interrupted by their own signal, and what was
\* sent while it was blocked is handled by what is installed behind.
THEOREM SignalsAreAccounted == Spec => []SignalsAccounted
<1> DEFINE Inv == program \in Si!Programs => GapInv /\ HeardInv /\ CountInv
<1>1. Init => Inv
  <2> SUFFICES ASSUME Init, program \in Si!Programs PROVE GapInv /\ HeardInv /\ CountInv
    OBVIOUS
  <2>1. GapInv
    BY GapInit
  <2>2. HeardInv
    BY DEF Init, Si!Init, HeardInv, Si!BlockedIsHeardLate
  <2>3. CountInv
    BY DEF Init, Si!Init, CountInv, Si!Sig
  <2> QED BY <2>1, <2>2, <2>3
<1>2. Inv /\ [Next]_vars => Inv'
  <2> SUFFICES ASSUME program \in Si!Programs, GapInv, HeardInv, CountInv, [Next]_vars
               PROVE  GapInv' /\ HeardInv' /\ CountInv'
    BY StepsAlone
  <2>1. program' = program
    BY StepsAlone
  <2>2. CASE Si!Next
    BY <2>1, <2>2, GapStep, HeardStep, CountStep
  <2>3. CASE UNCHANGED signals
    <3>1. UNCHANGED <<line, waiting, handler, flags, blocked, queued, frames, count, heard,
                      delivered, fate>>
      BY <2>3 DEF signals
    <3>2. GapInv'
      BY <2>1, <3>1 DEF GapInv, Si!KilledNeedsGap
    <3>3. HeardInv'
      BY <2>1, <3>1 DEF HeardInv, Si!BlockedIsHeardLate
    <3>4. CountInv'
      BY <2>1, <3>1 DEF CountInv
    <3> QED BY <3>2, <3>3, <3>4
  <2> QED BY <2>2, <2>3, StepsAlone
<1>3. Inv => SignalsAccounted
  <2> SUFFICES ASSUME program \in Si!Programs, HeardInv, CountInv
               PROVE  Si!ThirdExits /\ Si!BlockedIsHeardLate
    BY DEF SignalsAccounted
  <2>1. Si!BlockedIsHeardLate
    BY DEF HeardInv
  <2>2. Si!ThirdExits
    BY DEF CountInv, Si!ThirdExits
  <2> QED BY <2>1, <2>2
<1> HIDE DEF Inv
<1> QED BY <1>1, <1>2, <1>3, PTL DEF Spec

-----------------------------------------------------------------------------
(* The chat clients. *)

\* The step at which a client waits for its verdict, or would if it asked for one:
\* the thread is created behind it, and then comes the chat.
Verdict == IF program = "client" THEN 3 ELSE IF program = "client_tls" THEN 4 ELSE 2

\* Nothing can come before the verdict, and nobody gets behind it with a no.
VerdictInv ==
    program \in Cl!Programs =>
       /\ step \in 1 .. Verdict + 2
       /\ receiver # "none" => step > Verdict
       /\ verdict \in {"none", "yes", "no"}
       /\ program = "client_tls_final" => verdict = "none"
       /\ program # "client_tls_final" =>
             /\ step < Verdict => verdict = "none"
             /\ step > Verdict => verdict = "yes" \/ (verdict = "none" /\ server = "closed")
             /\ verdict = "none" => stream = <<>>

\* The buffer holds the last line that was typed, and every line has been sent.
SentInv ==
    /\ entered \in Nat /\ message \in Nat /\ outgoing \in Seq(Nat)
    /\ result = "running" => entered <= Len(outgoing) /\ message = entered
    /\ \A i \in 1 .. Len(outgoing) : outgoing[i] = IF i <= entered THEN i ELSE entered

\* The verdict is in front of the messages until it is read.
Unread ==
    IF program # "client_tls_final" /\ step = Verdict /\ verdict # "none" THEN 1 ELSE 0

\* The stream goes on where the client has stopped showing.
ShownInv ==
    /\ told \in Nat /\ seen \in Seq(Nat) /\ stream \in Seq(Nat \cup {"yes", "no"})
    /\ \A i \in 1 .. Len(seen) : seen[i] = i
    /\ program \in Cl!Programs /\ result = "running" =>
          /\ told + Unread = Len(seen) + Len(stream)
          /\ Unread = 1 => stream # <<>> /\ stream[1] = verdict
          /\ \A i \in 1 .. Len(stream) : i > Unread => stream[i] = Len(seen) + i - Unread

\* Where the main thread of a client is.
LEMMA ClientAt ==
    ASSUME program \in Cl!Programs, VerdictInv, NEW op, Cl!Is(op)
    PROVE  /\ result = "running"
           /\ op = "connect" => step = 1
           /\ op = "handshake" => step = 2 /\ program # "client"
           /\ op = "tell" => step + 1 = Verdict /\ program # "client_tls_final"
           /\ op = "auth" => step = Verdict /\ program # "client_tls_final"
           /\ op = "create" => step = Verdict + 1
           /\ op = "chat" => step = Verdict + 2
<1>1. result = "running" /\ step \in 1 .. Verdict + 2
  BY DEF Cl!Is, VerdictInv
<1>6. Cl!Text[program][step] = op
  BY DEF Cl!Is
<1>2. program = "client" \/ program = "client_tls" \/ program = "client_tls_final"
  BY DEF Cl!Programs, Cl!Text
<1>3. CASE program = "client"
  <2>1. Verdict = 3 /\ step \in 1 .. 5
    BY <1>1, <1>3 DEF Verdict
  <2>2. Tells5(Cl!Text[program], "connect", "tell", "auth", "create", "chat")
    BY <1>3 DEF Tells5, Cl!Text, Cl!client
  <2>3. \/ At(Cl!Text[program], step, 1, "connect") \/ At(Cl!Text[program], step, 2, "tell")
        \/ At(Cl!Text[program], step, 3, "auth") \/ At(Cl!Text[program], step, 4, "create")
        \/ At(Cl!Text[program], step, 5, "chat")
    <3>1. step \in Nat \ {0} /\ step <= 5
      BY ONLY <2>1
    <3> QED BY ONLY <2>2, <3>1, Tell5
  <2>4. \/ step = 1 /\ op = "connect"
        \/ step = 2 /\ op = "tell"
        \/ step = 3 /\ op = "auth"
        \/ step = 4 /\ op = "create"
        \/ step = 5 /\ op = "chat"
    BY ONLY <1>6, <2>3 DEF At
  <2> QED BY ONLY <1>1, <1>3, <2>1, <2>4
<1>4. CASE program = "client_tls"
  <2>1. Verdict = 4 /\ step \in 1 .. 6
    BY <1>1, <1>4 DEF Verdict
  <2>2. Tells6(Cl!Text[program], "connect", "handshake", "tell", "auth", "create", "chat")
    BY <1>4 DEF Tells6, Cl!Text, Cl!client_tls
  <2>3. \/ At(Cl!Text[program], step, 1, "connect") \/ At(Cl!Text[program], step, 2, "handshake")
        \/ At(Cl!Text[program], step, 3, "tell") \/ At(Cl!Text[program], step, 4, "auth")
        \/ At(Cl!Text[program], step, 5, "create") \/ At(Cl!Text[program], step, 6, "chat")
    <3>1. step \in Nat \ {0} /\ step <= 6
      BY ONLY <2>1
    <3> QED BY ONLY <2>2, <3>1, Tell6
  <2>4. \/ step = 1 /\ op = "connect"
        \/ step = 2 /\ op = "handshake"
        \/ step = 3 /\ op = "tell"
        \/ step = 4 /\ op = "auth"
        \/ step = 5 /\ op = "create"
        \/ step = 6 /\ op = "chat"
    BY ONLY <1>6, <2>3 DEF At
  <2> QED BY ONLY <1>1, <1>4, <2>1, <2>4
<1>5. CASE program = "client_tls_final"
  <2>1. Verdict = 2 /\ step \in 1 .. 4
    BY <1>1, <1>5 DEF Verdict
  <2>2. Tells4(Cl!Text[program], "connect", "handshake", "create", "chat")
    BY <1>5 DEF Tells4, Cl!Text, Cl!client_tls_final
  <2>3. \/ At(Cl!Text[program], step, 1, "connect") \/ At(Cl!Text[program], step, 2, "handshake")
        \/ At(Cl!Text[program], step, 3, "create") \/ At(Cl!Text[program], step, 4, "chat")
    <3>1. step \in Nat \ {0} /\ step <= 4
      BY ONLY <2>1
    <3> QED BY ONLY <2>2, <3>1, Tell4
  <2>4. \/ step = 1 /\ op = "connect"
        \/ step = 2 /\ op = "handshake"
        \/ step = 3 /\ op = "create"
        \/ step = 4 /\ op = "chat"
    BY ONLY <1>6, <2>3 DEF At
  <2> QED BY ONLY <1>1, <1>5, <2>1, <2>4
<1> QED BY <1>2, <1>3, <1>4, <1>5

\* A step of a client's main thread, apart from the chat's, leaves what was sent.
LEMMA SentStep == SentInv /\ Cl!Next => SentInv'
<1> SUFFICES ASSUME SentInv, Cl!Next PROVE SentInv'
  OBVIOUS
<1>1. CASE UNCHANGED <<entered, message, outgoing>> /\ (result' = "running" => result = "running")
  BY <1>1 DEF SentInv
<1>2. ASSUME NEW l \in Nat, outgoing' = Append(outgoing, l)
      PROVE  /\ outgoing' \in Seq(Nat) /\ Len(outgoing') = Len(outgoing) + 1
             /\ outgoing'[Len(outgoing) + 1] = l
             /\ \A i \in 1 .. Len(outgoing) : outgoing'[i] = outgoing[i]
  BY <1>2 DEF SentInv
<1>3. CASE Cl!SendLine
  <2>1. /\ Len(outgoing) = entered /\ entered' = entered + 1 /\ message' = entered'
        /\ \/ UNCHANGED outgoing /\ result' = "SIGPIPE"
           \/ outgoing' = Append(outgoing, entered') /\ result' = result
    BY <1>3 DEF Cl!SendLine, Cl!Send
  <2>2. entered \in Nat
    BY DEF SentInv
  <2>3. CASE UNCHANGED outgoing /\ result' = "SIGPIPE"
    BY <2>1, <2>2, <2>3 DEF SentInv
  <2>4. CASE outgoing' = Append(outgoing, entered + 1)
    <3>1. /\ outgoing' \in Seq(Nat) /\ Len(outgoing') = entered + 1
          /\ outgoing'[entered + 1] = entered + 1
          /\ \A i \in 1 .. entered : outgoing'[i] = outgoing[i]
      BY <1>2, <2>1, <2>2, <2>4
    <3>2. \A i \in 1 .. entered : outgoing[i] = i
      BY <2>1, <2>2 DEF SentInv
    <3>3. \A i \in 1 .. entered + 1 : outgoing'[i] = i
      BY <2>2, <3>1, <3>2
    <3> QED BY ONLY <2>1, <2>2, <3>1, <3>3 DEF SentInv
  <2> QED BY <2>1, <2>3, <2>4
<1>4. CASE Cl!SendAgain
  <2>1. /\ entered' = entered /\ message' = message /\ result = "running"
        /\ \/ UNCHANGED outgoing /\ result' = "SIGPIPE"
           \/ outgoing' = Append(outgoing, message) /\ result' = result
    BY <1>4 DEF Cl!SendAgain, Cl!Send, Cl!Is
  <2>2. /\ entered \in Nat /\ message = entered /\ entered <= Len(outgoing)
        /\ outgoing \in Seq(Nat)
    BY <2>1 DEF SentInv
  <2>3. CASE UNCHANGED outgoing /\ result' = "SIGPIPE"
    BY <2>1, <2>2, <2>3 DEF SentInv
  <2>4. CASE outgoing' = Append(outgoing, entered)
    <3>1. /\ outgoing' \in Seq(Nat) /\ Len(outgoing') = Len(outgoing) + 1
          /\ outgoing'[Len(outgoing) + 1] = entered
          /\ \A i \in 1 .. Len(outgoing) : outgoing'[i] = outgoing[i]
      BY <1>2, <2>2, <2>4
    <3>2. \A i \in 1 .. Len(outgoing) : outgoing[i] = IF i <= entered THEN i ELSE entered
      BY DEF SentInv
    <3>3. Len(outgoing) \in Nat
      BY <2>2
    <3>4. \A i \in 1 .. Len(outgoing') : outgoing'[i] = IF i <= entered THEN i ELSE entered
      <4> SUFFICES ASSUME NEW i \in 1 .. Len(outgoing')
                   PROVE  outgoing'[i] = IF i <= entered THEN i ELSE entered
        OBVIOUS
      <4>1. i \in 1 .. Len(outgoing) \/ i = Len(outgoing) + 1
        BY ONLY <3>1, <3>3
      <4>2. CASE i \in 1 .. Len(outgoing)
        BY ONLY <3>1, <3>2, <4>2
      <4>3. CASE i = Len(outgoing) + 1
        BY ONLY <2>2, <3>1, <3>3, <4>3
      <4> QED BY <4>1, <4>2, <4>3
    <3> QED BY ONLY <2>1, <2>2, <3>1, <3>3, <3>4 DEF SentInv
  <2> QED BY <2>1, <2>2, <2>3, <2>4
<1>5. CASE Cl!Judge \/ Cl!Talk \/ Cl!ServerCloses \/ Cl!Interrupt \/ Cl!Receiver
  BY <1>1, <1>5 DEF Cl!Judge, Cl!Talk, Cl!ServerCloses, Cl!Interrupt, Cl!Receiver, Cl!Show,
                    Cl!ReceiverEnds, Cl!input
<1>6. CASE Cl!Establish \/ Cl!Tell \/ Cl!Auth \/ Cl!CreateThread
  BY <1>1, <1>6 DEF Cl!Establish, Cl!Tell, Cl!Auth, Cl!CreateThread, Cl!Is, Cl!input
<1> QED BY <1>3, <1>4, <1>5, <1>6 DEF Cl!Next, Cl!Main

\* Main goes on behind the verdict only with a yes, or when the server has closed
\* without one.
LEMMA VerdictStep ==
    VerdictInv /\ ShownInv /\ program \in Cl!Programs /\ Cl!Next /\ program' = program
       => VerdictInv'
<1> SUFFICES ASSUME VerdictInv, ShownInv, program \in Cl!Programs, Cl!Next, program' = program
             PROVE  VerdictInv'
  OBVIOUS
<1>1. /\ step \in 1 .. Verdict + 2
      /\ receiver # "none" => step > Verdict
      /\ verdict \in {"none", "yes", "no"}
      /\ program = "client_tls_final" => verdict = "none"
      /\ program # "client_tls_final" =>
            /\ step < Verdict => verdict = "none"
            /\ step > Verdict => verdict = "yes" \/ (verdict = "none" /\ server = "closed")
            /\ verdict = "none" => stream = <<>>
  BY DEF VerdictInv
<1>2. Verdict' = Verdict
  BY DEF Verdict
<1>3. /\ Verdict \in {2, 3, 4}
      /\ program # "client_tls_final" => Verdict \in {3, 4}
      /\ program # "client_tls_final" /\ program # "client" => Verdict = 4
  BY DEF Verdict, Cl!Programs, Cl!Text
<1>4. step \in Nat \ {0} /\ step <= Verdict + 2
  BY ONLY <1>1, <1>3
<1>5. CASE Cl!Judge
  <2>1. step = Verdict /\ program # "client_tls_final"
    BY <1>5, ClientAt DEF Cl!Judge
  <2>2. verdict' \in {"yes", "no"} /\ UNCHANGED <<step, receiver, server>>
    BY <1>5 DEF Cl!Judge
  <2> QED BY ONLY <1>1, <1>2, <1>3, <1>4, <2>1, <2>2, program' = program DEF VerdictInv
<1>6. CASE Cl!Talk
  <2>1. UNCHANGED <<step, receiver, server, verdict>>
    BY <1>6 DEF Cl!Talk
  <2>2. verdict = "yes" \/ program = "client_tls_final"
    BY <1>6 DEF Cl!Talk
  <2> QED BY ONLY <1>1, <1>2, <1>3, <1>4, <2>1, <2>2, program' = program DEF VerdictInv
<1>7. CASE Cl!ServerCloses \/ Cl!Interrupt \/ Cl!SendLine \/ Cl!SendAgain \/ Cl!ReceiverEnds
  <2>1. /\ UNCHANGED <<step, verdict, stream>> /\ server' \in {server, "closed"}
        /\ receiver' # "none" => receiver # "none"
    BY <1>7 DEF Cl!ServerCloses, Cl!Interrupt, Cl!SendLine, Cl!SendAgain, Cl!Send,
                Cl!ReceiverEnds, Cl!other
  <2> QED BY ONLY <1>1, <1>2, <1>3, <1>4, <2>1, program' = program DEF VerdictInv
<1>8. CASE Cl!Show
  <2>1. stream # <<>> /\ UNCHANGED <<step, receiver, server, verdict>>
    BY <1>8 DEF Cl!Show
  <2> QED BY ONLY <1>1, <1>2, <1>3, <1>4, <2>1, program' = program DEF VerdictInv
<1>9. CASE Cl!Establish \/ Cl!Tell
  <2>1. /\ step < Verdict + 1
        /\ program # "client_tls_final" => step < Verdict
    <3>1. CASE Cl!Is("connect")
      <4>1. step = 1
        BY <3>1, ClientAt
      <4> QED BY ONLY <1>3, <4>1
    <3>2. CASE Cl!Is("handshake")
      <4>1. step = 2 /\ program # "client"
        BY <3>2, ClientAt
      <4> QED BY ONLY <1>3, <4>1
    <3>3. CASE Cl!Is("tell")
      <4>1. step + 1 = Verdict
        BY <3>3, ClientAt
      <4> QED BY ONLY <1>3, <1>4, <4>1
    <3> QED BY <1>9, <3>1, <3>2, <3>3 DEF Cl!Establish, Cl!Tell
  <2>2. step' \in {step, step + 1} /\ UNCHANGED <<receiver, server, stream, verdict>>
    BY <1>9 DEF Cl!Establish, Cl!Tell, Cl!Ahead, Cl!other
  <2>3. /\ step' \in 1 .. Verdict + 2 /\ (step > Verdict => step' > Verdict)
        /\ program # "client_tls_final" => step' <= Verdict /\ step < Verdict
    BY ONLY <1>3, <1>4, <2>1, <2>2
  <2> QED BY ONLY <1>1, <1>2, <1>3, <1>4, <2>2, <2>3, program' = program DEF VerdictInv
<1>10. CASE Cl!Auth
  <2>1. step = Verdict /\ program # "client_tls_final" /\ result = "running"
    BY <1>10, ClientAt DEF Cl!Auth
  <2>2. UNCHANGED <<receiver, server, verdict>>
    BY <1>10 DEF Cl!Auth
  <2>3. verdict # "none" => stream # <<>> /\ stream[1] = verdict
    BY <2>1 DEF ShownInv, Unread
  <2>4. verdict = "none" => stream = <<>> /\ stream' = stream
    <3>1. verdict = "none" => stream = <<>>
      BY <1>1, <2>1
    <3> QED BY <1>10, <3>1 DEF Cl!Auth
  <2>5. \/ step' = step
        \/ /\ step' = step + 1
           /\ verdict = "yes" \/ (verdict = "none" /\ server = "closed")
    <3>1. PICK yes \in BOOLEAN :
            /\ IF stream # <<>> THEN yes = (Head(stream) = "yes") /\ stream' = Tail(stream)
               ELSE server = "closed" /\ UNCHANGED stream
            /\ IF yes THEN step' = step + 1 ELSE UNCHANGED step
      BY <1>10 DEF Cl!Auth, Cl!Ahead
    <3>2. CASE stream # <<>>
      <4>1. verdict # "none" /\ stream[1] = verdict /\ Head(stream) = stream[1]
        BY <2>3, <2>4, <3>2 DEF ShownInv
      <4>2. CASE yes
        BY <3>1, <3>2, <4>1, <4>2
      <4>3. CASE ~ yes
        BY <3>1, <4>3
      <4> QED BY <4>2, <4>3
    <3>3. CASE stream = <<>>
      <4>1. verdict = "none" /\ server = "closed"
        BY <2>3, <3>1, <3>3
      <4> QED BY <3>1, <4>1
    <3> QED BY <3>2, <3>3
  <2> QED BY ONLY <1>1, <1>2, <1>3, <1>4, <2>1, <2>2, <2>4, <2>5, program' = program DEF VerdictInv
<1>11. CASE Cl!CreateThread
  <2>1. step = Verdict + 1
    BY <1>11, ClientAt DEF Cl!CreateThread
  <2>2. step' = step + 1 /\ UNCHANGED <<server, stream, verdict>>
    BY <1>11 DEF Cl!CreateThread, Cl!Ahead, Cl!other
  <2> QED BY ONLY <1>1, <1>2, <1>3, <1>4, <2>1, <2>2, program' = program DEF VerdictInv
<1> QED BY <1>5, <1>6, <1>7, <1>8, <1>9, <1>10, <1>11 DEF Cl!Next, Cl!Main, Cl!Receiver

\* What a stream is behind its first entry, and with one more.
LEMMA Streams ==
    ASSUME NEW S, NEW s \in Seq(S)
    PROVE  /\ Len(s) \in Nat
           /\ s # <<>> => /\ Head(s) = s[1] /\ Tail(s) \in Seq(S)
                          /\ Len(s) = Len(Tail(s)) + 1
                          /\ \A i \in 1 .. Len(Tail(s)) :
                                Tail(s)[i] = s[i + 1] /\ i + 1 \in 1 .. Len(s)
           /\ \A x \in S : /\ Append(s, x) \in Seq(S) /\ Len(Append(s, x)) = Len(s) + 1
                           /\ Append(s, x)[Len(s) + 1] = x
                           /\ \A i \in 1 .. Len(s) : Append(s, x)[i] = s[i]
<1>1. Len(s) \in Nat
  OBVIOUS
<1>2. ASSUME s # <<>>
      PROVE  /\ Head(s) = s[1] /\ Tail(s) \in Seq(S)
             /\ Len(s) = Len(Tail(s)) + 1
             /\ \A i \in 1 .. Len(Tail(s)) : Tail(s)[i] = s[i + 1] /\ i + 1 \in 1 .. Len(s)
  <2>1. /\ Tail(s) \in Seq(S) /\ Len(Tail(s)) = Len(s) - 1
        /\ \A i \in 1 .. Len(Tail(s)) : Tail(s)[i] = s[i + 1]
    BY <1>2, HeadTailProperties
  <2>2. Len(s) = Len(Tail(s)) + 1 /\ Len(Tail(s)) \in Nat
    BY <1>1, <2>1
  <2> QED BY <2>1, <2>2
<1>3. ASSUME NEW x \in S
      PROVE  /\ Append(s, x) \in Seq(S) /\ Len(Append(s, x)) = Len(s) + 1
             /\ Append(s, x)[Len(s) + 1] = x
             /\ \A i \in 1 .. Len(s) : Append(s, x)[i] = s[i]
  OBVIOUS
<1> QED BY <1>1, <1>2, <1>3

\* What is shown and what is still in the stream are what the server said.
LEMMA ShownStep ==
    VerdictInv /\ ShownInv /\ program \in Cl!Programs /\ Cl!Next /\ program' = program
       => ShownInv'
<1> SUFFICES ASSUME VerdictInv, ShownInv, program \in Cl!Programs, Cl!Next, program' = program
             PROVE  ShownInv'
  OBVIOUS
<1>1. /\ told \in Nat /\ seen \in Seq(Nat) /\ stream \in Seq(Nat \cup {"yes", "no"})
      /\ \A i \in 1 .. Len(seen) : seen[i] = i
      /\ Len(seen) \in Nat /\ Len(stream) \in Nat
  BY DEF ShownInv
<1>2. /\ step \in Nat \ {0}
      /\ receiver # "none" => step > Verdict
      /\ verdict \in {"none", "yes", "no"}
      /\ program # "client_tls_final" =>
            /\ step < Verdict => verdict = "none"
            /\ verdict = "none" => stream = <<>>
  BY DEF VerdictInv, Verdict
<1>3. Verdict' = Verdict /\ Verdict \in Nat
  BY DEF Verdict
<1>4. CASE /\ UNCHANGED <<told, seen, stream>>
           /\ result' = "running" =>
                result = "running" /\ UNCHANGED verdict /\ Unread' = Unread
  BY ONLY <1>4, ShownInv, program' = program DEF ShownInv
<1>5. CASE Cl!ServerCloses \/ Cl!Interrupt \/ Cl!SendLine \/ Cl!SendAgain \/ Cl!ReceiverEnds
  <2>1. /\ UNCHANGED <<told, seen, stream, verdict, step>>
        /\ result' = "running" => result = "running"
    BY <1>5 DEF Cl!ServerCloses, Cl!Interrupt, Cl!SendLine, Cl!SendAgain, Cl!Send, Cl!Is,
                Cl!ReceiverEnds, Cl!other, Cl!output
  <2>2. Unread' = Unread
    BY <1>3, <2>1 DEF Unread
  <2> QED BY <1>4, <2>1, <2>2
<1>6. CASE Cl!Establish \/ Cl!Tell \/ Cl!CreateThread
  <2>1. /\ UNCHANGED <<told, seen, stream, verdict>> /\ result = "running"
        /\ step' \in {step, step + 1}
    BY <1>6 DEF Cl!Establish, Cl!Tell, Cl!CreateThread, Cl!Is, Cl!Ahead, Cl!other, Cl!output
  <2>2. program = "client_tls_final" \/ step < Verdict \/ step = Verdict + 1
    <3>1. CASE Cl!Is("connect")
      <4>1. step = 1
        BY <3>1, ClientAt
      <4> QED BY <4>1 DEF Verdict
    <3>2. CASE Cl!Is("handshake")
      <4>1. step = 2 /\ program # "client"
        BY <3>2, ClientAt
      <4> QED BY <4>1 DEF Verdict, Cl!Programs, Cl!Text
    <3>3. CASE Cl!Is("tell")
      <4>1. step + 1 = Verdict
        BY <3>3, ClientAt
      <4> QED BY ONLY <1>2, <1>3, <4>1
    <3>4. CASE Cl!Is("create")
      BY <3>4, ClientAt
    <3> QED BY <1>6, <3>1, <3>2, <3>3, <3>4 DEF Cl!Establish, Cl!Tell, Cl!CreateThread
  <2>3. Unread' = Unread
    <3>1. CASE program = "client_tls_final"
      BY <3>1 DEF Unread
    <3>2. CASE step < Verdict /\ program # "client_tls_final"
      BY <1>2, <2>1, <3>2 DEF Unread
    <3>3. CASE step = Verdict + 1
      <4>1. step' # Verdict' /\ step # Verdict
        BY ONLY <1>2, <1>3, <2>1, <3>3
      <4> QED BY <4>1 DEF Unread
    <3> QED BY <2>2, <3>1, <3>2, <3>3
  <2> QED BY <1>4, <2>1, <2>3
<1>7. CASE Cl!Judge
  <2>1. step = Verdict /\ program # "client_tls_final" /\ result = "running"
    BY <1>7, ClientAt DEF Cl!Judge, VerdictInv
  <2>2. /\ verdict = "none" /\ verdict' \in {"yes", "no"} /\ stream' = Append(stream, verdict')
        /\ UNCHANGED <<told, seen, step, result>>
    BY <1>7 DEF Cl!Judge, Cl!output
  <2>3. stream = <<>> /\ Unread = 0 /\ Unread' = 1
    BY <1>2, <1>3, <2>1, <2>2 DEF Unread
  <2>4. stream' = <<verdict'>>
    BY <2>2, <2>3
  <2>5. told = Len(seen)
    BY <1>1, <2>1, <2>3 DEF ShownInv
  <2>6. /\ stream' \in Seq(Nat \cup {"yes", "no"}) /\ Len(stream') = 1 /\ stream'[1] = verdict'
        /\ stream' # <<>>
    BY <2>2, <2>4
  <2>7. \A i \in 1 .. Len(stream') : ~ (i > Unread')
    BY <2>3, <2>6
  <2>8. told' + Unread' = Len(seen') + Len(stream')
    BY <1>1, <2>2, <2>3, <2>5, <2>6
  <2> QED BY ONLY <1>1, <2>2, <2>6, <2>7, <2>8 DEF ShownInv
<1>8. CASE Cl!Talk
  <2>1. told' = told + 1 /\ stream' = Append(stream, told + 1)
        /\ UNCHANGED <<seen, step, verdict, result>>
    BY <1>8 DEF Cl!Talk
  <2>2. Unread' = Unread /\ Unread \in {0, 1}
    BY <1>3, <2>1 DEF Unread
  <2>3. /\ stream' \in Seq(Nat \cup {"yes", "no"}) /\ Len(stream') = Len(stream) + 1
        /\ stream'[Len(stream) + 1] = told + 1
        /\ \A i \in 1 .. Len(stream) : stream'[i] = stream[i]
    <3>1. told + 1 \in Nat \cup {"yes", "no"}
      BY <1>1
    <3> QED BY <1>1, <2>1, <3>1, Streams
  <2>4. CASE result = "running"
    <3>1. /\ told + Unread = Len(seen) + Len(stream)
          /\ Unread = 1 => stream # <<>> /\ stream[1] = verdict
          /\ \A i \in 1 .. Len(stream) : i > Unread => stream[i] = Len(seen) + i - Unread
      BY <2>4 DEF ShownInv
    <3>2. \A t, u, a, b \in Nat :
             t + u = a + b => t + 1 + u = a + (b + 1) /\ t + 1 = a + (b + 1) - u
      OBVIOUS
    <3>3. Unread \in Nat
      BY ONLY <2>2
    <3>4. /\ told + 1 + Unread = Len(seen) + (Len(stream) + 1)
          /\ told + 1 = Len(seen) + (Len(stream) + 1) - Unread
      <4>1. told + Unread = Len(seen) + Len(stream)
        BY ONLY <3>1
      <4>2. told \in Nat /\ Len(seen) \in Nat /\ Len(stream) \in Nat
        BY ONLY <1>1
      <4> QED BY ONLY <3>2, <3>3, <4>1, <4>2
    <3>5. told' + Unread' = Len(seen') + Len(stream')
      BY ONLY <2>1, <2>2, <2>3, <3>4
    <3>6. Unread' = 1 => stream' # <<>> /\ stream'[1] = verdict'
      <4>1. stream # <<>> => 1 \in 1 .. Len(stream)
        BY <1>1
      <4>2. stream' # <<>>
        BY <1>1, <2>3
      <4> QED BY <2>1, <2>2, <2>3, <3>1, <4>1, <4>2
    <3>7. ASSUME NEW i \in 1 .. Len(stream'), i > Unread'
          PROVE  stream'[i] = Len(seen') + i - Unread'
      <4>1. CASE i = Len(stream) + 1
        BY ONLY <2>1, <2>2, <2>3, <3>4, <4>1
      <4>2. CASE i # Len(stream) + 1
        <5>1. i \in 1 .. Len(stream)
          BY ONLY <1>1, <2>3, <3>7, <4>2
        <5> QED BY ONLY <2>1, <2>2, <2>3, <3>1, <3>7, <5>1
      <4> QED BY <4>1, <4>2
    <3> QED BY ONLY <1>1, <2>1, <2>3, <3>5, <3>6, <3>7 DEF ShownInv
  <2>5. CASE result # "running"
    BY ONLY <1>1, <2>1, <2>3, <2>5 DEF ShownInv
  <2> QED BY <2>4, <2>5
<1>9. CASE Cl!Auth
  <2>1. step = Verdict /\ program # "client_tls_final" /\ result = "running"
    BY <1>9, ClientAt DEF Cl!Auth, VerdictInv
  <2>2. UNCHANGED <<told, seen, verdict>>
    BY <1>9 DEF Cl!Auth, Cl!output
  <2>3. /\ stream # <<>> => stream' = Tail(stream)
        /\ stream = <<>> => stream' = stream
        /\ result' = "running" => step' = step + 1
    BY <1>9 DEF Cl!Auth, Cl!Ahead
  <2>4. /\ told + Unread = Len(seen) + Len(stream)
        /\ Unread = 1 => stream # <<>> /\ stream[1] = verdict
        /\ \A i \in 1 .. Len(stream) : i > Unread => stream[i] = Len(seen) + i - Unread
    BY <2>1 DEF ShownInv
  <2>5. result' = "running" => Unread' = 0
    <3>1. step' = step + 1 => step' # Verdict'
      BY ONLY <1>2, <1>3, <2>1
    <3> QED BY <2>3, <3>1 DEF Unread
  <2>6. CASE stream = <<>>
    <3>1. Unread = 0
      BY <2>4, <2>6 DEF Unread
    <3>2. told + 0 = Len(seen) + Len(stream) /\ Len(stream) = 0
      BY <2>4, <2>6, <3>1
    <3>3. \A i \in 1 .. Len(stream) : FALSE
      BY <3>2
    <3>4. stream' = stream
      BY <2>3, <2>6
    <3> QED BY ONLY <1>1, <2>2, <2>5, <3>2, <3>3, <3>4 DEF ShownInv
  <2>7. CASE stream # <<>>
    <3>1. Unread = 1
      BY <1>2, <2>1, <2>7 DEF Unread
    <3>2. /\ stream' \in Seq(Nat \cup {"yes", "no"}) /\ Len(stream) = Len(stream') + 1
          /\ \A i \in 1 .. Len(stream') : stream'[i] = stream[i + 1] /\ i + 1 \in 1 .. Len(stream)
      <4>1. stream' = Tail(stream)
        BY <2>3, <2>7
      <4> QED BY ONLY <1>1, <2>7, <4>1, Streams
    <3>3. Len(stream') \in Nat
      BY <3>2
    <3>4. told + 0 = Len(seen) + Len(stream')
      <4>1. \A t, a, b \in Nat : t + 1 = a + (b + 1) => t + 0 = a + b
        OBVIOUS
      <4>2. told + 1 = Len(seen) + (Len(stream') + 1)
        BY ONLY <2>4, <3>1, <3>2
      <4> QED BY ONLY <1>1, <3>3, <4>1, <4>2
    <3>5. ASSUME NEW i \in 1 .. Len(stream') PROVE stream'[i] = Len(seen) + i - 0
      <4>1. i \in Nat \ {0} /\ i + 1 > Unread
        BY ONLY <3>1, <3>3, <3>5
      <4>2. stream'[i] = Len(seen) + (i + 1) - 1
        BY ONLY <2>4, <3>1, <3>2, <3>5, <4>1
      <4>3. \A a \in Nat : a + (i + 1) - 1 = a + i - 0
        BY ONLY <4>1
      <4> QED BY ONLY <1>1, <4>2, <4>3
    <3> QED BY ONLY <1>1, <2>2, <2>5, <3>2, <3>4, <3>5 DEF ShownInv
  <2> QED BY <2>6, <2>7
<1>10. CASE Cl!Show
  <2>1. /\ stream # <<>> /\ seen' = Append(seen, Head(stream)) /\ stream' = Tail(stream)
        /\ receiver = "reading" /\ result = "running"
        /\ UNCHANGED <<told, verdict, step, result>>
    BY <1>10 DEF Cl!Show
  <2>2. Unread = 0 /\ Unread' = 0
    <3>1. step # Verdict
      BY <1>2, <1>3, <2>1
    <3> QED BY <1>3, <2>1, <3>1 DEF Unread
  <2>3. /\ told + 0 = Len(seen) + Len(stream)
        /\ \A i \in 1 .. Len(stream) : stream[i] = Len(seen) + i - 0
    BY <2>1, <2>2 DEF ShownInv
  <2>4. /\ stream' \in Seq(Nat \cup {"yes", "no"}) /\ Len(stream) = Len(stream') + 1
        /\ Head(stream) = stream[1]
        /\ \A i \in 1 .. Len(stream') : stream'[i] = stream[i + 1] /\ i + 1 \in 1 .. Len(stream)
    BY <1>1, <2>1, Streams
  <2>5. Len(stream') \in Nat /\ 1 \in 1 .. Len(stream)
    <3>1. Len(stream') \in Nat
      BY <2>4
    <3> QED BY <2>4, <3>1
  <2>6. stream[1] = Len(seen) + 1
    <3>1. stream[1] = Len(seen) + 1 - 0
      BY ONLY <2>3, <2>5
    <3> QED BY ONLY <1>1, <3>1
  <2>7. /\ seen' \in Seq(Nat) /\ Len(seen') = Len(seen) + 1
        /\ seen'[Len(seen) + 1] = Len(seen) + 1
        /\ \A i \in 1 .. Len(seen) : seen'[i] = seen[i]
    <3>1. seen' = Append(seen, Len(seen) + 1) /\ Len(seen) + 1 \in Nat
      BY <1>1, <2>1, <2>4, <2>6
    <3> QED BY <1>1, <3>1, Streams
  <2>8. \A i \in 1 .. Len(seen') : seen'[i] = i
    <3>1. ASSUME NEW i \in 1 .. Len(seen'), i # Len(seen) + 1 PROVE i \in 1 .. Len(seen)
      BY ONLY <1>1, <2>7, <3>1
    <3> QED BY ONLY <1>1, <2>7, <3>1
  <2>9. told + 0 = Len(seen') + Len(stream')
    BY ONLY <1>1, <2>3, <2>4, <2>5, <2>7
  <2>10. ASSUME NEW i \in 1 .. Len(stream') PROVE stream'[i] = Len(seen') + i - 0
    <3>1. stream'[i] = Len(seen) + (i + 1) - 0
      BY ONLY <2>3, <2>4, <2>10
    <3>2. \A a \in Nat : a + (i + 1) - 0 = a + 1 + i - 0
      BY ONLY <2>10
    <3> QED BY ONLY <1>1, <2>7, <3>1, <3>2
  <2> QED BY ONLY <1>1, <2>1, <2>2, <2>4, <2>7, <2>8, <2>9, <2>10 DEF ShownInv
<1> QED BY <1>5, <1>6, <1>7, <1>8, <1>9, <1>10 DEF Cl!Next, Cl!Main, Cl!Receiver

\* Nobody chats behind a no, and lines are sent and shown in their order, each once
\* until the input ends.
THEOREM ClientsAreFaithful == Spec => []ClientFaithful
<1> DEFINE Inv == VerdictInv /\ SentInv /\ ShownInv
<1>1. Init => Inv
  <2> SUFFICES ASSUME Init PROVE Inv
    OBVIOUS
  <2>1. /\ step = 1 /\ receiver = "none" /\ stream = <<>> /\ verdict = "none" /\ entered = 0
        /\ message = 0 /\ outgoing = <<>> /\ seen = <<>> /\ told = 0
    BY DEF Init, Cl!Init
  <2>2. VerdictInv
    <3>1. Verdict \in {2, 3, 4} /\ 1 \in 1 .. Verdict + 2 /\ ~ (1 > Verdict)
      BY DEF Verdict
    <3> QED BY ONLY <2>1, <3>1 DEF VerdictInv
  <2>3. SentInv
    BY <2>1 DEF SentInv
  <2>4. ShownInv
    BY <2>1 DEF ShownInv, Unread
  <2> QED BY <2>2, <2>3, <2>4
<1>2. Inv /\ [Next]_vars => Inv'
  <2> SUFFICES ASSUME Inv, [Next]_vars PROVE Inv'
    OBVIOUS
  <2>1. program' = program
    BY StepsAlone
  <2>2. CASE program \in Cl!Programs /\ Cl!Next
    BY <2>1, <2>2, VerdictStep, SentStep, ShownStep
  <2>3. CASE UNCHANGED client
    <3>1. UNCHANGED <<step, receiver, server, stream, verdict, entered, message, outgoing, seen,
                      told, result>>
      BY <2>3 DEF client
    <3>2. Verdict' = Verdict
      BY <2>1 DEF Verdict
    <3>3. VerdictInv'
      BY <2>1, <3>1, <3>2 DEF VerdictInv
    <3>4. SentInv'
      BY <3>1 DEF SentInv
    <3>5. Unread' = Unread
      BY <2>1, <3>1, <3>2 DEF Unread
    <3>6. ShownInv'
      BY <2>1, <3>1, <3>5 DEF ShownInv
    <3> QED BY <3>3, <3>4, <3>6
  <2> QED BY <2>2, <2>3, StepsAlone
<1>3. Inv => ClientFaithful
  <2> SUFFICES ASSUME Inv PROVE ClientFaithful
    OBVIOUS
  <2>1. Cl!LinesInOrder
    BY DEF SentInv, ShownInv, Cl!LinesInOrder
  <2>2. ASSUME program \in Cl!Programs, program # "client_tls_final", Cl!Is("chat")
        PROVE  verdict = "yes" \/ (verdict = "none" /\ server = "closed")
    <3>1. step = Verdict + 2 /\ Verdict \in Nat
      BY <2>2, ClientAt DEF Verdict
    <3>2. step > Verdict
      BY ONLY <3>1
    <3> QED BY <2>2, <3>2 DEF VerdictInv
  <2> QED BY <2>1, <2>2 DEF ClientFaithful, Cl!ChatNeedsVerdict
<1> HIDE DEF Inv
<1> QED BY <1>1, <1>2, <1>3, PTL DEF Spec
=============================================================================
