----------------------------- MODULE Processes -----------------------------
(***************************************************************************)
(* The process exercises of assignment6: programs that fork, wait, exec    *)
(* and kill.  A program is a text for the parent, process 0, and for each  *)
(* child; the instructions are the actions.  A process that ends is a      *)
(* zombie until its parent waits for it or ends.                           *)
(***************************************************************************)
EXTENDS Naturals, Sequences

VARIABLES
    program,  \* the program that runs
    at,       \* the instruction a process is at
    life,     \* whether it is there
    ppid,     \* what a child has learnt of its parent
    unforked, \* the children whose fork failed
    astray    \* kill was given the process -1, which is everybody

vars == <<at, life, ppid, unforked, astray>>

Process == 0 .. 2
Child   == {1, 2}
-----------------------------------------------------------------------------
(* The texts: first the parent's. *)

\* ex1.c: nobody waits; a fork that fails ends the program.
Ex1 == <<<<<<"fork or exit", 1>>, <<"print", 0>>>>, <<<<"getppid", 1>>>>, <<>>>>

\* ex1_2fork.c: two children, two waits.
TwoForks_Mut == <<<<<<"fork or exit", 1>>, <<"fork or exit", 2>>, <<"wait", 0>>>>,
                  <<<<"getppid", 1>>>>, <<<<"getppid", 2>>>>>>
TwoForks == <<<<<<"fork or exit", 1>>, <<"fork or exit", 2>>, <<"wait", 0>>, <<"wait", 0>>>>,
              <<<<"getppid", 1>>>>, <<<<"getppid", 2>>>>>>

\* ex1_exec.c: whether execl succeeds or fails, the child ends.
Exec == <<<<<<"fork or exit", 1>>, <<"wait", 0>>>>, <<<<"execl", 1>>>>, <<>>>>

\* ex1_kill_timeout.c: the child works until it is killed; main does not look
\* whether fork failed, and kills pid.
KillTimeout == <<<<<<"fork", 1>>, <<"sleep", 5>>, <<"kill", 1>>, <<"wait", 0>>>>,
                 <<<<"loop", 1>>>>, <<>>>>

\* ex1_orphan.c: the parent leaves at once, the child asks later.
Orphan == <<<<<<"fork", 1>>>>, <<<<"sleep", 10>>, <<"getppid", 1>>>>, <<>>>>

\* ex1_zombie.c and ex2.c: the parent sleeps and does not wait.
Zombie == <<<<<<"fork", 1>>, <<"sleep", 20>>>>, <<<<"print", 1>>>>, <<>>>>
Ex2    == <<<<<<"fork or exit", 1>>, <<"sleep", 10>>>>, <<<<"print", 1>>>>, <<>>>>

\* Each text by process number.
ByProcess(text) == [p \in Process |-> text[p + 1]]

Text == [fork |-> ByProcess(Ex1), two |-> ByProcess(TwoForks), exec |-> ByProcess(Exec),
         kill_timeout |-> ByProcess(KillTimeout), orphan |-> ByProcess(Orphan),
         zombie |-> ByProcess(Zombie), fork2 |-> ByProcess(Ex2)]

Programs == DOMAIN Text
-----------------------------------------------------------------------------
Init ==
    /\ at = [p \in Process |-> 1]
    /\ life = [p \in Process |-> IF p = 0 THEN "running" ELSE "none"]
    /\ ppid = [c \in Child |-> "unknown"]
    /\ unforked = {}
    /\ astray = FALSE

Is(p, op) ==
    /\ life[p] = "running"
    /\ at[p] <= Len(Text[program][p])
    /\ Text[program][p][at[p]][1] = op

Arg(p) == Text[program][p][at[p]][2]

Advance(p) == at' = [at EXCEPT ![p] = @ + 1]

\* A process ends.  Its parent finds a zombie, or init reaps it; its own
\* zombies go with it.
Die(p) ==
    life' = [q \in Process |->
               CASE q = p -> IF p # 0 /\ life[0] = "running" THEN "zombie" ELSE "gone"
                 [] q # p /\ p = 0 /\ life[q] = "zombie" -> "gone"
                 [] OTHER -> life[q]]

Fork(p) ==
    /\ Is(p, "fork") \/ Is(p, "fork or exit")
    /\ life' = [life EXCEPT ![Arg(p)] = "running"]
    /\ Advance(p)
    /\ UNCHANGED <<ppid, unforked, astray>>

\* A parent that does not look goes on with pid = -1.
ForkFails(p) ==
    /\ Is(p, "fork") \/ Is(p, "fork or exit")
    /\ unforked' = unforked \cup {Arg(p)}
    /\ IF Is(p, "fork") THEN Advance(p) /\ UNCHANGED life
                        ELSE Die(p) /\ UNCHANGED at
    /\ UNCHANGED <<ppid, astray>>

\* wait(NULL) reaps a zombie, or waits for one, or finds no child.
Wait(p) ==
    /\ Is(p, "wait")
    /\ \/ \E c \in Child : life[c] = "zombie" /\ life' = [life EXCEPT ![c] = "gone"]
       \/ /\ \A c \in Child : life[c] \in {"none", "gone"}
          /\ UNCHANGED life
    /\ Advance(p)
    /\ UNCHANGED <<ppid, unforked, astray>>

\* kill(pid, SIGKILL), where pid is -1 if the fork had failed.
Kill(p) ==
    /\ Is(p, "kill")
    /\ IF Arg(p) \in unforked
       THEN astray' = TRUE /\ UNCHANGED life
       ELSE /\ life' = [life EXCEPT ![Arg(p)] = IF @ = "running" THEN "zombie" ELSE @]
            /\ UNCHANGED astray
    /\ Advance(p)
    /\ UNCHANGED <<ppid, unforked>>

GetPpid(p) ==
    /\ Is(p, "getppid")
    /\ ppid' = [ppid EXCEPT ![p] = IF life[0] = "running" THEN "parent" ELSE "init"]
    /\ Advance(p)
    /\ UNCHANGED <<life, unforked, astray>>

\* Nothing that another process can tell.
Work(p) ==
    /\ Is(p, "sleep") \/ Is(p, "print") \/ Is(p, "execl")
    /\ Advance(p)
    /\ UNCHANGED <<life, ppid, unforked, astray>>

Exit(p) ==
    /\ life[p] = "running"
    /\ at[p] > Len(Text[program][p])
    /\ Die(p)
    /\ UNCHANGED <<at, ppid, unforked, astray>>

Step(p) == Fork(p) \/ ForkFails(p) \/ Wait(p) \/ Kill(p) \/ GetPpid(p) \/ Work(p) \/ Exit(p)

Next == \E p \in Process : Step(p)

Over == \A p \in Process : life[p] # "running"
-----------------------------------------------------------------------------
(* Properties. *)

Waiting == {"two", "exec", "kill_timeout"}

\* A parent that waits leaves no child behind, running or zombie, and kills
\* nobody but its child: unless the fork it does not check has failed, when
\* kill(-1, SIGKILL) is for everybody.
ChildrenSeenThrough ==
    /\ (program \in Waiting /\ life[0] = "running" /\ at[0] > Len(Text[program][0])) =>
          \A c \in Child : life[c] \in {"none", "gone"}
    /\ astray => program = "kill_timeout" /\ 1 \in unforked

\* A child that asks for its parent is told init only when the parent has gone
\* without waiting, and is a zombie only while the parent lives.
OrphansHaveInit ==
    \A c \in Child :
       /\ ppid[c] = "init" => life[0] = "gone" /\ program \notin {"exec", "kill_timeout"}
       /\ life[c] = "zombie" => life[0] = "running"
=============================================================================
