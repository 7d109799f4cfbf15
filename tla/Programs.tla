------------------------------ MODULE Programs ------------------------------
(***************************************************************************)
(* The small programs of the course, one of which runs: the exercises on   *)
(* threads, processes, signals, shared memory, epoll and tasklets, the     *)
(* first LED drivers, the first TLS chat server and the chat clients.  The *)
(* steps are those of the modules named below; here is what they share:    *)
(* which of them runs, and the fairness of the schedulers under it.        *)
(***************************************************************************)
EXTENDS Naturals, FiniteSets

CONSTANTS None, NUM_THREADS, NUM_INCREMENTS, MAX_CONCURRENT, MaxSignals, MaxInput,
          Conn, MAX_CLIENTS, MaxLines, MaxTyped, MaxRepeats

ASSUME ProgramsAssumption ==
    /\ NUM_THREADS \in Nat /\ NUM_THREADS >= 2
    /\ NUM_INCREMENTS \in Nat \ {0}
    /\ MAX_CONCURRENT \in Nat \ {0}
    /\ MaxSignals \in Nat
    /\ MaxInput \in Nat
    /\ IsFiniteSet(Conn)
    /\ MAX_CLIENTS \in Nat /\ MaxLines \in Nat
    /\ MaxTyped \in Nat /\ MaxRepeats \in Nat
    /\ None \notin Nat \cup Conn \cup {"led_dt", "led_button"}

VARIABLES
    program,                                                    \* the one that runs
    pc, reg, mem, owner, asleep, sem, freed, outcome,           \* of Threads
    at, life, ppid, unforked, astray,                           \* of Processes
    line, waiting, handler, flags, blocked, pending, queued, frames, count,
    running, heard, sent, delivered, fate,                      \* of Signals
    word, file, holding, reset, segment, attached, content, shown, where, dead,
                                                                \* of SharedMemory
    point, typed, unread, ended, batch, pipe,                   \* of EventLoop
    phase, my_wq, tasklet, my_work, late, fault,                \* of Deferred
    led, bound, requested, pin, cleared,                        \* of EarlyLeds
    place, sock, fd, clients, lock, cursor, lines, hist, chatlog, got, garbled,
    peer, end,                                                  \* of Relay
    step, receiver, server, cut, stream, verdict, entered, message, outgoing,
    seen, told, result                                          \* of ChatClient

Th == INSTANCE Threads
Pr == INSTANCE Processes
Si == INSTANCE Signals
Sh == INSTANCE SharedMemory WITH at <- where
Ev == INSTANCE EventLoop
De == INSTANCE Deferred WITH point <- phase
Le == INSTANCE EarlyLeds WITH owner <- requested
Re == INSTANCE Relay WITH at <- place, fate <- end
Cl == INSTANCE ChatClient WITH reset <- cut, typed <- entered, shown <- seen, fate <- result

threads   == <<pc, reg, mem, owner, asleep, sem, freed, outcome>>
processes == <<at, life, ppid, unforked, astray>>
signals   == <<line, waiting, handler, flags, blocked, pending, queued, frames, count,
               running, heard, sent, delivered, fate>>
sharers   == <<word, file, holding, reset, segment, attached, content, shown, where, dead>>
epoll     == <<point, typed, unread, ended, batch, pipe>>
demo      == <<phase, my_wq, tasklet, my_work, late, fault>>
leds      == <<led, bound, requested, pin, cleared>>
relay     == <<place, sock, fd, clients, lock, cursor, lines, hist, chatlog, got, garbled,
               peer, end>>
client    == <<step, receiver, server, cut, stream, verdict, entered, message, outgoing,
               seen, told, result>>

vars == <<program, threads, processes, signals, sharers, epoll, demo, leds, relay, client>>

\* The programs that run to an end by themselves.
Ending == Th!Programs \cup Pr!Programs \cup Sh!Programs

All == Ending \cup Si!Programs \cup Ev!Programs \cup De!Programs \cup Le!Programs
              \cup Re!Programs \cup Cl!Programs

Init ==
    /\ program \in All
    /\ Th!Init /\ Pr!Init /\ Si!Init /\ Sh!Init /\ Ev!Init /\ De!Init /\ Le!Init
    /\ Re!Init /\ Cl!Init
-----------------------------------------------------------------------------
(* One step of the program that runs. *)

Alone(programs) == program \in programs /\ UNCHANGED program

Thread(t) ==
    /\ Alone(Th!Programs)
    /\ Th!Step(t)
    /\ UNCHANGED <<processes, signals, sharers, epoll, demo, leds, relay, client>>

Spurious(t) ==
    /\ Alone(Th!Programs)
    /\ Th!WakeSpuriously(t)
    /\ UNCHANGED <<processes, signals, sharers, epoll, demo, leds, relay, client>>

Process(p) ==
    /\ Alone(Pr!Programs)
    /\ Pr!Step(p)
    /\ UNCHANGED <<threads, signals, sharers, epoll, demo, leds, relay, client>>

Signal ==
    /\ Alone(Si!Programs)
    /\ Si!Next
    /\ UNCHANGED <<threads, processes, sharers, epoll, demo, leds, relay, client>>

Sharer(p) ==
    /\ Alone(Sh!Programs)
    /\ Sh!Step(p)
    /\ UNCHANGED <<threads, processes, signals, epoll, demo, leds, relay, client>>

Killed(p) ==
    /\ Alone(Sh!Programs)
    /\ Sh!Kill(p)
    /\ UNCHANGED <<threads, processes, signals, epoll, demo, leds, relay, client>>

Turn ==
    /\ Alone(Ev!Programs)
    /\ Ev!Step
    /\ UNCHANGED <<threads, processes, signals, sharers, demo, leds, relay, client>>

Input ==
    /\ Alone(Ev!Programs)
    /\ Ev!Type \/ Ev!Interrupted
    /\ UNCHANGED <<threads, processes, signals, sharers, demo, leds, relay, client>>

Module ==
    /\ Alone(De!Programs)
    /\ De!Next
    /\ UNCHANGED <<threads, processes, signals, sharers, epoll, leds, relay, client>>

Drivers ==
    /\ Alone(Le!Programs)
    /\ Le!Next
    /\ UNCHANGED <<threads, processes, signals, sharers, epoll, demo, relay, client>>

Server ==
    /\ Alone(Re!Programs)
    /\ Re!Next
    /\ UNCHANGED <<threads, processes, signals, sharers, epoll, demo, leds, client>>

Client ==
    /\ Alone(Cl!Programs)
    /\ Cl!Next
    /\ UNCHANGED <<threads, processes, signals, sharers, epoll, demo, leds, relay>>

\* The program has ended, or waits for somebody outside.
Over ==
    \/ program \in Th!Programs /\ Th!Over
    \/ program \in Pr!Programs /\ Pr!Over
    \/ program \in Si!Programs /\ Si!Over
    \/ program \in Sh!Programs /\ Sh!Over
    \/ program \in Ev!Programs /\ Ev!Over
    \/ program \in De!Programs /\ De!Over
    \/ program \in Re!Programs /\ Re!Over
    \/ program \in Cl!Programs /\ Cl!Over

Idle == Over /\ UNCHANGED vars

Next ==
    \/ \E t \in Th!Thread : Thread(t) \/ Spurious(t)
    \/ \E p \in Pr!Process : Process(p)
    \/ \E p \in Sh!Proc : Sharer(p) \/ Killed(p)
    \/ Signal \/ Turn \/ Input \/ Module \/ Drivers \/ Server \/ Client
    \/ Idle

\* The kernel runs whatever can run.  A thread that waits for a mutex gets it if
\* it is free again and again: a thread woken for no reason could take it each
\* time otherwise.
Fairness ==
    /\ \A t \in Th!Thread : SF_vars(Thread(t))
    /\ \A p \in Pr!Process : WF_vars(Process(p))
    /\ \A p \in Sh!Proc : WF_vars(Sharer(p))
    /\ WF_vars(Turn)

Spec == Init /\ [][Next]_vars /\ Fairness
-----------------------------------------------------------------------------
(* Properties, those of the modules and one of all. *)

\* The exercises on threads, processes and shared memory run to an end: no
\* wakeup is lost and nobody waits for a child, a thread or a lock for ever, but
\* for the two crossed mutexes and for a spinlock whose holder was killed.  The
\* event loop does not end, and prints what it has written to itself.
EveryProgramEnds == ((program \in Ending) => <>Over) /\ Ev!Answered

\* The counters, and what the consumer takes, are what the mutexes promise; the
\* semaphores admit MAX_CONCURRENT, and keep clone's stack for its thread.
ThreadsExact == program \in Th!Programs => Th!ResultsExact /\ Th!SemaphoresHold

\* A parent that waits leaves no child behind and kills none but its own, or
\* everybody, if the fork it does not check has failed; a child has init for a
\* parent only behind one that did not wait.
ChildrenSeenThrough ==
    program \in Pr!Programs => Pr!ChildrenSeenThrough /\ Pr!OrphansHaveInit

\* The third signal exits and no count is lost without SA_NODEFER; a signal sent
\* while it was blocked never reaches the handler that was installed at the time.
SignalsAccounted == program \in Si!Programs => Si!ThirdExits /\ Si!BlockedIsHeardLate

\* A signal kills only outside the time its handler or its block is in place.
KilledNeedsGap == program \in Si!Programs => Si!KilledNeedsGap

\* Two hold the spinlock at once only if it was initialised while held; a segment
\* is removed by its writer, and readable while it is mapped.
SharedIsHeld == program \in Sh!Programs => Sh!SpinExclusion /\ Sh!SegmentServed

\* The pipe the event loop writes to itself never fills.
PipeNeverFull == Ev!PipeNeverFull

\* The work item stays inside its queue's and its module's life.
WorkInsideModule == De!WorkInsideModule

\* The LED's line belongs to the driver that is bound, and shows it.
LineFollowsBinding == Le!LineFollowsBinding

\* The first TLS server's uses of freed objects and of foreign descriptors need a
\* thread that is leaving, and its users in the room have received the whole log.
RelayServes == Re!RelayFaultsNeedDeparture /\ Re!RelayReachesAll

\* A client chats if it was let in, or not answered; it sends and shows lines in
\* order, and at the end of its input the last line over and over.
ClientFaithful == (program \in Cl!Programs => Cl!ChatNeedsVerdict) /\ Cl!LinesInOrder
=============================================================================
