------------------------------ MODULE Signals ------------------------------
(***************************************************************************)
(* The signal exercises of assignment5 and assignment4/ex1.c.  A program   *)
(* is a text of instructions that install handlers, block and unblock and  *)
(* wait; meanwhile somebody sends signals.  A signal that is pending twice *)
(* is pending once.                                                        *)
(***************************************************************************)
EXTENDS Naturals, Sequences

CONSTANTS MaxSignals    \* bound: signals that are sent

VARIABLES
    program,   \* the program that runs
    line,      \* the instruction of main
    waiting,   \* main is in pause()
    handler,   \* what is installed for each signal
    flags,     \* of sigaction: the stack's, where the program does not set them
    blocked,   \* the signals main has blocked
    pending,   \* the signals that have been sent and not delivered
    queued,    \* history: those of them that were sent while blocked
    frames,    \* the handlers that run: signal, handler, count as it loaded it
    count,     \* sigint_count
    running,   \* the menu's variable
    heard,     \* history: who has handled a signal that was sent while blocked, or not
    sent,      \* how many signals have been sent
    delivered, \* how many have been delivered
    fate       \* "running", "exited" or "killed"

vars == <<line, waiting, handler, flags, blocked, pending, queued, frames, count,
          running, heard, sent, delivered, fate>>

Sig == {"INT", "USR1", "USR2"}
-----------------------------------------------------------------------------
(* The texts. *)

\* assignment5/ex1.c and signaction.c: the third SIGINT exits.
CountInt  == <<<<"handle", "INT", "count">>, <<"spin">>>>
SigAction == <<<<"handle", "INT", "count">>, <<"spin">>>>

\* ex2.c: two signals are blocked and the mask is listed.
ListMask == <<<<"block", {"INT", "USR1"}>>, <<"list">>>>

\* ex3.c: SIGINT is blocked for a while, then looked for, then unblocked.
CheckPending_Mut == <<<<"block", {"USR1"}>>, <<"sleep">>, <<"exit if pending", "INT">>,
                      <<"unblock", {"USR1"}>>>>
CheckPending == <<<<"block", {"INT"}>>, <<"sleep">>, <<"exit if pending", "INT">>,
                  <<"unblock", {"INT"}>>>>

\* func_pointer_signal.c: a menu that SIGINT ends, behind the next choice.
Menu == <<<<"handle", "INT", "stop">>, <<"menu">>>>

\* process_receiver.c: SIGUSR1 is blocked, and its handler changed meanwhile.
Receiver_Mut == <<<<"handle", "USR1", "initial">>, <<"block", {"USR1"}>>, <<"sleep">>,
                  <<"unblock", {"USR1"}>>, <<"handle", "USR1", "debug">>, <<"pause">>>>
Receiver == <<<<"handle", "USR1", "initial">>, <<"block", {"USR1"}>>, <<"sleep">>,
              <<"handle", "USR1", "debug">>, <<"unblock", {"USR1"}>>, <<"pause">>>>

\* assignment4/ex1.c: SIGUSR2 exits, from the handler of both.
UserSignals == <<<<"handle", "USR1", "print">>, <<"handle", "USR2", "exit">>,
                 <<"pause for ever">>>>

Text == [count |-> CountInt, sigaction |-> SigAction, list |-> ListMask,
         check |-> CheckPending, menu |-> Menu, receiver |-> Receiver, user |-> UserSignals]

\* The signals a program is about; those it leaves alone are not sent to it.
About == [count |-> {"INT"}, sigaction |-> {"INT"}, list |-> {"INT", "USR1"},
          check |-> {"INT"}, menu |-> {"INT"}, receiver |-> {"USR1"}, user |-> {"USR1", "USR2"}]

Programs == DOMAIN Text
-----------------------------------------------------------------------------
Init ==
    /\ line = 1
    /\ waiting = FALSE
    /\ handler = [s \in Sig |-> "default"]
    /\ flags \in IF program = "sigaction" THEN SUBSET {"RESETHAND", "NODEFER"} ELSE {{}}
    /\ blocked = {}
    /\ pending = {}
    /\ queued = {}
    /\ frames = <<>>
    /\ count = 0
    /\ running = TRUE
    /\ heard = {}
    /\ sent = 0
    /\ delivered = 0
    /\ fate = "running"

\* Main takes its next step when no handler runs.
Is(op) ==
    /\ fate = "running"
    /\ frames = <<>>
    /\ line <= Len(Text[program])
    /\ Text[program][line][1] = op

Arg == Text[program][line][2]

masks    == <<blocked, pending, queued>>
handlers == <<handler, flags, frames, count, running, heard, sent, delivered>>

Handle ==
    /\ Is("handle")
    /\ handler' = [handler EXCEPT ![Arg] = Text[program][line][3]]
    /\ line' = line + 1
    /\ UNCHANGED <<waiting, flags, masks, frames, count, running, heard, sent, delivered, fate>>

Block ==
    /\ Is("block")
    /\ blocked' = blocked \cup Arg
    /\ line' = line + 1
    /\ UNCHANGED <<waiting, pending, queued, handlers, fate>>

Unblock ==
    /\ Is("unblock")
    /\ blocked' = blocked \ Arg
    /\ line' = line + 1
    /\ UNCHANGED <<waiting, pending, queued, handlers, fate>>

Pass ==
    /\ Is("sleep") \/ Is("list")
    /\ line' = line + 1
    /\ UNCHANGED <<waiting, masks, handlers, fate>>

\* sigpending, and exit if the signal is there.
Check ==
    /\ Is("exit if pending")
    /\ IF Arg \in pending THEN fate' = "exited" /\ UNCHANGED line
                          ELSE line' = line + 1 /\ UNCHANGED fate
    /\ UNCHANGED <<waiting, masks, handlers>>

\* One turn of the menu, behind a choice: 0 leaves, and so does the loop's
\* condition.  At the end of the input the choice is the last one again.
Choose ==
    /\ Is("menu")
    /\ \/ fate' = "exited"
       \/ fate' = IF running THEN "running" ELSE "exited"
    /\ UNCHANGED <<line, waiting, masks, handlers>>

\* pause() begins; a handler that runs from now on ends it.
Pause ==
    /\ Is("pause") \/ Is("pause for ever")
    /\ ~ waiting
    /\ waiting' = TRUE
    /\ UNCHANGED <<line, masks, handlers, fate>>

Return ==
    /\ fate = "running"
    /\ frames = <<>>
    /\ line > Len(Text[program])
    /\ fate' = "exited"
    /\ UNCHANGED <<line, waiting, masks, handlers>>

\* The user's keyboard, or process_sender.c with the right argument.
Send(s) ==
    /\ fate = "running"
    /\ sent < MaxSignals
    /\ sent' = sent + 1
    /\ pending' = pending \cup {s}
    /\ queued' = IF s \in blocked THEN queued \cup {s} ELSE queued
    /\ UNCHANGED <<line, waiting, handler, flags, blocked, frames, count, running, heard,
                   delivered, fate>>

\* A signal is delivered that is not blocked, by main or by its own handler.
Deliverable(s) ==
    /\ fate = "running"
    /\ s \in pending \ blocked
    /\ "NODEFER" \in flags \/ \A i \in 1 .. Len(frames) : frames[i].sig # s

Deliver(s) ==
    /\ Deliverable(s)
    /\ handler[s] # "default"
    /\ pending' = pending \ {s}
    /\ queued' = queued \ {s}
    /\ delivered' = delivered + 1
    /\ frames' = Append(frames, [sig |-> s, does |-> handler[s], loaded |-> count])
    /\ heard' = heard \cup {<<handler[s], s \in queued>>}
    /\ handler' = IF "RESETHAND" \in flags THEN [handler EXCEPT ![s] = "default"] ELSE handler
    /\ UNCHANGED <<line, waiting, flags, blocked, count, running, sent, fate>>

DeliverDefault(s) ==
    /\ Deliverable(s)
    /\ handler[s] = "default"
    /\ fate' = "killed"
    /\ UNCHANGED <<line, waiting, masks, handlers>>

\* The handler on top of the stack stores what it has computed and returns, or
\* exits.  sigint_count++ is a load, before or behind the handlers that interrupted
\* this one, and a store.
HandlerEnds ==
    /\ fate = "running"
    /\ frames # <<>>
    /\ LET top == frames[Len(frames)] IN
          /\ count' \in IF top.does = "count" THEN {top.loaded + 1, count + 1} ELSE {count}
          /\ running' = (running /\ top.does # "stop")
          /\ fate' = IF (top.does = "count" /\ count' >= 3) \/ top.does = "exit"
                     THEN "exited" ELSE fate
    /\ frames' = SubSeq(frames, 1, Len(frames) - 1)
    /\ waiting' = FALSE
    /\ line' = IF waiting /\ Text[program][line][1] = "pause" THEN line + 1 ELSE line
    /\ UNCHANGED <<handler, flags, masks, heard, sent, delivered>>

Main == Handle \/ Block \/ Unblock \/ Pass \/ Check \/ Choose \/ Pause \/ Return

Next ==
    \/ Main
    \/ HandlerEnds
    \/ \E s \in About[program] : Send(s) \/ Deliver(s) \/ DeliverDefault(s)

\* A program that waits for signals may wait for ever.
Over == fate # "running" \/ (sent = MaxSignals /\ pending \subseteq blocked)
-----------------------------------------------------------------------------
(* Properties. *)

\* The counting programs exit at the third signal that is delivered, and not
\* before; only where the flags let a handler interrupt itself a count is lost.
ThirdExits ==
    program \in {"count", "sigaction"} =>
       /\ fate = "exited" => delivered >= 3
       /\ "NODEFER" \notin flags => delivered <= 3 /\ (frames = <<>> => count = delivered)

\* A signal kills a program only before its handler is installed or, with flags
\* that happen to reset it, after; where it is blocked instead, only before the
\* block, or between the look for pending signals and the end.
KilledNeedsGap ==
    fate = "killed" =>
       \/ line = 1
       \/ program = "user" /\ line = 2
       \/ "RESETHAND" \in flags /\ delivered >= 1
       \/ program = "check" /\ line > 3

\* What a receiver tells of a signal: one that was sent while it was blocked is
\* never handled by handler_initial, whose message is for it, but by
\* handler_debug, whose message is for the others.
BlockedIsHeardLate == <<"initial", TRUE>> \notin heard
=============================================================================
