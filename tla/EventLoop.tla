----------------------------- MODULE EventLoop -----------------------------
(***************************************************************************)
(* assignment4/ex3.c: one thread that waits by epoll for its standard      *)
(* input and for a pipe whose both ends it holds.  Were the pipe ever      *)
(* full, the write that fills it would wait for a reader that is itself.   *)
(***************************************************************************)
EXTENDS Naturals

CONSTANTS MaxInput    \* bound: lines somebody types

VARIABLES
    point,   \* start, wait, or handling a batch; exited
    typed,   \* lines typed
    unread,  \* of these, those not yet read
    ended,   \* the end of the input has been reached
    batch,   \* the descriptors epoll_wait reported, still to be handled
    pipe     \* messages in the pipe

vars == <<point, typed, unread, ended, batch, pipe>>

Programs == {"epoll"}

Init ==
    /\ point = "start"
    /\ typed = 0
    /\ unread = 0
    /\ ended = FALSE
    /\ batch = {}
    /\ pipe = 0

\* Somebody at the keyboard, or a file: lines, and an end.
Type ==
    /\ point # "exited"
    /\ ~ ended
    /\ \/ typed < MaxInput /\ typed' = typed + 1 /\ unread' = unread + 1 /\ UNCHANGED ended
       \/ ended' = TRUE /\ UNCHANGED <<typed, unread>>
    /\ UNCHANGED <<point, batch, pipe>>

\* epoll_create1, pipe and the registrations may fail; a file on standard input
\* cannot be registered.
Start ==
    /\ point = "start"
    /\ \/ point' = "exited" /\ UNCHANGED pipe
       \/ point' = "wait" /\ pipe' = 1
    /\ UNCHANGED <<typed, unread, ended, batch>>

\* The end of the input is reported as readable, again and again.
Ready ==
    {f \in {"stdin", "pipe"} :
       IF f = "stdin" THEN unread > 0 \/ ended ELSE pipe > 0}

\* epoll_wait, which a signal may interrupt.
Wait_Mut ==
    /\ point = "wait"
    /\ Ready # {}
    /\ \E f \in Ready : batch' = {f}
    /\ point' = "handle"
    /\ UNCHANGED <<typed, unread, ended, pipe>>
Wait ==
    /\ point = "wait"
    /\ Ready # {}
    /\ batch' = Ready
    /\ point' = "handle"
    /\ UNCHANGED <<typed, unread, ended, pipe>>

Interrupted ==
    /\ point = "wait"
    /\ point' = "exited"
    /\ UNCHANGED <<typed, unread, ended, batch, pipe>>

Handled(f) ==
    /\ batch' = batch \ {f}
    /\ point' = IF batch' = {} THEN "wait" ELSE "handle"

\* One read takes a line from a terminal and several from another pipe, and each
\* read that is not empty is answered once.
HandleStdin ==
    /\ "stdin" \in batch
    /\ Handled("stdin")
    /\ IF unread = 0
       THEN UNCHANGED <<unread, pipe>>
       ELSE unread' \in 0 .. unread - 1 /\ pipe' = pipe + 1
    /\ UNCHANGED <<typed, ended>>

HandlePipe ==
    /\ "pipe" \in batch
    /\ Handled("pipe")
    /\ pipe' = 0
    /\ UNCHANGED <<typed, unread, ended>>

Step == Start \/ Wait \/ HandleStdin \/ HandlePipe

Next == Step \/ Type \/ Interrupted

\* It may wait for input for ever.
Over == point = "exited" \/ (point = "wait" /\ Ready = {} /\ typed = MaxInput)
-----------------------------------------------------------------------------
(* Properties. *)

\* However much is typed, the pipe holds two messages at most, so no write to
\* it waits: what it holds is reported in every batch and read to the last.
PipeNeverFull == pipe <= 2

\* What is in the pipe is printed, though the end of the input keeps the loop
\* turning.
Answered == pipe > 0 ~> (pipe = 0 \/ point = "exited")
=============================================================================
