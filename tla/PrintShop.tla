----------------------------- MODULE PrintShop -----------------------------
(***************************************************************************)
(* What the printer exercise promises: every task is printed exactly once, *)
(* and a printer works on one task at a time.                              *)
(***************************************************************************)
CONSTANTS Task, Printer, None

VARIABLES waiting,  \* the tasks no printer has begun
          job,      \* the task each printer works on, or None
          printed   \* the tasks that came out

vars == <<waiting, job, printed>>

Init == /\ waiting = Task
        /\ job = [p \in Printer |-> None]
        /\ printed = {}

Begin(t, p) == /\ t \in waiting
               /\ job[p] = None
               /\ waiting' = waiting \ {t}
               /\ job' = [job EXCEPT ![p] = t]
               /\ UNCHANGED printed

End(p) == /\ job[p] \in Task
          /\ printed' = printed \cup {job[p]}
          /\ job' = [job EXCEPT ![p] = None]
          /\ UNCHANGED waiting

Next == \E p \in Printer : End(p) \/ \E t \in Task : Begin(t, p)

Spec == Init /\ [][Next]_vars /\ <>(printed = Task)
=============================================================================
