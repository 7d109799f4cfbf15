------------------------------ MODULE Deferred ------------------------------
(***************************************************************************)
(* assignment4/tasklet_workqueuesoftirq/demo.c: initialisation schedules a *)
(* tasklet, which queues a work item on a workqueue; exit destroys the     *)
(* workqueue and then kills the tasklet.  Softirqs and workers run beside  *)
(* both.                                                                   *)
(***************************************************************************)
VARIABLES
    point,   \* how far initialisation and exit have come
    my_wq,   \* the workqueue; the pointer is not reset when it is destroyed
    tasklet, \* idle, scheduled, or between the test of my_wq and queue_work
    my_work, \* none before INIT_WORK, then idle, queued or running
    late,    \* history: exit began before the tasklet had run
    fault    \* freed memory has been used

vars == <<point, my_wq, tasklet, my_work, late, fault>>

Programs == {"tasklet"}

Init ==
    /\ point = "create"
    /\ my_wq = "null"
    /\ tasklet = "idle"
    /\ my_work = "none"
    /\ late = FALSE
    /\ fault = FALSE

\* mod_init.
CreateQueue ==
    /\ point = "create"
    /\ \/ my_wq' = "there" /\ point' = "init work"
       \/ point' = "unloaded" /\ UNCHANGED my_wq
    /\ UNCHANGED <<tasklet, my_work, late, fault>>

InitWork ==
    /\ point = "init work"
    /\ my_work' = "idle"
    /\ point' = "schedule"
    /\ UNCHANGED <<my_wq, tasklet, late, fault>>

ScheduleTasklet ==
    /\ point = "schedule"
    /\ tasklet' = "scheduled"
    /\ point' = "live"
    /\ UNCHANGED <<my_wq, my_work, late, fault>>

\* tasklet_fn, in two steps.
TestQueue ==
    /\ ~ fault
    /\ tasklet = "scheduled"
    /\ tasklet' = IF my_wq = "null" THEN "idle" ELSE "queue"
    /\ UNCHANGED <<point, my_wq, my_work, late, fault>>

\* queue_work: a queue that is being drained turns the item away with a warning.
QueueWork ==
    /\ ~ fault
    /\ tasklet = "queue"
    /\ tasklet' = "idle"
    /\ fault' = (my_wq = "freed")
    /\ my_work' = IF my_wq = "there" THEN "queued" ELSE my_work
    /\ UNCHANGED <<point, my_wq, late>>

\* work_fn.
RunWork ==
    /\ ~ fault
    /\ \/ my_work = "queued" /\ my_work' = "running"
       \/ my_work = "running" /\ my_work' = "idle"
    /\ UNCHANGED <<point, my_wq, tasklet, late, fault>>

\* mod_exit: destroy_workqueue drains the queue and frees it.
Drain ==
    /\ ~ fault
    /\ point = "live"
    /\ point' = "drain"
    /\ my_wq' = "draining"
    /\ late' = (tasklet # "idle")
    /\ UNCHANGED <<tasklet, my_work, fault>>

FreeQueue_Mut ==
    /\ ~ fault
    /\ point = "drain"
    /\ my_wq' = "freed"
    /\ point' = "kill"
    /\ UNCHANGED <<tasklet, my_work, late, fault>>
FreeQueue ==
    /\ ~ fault
    /\ point = "drain"
    /\ my_work = "idle"
    /\ my_wq' = "freed"
    /\ point' = "kill"
    /\ UNCHANGED <<tasklet, my_work, late, fault>>

\* tasklet_kill waits for a tasklet that has been scheduled.
KillTasklet ==
    /\ ~ fault
    /\ point = "kill"
    /\ tasklet = "idle"
    /\ point' = "unloaded"
    /\ UNCHANGED <<my_wq, tasklet, my_work, late, fault>>

Step ==
    \/ CreateQueue \/ InitWork \/ ScheduleTasklet \/ TestQueue \/ QueueWork \/ RunWork
    \/ Drain \/ FreeQueue \/ KillTasklet

Next == Step

Over == point = "unloaded" \/ fault
-----------------------------------------------------------------------------
(* Properties. *)

\* The work item is in the queue or running only while the queue and the
\* module are there, and freed memory is used only if the module is removed
\* before its tasklet has run.
WorkInsideModule ==
    /\ my_work \in {"queued", "running"} => my_wq \in {"there", "draining"}
    /\ (point = "unloaded" => my_work \in {"none", "idle"} /\ tasklet = "idle")
    /\ fault => late
=============================================================================
