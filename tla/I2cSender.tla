----------------------------- MODULE I2cSender -----------------------------
(***************************************************************************)
(* The I2C driver, mock_project1/final/i2c_test/i2c_test.c: a kernel       *)
(* thread sends the values 0 .. 7 in turn to an output expander, one a     *)
(* second, and keeps the last one that was acknowledged for the readers of *)
(* /dev/i2c_ledchar.                                                       *)
(***************************************************************************)
EXTENDS Naturals

CONSTANT VALUES   \* how many values there are: 8 in the code

ASSUME ValuesAssumption == VALUES \in Nat \ {0}

VARIABLES
    loaded,          \* where initialisation or exit is
    adapter,         \* the bus adapter is held
    i2c_node,        \* /dev/i2c_ledchar exists
    sender,          \* the thread
    value,           \* its next value
    last_sent_value, \* what readers are given
    slave            \* the expander's output, VALUES if never set

i2c_vars == <<loaded, adapter, i2c_node, sender, value, last_sent_value, slave>>

I2cTypeOK ==
    /\ loaded \in {"no", "adapter", "node", "yes", "stopping", "stopped"}
    /\ adapter \in BOOLEAN
    /\ i2c_node \in BOOLEAN
    /\ sender \in {"none", "loop", "transfer", "sent"}
    /\ value \in 0 .. VALUES - 1
    /\ last_sent_value \in 0 .. VALUES - 1
    /\ slave \in 0 .. VALUES

I2cInit ==
    /\ loaded = "no"
    /\ adapter = FALSE
    /\ i2c_node = FALSE
    /\ sender = "none"
    /\ value = 0
    /\ last_sent_value = 0
    /\ slave = VALUES
-----------------------------------------------------------------------------
(* i2c_api_sender_init and i2c_api_sender_exit. *)

GetAdapter ==
    /\ loaded = "no"
    /\ \/ loaded' = "adapter" /\ adapter' = TRUE
       \/ UNCHANGED <<loaded, adapter>>             \* -ENODEV
    /\ UNCHANGED <<i2c_node, sender, value, last_sent_value, slave>>

CreateNode ==
    /\ loaded = "adapter"
    /\ loaded' = "node"
    /\ i2c_node' = TRUE
    /\ UNCHANGED <<adapter, sender, value, last_sent_value, slave>>

RunSender ==
    /\ loaded = "node"
    /\ loaded' = "yes"
    /\ sender' = "loop"
    /\ UNCHANGED <<adapter, i2c_node, value, last_sent_value, slave>>

\* kthread_run failed: everything is taken back.
RunSenderFails ==
    /\ loaded = "node"
    /\ loaded' = "no"
    /\ i2c_node' = FALSE
    /\ adapter' = FALSE
    /\ UNCHANGED <<sender, value, last_sent_value, slave>>

\* kthread_stop sets the flag and waits for the thread.
StopSender ==
    /\ loaded = "yes"
    /\ loaded' = "stopping"
    /\ UNCHANGED <<adapter, i2c_node, sender, value, last_sent_value, slave>>

PutAdapter_Mut ==
    /\ loaded = "stopping"
    /\ loaded' = "stopped"
    /\ adapter' = FALSE
    /\ UNCHANGED <<i2c_node, sender, value, last_sent_value, slave>>
PutAdapter ==
    /\ loaded = "stopping"
    /\ sender = "none"
    /\ loaded' = "stopped"
    /\ adapter' = FALSE
    /\ UNCHANGED <<i2c_node, sender, value, last_sent_value, slave>>

\* The module's data goes with it; the expander keeps its output, but nothing
\* is known of it to the next driver that is loaded.
DestroyNode ==
    /\ loaded = "stopped"
    /\ loaded' = "no"
    /\ i2c_node' = FALSE
    /\ value' = 0
    /\ last_sent_value' = 0
    /\ slave' = VALUES
    /\ UNCHANGED <<adapter, sender>>
-----------------------------------------------------------------------------
(* sender_thread_fn *)

Following(v) == (v + 1) % VALUES

SenderLoop ==
    /\ sender = "loop"
    /\ sender' = IF loaded = "stopping" THEN "none" ELSE "transfer"
    /\ UNCHANGED <<loaded, adapter, i2c_node, value, last_sent_value, slave>>

Transfer ==
    /\ sender = "transfer"
    /\ slave' = value
    /\ sender' = "sent"
    /\ UNCHANGED <<loaded, adapter, i2c_node, value, last_sent_value>>

RecordSent ==
    /\ sender = "sent"
    /\ last_sent_value' = value
    /\ value' = Following(value)
    /\ sender' = "loop"
    /\ UNCHANGED <<loaded, adapter, i2c_node, slave>>

\* Not acknowledged: the value is skipped.
TransferFails_Mut ==
    /\ sender = "transfer"
    /\ last_sent_value' = value
    /\ value' = Following(value)
    /\ sender' = "loop"
    /\ UNCHANGED <<loaded, adapter, i2c_node, slave>>
TransferFails ==
    /\ sender = "transfer"
    /\ value' = Following(value)
    /\ sender' = "loop"
    /\ UNCHANGED <<loaded, adapter, i2c_node, last_sent_value, slave>>

\* i2c_open: a program holds the node open, which keeps the module loaded.
I2cLoad(i2c_open) ==
    \/ GetAdapter \/ CreateNode \/ RunSender \/ RunSenderFails
    \/ ~ i2c_open /\ StopSender
    \/ PutAdapter \/ DestroyNode

Sender == SenderLoop \/ Transfer \/ RecordSent \/ TransferFails
-----------------------------------------------------------------------------
(* Properties. *)

\* A transfer is only under way while the adapter is held: the exit path stops
\* the thread before it gives the adapter back, the failed start never ran it.
AdapterHeld == sender = "transfer" => adapter

\* What readers are given is the output of the expander, except between an
\* acknowledgement and its record, and before this driver's first one: failed
\* transfers in between change neither.
ReportedIsSent ==
    \/ last_sent_value = slave
    \/ sender = "sent"
    \/ slave = VALUES
=============================================================================
