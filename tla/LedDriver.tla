----------------------------- MODULE LedDriver -----------------------------
(***************************************************************************)
(* The LED driver, mock_project1/final/ledledled/ledledled.c: one output   *)
(* pin, the driver's record of it in led.state, a device node, and the     *)
(* exported function set_led_state for the button driver.  Every way of    *)
(* switching the LED writes the register first and the record second, and  *)
(* no lock is held: callers interleave between the two.                    *)
(***************************************************************************)

CONSTANTS
    File,    \* the callers that hold /dev/ledled open
    Kernel   \* the callers of the exported set_led_state

ASSUME CallerAssumption == File \cap Kernel = {}

VARIABLES
    bound,     \* how far the driver is bound to its device, or that it has left
    base,      \* led.base: null, mapped, or pointing to what was unmapped
    hw,        \* the pin
    led_state, \* led.state
    opened,    \* the files that are open
    led_pc,    \* each caller's place in the driver
    val,       \* the value it was called with
    raced      \* history: the last to set the register met another caller

led_vars == <<bound, base, hw, led_state, opened, led_pc, val, raced>>

Caller == File \cup Kernel

LedTypeOK ==
    /\ bound \in {"no", "probing", "yes", "leaving", "left"}
    /\ base \in {"null", "mapped", "stale"}
    /\ hw \in BOOLEAN
    /\ led_state \in BOOLEAN
    /\ opened \subseteq File
    /\ led_pc \in [Caller -> {"out", "register", "record", "dead"}]
    /\ val \in [Caller -> BOOLEAN]
    /\ raced \in BOOLEAN

\* The GPIO's output register is clear after reset.
LedInit ==
    /\ bound = "no"
    /\ base = "null"
    /\ hw = FALSE
    /\ led_state = FALSE
    /\ opened = {}
    /\ led_pc = [c \in Caller |-> "out"]
    /\ val = [c \in Caller |-> FALSE]
    /\ raced = FALSE
-----------------------------------------------------------------------------
(* Binding: led_probe and led_remove. *)

\* of_iomap may fail, which leaves led.base null and the device unbound.
ProbeMap_Mut ==
    /\ bound \in {"no", "left"}
    /\ base' \in {"mapped", "null"}
    /\ bound' = "probing"
    /\ UNCHANGED <<hw, led_state, opened, led_pc, val, raced>>
ProbeMap ==
    /\ bound \in {"no", "left"}
    /\ \/ base' = "mapped" /\ bound' = "probing"
       \/ base' = "null" /\ UNCHANGED bound
    /\ UNCHANGED <<hw, led_state, opened, led_pc, val, raced>>

\* The pin is made an output, its level left alone; the node appears last.
ProbeNode ==
    /\ bound = "probing"
    /\ bound' = "yes"
    /\ UNCHANGED <<base, hw, led_state, opened, led_pc, val, raced>>

\* The node goes first; files already open are not waited for.
RemoveNode ==
    /\ bound = "yes"
    /\ bound' = "leaving"
    /\ UNCHANGED <<base, hw, led_state, opened, led_pc, val, raced>>

RemoveUnmap ==
    /\ bound = "leaving"
    /\ bound' = "left"
    /\ base' = "stale"
    /\ UNCHANGED <<hw, led_state, opened, led_pc, val, raced>>
-----------------------------------------------------------------------------
(* The callers. *)

Open(c) ==
    /\ c \in File \ opened
    /\ bound = "yes"
    /\ opened' = opened \cup {c}
    /\ UNCHANGED <<bound, base, hw, led_state, led_pc, val, raced>>

Close(c) ==
    /\ c \in opened
    /\ led_pc[c] = "out"
    /\ opened' = opened \ {c}
    /\ UNCHANGED <<bound, base, hw, led_state, led_pc, val, raced>>

\* LED_IOCTL_SET, a '0' or '1' written, or set_led_state, with value v.
Set(c, v) ==
    /\ c \in opened \cup Kernel
    /\ led_pc[c] = "out"
    /\ led_pc' = [led_pc EXCEPT ![c] = "register"]
    /\ val' = [val EXCEPT ![c] = v]
    /\ UNCHANGED <<bound, base, hw, led_state, opened, raced>>

WriteRegister(c) ==
    /\ led_pc[c] = "register"
    /\ base = "mapped"
    /\ hw' = val[c]
    /\ led_pc' = [led_pc EXCEPT ![c] = "record"]
    /\ raced' = (\E d \in Caller : led_pc[d] = "record")
    /\ UNCHANGED <<bound, base, led_state, opened, val>>

\* Without a mapping the write faults, and the caller dies of it.
Fault(c) ==
    /\ led_pc[c] = "register"
    /\ base # "mapped"
    /\ led_pc' = [led_pc EXCEPT ![c] = "dead"]
    /\ val' = [val EXCEPT ![c] = FALSE]
    /\ UNCHANGED <<bound, base, hw, led_state, opened, raced>>

\* The caller returns, and its value goes out of scope.
WriteRecord_Mut(c) ==
    /\ led_pc[c] = "record"
    /\ led_state' = ~ led_state
    /\ led_pc' = [led_pc EXCEPT ![c] = "out"]
    /\ val' = [val EXCEPT ![c] = FALSE]
    /\ UNCHANGED <<bound, base, hw, opened, raced>>
WriteRecord(c) ==
    /\ led_pc[c] = "record"
    /\ led_state' = val[c]
    /\ led_pc' = [led_pc EXCEPT ![c] = "out"]
    /\ val' = [val EXCEPT ![c] = FALSE]
    /\ UNCHANGED <<bound, base, hw, opened, raced>>

LedStep(c) == WriteRegister(c) \/ Fault(c) \/ WriteRecord(c)

Bind == ProbeMap \/ ProbeNode \/ RemoveNode \/ RemoveUnmap

\* The driver with any programs and any callers of set_led_state around it.
LedNext ==
    \/ Bind
    \/ \E c \in Caller : LedStep(c) \/ Open(c) \/ Close(c)
    \/ \E c \in Caller, v \in BOOLEAN : Set(c, v)

LedSpec == LedInit /\ [][LedNext]_led_vars
-----------------------------------------------------------------------------
(* Properties. *)

\* While no caller is inside, led.state is the level of the pin, unless the last
\* to set the register met one that had still to write its record: callers one
\* after the other cannot part the two, and the next one alone mends them.
DriftNeedsRace ==
    (\A c \in Caller : led_pc[c] # "record") /\ ~ raced => led_state = hw

\* A program that is about to write through a missing mapping opened the node of
\* a device that led_remove has taken away since: the node does not exist before
\* the registers are mapped, and a failed mapping is not taken for a mapped one.
FileFaultsNeedRemove ==
    \A c \in File : led_pc[c] = "register" /\ base # "mapped" => bound = "left"
=============================================================================
