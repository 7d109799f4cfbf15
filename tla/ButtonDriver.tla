---------------------------- MODULE ButtonDriver ----------------------------
(***************************************************************************)
(* The button driver, mock_project1/final/bububutton/bububutton.c, on top  *)
(* of the LED driver whose set_led_state it calls.  Its interrupt is       *)
(* handled in a thread, one at a time (IRQF_ONESHOT): a press during the   *)
(* handler is one that is handled afterwards.  The handler toggles a copy  *)
(* of the LED's state of its own, which nothing else writes.               *)
(***************************************************************************)
EXTENDS LedDriver

CONSTANT Irq   \* the interrupt thread

ASSUME IrqAssumption == Irq \in Kernel

VARIABLES
    irq_on,        \* the interrupt is requested
    button_state   \* button_data.led_state

button_vars == <<irq_on, button_state>>

ButtonTypeOK ==
    /\ irq_on \in BOOLEAN
    /\ button_state \in BOOLEAN

ButtonInit ==
    /\ irq_on = FALSE
    /\ button_state = FALSE

\* Nothing orders this probe after that of the LED driver.
ButtonProbe ==
    /\ ~ irq_on
    /\ led_pc[Irq] # "dead"
    /\ irq_on' = TRUE
    /\ UNCHANGED <<led_vars, button_state>>

\* free_irq waits for a running handler.
ButtonRemove ==
    /\ irq_on
    /\ led_pc[Irq] = "out"
    /\ irq_on' = FALSE
    /\ UNCHANGED <<led_vars, button_state>>

\* The button is pressed, or was during the last run.
button_irq_handler ==
    /\ irq_on
    /\ button_state' = ~ button_state
    /\ Set(Irq, ~ button_state)
    /\ UNCHANGED irq_on

Button == ButtonProbe \/ ButtonRemove \/ button_irq_handler
=============================================================================
