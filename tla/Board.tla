------------------------------- MODULE Board -------------------------------
(***************************************************************************)
(* The board of mock_project1/final: the LED driver, the button driver,    *)
(* the I2C driver and the control program mock_application/test.c, which   *)
(* sets the LED from the keyboard and has two threads that show the LED's  *)
(* status and the last value sent over I2C every second.                   *)
(***************************************************************************)
EXTENDS ButtonDriver, I2cSender

CONSTANT App   \* the program's descriptor of /dev/ledled

ASSUME AppAssumption == App \in File

VARIABLES
    running,    \* the flag the threads run by
    main,       \* where main is
    led_thread, \* led_status_thread
    i2c_thread, \* i2c_value_thread
    i2c_open,   \* the program's descriptor of /dev/i2c_ledchar is open
    shown       \* the status on the screen

app_vars == <<running, main, led_thread, i2c_thread, i2c_open, shown>>
vars == <<led_vars, button_vars, i2c_vars, app_vars>>

ThreadPC == {"none", "loop", "ioctl", "done"}

\* Types of the variables, the drivers' included: the sender's values are those
\* the expander knows.
TypeOK ==
    /\ LedTypeOK
    /\ ButtonTypeOK
    /\ I2cTypeOK
    /\ running \in BOOLEAN
    /\ main \in {"start", "opened", "menu", "join_led", "join_i2c", "close",
                 "close_i2c", "exit"}
    /\ led_thread \in ThreadPC
    /\ i2c_thread \in ThreadPC
    /\ i2c_open \in BOOLEAN
    /\ shown \in {"nothing", "on", "off"}

Init ==
    /\ LedInit
    /\ ButtonInit
    /\ I2cInit
    /\ running = TRUE
    /\ main = "start"
    /\ led_thread = "none"
    /\ i2c_thread = "none"
    /\ i2c_open = FALSE
    /\ shown = "nothing"
-----------------------------------------------------------------------------
(* main *)

threads == <<led_thread, i2c_thread>>

\* Without a node, perror and exit.
OpenLed ==
    /\ main = "start"
    /\ \/ Open(App) /\ main' = "opened"
       \/ bound # "yes" /\ main' = "exit" /\ UNCHANGED led_vars
    /\ UNCHANGED <<button_vars, i2c_vars, running, threads, i2c_open, shown>>

\* The threads start with the menu.
OpenI2c ==
    /\ main = "opened"
    /\ loaded = "yes"
    /\ main' = "menu"
    /\ i2c_open' = TRUE
    /\ led_thread' = "loop"
    /\ i2c_thread' = "loop"
    /\ UNCHANGED <<led_vars, button_vars, i2c_vars, running, shown>>

OpenI2cFails ==
    /\ main = "opened"
    /\ loaded # "yes"
    /\ Close(App)
    /\ main' = "exit"
    /\ UNCHANGED <<button_vars, i2c_vars, running, threads, i2c_open, shown>>

\* Keys 1 and 2; any other but q is ignored.
Key(v) ==
    /\ main = "menu"
    /\ Set(App, v)
    /\ UNCHANGED <<button_vars, i2c_vars, app_vars>>

KeyQuit_Mut ==
    /\ main = "menu"
    /\ led_pc[App] = "out"
    /\ main' = "join_led"
    /\ UNCHANGED <<led_vars, button_vars, i2c_vars, running, threads, i2c_open, shown>>
KeyQuit ==
    /\ main = "menu"
    /\ led_pc[App] = "out"
    /\ running' = FALSE
    /\ main' = "join_led"
    /\ UNCHANGED <<led_vars, button_vars, i2c_vars, threads, i2c_open, shown>>

JoinLed_Mut ==
    /\ main = "join_led"
    /\ main' = "join_i2c"
    /\ UNCHANGED <<led_vars, button_vars, i2c_vars, running, threads, i2c_open, shown>>
JoinLed ==
    /\ main = "join_led"
    /\ led_thread = "done"
    /\ main' = "join_i2c"
    /\ UNCHANGED <<led_vars, button_vars, i2c_vars, running, threads, i2c_open, shown>>

JoinI2c ==
    /\ main = "join_i2c"
    /\ i2c_thread = "done"
    /\ main' = "close"
    /\ UNCHANGED <<led_vars, button_vars, i2c_vars, running, threads, i2c_open, shown>>

CloseLed ==
    /\ main = "close"
    /\ Close(App)
    /\ main' = "close_i2c"
    /\ UNCHANGED <<button_vars, i2c_vars, running, threads, i2c_open, shown>>

CloseI2c ==
    /\ main = "close_i2c"
    /\ i2c_open' = FALSE
    /\ main' = "exit"
    /\ UNCHANGED <<led_vars, button_vars, i2c_vars, running, threads, shown>>
-----------------------------------------------------------------------------
(* The threads; the second asleep is part of their loop. *)

LedLoop ==
    /\ led_thread = "loop"
    /\ led_thread' = IF running THEN "ioctl" ELSE "done"
    /\ UNCHANGED <<led_vars, button_vars, i2c_vars, running, main, i2c_thread, i2c_open, shown>>

\* LED_IOCTL_GET and printf.
led_status_Mut ==
    /\ led_thread = "ioctl"
    /\ led_thread' = "done"
    /\ shown' = IF led_state THEN "on" ELSE "off"
    /\ UNCHANGED <<led_vars, button_vars, i2c_vars, running, main, i2c_thread, i2c_open>>
led_status ==
    /\ led_thread = "ioctl"
    /\ led_thread' = "loop"
    /\ shown' = IF led_state THEN "on" ELSE "off"
    /\ UNCHANGED <<led_vars, button_vars, i2c_vars, running, main, i2c_thread, i2c_open>>

I2cLoop ==
    /\ i2c_thread = "loop"
    /\ i2c_thread' = IF running THEN "ioctl" ELSE "done"
    /\ UNCHANGED <<led_vars, button_vars, i2c_vars, running, main, led_thread, i2c_open, shown>>

i2c_value ==
    /\ i2c_thread = "ioctl"
    /\ i2c_thread' = "loop"
    /\ UNCHANGED <<led_vars, button_vars, i2c_vars, running, main, led_thread, i2c_open, shown>>
-----------------------------------------------------------------------------
Main == OpenLed \/ OpenI2c \/ OpenI2cFails \/ KeyQuit
        \/ JoinLed \/ JoinI2c \/ CloseLed \/ CloseI2c

Drivers ==
    \/ /\ Bind \/ \E c \in Caller : LedStep(c)
       /\ UNCHANGED <<button_vars, i2c_vars, app_vars>>
    \/ /\ Button
       /\ UNCHANGED <<i2c_vars, app_vars>>
    \/ /\ I2cLoad(i2c_open) \/ Sender
       /\ UNCHANGED <<led_vars, button_vars, app_vars>>

Next ==
    \/ Drivers
    \/ Main
    \/ \E v \in BOOLEAN : Key(v)
    \/ LedLoop \/ led_status
    \/ I2cLoop \/ i2c_value

Spec == Init /\ [][Next]_vars

\* Threads are scheduled and sleep(1) returns; nobody has to press a key.
FairSpec ==
    /\ Spec
    /\ WF_vars(LedLoop \/ led_status)
    /\ WF_vars(I2cLoop \/ i2c_value)
    /\ WF_vars(JoinLed \/ JoinI2c \/ CloseLed \/ CloseI2c)
-----------------------------------------------------------------------------
(* Properties. *)

\* Neither thread is in an ioctl on a descriptor that main has closed.
DescriptorsOutliveThreads ==
    /\ led_thread = "ioctl" => App \in opened
    /\ i2c_thread = "ioctl" => i2c_open

\* A program that was told to quit exits, whatever the drivers do meanwhile.
QuitExits == main = "join_led" ~> main = "exit"

\* The screen does not lag behind the driver for ever: once the driver's record
\* stays as it is while the menu is up, the screen comes to show it.
ScreenCatchesUp ==
    /\ <>[](main = "menu" /\ led_state) => <>[](shown = "on")
    /\ <>[](main = "menu" /\ ~ led_state) => <>[](shown = "off")
=============================================================================
