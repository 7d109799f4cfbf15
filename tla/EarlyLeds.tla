----------------------------- MODULE EarlyLeds -----------------------------
(***************************************************************************)
(* The first LED drivers of mock_project1, which all drive one pin: led.c  *)
(* through the registers, led_dt.c and led_button.c as the line of the     *)
(* GPIO subsystem that the device tree gives them.  Both of these match    *)
(* the device "my,gpio-led", and only one driver is bound to a device.     *)
(***************************************************************************)
CONSTANTS None    \* no driver

VARIABLES
    led,      \* led.c: loaded, with gpio0_base mapped
    bound,    \* the driver of the device
    owner,    \* the driver that has requested the line
    pin,      \* what the pin gives
    cleared   \* history: led.c has cleared the pin since a driver was bound

vars == <<led, bound, owner, pin, cleared>>

Programs == {"leds"}

Init ==
    /\ led = FALSE
    /\ bound = None
    /\ owner = None
    /\ pin = 0
    /\ cleared = FALSE

\* led_gpio_init and led_gpio_exit ask nobody for the pin.
led_gpio_init ==
    /\ ~ led
    /\ led' = TRUE
    /\ pin' = 1
    /\ UNCHANGED <<bound, owner, cleared>>

led_gpio_exit ==
    /\ led
    /\ led' = FALSE
    /\ pin' = 0
    /\ cleared' = TRUE
    /\ UNCHANGED <<bound, owner>>

\* gpio_led_probe: request, then direction and value, which may fail after it
\* and gives the line back.
gpio_led_request ==
    /\ bound = None
    /\ owner = None
    /\ owner' = "led_dt"
    /\ UNCHANGED <<led, bound, pin, cleared>>

gpio_led_direction_Mut ==
    /\ bound = None
    /\ owner = "led_dt"
    /\ \/ UNCHANGED <<bound, owner, pin, cleared>>
       \/ bound' = "led_dt" /\ pin' = 1 /\ cleared' = FALSE /\ owner' = None
    /\ UNCHANGED led
gpio_led_direction ==
    /\ bound = None
    /\ owner = "led_dt"
    /\ \/ owner' = None /\ UNCHANGED <<bound, pin, cleared>>
       \/ bound' = "led_dt" /\ pin' = 1 /\ cleared' = FALSE /\ UNCHANGED owner
    /\ UNCHANGED led

gpio_led_remove ==
    /\ bound = "led_dt"
    /\ pin' = 0
    /\ owner' = None
    /\ bound' = None
    /\ UNCHANGED <<led, cleared>>

\* btn_led_probe: devm_gpiod_get for the LED sets the pin low.
btn_led_get ==
    /\ bound = None
    /\ owner = None
    /\ owner' = "led_button"
    /\ pin' = 0
    /\ UNCHANGED <<led, bound, cleared>>

\* The button is asked for by the same name, NULL, which is the same line: it is
\* given only if nobody has it.  When probe fails devm gives the line back.
btn_led_get_button ==
    /\ bound = None
    /\ owner = "led_button"
    /\ owner' = None
    /\ UNCHANGED <<led, bound, pin, cleared>>

Next ==
    \/ led_gpio_init \/ led_gpio_exit
    \/ gpio_led_request \/ gpio_led_direction \/ gpio_led_remove
    \/ btn_led_get \/ btn_led_get_button

-----------------------------------------------------------------------------
(* Properties. *)

\* The line belongs to the driver that is bound or is being bound, and while
\* led_dt is bound the LED is on, unless led.c has been removed meanwhile.
LineFollowsBinding ==
    /\ bound # None => owner = bound
    /\ bound = "led_dt" => pin = 1 \/ cleared
=============================================================================
