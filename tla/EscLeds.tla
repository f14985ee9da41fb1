------------------------------- MODULE EscLeds -------------------------------
(***************************************************************************)
(* The pins of the board (App/Peripherial): Init_pins configures them from *)
(* the table LNDC01_pins_conf, Set_ESC_LED_state drives the ESC LEDs.      *)
(* Only the outputs matter that carry an LED or that                       *)
(* Set_ESC_LED_state writes to; all of them start low.                     *)
(***************************************************************************)
EXTENDS Integers, FiniteSets

CONSTANT Nums   \* LED numbers the program passes

VARIABLES
  configured,   \* Init_pins has run
  out,          \* the pins that are driven high
  shown         \* history: the state last commanded for every LED

vars == <<configured, out, shown>>

(* LNDC01_pins_conf: the pin behind every net, all GP_OUT and initially 0 *)
Net == [LEDESC1 |-> "PTD2", LEDESC2 |-> "PTD3", LEDESC3 |-> "PTE11",
        LEDESC4 |-> "PTE13", OK1 |-> "PTE3"]

(* ESCn_LED_PORT and ESCn_LED_PIN *)
EscPin == <<"PTD2", "PTD3", "PTE11", "PTE3">>

(* Config_pin over the table *)
InitPins(o) == o \ {Net[n] : n \in DOMAIN Net}

(* A write to PSOR or PCOR changes the one pin; any other number is        *)
(* ignored.                                                                *)
SetEscLedState(o, num, state) ==
  IF num \notin DOMAIN EscPin THEN o
  ELSE IF state = 0 THEN o \ {EscPin[num]} ELSE o \cup {EscPin[num]}

Init ==
  /\ configured = FALSE
  /\ out = {}
  /\ shown = [n \in Nums |-> 0]

Configure ==
  /\ ~configured
  /\ configured' = TRUE
  /\ out' = InitPins(out)
  /\ UNCHANGED shown

SetLed(num, state) ==
  /\ configured
  /\ out' = SetEscLedState(out, num, state)
  /\ shown' = [shown EXCEPT ![num] = state]
  /\ UNCHANGED configured

Next == Configure \/ \E num \in Nums, state \in {0, 1} : SetLed(num, state)

Spec == Init /\ [][Next]_vars

(* The pin table says which pin the LED of each ESC is on:                 *)
(* Set_ESC_LED_state drives that one, and no other LED.                    *)
LedNet(num) == <<"LEDESC1", "LEDESC2", "LEDESC3", "LEDESC4">>[num]
LedsShowCommands ==
  \A n \in Nums : Net[LedNet(n)] \in out <=> shown[n] # 0
=============================================================================
