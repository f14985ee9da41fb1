-------------------------------- MODULE Blink --------------------------------
(***************************************************************************)
(* What the program is for: from its start on the LED is on and off in     *)
(* turn, each time for at least Lo and at most Hi microseconds.            *)
(***************************************************************************)
EXTENDS Integers

CONSTANTS Lo, Hi

VARIABLES
  led,    \* "boot" until the LED is first switched, then "on" or "off"
  held    \* for how long

vars == <<led, held>>

Init == led = "boot" /\ held = 0

SwitchOn ==
  /\ led = "boot" \/ (led = "off" /\ held >= Lo)
  /\ led' = "on" /\ held' = 0

SwitchOff ==
  /\ led = "on" /\ held >= Lo
  /\ led' = "off" /\ held' = 0

Hold ==
  /\ led # "boot" /\ held < Hi
  /\ held' = held + 1
  /\ UNCHANGED led

Next == SwitchOn \/ SwitchOff \/ Hold

Spec == Init /\ [][Next]_vars
=============================================================================
