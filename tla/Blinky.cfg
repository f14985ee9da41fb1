SPECIFICATION Spec
CONSTANTS
  Bits = 6
  MaxMasked = 1
  TickUs = 4
  WaitUs = 9
  MaxStep = 1
  Late = 7
INVARIANTS SleepLocksBalanced
PROPERTIES ImplementsBlink BlinksForEver
