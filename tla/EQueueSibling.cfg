SPECIFICATION Spec
CONSTANTS
  Slab = 3
  Posters = {irq}
  Disp = disp0
  Uses <- MCUses
  TickWrap = 16
  Start = 14
  Wrap8 = 256
  MaxTime = 16
  MaxDequeues = 2
  CancelApart = TRUE
  SiblingsApart = FALSE
CHECK_DEADLOCK FALSE
INVARIANTS OnePlace
