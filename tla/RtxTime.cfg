SPECIFICATION Spec
CONSTANTS
  once = once
  every = every
  a = a
  b = b
  Timers = {once, every}
  Periodic = {every}
  Threads = {a, b}
  Ticks = {1, 2}
  Ahead = {3, 14}
  QueueSize = 2
  TickWrap = 16
  Start = 14
  MaxTime = 18
  Oversleep = 1
  SameTicks = TRUE
CHECK_DEADLOCK FALSE
SYMMETRY MCSymmetry
INVARIANTS OnTime TickCountKept
