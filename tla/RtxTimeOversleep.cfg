SPECIFICATION Spec
CONSTANTS
  once = once
  every = every
  a = a
  b = b
  Timers = {once, every}
  Periodic = {every}
  Threads = {a, b}
  Ticks = {1, 2}
  Ahead = {14}
  QueueSize = 2
  TickWrap = 16
  Start = 14
  MaxTime = 18
  Oversleep = 2
  SameTicks = TRUE
CHECK_DEADLOCK FALSE
SYMMETRY MCSymmetry
INVARIANT TickCountKept
