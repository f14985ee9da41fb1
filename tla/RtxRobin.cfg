CONSTANTS
  a = a
  b = b
  c = c
  Idle = Idle
  NoThread = NoThread
  Threads <- MCThreads3
  Objects = {}
  Calls <- SliceCalls
  Attrs <- Detached
  Prios <- MCPrios
  IdlePrio = 1
  MaxDelay = 2
  RobinTimeout = 3
  JoinDiscipline = TRUE
SPECIFICATION FairSpec
INVARIANTS
  DelaysExact
  SliceBounded
PROPERTIES
  WakesOnTime
  EqualsTakeTurns
CHECK_DEADLOCK TRUE
