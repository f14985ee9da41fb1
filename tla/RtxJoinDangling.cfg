CONSTANTS
  a = a
  b = b
  c = c
  Idle = Idle
  NoThread = NoThread
  Threads <- MCThreads
  Objects = {}
  Calls <- AllCalls
  Attrs <- AllAttrs
  Prios <- MCPrios
  IdlePrio = 1
  MaxDelay = 1
  RobinTimeout = 0
  JoinDiscipline = FALSE
SPECIFICATION Spec
INVARIANTS
  JoinPointsToWaiter
CHECK_DEADLOCK TRUE
