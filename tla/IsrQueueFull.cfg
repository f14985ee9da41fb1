SPECIFICATION Spec
CONSTANTS
  Objects = {sem, flags}
  Isrs = {1, 2}
  Max = 3
  None = None
  OneSpare = FALSE
INVARIANTS ProcessedOnce
