SPECIFICATION Spec
CONSTANTS
  Goroutines = {g, h}
  Values = {x, y}
  None = None
  MaxLen = 2
  MaxItems = 3
  MaxCalls = 3
CHECK_DEADLOCK FALSE
INVARIANTS
  NeverJams
