SPECIFICATION AnimSpec
CONSTANTS
  Animations = {a, b}
  MaxStarts = 3
CHECK_DEADLOCK FALSE
INVARIANTS
  HeldOnce
PROPERTIES
  StopStops
  StartedIsTicked
