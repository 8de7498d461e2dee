SPECIFICATION FairSpec
CONSTANTS
  Writers = {g}
  Late = {l}
  MaxSets = 3
  MaxExternal = 2
  MaxFailures = 1
  MaxEvents = 2
  Empty = Empty
  MaxQueue = 4
CHECK_DEADLOCK FALSE
INVARIANTS
  NoChangeStranded
  Saved
PROPERTIES
  NotUndoneOnMain
  ComesToRest
