SPECIFICATION FairSpec
CONSTANTS
  Id = {a, b}
  Horizon = 3
  MaxFailures = 2
  MaxStarts = 3
CHECK_DEADLOCK FALSE
INVARIANTS
  FileIsCurrent
  DeliveredRight
PROPERTIES
  IsDelivered
