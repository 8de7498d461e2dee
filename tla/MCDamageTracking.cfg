SPECIFICATION Spec
CONSTANTS
  Last = 3
  OffLast = 2
  Sizes = {5, 6}
  Areas = {{}, {1, 2}, {0, 1}}
CHECK_DEADLOCK FALSE
INVARIANTS
  NothingStale
  SnapshotIsShown
  RefreshAnnounced
