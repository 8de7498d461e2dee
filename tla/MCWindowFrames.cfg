SPECIFICATION FairSpec
CONSTANTS
  Gates = {"none", "vblank", "wayland"}
  GateTimeout = 2
INVARIANTS
  KickMeansWaiting
PROPERTIES
  Paced
  OwedIsDrawn
  WaiterEnds
