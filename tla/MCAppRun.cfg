SPECIFICATION AppFairSpec
CONSTANTS
  stopped = stopped
  waiter = waiter
  w1 = w1
  m1 = m1
  Stopped = stopped
  Waiter = waiter
  Elem = {stopped, waiter, w1, m1}
  Calls = {stopped, waiter, w1, m1}
  WaitCalls = {stopped, waiter, w1}
  MainCalls = {m1}
  InCap = 1
  OutCap = 1
CHECK_DEADLOCK FALSE
INVARIANTS
  StoppedBeforeExit
  CountIsExact
  NoLostWake
  WaitedIsRun
PROPERTIES
  EveryFuncRuns
  PendingFrameIsDrawn
  RunReturns
  IsFifo
  ForwarderEnds
