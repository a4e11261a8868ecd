CONSTANTS
  RcvLen = 2
  SrLen = 1
  ToLen = 1
  MaxTimers = 2
SPECIFICATION Spec
INVARIANTS TypeOK ExitMeansStopped ClosedWhenLeft
PROPERTIES StopEnds
CHECK_DEADLOCK FALSE
