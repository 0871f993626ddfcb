SPECIFICATION FairSpec
CONSTANTS
  o1 = o1
  o2 = o2
  o3 = o3
  Closer = Closer
  None = None
  Ops = { o1, o2, o3 }
  Mixes <- MCMixes
  MaxLaps = 2
INVARIANT ClosedAfterWork
INVARIANT AbortReachesRun
PROPERTY BashKeepsPairs
PROPERTY ShutdownEnds
CHECK_DEADLOCK FALSE
