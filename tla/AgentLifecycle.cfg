SPECIFICATION Spec
CONSTANTS
  Callers = { c1, c2 }
  IdleWaiters = { w1 }
  MaxRuns = 2
  MaxWrites = 1
INVARIANTS
  LiveRunOwnsTail
PROPERTIES
  ImplementsSerialRuns
  WaitersWake
CHECK_DEADLOCK FALSE
