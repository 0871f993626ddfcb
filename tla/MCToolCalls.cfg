SPECIFICATION CallsSpec
CONSTANTS
  Threads = { t1, t2 }
  MaxUpdates = 3
  NCalls = 3
INVARIANT StartedCallsEnd
INVARIANT ResultsMatchCalls
PROPERTY NoWakeUpLost
PROPERTY ImplementsChannel
PROPERTY BatchEnds
CHECK_DEADLOCK FALSE
