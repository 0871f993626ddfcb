SPECIFICATION ToolsSpec
CONSTANTS
  r1 = r1
  r2 = r2
  a = a
  b = b
  e = e
  f = f
  w = w
  Roots = { r1, r2 }
  Calls = { a, b }
  RootOf <- MCRootOf
  MaxMsgs = 3
  Settings <- MCSettings
  LineLimits = { 1, 2 }
  ByteLimits = { 1 }
  MaxOutput = 7
  MaxPiece = 3
  MaxFull = 6
  Changes = { e, f, w }
  KindOf <- MCKindOf
  NameOf <- MCNameOf
  MaxFailures = 1
CHECK_DEADLOCK FALSE
INVARIANT LoopIsOrderly
INVARIANT NoEffectUnaccounted
INVARIANT NothingIsLost
PROPERTY EveryStartReports
PROPERTY TurnsEnd
