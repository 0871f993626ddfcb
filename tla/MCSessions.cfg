SPECIFICATION Spec
CONSTANTS
  MaxCalls = 2
  Limits <- MCLimits
  MaxRunners = 2
  MaxStates = 3
  Bounds <- MCBounds
  sFirst = sFirst
  tSwitch = tSwitch
  tNew = tNew
  tFork = tFork
  tDispose = tDispose
  Tasks = { tSwitch, tNew, tFork, tDispose }
  TaskKind <- MCTaskKind
  Target <- MCTarget
  First = sFirst
  Nobody = Nobody
  MaxRequests = 2
  rWrite = rWrite
  rDelete = rDelete
  rGet = rGet
  rCreate = rCreate
  idOld = idOld
  idNew = idNew
  Requests = { rWrite, rDelete, rGet, rCreate }
  RequestKind <- MCRequestKind
  IdOf <- MCIdOf
  RequestSets <- MCRequestSets
  Saved = { idOld }
  Shared = { idOld }
  Other = Other
CHECK_DEADLOCK FALSE
INVARIANT HistoryIsKept
INVARIANT ContextCanBeAnswered
INVARIANT ToolsFollowServer
INVARIANT RuntimeServesOne
INVARIANT RunIsNewestAndDriven
INVARIANT WebSessionsKept
