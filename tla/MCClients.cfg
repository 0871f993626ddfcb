SPECIFICATION Spec
CONSTANTS
  Apis <- MCApis
  MaxBlocks = 3
  MaxPieces = 1
  MaxRetries = 1
  Bytes <- MCBytes
  MaxBytes = 5
  MaxChunk = 2
  MaxEvents = 3
  Waiters = { 1, 2 }
  jFirst = jFirst
  jSecond = jSecond
  jLogin = jLogin
  jRegister = jRegister
  jRotate = jRotate
  jRead = jRead
  Jobs = { jFirst, jSecond, jLogin, jRegister, jRotate, jRead }
  JobKind <- MCJobKind
  JobSets <- MCJobSets
  NoJob = NoJob
  MaxLists = 2
  MaxFailures = 1
  Calls = { c1, c2 }
  MaxProgress = 1
  Messages = { m1, m2 }
  NoMessage = NoMessage
  MaxTries = 1
  MaxForgets = 2
  MaxBreaks = 1
  Uses = { "shell", "config", "search" }
  MaxWrites = 2
CHECK_DEADLOCK FALSE
INVARIANT AnswersArrive
PROPERTY CatalogIsCurrent
PROPERTY McpServesCalls
PROPERTY CommandsEndCleanly
