SPECIFICATION Spec
CONSTANTS
  r1 = r1
  r2 = r2
  a = a
  b = b
  c = c
  Roots = { r1, r2 }
  Calls = { a, b, c }
  Caller <- MCCaller
  Sequential = { a, b, c }
  MaxRecorded = 1
  None = None
  o = o
  p = p
  q = q
  Owner = o
  Others = { p, q }
  Senders = { o, p }
  MaxUse = 1
  MaxRevision = 2
  MaxFaults = 1
  dlg = dlg
  Commands = { o, p, q }
  KindOf <- MCKindOf
  Dialogs = { dlg }
  MaxQueue = 1
  MaxTasks = 1
  MaxOut = 1
  MaxEvents = 1
CHECK_DEADLOCK FALSE
PROPERTY NestedCallsKept
PROPERTY ReportsArrive
PROPERTY RpcServes
