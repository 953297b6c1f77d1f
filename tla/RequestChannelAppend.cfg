SPECIFICATION Spec
CONSTANTS
  Threads = {t1, t2}
  NoThread = NoThread
  Requests <- CONST_AppendRequests
  MaxCalls = 1
  MaxEntries = 1
INVARIANT RequestsStartWithType
CHECK_DEADLOCK FALSE
