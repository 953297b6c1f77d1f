SPECIFICATION FairSpec
CONSTANTS
  Threads = {t1, t2}
  NoThread = NoThread
  Requests <- CONST_Requests
  MaxCalls = 2
  MaxEntries = 1
INVARIANTS TypeOK MutexHeld Aligned ResponsesMatch
PROPERTIES CallsEnd ImplementsAtomicRequests
CHECK_DEADLOCK FALSE
