SPECIFICATION Spec
CONSTANTS
  Keys = {k1}
  Threads = {t1}
  ValidFor = 1
  ScanInterval = 2
  MaxTime = 3
  MaxPuts = 1
  MaxFetches = 1
PROPERTY FetchRemovesOutdated
CHECK_DEADLOCK FALSE
