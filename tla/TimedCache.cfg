SPECIFICATION Spec
CONSTANTS
  Keys = {k1, k2}
  Threads = {t1, t2}
  ValidFor = 1
  ScanInterval = 2
  MaxTime = 4
  MaxPuts = 2
  MaxFetches = 2
INVARIANTS TypeOK SweptAtScan InvalidateEffective HitsAtMostRequests
PROPERTIES NoOldEntries ImplementsExpiringMap
SYMMETRY Symmetry
CHECK_DEADLOCK FALSE
