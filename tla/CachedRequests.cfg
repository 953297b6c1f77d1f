SPECIFICATION Spec
CONSTANTS
  Threads = {t1, t2}
  NoThread = NoThread
  Paths <- CONST_Paths
  InitialTree <- CONST_Tree
  InitialChanges = 3
  Denied = {}
  DesktopInis = {"desktop.ini"}
  Requests <- CONST_Requests
  MaxCalls = 2
  MaxAppChanges = 1
  MaxFds = 1
  MaxExpiries = 1
SYMMETRY Symmetry
INVARIANTS TypeOK  ListCacheCoherent StatsMonotone
CHECK_DEADLOCK FALSE
