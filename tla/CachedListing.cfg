SPECIFICATION Spec
CONSTANTS
  Threads = {t1}
  NoThread = NoThread
  Paths <- CONST_Paths
  InitialTree <- CONST_Tree
  InitialChanges = 3
  Denied = {}
  DesktopInis = {"desktop.ini"}
  Requests <- CONST_TimeRequests
  MaxCalls = 3
  MaxAppChanges = 0
  MaxFds = 2
  MaxExpiries = 0
INVARIANT ListingComplete
CHECK_DEADLOCK FALSE
