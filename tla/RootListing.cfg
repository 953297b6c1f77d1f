SPECIFICATION Spec
CONSTANTS
  Threads = {t1, t2}
  NoThread = NoThread
  Paths <- CONST_RootPaths
  InitialTree <- CONST_RootTree
  InitialChanges = 2
  Denied = {}
  DesktopInis = {"desktop.ini"}
  Requests <- CONST_RootRequests
  MaxCalls = 2
  MaxAppChanges = 0
  MaxFds = 2
  MaxExpiries = 0
INVARIANT RootListCoherent
CHECK_DEADLOCK FALSE
