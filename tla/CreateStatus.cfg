SPECIFICATION Spec
CONSTANTS
  Threads = {t1, t2}
  NoThread = NoThread
  Paths <- CONST_Paths
  InitialTree <- CONST_Tree
  InitialChanges = 2
  Denied = {}
  DesktopInis = {"desktop.ini"}
  MaxAppChanges = 0
  MaxFds = 2
  MaxExpiries = 0
  Objects = {o1, o2}
  Creates <- CONST_StatusCreates
  Uses = {}
  Targets <- CONST_Targets
  MaxCallbacks = 2
INVARIANT CreateStatusCorrect
CHECK_DEADLOCK FALSE
