SPECIFICATION Spec
CONSTANTS
  Threads = {t1, t2}
  NoThread = NoThread
  Paths <- CONST_Paths
  InitialTree <- CONST_Tree
  InitialChanges = 2
  Denied = {}
  DesktopInis = {"desktop.ini"}
  MaxAppChanges = 1
  MaxFds = 2
  MaxExpiries = 1
  Objects = {o1, o2}
  Creates <- CONST_Creates
  Uses <- CONST_Uses
  Targets <- CONST_Targets
  MaxCallbacks = 3
SYMMETRY Symmetry
INVARIANTS HandleIntegrity NoHandleLeak CreateNewExclusive
CHECK_DEADLOCK FALSE
