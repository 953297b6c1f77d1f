SPECIFICATION FairSpec
CONSTANTS
  Threads = {t1, t2}
  NoThread = NoThread
  Paths <- CONST_DirPaths
  InitialTree <- CONST_DirTree
  InitialChanges = 4
  Denied <- CONST_Denied
  DesktopInis = {"desktop.ini"}
  MaxAppChanges = 0
  MaxFds = 1
  MaxExpiries = 0
  Objects = {o1}
  Creates <- CONST_DirCreates
  Uses <- AllUses
  Targets <- CONST_DirTargets
  MaxCallbacks = 3
INVARIANT TypeOK
PROPERTY CallbacksReturn
CHECK_DEADLOCK FALSE
