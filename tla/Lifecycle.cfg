SPECIFICATION Spec
CONSTANTS
  Devices = {d1, d2}
  Ids = {1, 2}
  Callbacks = {k1, k2}
  Stale = {d2}
  Letters = 2
  Main = Main
  None = None
INVARIANTS TypeOK NoUseAfterFree OneDrivePerDevice PipesPrivate
PROPERTIES  DrivesFollowDevices
