SPECIFICATION Spec
CONSTANTS
  Channels = {"requests", "responses"}
  Byte = {0, 1, 2, 3, 4, 5, 6, 7, 8, 9, 10, 11, 12, 13, 14, 15}
  BufferSize = 3
  Base = 16
  U16 = 1
  U32 = 1
  Half = 16
  Resolution = 2
  EPOCH_DIFFERENCE = 20
  NoTime = NoTime
  Requests <- CONST_Requests
  Handle = 7
  InitialFile <- CONST_File
  InitialTimes <- CONST_Times
  Disk <- CONST_Disk
INVARIANTS TypeOK NothingLost WithinBuffers  TimesRoundTrip
PROPERTIES  ImplementsByteQueue
CHECK_DEADLOCK FALSE
