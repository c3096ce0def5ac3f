SPECIFICATION Spec
CONSTANTS
  BufLen = 7
  PktMax = 3
  PciLimit = 3
  Chunks = {0, 1, 4, 5}
  MaxMsg = 10
  MaxEmpty = 1
  MaxMsgs = 2
INVARIANTS
  LongLogsWhole
  RoomForChunks
