SPECIFICATION DiagSpec
CONSTANTS
  BlockSizes = {0, 2}
  U8 = 4
  SnMod = 4
  QueueSlots = 2
  IsrPreempts = TRUE
  UsbSizes = {2}
  Sizes = {1, 4}
  ReplySizes = {1, 4}
  TesterBs = {0, 2}
  Settings <- AskedEarly
  MaxLost = 1
INVARIANT
  AnswersWhole
CHECK_DEADLOCK FALSE
