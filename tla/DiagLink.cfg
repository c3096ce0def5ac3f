SPECIFICATION FairDiagSpec
CONSTANTS
  BlockSizes = {0, 2}
  U8 = 4
  SnMod = 4
  QueueSlots = 2
  IsrPreempts = TRUE
  UsbSizes = {2}
  Sizes = {1, 4}
  ReplySizes = {1, 4}
  TesterBs = {0, 2}
  Settings <- Served
  MaxLost = 1
INVARIANTS
  DiagTypeOK
  AnswersWhole
  FlowRespected
  NothingSilent
  UsbAnswersMatch
PROPERTIES
  UsbAnswersInOrder
  CanDelivers
  TaskReturns
CHECK_DEADLOCK FALSE
