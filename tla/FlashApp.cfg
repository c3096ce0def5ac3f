\* A board whose application of three sectors is updated over a lossy link;
\* block ids wrap after two.
SPECIFICATION FairFlashSpec
CONSTANTS
  BlSectors = 1
  ScratchSectors = 1
  AppSectors = 4
  QspiSectors = 2
  QspiBlock = 2
  BlImages = {"old"}
  AppImages = {"v1", "v2"}
  AppLen = 3
  BlkMod = 2
  U16 = 16
  P2Max = 0
  NvmFaults = TRUE
  Addresses = {2}
  Counts = {}
  Years = {26}
  Payloads <- NoBlocks
  MaxResets = 1
  Garbage <- OnlyOnes
  CopyFaults = FALSE
  MaxCuts = 1
  FlashImages = {"v2"}
  SegmentLen = 1
  Retries = 1
  MaxRuns = 2
INVARIANTS
  FlashTypeOK
  SuccessIsWhole
  BlocksInOrder
PROPERTIES
  UpdatesApp
  RunEnds
CHECK_DEADLOCK FALSE
