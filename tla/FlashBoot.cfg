\* The flasher updates the bootloader of a board whose application is in service.
SPECIFICATION FlashSpec
CONSTANTS
  BlSectors = 1
  ScratchSectors = 1
  AppSectors = 2
  QspiSectors = 2
  QspiBlock = 2
  BlImages = {"old", "new"}
  AppImages = {"v1"}
  AppLen = 1
  BlkMod = 2
  U16 = 16
  P2Max = 0
  NvmFaults = FALSE
  Addresses = {2}
  Counts = {}
  Years = {26}
  Payloads <- NoBlocks
  MaxResets = 1
  Garbage <- OnlyOnes
  CopyFaults = FALSE
  MaxCuts = 0
  FlashImages = {"new"}
  SegmentLen = 1
  Retries = 1
  MaxRuns = 1
INVARIANTS
  LaunchedAppIsWhole
CHECK_DEADLOCK FALSE
