\* Two runs of the flasher whose QSPI segments take three erase steps.
SPECIFICATION FlashSpec
CONSTANTS
  BlSectors = 1
  ScratchSectors = 1
  AppSectors = 3
  QspiSectors = 6
  QspiBlock = 2
  BlImages = {"old"}
  AppImages = {"v1", "v2"}
  AppLen = 2
  BlkMod = 2
  U16 = 16
  P2Max = 0
  NvmFaults = FALSE
  Addresses = {2}
  Counts = {}
  Years = {26}
  Payloads <- NoBlocks
  MaxResets = 1
  Garbage <- OnlyOnes
  CopyFaults = FALSE
  MaxCuts = 0
  FlashImages = {"v1", "v2"}
  SegmentLen = 5
  Retries = 1
  MaxRuns = 2
INVARIANTS
  SegmentIsWhole
CHECK_DEADLOCK FALSE
