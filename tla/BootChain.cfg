\* One-sector bootloader, scratch area of two, application region of three.
SPECIFICATION FairSpec
CONSTANTS
  BlSectors = 1
  ScratchSectors = 2
  AppSectors = 3
  QspiSectors = 0
  QspiBlock = 2
  BlImages = {"old", "new"}
  AppImages = {"app"}
  AppLen = 1
  BlkMod = 2
  U16 = 16
  P2Max = 0
  NvmFaults = FALSE
  Addresses = {1, 2}
  Counts = {1}
  Years = {26}
  Payloads <- NewOnly
  MaxResets = 2
  Garbage <- OnesAndZeros
  CopyFaults = TRUE
  MaxCuts = 2
INVARIANTS
  TypeOK
  BootloaderIntact
  FaultsAcknowledged
  CrashLoopBounded
PROPERTIES
  BootSettles
  UpdateInstalled
CHECK_DEADLOCK FALSE
