\* One bootloader sector (1), two application sectors (2, 3), the gap (4) and
\* four QSPI sectors (5 to 8) erased in blocks of two.
SPECIFICATION FairSpec
CONSTANTS
  BlSectors = 1
  ScratchSectors = 1
  AppSectors = 2
  QspiSectors = 4
  QspiBlock = 2
  BlImages = {"boot"}
  AppImages = {"app"}
  AppLen = 1
  BlkMod = 2
  U16 = 16
  P2Max = 0
  NvmFaults = TRUE
  Addresses = {1, 2, 6}
  Counts = {0, 1, 2}
  Years = {23, 25, 26}
  Payloads <- AppBlocks
PROPERTIES
  EraseExact
  DateBurnedOnce
  EraseEnds
  SilenceEndsSession
CHECK_DEADLOCK FALSE
