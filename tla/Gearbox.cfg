SPECIFICATION FairSpec
CONSTANTS
  Slots = 2
  MaxAge = 1
  MaxSince = 1
  MaxFaults = 1
  Hydr <- MCHydr
  Databases <- MCDatabases
  Adcs <- MCAdcs
INVARIANTS
  GearboxTypeOK
  PowerOffInError
  OnlyCalibrated
  QueuesDrained
  ChipFollows
  PressureFloor
  CurrentsFit
PROPERTIES
  InitEnds
  CycleRepeats
  PressureSettles
