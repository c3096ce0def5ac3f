SPECIFICATION Spec
CONSTANTS
  Slots = 2
  MaxAge = 1
  MaxSince = 1
  MaxFaults = 1
  Hydr <- MCHydr
  Databases <- MCDatabases
  Adcs <- MCAdcs
INVARIANT
  FreshFrameFound
