SPECIFICATION Spec
CONSTANTS
  Window = 20
  Requests = {0, 12000, 30000, 65535}
INVARIANTS
  DocumentedPhases
