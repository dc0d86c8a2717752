SPECIFICATION Spec
CONSTANTS
  Manager = Manager
  Nobody = Nobody
  Restart = TRUE
  Fragile = FALSE
  InUse = FALSE
  MaxBlocks = 2
  MaxCalls = 2
INVARIANTS NoOrphans
CHECK_DEADLOCK FALSE
