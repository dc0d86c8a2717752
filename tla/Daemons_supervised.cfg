SPECIFICATION FairSpec
CONSTANTS
  Manager = Manager
  Nobody = Nobody
  Restart = TRUE
  Fragile = TRUE
  InUse = TRUE
  MaxBlocks = 2
  MaxCalls = 2
INVARIANTS TypeOK DeathPending FoundOnList
PROPERTIES StopReturns StatusFollowsDaemon DeathsReported
CHECK_DEADLOCK FALSE
