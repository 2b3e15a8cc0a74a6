CONSTANTS
  Codes = {0, 3}
  Orphans = {}
  MaxSignals = 0
  CgroupFails = TRUE
  Kills = FALSE
SPECIFICATION FairSpec
CHECK_DEADLOCK FALSE
PROPERTIES SetupFailureExits
