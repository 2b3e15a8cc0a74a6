CONSTANTS
  Codes = {0, 3}
  Orphans = {}
  MaxSignals = 1
  CgroupFails = FALSE
  Kills = FALSE
SPECIFICATION FairSpec
CHECK_DEADLOCK FALSE
PROPERTIES SignalForwarded
