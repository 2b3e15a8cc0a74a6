CONSTANTS
  Codes = {0, 3, 143}
  Orphans = {o1, o2}
  MaxSignals = 2
  CgroupFails = TRUE
  Kills = TRUE
  MaxLaunches = 2
SPECIFICATION LaunchesSpec
CHECK_DEADLOCK FALSE
INVARIANTS TypeOK AppWaitsForCgroup ExitCodeIsApp SignalRecorded CompletedIsSuccess
PROPERTIES RuntimeEnds
