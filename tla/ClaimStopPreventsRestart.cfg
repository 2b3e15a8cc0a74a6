CONSTANTS
  Run = run
  Nobody = nobody
  Stops = {s1}
  Cleans = {}
  Reconciles = {}
  Unprivileged = {}
  Ports = {}
  RestartAlways = TRUE
  Faults = {}
  Interrupts = FALSE
  Crashes = FALSE
  MaxExits = 1
SPECIFICATION FairSpec
CHECK_DEADLOCK FALSE
PROPERTIES StopPreventsRestart
