CONSTANTS
  Run = run
  Nobody = nobody
  Stops = {s1, s2}
  Cleans = {}
  Reconciles = {}
  Unprivileged = {}
  Ports = {p1}
  RestartAlways = TRUE
  Faults = {}
  Interrupts = FALSE
  Crashes = FALSE
  MaxExits = 1
SPECIFICATION FairSpec
CHECK_DEADLOCK FALSE
INVARIANTS TypeOK QuiescentTerminal
PROPERTIES ImplementsSupervisor RestartsUnlessStopped NoRelaunchWhileStopping StopTakesEffect CommandsReturn
