CONSTANTS
  Run = run
  Nobody = nobody
  Stops = {}
  Cleans = {c1}
  Reconciles = {}
  Unprivileged = {}
  Ports = {p1}
  RestartAlways = TRUE
  Faults = {}
  Interrupts = FALSE
  Crashes = FALSE
  MaxExits = 1
SPECIFICATION Spec
CHECK_DEADLOCK FALSE
INVARIANTS OneContainerProcess RunLeavesNoOrphan
