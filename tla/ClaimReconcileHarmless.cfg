CONSTANTS
  Run = run
  Nobody = nobody
  Stops = {}
  Cleans = {}
  Reconciles = {r1}
  Unprivileged = {}
  Ports = {}
  RestartAlways = FALSE
  Faults = {}
  Interrupts = FALSE
  Crashes = FALSE
  MaxExits = 0
SPECIFICATION Spec
CHECK_DEADLOCK FALSE
INVARIANTS ReconcileHarmless
