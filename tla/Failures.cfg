CONSTANTS
  Run = run
  Nobody = nobody
  Stops = {}
  Cleans = {c1}
  Reconciles = {r1, r2}
  Unprivileged = {r2}
  Ports = {p1, p2}
  RestartAlways = TRUE
  Faults = {"prepare", "launch", "report", "allocIp", "netConfig", "proxy", "publish", "stream"}
  Interrupts = TRUE
  Crashes = TRUE
  MaxExits = 1
SPECIFICATION FairDetachedSpec
CHECK_DEADLOCK FALSE
INVARIANTS FailureRecorded NetworkReleased ProxiesListed InterruptCleans CleanRecovers
PROPERTIES ReconcileRepairs
