CONSTANTS
  Containers = {c1, c2, c3}
  Cleaned = {c1}
  Hosts = {1, 2, 3}
  Gateway = 1
  Nobody = nobody
  Faults = TRUE
  Crashes = TRUE
SPECIFICATION Spec
CHECK_DEADLOCK FALSE
INVARIANTS TypeOK UniqueAddresses UniqueInterfaces
PROPERTIES NoFalseExhaustion ImplementsPool
