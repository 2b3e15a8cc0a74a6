CONSTANTS
  Conns = {k1, k2}
  MaxSent <- MCMaxSent
  Leavers <- MCLeavers
  BufferSize = 2
  Capacity = 1
SPECIFICATION FairSpec
CHECK_DEADLOCK FALSE
INVARIANTS TypeOK ReadsPrefix NothingLost
PROPERTIES EndDelivers ClientsServed ThreadsEnd
