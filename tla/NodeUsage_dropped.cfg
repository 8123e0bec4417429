SPECIFICATION Spec
CONSTANTS
  Users = {u1}
  Planned = {u1}
  MaxBatch = 2
  MaxSample = 1
  MaxFaults = 0
  FlushLimit = 1
  Limit = 2
  Outage = FALSE
INVARIANTS
  AckSafe
CHECK_DEADLOCK FALSE
