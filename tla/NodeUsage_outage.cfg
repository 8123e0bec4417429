SPECIFICATION Spec
CONSTANTS
  Users = {u1}
  Planned = {u1}
  MaxBatch = 2
  MaxSample = 1
  MaxFaults = 1
  FlushLimit = 1
  Limit = 2
  Outage = TRUE
INVARIANTS
  NeverTwice
CHECK_DEADLOCK FALSE
