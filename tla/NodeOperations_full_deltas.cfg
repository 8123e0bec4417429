SPECIFICATION Spec
CONSTANTS
  Users = {u1, u2}
  NoUser = NoUser
  MaxRows = 4
  MaxVersion = 3
  MaxConfig = 1
  MaxFaults = 0
  BulkThreshold = 1
  Changes = {"create", "update", "bulkActivate", "bulkDisable", "bulkCleanup"}
  Handlers = {}
  Delta = {"full"}
  FaultKinds = {}
  StaleCache = FALSE
INVARIANTS
  NoStaleAccess
  NoLostAccess
SYMMETRY UserSymmetry
CHECK_DEADLOCK FALSE
