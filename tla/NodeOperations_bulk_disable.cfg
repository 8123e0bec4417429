SPECIFICATION Spec
CONSTANTS
  Users = {u1}
  NoUser = NoUser
  MaxRows = 3
  MaxVersion = 2
  MaxConfig = 1
  MaxFaults = 0
  BulkThreshold = 9
  Changes = {"create", "bulkDisable"}
  Handlers = {}
  Delta = {"targeted"}
  FaultKinds = {}
  StaleCache = FALSE
INVARIANTS
  NoStaleAccess
CHECK_DEADLOCK FALSE
