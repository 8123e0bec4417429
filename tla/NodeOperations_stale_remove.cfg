SPECIFICATION Spec
CONSTANTS
  Users = {u1}
  NoUser = NoUser
  MaxRows = 3
  MaxVersion = 3
  MaxConfig = 1
  MaxFaults = 0
  BulkThreshold = 9
  Changes = {"create", "update"}
  Handlers = {}
  Delta = {"targeted"}
  FaultKinds = {}
  StaleCache = FALSE
INVARIANTS
  NoLostAccess
CHECK_DEADLOCK FALSE
