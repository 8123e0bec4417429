SPECIFICATION Spec
CONSTANTS
  Users = {u1}
  NoUser = NoUser
  MaxRows = 3
  MaxVersion = 2
  MaxConfig = 2
  MaxFaults = 0
  BulkThreshold = 9
  Changes = {"create", "update"}
  Handlers = {"connect", "sync"}
  Delta = {"targeted"}
  FaultKinds = {}
  StaleCache = TRUE
INVARIANTS
  NoStaleAccess
PROPERTIES
  ConfigMonotone
