SPECIFICATION Spec
CONSTANTS
  Users = {u1}
  NoUser = NoUser
  MaxRows = 3
  MaxVersion = 0
  MaxConfig = 3
  MaxFaults = 0
  BulkThreshold = 9
  Changes = {}
  Handlers = {"sync"}
  Delta = {"targeted"}
  FaultKinds = {}
  StaleCache = FALSE
INVARIANTS
  ConfigOwed
CHECK_DEADLOCK FALSE
