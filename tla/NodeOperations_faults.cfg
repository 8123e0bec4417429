SPECIFICATION Spec
CONSTANTS
  Users = {u1}
  NoUser = NoUser
  MaxRows = 4
  MaxVersion = 3
  MaxConfig = 1
  MaxFaults = 1
  BulkThreshold = 9
  Changes = {"create", "update", "delete"}
  Handlers = {}
  Delta = {"targeted", "full"}
  FaultKinds = {"refused", "lost", "permanent", "unmarked", "hung", "health", "crash"}
  StaleCache = FALSE
INVARIANTS
  TypeOK
PROPERTIES
  KeepsPromise
CHECK_DEADLOCK FALSE
