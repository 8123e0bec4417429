SPECIFICATION FairSpec
CONSTANTS
  Users = {u1}
  NoUser = NoUser
  MaxRows = 5
  MaxVersion = 2
  MaxConfig = 1
  MaxFaults = 1
  BulkThreshold = 9
  Changes = {"create", "update", "delete"}
  Handlers = {}
  Delta = {"targeted", "full"}
  FaultKinds = {"refused", "lost", "unmarked", "permanent", "crash"}
  StaleCache = FALSE
PROPERTIES
  AccessEnds
  LagEnds
