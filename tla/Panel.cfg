CONSTANTS
  UserIds = {1, 2}
  InitialRows <- InitialRowsValue
  Periodic = {2}
  DeleteAfter <- DeleteAfterValue
  IncludeLimited = TRUE
  Edits <- EditsValue
  BatchSize = 1
  MaxClock = 4
  MaxTraffic = 1
  MaxEdits = 1

  AdminIds = {1, 2}
  Owned <- OwnedValue
  Services = {1}
  InService <- InServiceValue
  InitialAdmin <- InitialAdminValue
  InitialUser <- InitialUserValue
  AdminEdits <- AdminEditsValue
  MaxUsage = 1
  MaxRequests = 2

  Domains = {d1}
  Legacy = {d1}
  MaxPairs = 2

  AppIds = {1, 2}
  Template <- TemplateValue
  OwnDatabase = {}
  MaxVersion = 2
  MaxOperations = 3

  Imports = {3, 4}
  Holds <- HoldsValue
  Full = {3}
  Tables = {"a", "b"}
  Roots = {"data", "env"}
  RootOrder <- RootOrderValue

  Events = {1, 2, 3}
  Addresses = 2
  DispatchSize = 2
  MaxRetries = 2
  MaxOutboxFaults = 1

  Commands = {1}
  MaxHostFaults = 3

  Upkeep = {1, 2, 3}
  Followed = {1, 2}
  Watchers = {w1}
  MaxOutput = 1

  Sessions = {"s1", "s2", "s3"}
  WireGuard = {"s3"}
  OpenVPN = {"s1", "s2"}
  Assigned <- AssignedValue
  Clients = {"a", "b"}
  Limit = 1
  MaxReports = 2
  Window = 1
  SilentAfter = 0

SPECIFICATION PanelSpec
CONSTRAINT Spoken
INVARIANTS
  TrafficConserved GraceKept HandStays FilesRecorded
  NothingLeft BotsReadable EnabledWhole RepeatedForCause
  NewestKept OwnStory DevicesWithinLimit
PROPERTIES
  DeletedStays AccessQueued UsersReviewed UsersOffHold
  LimitsTold RestoreFits AdminsStopped
  ScanHonoursRevocation RestoreWhole EventsDelivered EventsClose CommandsClose AllowanceKept
CHECK_DEADLOCK FALSE
