SPECIFICATION LifecycleSpec
CONSTANTS
  UserIds = {1, 2}
  InitialRows <- InitialRowsValue
  Periodic = {2}
  DeleteAfter <- DeleteAfterValue
  IncludeLimited = FALSE
  Edits <- EditsValue
  BatchSize = 1
  MaxClock = 4
  MaxTraffic = 2
  MaxEdits = 1
PROPERTIES
  CarriesAsAsked
CHECK_DEADLOCK FALSE
