SPECIFICATION FairSpec
CONSTANTS
  Users = {u1, u2}
  Planned = {u1}
  MaxBatch = 2
  MaxSample = 1
  MaxFaults = 1
  FlushLimit = 1
  Limit = 2
  Outage = FALSE
INVARIANTS
  TypeOK
  NeverTwice
  HistoryOnce
  TrafficAccounted
  AdminsAgree
  LimitKept
PROPERTIES
  LedgerKept
  EverySampleTaken
